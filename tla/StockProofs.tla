----------------------------- MODULE StockProofs -----------------------------
(***************************************************************************)
(* Proofs about the product of the back office, its rows, labels, orders and  *)
(* scanners, for any handlers, mixes of requests, orders and sizes.  First     *)
(* the labels: what becomes of rows and of the labels that stand for them      *)
(* (ScansStayResolved).  Then the units: what each operation does to the units *)
(* of rows, the orders that hold them and the sessions that count them         *)
(* (StockStaysRight).  Then the units that come back: what is refunded and      *)
(* shelved of a return (SettlementStaysInOrder), and with it all of the money   *)
(* (MoneyAlwaysAddsUp).  Last the alerts: a size that is back is told of once   *)
(* to each shopper who waits for it (ShoppersToldOnce).                         *)
(***************************************************************************)
EXTENDS BackOfficeProofs

-----------------------------------------------------------------------------
(* The catalogue: a product has its rows, each with an id of its own and a     *)
(* size of its own,                                                          *)
ProductShape(p) ==
    p = [pipeline |-> p.pipeline, stock |-> p.stock, reserved |-> p.reserved,
         version |-> p.version, active |-> p.active, variants |-> p.variants]
RowShape(r) ==
    r = [id |-> r.id, sku |-> r.sku, stock |-> r.stock, reserved |-> r.reserved,
         version |-> r.version]
RowsStand ==
    /\ ProductShape(product) /\ lastId \in Nat
    /\ product.variants \in Seq(Range(product.variants))
    /\ \A i \in Slots(product) :
          RowShape(product.variants[i]) /\ product.variants[i].id \in 1 .. lastId
    /\ \A i, j \in Slots(product) :
          /\ product.variants[i].id = product.variants[j].id => i = j
          /\ product.variants[i].sku = product.variants[j].sku => i = j

(* labels have their own ids and stand for rows of their own size, each row     *)
(* that was not dropped under its size for all time for its labels too,        *)
LabelShape(l) ==
    l = [id |-> l.id, code |-> l.code, key |-> l.key, sent |-> l.sent, sku |-> l.sku]
LabelsStand ==
    /\ codes \in Nat
    /\ \A l \in labels : LabelShape(l) /\ l.id \in 1 .. codes /\ l.key \in 0 .. lastId
    /\ \A l, m \in labels : l.id = m.id => l = m
    /\ \A l \in labels, i \in Slots(product) :
          product.variants[i].id = l.key => product.variants[i].sku = l.sku
    /\ \A l \in labels :
          /\ l.sku \in Skus(product) \cup dropped \/ (l.sku = Plain /\ ~ HasVariants(product))
          /\ l.sku \in Skus(product) \ dropped =>
                \E i \in Slots(product) : product.variants[i].id = l.key

(* requests follow their plans,                                              *)
PlainPlans ==
    {<<"rates", "credit">>, <<"credit">>, <<"release", "fail">>, <<"fail">>, <<"fulfil">>,
     <<"labels", "tell">>, <<"tell">>, <<"migrate">>, <<"upsert">>, <<"write">>, <<"check">>,
     <<"apply">>, <<"discard">>, <<"adjust">>, <<"arm">>, <<"enrol", "gather">>, <<"gather">>,
     <<"mail">>, <<"told">>}
FormPlans == {<<"read", "save", "labels", "tell">>, <<"save", "labels", "tell">>}
LabelKinds == {"mark", "regenerate"}
StockPlan(r) ==
    \/ r.kind \notin LabelKinds /\ r.todo \in PlainPlans
    \/ r.kind \notin LabelKinds /\ r.todo \in FormPlans /\ r.read.c \in Changes
    \/ r.kind \in LabelKinds /\ r.todo = <<r.kind>>
StockRead == \A h \in Handlers : Busy(h) /\ req[h].kind \in StockKinds => StockPlan(req[h])

(* and what staff have sent carries the code they sent it with, as do those that *)
(* a request is about to mark; one to be regenerated is as it was found, or      *)
(* has not been sent since.                                                  *)
Aliased(code, l) == [code |-> code, label |-> l.id] \in aliases
LabelOf(h) == req[h].read.label
ToMark(h) ==
    \E l \in labels :
        /\ l.id = LabelOf(h).id /\ l.sku = LabelOf(h).sku
        /\ \/ Aliased(req[h].read.code, l)
           \/ l.code = req[h].read.code /\ (LabelOf(h).sent => l.sent)
ToRegenerate(h) ==
    \E l \in labels :
        /\ l.id = LabelOf(h).id /\ l.sku = LabelOf(h).sku
        /\ l.sent => l.code = LabelOf(h).code /\ LabelOf(h).sent
VendorStands ==
    Apart("mark", "regenerate") =>
        /\ \A v \in vendor : \E l \in labels :
              l.sku = v.sku /\ (Aliased(v.code, l) \/ (l.code = v.code /\ l.sent))
        /\ \A h \in Doing({"mark"}) : ToMark(h)
        /\ \A h \in Doing({"regenerate"}) : ToRegenerate(h)

LabelInv == RowsStand /\ LabelsStand /\ StockRead /\ VendorStands

(* Rows that keep their ids and sizes whatever becomes of their units.       *)
StockRows(p) ==
    /\ ProductShape(p) /\ p.variants \in Seq(Range(p.variants))
    /\ \A i \in Slots(p) : RowShape(p.variants[i])
RowsMoved(p, q) ==
    /\ ProductShape(q) /\ q.variants = [i \in Slots(p) |-> q.variants[i]]
    /\ \A i \in Slots(p) :
          /\ RowShape(q.variants[i])
          /\ q.variants[i].id = p.variants[i].id /\ q.variants[i].sku = p.variants[i].sku
Known(p, id) == id = 0 \/ \E i \in Slots(p) : p.variants[i].id = id
(* A row that is there after a step was there, under its size, or is new.      *)
RowsFollow ==
    /\ lastId <= lastId'
    /\ \A i \in Slots(product') :
          \/ product'.variants[i].id > lastId
          \/ \E j \in Slots(product) : /\ product.variants[j].id = product'.variants[i].id
                                      /\ product.variants[j].sku = product'.variants[i].sku
AsMuch(old, new) == RowShape(new) /\ new.id = old.id /\ new.sku = old.sku

LEMMA SeqOfIts ==
    ASSUME NEW f, NEW n \in Nat, f = [i \in 1 .. n |-> f[i]]
    PROVE  f \in Seq(Range(f)) /\ Len(f) = n
  <1>1. DOMAIN f = 1 .. n  OBVIOUS
  <1>2. Range(f) = {f[i] : i \in 1 .. n}  BY <1>1 DEF Range
  <1>3. f \in [1 .. n -> Range(f)]  BY <1>2
  <1> QED  BY <1>3

LEMMA SameRows == ASSUME NEW p, StockRows(p) PROVE RowsMoved(p, p)
  <1>1. p.variants = [i \in 1 .. Len(p.variants) |-> p.variants[i]]  BY SequenceIs DEF StockRows
  <1>2. Slots(p) = 1 .. Len(p.variants)  BY DEF StockRows, Slots
  <1> QED  BY <1>1, <1>2 DEF StockRows, RowsMoved

LEMMA MovedOf ==
    ASSUME NEW p, NEW q, StockRows(p), RowsMoved(p, q)
    PROVE  StockRows(q) /\ Slots(q) = Slots(p)
  <1>1. Slots(p) = 1 .. Len(p.variants) /\ Len(p.variants) \in Nat  BY DEF StockRows, Slots
  <1>2. q.variants = [i \in 1 .. Len(p.variants) |-> q.variants[i]]  BY <1>1 DEF RowsMoved
  <1>3. q.variants \in Seq(Range(q.variants)) /\ Len(q.variants) = Len(p.variants)
        BY <1>1, <1>2, SeqOfIts
  <1>4. Slots(q) = Slots(p)  BY <1>1, <1>2 DEF Slots
  <1> QED  BY <1>3, <1>4 DEF StockRows, RowsMoved

LEMMA MovedTwice ==
    ASSUME NEW p, NEW q, NEW r, StockRows(p), RowsMoved(p, q), RowsMoved(q, r)
    PROVE  RowsMoved(p, r)
  <1>1. Slots(q) = Slots(p)  BY MovedOf
  <1> QED  BY <1>1 DEF RowsMoved

LEMMA LiveIsKnown == ASSUME NEW p, NEW id PROVE Known(p, Live(p, id))
  BY DEF Known, Live

LEMMA SlotIs ==
    ASSUME NEW p, NEW id, id # 0, Known(p, id)
    PROVE  Slot(p, id) \in Slots(p) /\ p.variants[Slot(p, id)].id = id
  BY DEF Known, Slot

LEMMA SyncedMoves ==
    ASSUME NEW p, StockRows(p)
    PROVE  RowsMoved(p, Synced(p)) /\ Synced(p).variants = p.variants
  <1> DEFINE n == SumOver(p, Stocked)
  <1>1. Synced(p) = [p EXCEPT !.stock = n]  BY DEF Synced
  <1> HIDE DEF n
  <1>2. Synced(p).variants = p.variants /\ ProductShape(Synced(p))
        BY <1>1 DEF StockRows, ProductShape
  <1>3. RowsMoved(p, p)  BY SameRows
  <1> QED  BY <1>2, <1>3 DEF RowsMoved

LEMMA RowAdds ==
    ASSUME NEW row, RowShape(row), NEW a, NEW b, NEW c
    PROVE  AsMuch(row, Moved(row, a, b, c)) /\ AsMuch(row, [row EXCEPT !.stock = a])
           /\ AsMuch(row, row)
  <1>1. DOMAIN row = {"id", "sku", "stock", "reserved", "version"}  BY DEF RowShape
  <1> DEFINE new == Moved(row, a, b, c)
             put == [row EXCEPT !.stock = a]
  <1>2. new = [f \in DOMAIN row |-> CASE f = "stock" -> row.stock + a
                                      [] f = "reserved" -> row.reserved + b
                                      [] f = "version" -> row.version + c
                                      [] OTHER -> row[f]]
        BY <1>1 DEF Moved
  <1>3. new = [id |-> new.id, sku |-> new.sku, stock |-> new.stock, reserved |-> new.reserved,
               version |-> new.version] /\ new.id = row.id /\ new.sku = row.sku
        BY <1>1, <1>2
  <1>4. put = [id |-> put.id, sku |-> put.sku, stock |-> put.stock, reserved |-> put.reserved,
               version |-> put.version] /\ put.id = row.id /\ put.sku = row.sku
        BY <1>1
  <1> QED  BY <1>3, <1>4 DEF RowShape, AsMuch

LEMMA ProductAdds ==
    ASSUME NEW p, ProductShape(p), NEW a, NEW b, NEW c
    PROVE  /\ ProductShape(Moved(p, a, b, c))
           /\ Moved(p, a, b, c).variants = p.variants
  <1>1. DOMAIN p = {"pipeline", "stock", "reserved", "version", "active", "variants"}
        BY DEF ProductShape
  <1> DEFINE new == Moved(p, a, b, c)
  <1>2. new = [f \in DOMAIN p |-> CASE f = "stock" -> p.stock + a
                                    [] f = "reserved" -> p.reserved + b
                                    [] f = "version" -> p.version + c
                                    [] OTHER -> p[f]]
        BY <1>1 DEF Moved
  <1>3. new.variants = p.variants  BY <1>1, <1>2
  <1>4. new = [pipeline |-> new.pipeline, stock |-> new.stock, reserved |-> new.reserved,
               version |-> new.version, active |-> new.active, variants |-> new.variants]
        BY <1>1, <1>2
  <1> QED  BY <1>3, <1>4 DEF ProductShape

LEMMA ProductPut ==
    ASSUME NEW p, ProductShape(p), NEW a
    PROVE  /\ ProductShape([p EXCEPT !.stock = a])
           /\ [p EXCEPT !.stock = a].variants = p.variants
  <1>1. DOMAIN p = {"pipeline", "stock", "reserved", "version", "active", "variants"}
        BY DEF ProductShape
  <1> DEFINE put == [p EXCEPT !.stock = a]
  <1>2. put.variants = p.variants  BY <1>1
  <1>3. put = [pipeline |-> put.pipeline, stock |-> put.stock, reserved |-> put.reserved,
               version |-> put.version, active |-> put.active, variants |-> put.variants]
        BY <1>1
  <1> QED  BY <1>2, <1>3 DEF ProductShape

LEMMA StockMoves ==
    ASSUME NEW p, NEW q, StockRows(p), ProductShape(q), q.variants = p.variants
    PROVE  RowsMoved(p, q)
  <1>1. RowsMoved(p, p)  BY SameRows
  <1> QED  BY <1>1 DEF RowsMoved

LEMMA RowIs ==
    ASSUME NEW p, StockRows(p), NEW id, Known(p, id)
    PROVE  /\ id = 0 => RowOf(p, id) = p
           /\ id # 0 => /\ RowOf(p, id) = p.variants[Slot(p, id)] /\ Slot(p, id) \in Slots(p)
                        /\ RowShape(RowOf(p, id))
  BY SlotIs DEF RowOf, StockRows

(* One row changes in its units.                                            *)
LEMMA WithRowMoves ==
    ASSUME NEW p, StockRows(p), NEW id, Known(p, id), NEW row,
           id = 0 => ProductShape(row) /\ row.variants = p.variants,
           id # 0 => AsMuch(RowOf(p, id), row)
    PROVE  RowsMoved(p, WithRow(p, id, row))
  <1>1. CASE id = 0  BY <1>1, StockMoves DEF WithRow
  <1>2. CASE id # 0
    <2>1. /\ RowOf(p, id) = p.variants[Slot(p, id)] /\ Slot(p, id) \in Slots(p)  BY <1>2, RowIs
    <2>2. PICK s \in Slots(p) : s = Slot(p, id)  BY <2>1
    <2>3. WithRow(p, id, row) = [p EXCEPT !.variants[s] = row]  BY <1>2, <2>2 DEF WithRow
    <2>4. /\ WithRow(p, id, row).variants = [p.variants EXCEPT ![s] = row]
          /\ ProductShape(WithRow(p, id, row))
          BY <2>3 DEF StockRows, ProductShape
    <2>5. p.variants = [i \in Slots(p) |-> p.variants[i]]  BY SameRows DEF RowsMoved
    <2>6. /\ WithRow(p, id, row).variants = [i \in Slots(p) |-> IF i = s THEN row ELSE p.variants[i]]
          BY <2>4, <2>5
    <2>7. AsMuch(p.variants[s], row)  BY <1>2, <2>1, <2>2
    <2>8. \A i \in Slots(p) : RowShape(p.variants[i])  BY DEF StockRows
    <2> QED  BY <2>4, <2>6, <2>7, <2>8 DEF RowsMoved, AsMuch
  <1> QED  BY <1>1, <1>2

(* Each row changes in its units.                                           *)
LEMMA EachMoves ==
    ASSUME NEW p, StockRows(p), NEW f, f = [i \in Slots(p) |-> f[i]],
           \A i \in Slots(p) : AsMuch(p.variants[i], f[i])
    PROVE  RowsMoved(p, [p EXCEPT !.variants = f])
  <1>1. [p EXCEPT !.variants = f].variants = f /\ ProductShape([p EXCEPT !.variants = f])
        BY DEF StockRows, ProductShape
  <1> QED  BY <1>1 DEF RowsMoved, AsMuch

(* What orders, restocking and scanners do to rows.                         *)
LEMMA MovedRow ==
    ASSUME NEW p, StockRows(p), NEW id, Known(p, id), NEW a, NEW b, NEW c
    PROVE  /\ RowsMoved(p, WithRow(p, id, Moved(RowOf(p, id), a, b, c)))
           /\ RowsMoved(p, WithRow(p, id, [RowOf(p, id) EXCEPT !.stock = a]))
  <1>1. CASE id = 0
    <2>1. RowOf(p, id) = p /\ ProductShape(p)  BY <1>1, RowIs DEF StockRows
    <2>2. /\ ProductShape(Moved(p, a, b, c))
          /\ Moved(p, a, b, c).variants = p.variants
          /\ ProductShape([p EXCEPT !.stock = a])
          /\ [p EXCEPT !.stock = a].variants = p.variants
          BY <2>1, ProductAdds, ProductPut
    <2>3. /\ RowsMoved(p, WithRow(p, id, Moved(p, a, b, c)))
          /\ RowsMoved(p, WithRow(p, id, [p EXCEPT !.stock = a]))
          BY <1>1, <2>2, WithRowMoves
    <2> QED  BY <2>1, <2>3
  <1>2. CASE id # 0
    <2>1. RowShape(RowOf(p, id))  BY <1>2, RowIs
    <2>2. /\ AsMuch(RowOf(p, id), Moved(RowOf(p, id), a, b, c))
          /\ AsMuch(RowOf(p, id), [RowOf(p, id) EXCEPT !.stock = a])
          BY <2>1, RowAdds
    <2> QED  BY <1>2, <2>2, WithRowMoves
  <1> QED  BY <1>1, <1>2

LEMMA ReserveMoves ==
    ASSUME NEW p, StockRows(p), NEW id, Known(p, id)
    PROVE  RowsMoved(p, Reserve(p, id))
  BY MovedRow DEF Reserve

LEMMA SyncedAfter ==
    ASSUME NEW p, NEW q, StockRows(p), RowsMoved(p, q)
    PROVE  RowsMoved(p, Synced(q))
  BY MovedOf, SyncedMoves, MovedTwice

LEMMA CommitMoves ==
    ASSUME NEW p, StockRows(p), NEW id, Known(p, id)
    PROVE  RowsMoved(p, Commit(p, id))
  <1>1. CASE id # 0
    <2>1. Commit(p, id) = Synced(WithRow(p, id, Moved(RowOf(p, id), -1, -1, 1)))  BY <1>1 DEF Commit
    <2> QED  BY <2>1, MovedRow, SyncedAfter
  <1>2. CASE id = 0 /\ ~ HasVariants(p)
    <2>1. Commit(p, id) = Moved(p, -1, -1, 1)  BY <1>2 DEF Commit
    <2>2. ProductShape(p)  BY DEF StockRows
    <2>3. ASSUME NEW a, NEW b, NEW c
          PROVE  /\ ProductShape(Moved(p, a, b, c))
                 /\ Moved(p, a, b, c).variants = p.variants
          BY <2>2, ProductAdds
    <2> QED  BY <2>1, <2>3, StockMoves
  <1>3. CASE id = 0 /\ HasVariants(p)
    <2> DEFINE take == Shares(p, Reserved, 1)
               f == [i \in Slots(p) |-> IF take[i] = 0 THEN p.variants[i]
                                        ELSE Moved(p.variants[i], -take[i], -take[i], 1)]
    <2>1. Commit(p, id) = Synced([p EXCEPT !.variants = f])  BY <1>3 DEF Commit
    <2>2. ASSUME NEW i \in Slots(p) PROVE AsMuch(p.variants[i], f[i])
      <3> HIDE DEF take
      <3>1. RowShape(p.variants[i])  BY DEF StockRows
      <3>2. AsMuch(p.variants[i], Moved(p.variants[i], -take[i], -take[i], 1))
            /\ AsMuch(p.variants[i], p.variants[i])
            BY <3>1, RowAdds
      <3> QED  BY <3>2
    <2>3. f = [i \in Slots(p) |-> f[i]]  OBVIOUS
    <2> HIDE DEF f
    <2>4. RowsMoved(p, [p EXCEPT !.variants = f])  BY <2>2, <2>3, EachMoves
    <2> QED  BY <2>1, <2>4, SyncedAfter
  <1> QED  BY <1>1, <1>2, <1>3

LEMMA ReleaseMoves ==
    ASSUME NEW p, StockRows(p), NEW id, Known(p, id)
    PROVE  RowsMoved(p, Release(p, id))
  <1>1. CASE ~ (id = 0 /\ HasVariants(p))
    <2>1. Release(p, id) = WithRow(p, id, Moved(RowOf(p, id), 0, -Least(RowOf(p, id).reserved, 1), 0))
          BY <1>1 DEF Release
    <2> QED  BY <2>1, MovedRow
  <1>2. CASE id = 0 /\ HasVariants(p)
    <2> DEFINE take == Shares(p, Reserved, 1)
               f == [i \in Slots(p) |-> Moved(p.variants[i], 0, -take[i], 0)]
    <2>1. Release(p, id) = [p EXCEPT !.variants = f]  BY <1>2 DEF Release
    <2>2. ASSUME NEW i \in Slots(p) PROVE AsMuch(p.variants[i], f[i])
      <3> HIDE DEF take
      <3>1. RowShape(p.variants[i])  BY DEF StockRows
      <3>2. AsMuch(p.variants[i], Moved(p.variants[i], 0, -take[i], 0))  BY <3>1, RowAdds
      <3> QED  BY <3>2
    <2>3. f = [i \in Slots(p) |-> f[i]]  OBVIOUS
    <2> HIDE DEF f
    <2> QED  BY <2>1, <2>2, <2>3, EachMoves
  <1> QED  BY <1>1, <1>2

LEMMA AdjustedMoves ==
    ASSUME NEW p, StockRows(p), NEW id, Known(p, id), NEW n
    PROVE  RowsMoved(p, AdjustedRow(p, id, n))
  <1> DEFINE q == WithRow(p, id, [RowOf(p, id) EXCEPT !.stock = @ + n])
  <1>1. RowsMoved(p, q)  BY MovedRow
  <1>2. AdjustedRow(p, id, n) = IF id = 0 THEN q ELSE Synced(q)  BY DEF AdjustedRow
  <1> HIDE DEF q
  <1> QED  BY <1>1, <1>2, SyncedAfter

LEMMA AlteredMoves ==
    ASSUME NEW p, StockRows(p), NEW plan
    PROVE  RowsMoved(p, Altered(p, plan))
  <1> DEFINE Raised(row, n) == [row EXCEPT !.stock = @ + n]
             f == [i \in Slots(p) |->
                     Raised(p.variants[i], SumOfDeltas({s \in plan : s.id = p.variants[i].id}))]
  <1>1. CASE HasVariants(p)
    <2>1. Altered(p, plan) = Synced([p EXCEPT !.variants = f])  BY <1>1 DEF Altered
    <2>2. ASSUME NEW i \in Slots(p) PROVE AsMuch(p.variants[i], f[i])
      <3>1. RowShape(p.variants[i])  BY DEF StockRows
      <3>2. \A n : AsMuch(p.variants[i], Raised(p.variants[i], n))  BY <3>1, RowAdds
      <3> QED  BY <3>2
    <2>3. f = [i \in Slots(p) |-> f[i]]  OBVIOUS
    <2> HIDE DEF f
    <2> QED  BY <2>1, <2>2, <2>3, EachMoves, SyncedAfter
  <1>2. CASE ~ HasVariants(p)
    <2>1. Altered(p, plan) = Raised(p, SumOfDeltas(plan))  BY <1>2 DEF Altered
    <2>2. ProductShape(p)  BY DEF StockRows
    <2>3. ASSUME NEW n
          PROVE  /\ ProductShape(Raised(p, n))
                 /\ Raised(p, n).variants = p.variants
          BY <2>2, ProductPut
    <2> QED  BY <2>1, <2>3, StockMoves
  <1> QED  BY <1>1, <1>2

LEMMA TheRows == RowsStand => StockRows(product)
  BY DEF RowsStand, StockRows

LEMMA EmptyOrNot ==
    ASSUME NEW S, NEW s \in Seq(S) PROVE s = <<>> <=> DOMAIN s = {}
  <1>1. s = <<>> <=> Len(s) = 0  OBVIOUS
  <1>2. DOMAIN s = 1 .. Len(s) /\ Len(s) \in Nat  OBVIOUS
  <1>3. Len(s) = 0 => 1 .. Len(s) = {}  OBVIOUS
  <1>4. Len(s) # 0 => 1 \in 1 .. Len(s)  BY <1>2
  <1>5. CASE Len(s) = 0  BY <1>1, <1>2, <1>3, <1>5
  <1>6. CASE Len(s) # 0  BY <1>1, <1>2, <1>4, <1>6
  <1> QED  BY <1>5, <1>6

(* Rows that move only in units leave what labels stand for.                 *)
LEMMA RowsAside ==
    ASSUME RowsStand, LabelsStand, RowsMoved(product, product'),
           UNCHANGED <<lastId, labels, codes, dropped>>
    PROVE  RowsStand' /\ LabelsStand'
  <1>1. StockRows(product') /\ Slots(product') = Slots(product)  BY TheRows, MovedOf
  <1>2. \A i \in Slots(product) : /\ product'.variants[i].id = product.variants[i].id
                                  /\ product'.variants[i].sku = product.variants[i].sku
        BY DEF RowsMoved
  <1>3. RowsStand'  BY <1>1, <1>2 DEF RowsStand, StockRows
  <1>4. Skus(product') = Skus(product)  BY <1>1, <1>2 DEF Skus
  <1>5. HasVariants(product') <=> HasVariants(product)
    <2>1. \A p : StockRows(p) => (HasVariants(p) <=> Slots(p) # {})
      <3> SUFFICES ASSUME NEW p, StockRows(p) PROVE HasVariants(p) <=> Slots(p) # {}
          OBVIOUS
      <3>1. p.variants \in Seq(Range(p.variants))  BY DEF StockRows
      <3>2. p.variants = <<>> <=> DOMAIN p.variants = {}  BY <3>1, EmptyOrNot
      <3> QED  BY <3>2 DEF HasVariants, Slots
    <2> QED  BY <1>1, <2>1, TheRows
  <1> QED  BY <1>1, <1>2, <1>3, <1>4, <1>5 DEF LabelsStand

(* The labels there were are there still, with what they had.                *)
Carry(old, new) ==
    \A l \in old : \E m \in new :
        m.id = l.id /\ m.sku = l.sku /\ m.code = l.code /\ m.sent = l.sent

LEMMA SameCarry == ASSUME NEW S PROVE Carry(S, S)
  BY DEF Carry

(* A step of a request other than one about a label.                         *)
PlainMove(h) ==
    /\ OthersStay(h) /\ crossed \subseteq crossed'
    /\ Busy(h)' => req'[h].kind \notin LabelKinds /\ StockPlan(req'[h])

LEMMA ReadAside ==
    ASSUME StockRead, NEW h \in Handlers, PlainMove(h)
    PROVE  StockRead'
  BY DEF StockRead, PlainMove, OthersStay, StockPlan

LEMMA VendorAside ==
    ASSUME VendorStands, NEW h \in Handlers, OthersStay(h), crossed \subseteq crossed',
           Carry(labels, labels'), aliases' = aliases, vendor' = vendor,
           Busy(h)' => /\ req'[h].kind = "mark" => ToMark(h)'
                       /\ req'[h].kind = "regenerate" => ToRegenerate(h)'
    PROVE  VendorStands'
  <1> SUFFICES ASSUME Apart("mark", "regenerate")'
               PROVE  /\ \A v \in vendor : \E l \in labels' :
                           l.sku = v.sku /\ (Aliased(v.code, l) \/ (l.code = v.code /\ l.sent))
                      /\ \A g \in Doing({"mark"})' : ToMark(g)'
                      /\ \A g \in Doing({"regenerate"})' : ToRegenerate(g)'
      BY DEF VendorStands, Aliased
  <1>1. Apart("mark", "regenerate")  BY DEF Apart
  <1>2. \A v \in vendor : \E l \in labels' :
           l.sku = v.sku /\ (Aliased(v.code, l) \/ (l.code = v.code /\ l.sent))
        BY <1>1 DEF VendorStands, Carry, Aliased
  <1>3. ASSUME NEW g \in Doing({"mark"})' PROVE ToMark(g)'
    <2>1. CASE g = h  BY <1>3, <2>1 DEF Doing
    <2>2. CASE g # h
      <3>1. g \in Doing({"mark"}) /\ req'[g] = req[g]  BY <1>3, <2>2 DEF Doing, OthersStay
      <3>2. PICK l \in labels :
               /\ l.id = LabelOf(g).id /\ l.sku = LabelOf(g).sku
               /\ \/ Aliased(req[g].read.code, l)
                  \/ l.code = req[g].read.code /\ (LabelOf(g).sent => l.sent)
            BY <1>1, <3>1 DEF VendorStands, ToMark
      <3>3. PICK m \in labels' :
               m.id = l.id /\ m.sku = l.sku /\ m.code = l.code /\ m.sent = l.sent
            BY DEF Carry
      <3> QED  BY <3>1, <3>2, <3>3 DEF ToMark, LabelOf, Aliased
    <2> QED  BY <2>1, <2>2
  <1>4. ASSUME NEW g \in Doing({"regenerate"})' PROVE ToRegenerate(g)'
    <2>1. CASE g = h  BY <1>4, <2>1 DEF Doing
    <2>2. CASE g # h
      <3>1. g \in Doing({"regenerate"}) /\ req'[g] = req[g]  BY <1>4, <2>2 DEF Doing, OthersStay
      <3>2. PICK l \in labels :
               /\ l.id = LabelOf(g).id /\ l.sku = LabelOf(g).sku
               /\ l.sent => l.code = LabelOf(g).code /\ LabelOf(g).sent
            BY <1>1, <3>1 DEF VendorStands, ToRegenerate
      <3>3. PICK m \in labels' :
               m.id = l.id /\ m.sku = l.sku /\ m.code = l.code /\ m.sent = l.sent
            BY DEF Carry
      <3> QED  BY <3>1, <3>2, <3>3 DEF ToRegenerate, LabelOf
    <2> QED  BY <2>1, <2>2
  <1> QED  BY <1>2, <1>3, <1>4

(* A step that touches neither labels nor which rows there are.              *)
StockQuiet ==
    RowsMoved(product, product') /\ UNCHANGED <<labels, aliases, codes, lastId, dropped, vendor>>

LEMMA RowsFollowMoved ==
    ASSUME RowsStand, RowsMoved(product, product'), lastId' = lastId
    PROVE  RowsFollow
  <1>1. lastId <= lastId'  BY DEF RowsStand
  <1>2. Slots(product') = Slots(product)  BY DEF RowsMoved, Slots
  <1> QED  BY <1>1, <1>2 DEF RowsFollow, RowsMoved

LEMMA QuietKept ==
    ASSUME LabelInv, NEW h \in Handlers, PlainMove(h), StockQuiet
    PROVE  LabelInv' /\ RowsFollow
  <1>1. RowsStand' /\ LabelsStand'  BY RowsAside DEF LabelInv, StockQuiet
  <1>2. StockRead'  BY ReadAside DEF LabelInv
  <1>3. Carry(labels, labels')  BY SameCarry DEF StockQuiet
  <1>4. VendorStands'  BY <1>3, VendorAside DEF LabelInv, StockQuiet, PlainMove, LabelKinds
  <1>5. RowsFollow  BY RowsFollowMoved DEF LabelInv, StockQuiet
  <1> QED  BY <1>1, <1>2, <1>4, <1>5 DEF LabelInv

LEMMA CatalogueQuiet ==
    ASSUME RowsStand, UNCHANGED catalogue
    PROVE  StockQuiet
  BY TheRows, SameRows DEF StockQuiet, catalogue

LEMMA RowsQuiet ==
    ASSUME RowsStand, product' = product, UNCHANGED <<labels, aliases, codes, lastId, dropped, vendor>>
    PROVE  StockQuiet
  BY TheRows, SameRows DEF StockQuiet

(* The plans of requests                                                     *)
PlainSteps == {"credit", "fail", "fulfil", "tell", "migrate", "upsert", "write", "check", "apply",
               "discard", "adjust", "arm", "gather", "mail", "told"}

LEMMA PlainTails ==
    ASSUME NEW t \in PlainPlans
    PROVE  /\ t # <<>> /\ Tail(t) \in PlainPlans \cup {<<>>}
           /\ Head(t) \notin {"read", "save", "mark", "regenerate"}
  <1>1. CASE \E step \in PlainSteps : t = <<step>>
    <2>1. PICK step \in PlainSteps : t = <<step>>  BY <1>1
    <2>2. t # <<>> /\ Tail(t) = <<>> /\ Head(t) = step  BY <2>1
    <2> QED  BY <2>2 DEF PlainSteps
  <1>2. CASE t = <<"rates", "credit">>  BY <1>2 DEF PlainPlans
  <1>3. CASE t = <<"release", "fail">>  BY <1>3 DEF PlainPlans
  <1>4. CASE t = <<"labels", "tell">>  BY <1>4 DEF PlainPlans
  <1>5. CASE t = <<"enrol", "gather">>  BY <1>5 DEF PlainPlans
  <1>6. t \in {<<"rates", "credit">>, <<"release", "fail">>, <<"labels", "tell">>, <<"enrol", "gather">>}
           \/ \E step \in PlainSteps : t = <<step>>
        BY DEF PlainPlans, PlainSteps
  <1> QED  BY <1>1, <1>2, <1>3, <1>4, <1>5, <1>6

LEMMA FormHeads ==
    ASSUME NEW t \in FormPlans
    PROVE  t # <<>> /\ Head(t) \in {"read", "save"}
  <1>1. CASE t = <<"read", "save", "labels", "tell">>  BY <1>1
  <1>2. CASE t = <<"save", "labels", "tell">>  BY <1>2
  <1> QED  BY <1>1, <1>2 DEF FormPlans

LEMMA LabelHeads ==
    /\ Head(<<"mark">>) = "mark" /\ Tail(<<"mark">>) = <<>>
    /\ Head(<<"regenerate">>) = "regenerate" /\ Tail(<<"regenerate">>) = <<>>
  OBVIOUS

LEMMA PlanHeads ==
    ASSUME NEW r, StockPlan(r)
    PROVE  /\ Head(r.todo) \notin LabelKinds => r.kind \notin LabelKinds
           /\ Head(r.todo) \notin {"read", "save", "mark", "regenerate"} => r.todo \in PlainPlans
           /\ Head(r.todo) \in {"read", "save"} => r.read.c \in Changes
           /\ Head(r.todo) \in LabelKinds => r.kind = Head(r.todo) /\ r.todo = <<r.kind>>
  <1>1. CASE r.kind \notin LabelKinds /\ r.todo \in PlainPlans  BY <1>1, PlainTails DEF LabelKinds
  <1>2. CASE r.kind \notin LabelKinds /\ r.todo \in FormPlans /\ r.read.c \in Changes
        BY <1>2, FormHeads DEF LabelKinds
  <1>3. CASE r.kind \in LabelKinds /\ r.todo = <<r.kind>>  BY <1>3, LabelHeads DEF LabelKinds
  <1> QED  BY <1>1, <1>2, <1>3 DEF StockPlan

LEMMA PlainBegins ==
    ASSUME DeskInv, NEW h \in Handlers, NEW kind, kind \notin LabelKinds, NEW plan, NEW read,
           Begin(h, kind, plan, read),
           plan \in PlainPlans \cup {<<>>} \/ (plan \in FormPlans /\ read.c \in Changes)
    PROVE  PlainMove(h)
  <1>1. /\ OthersStay(h) /\ crossed \subseteq crossed' /\ (Busy(h)' <=> plan # <<>>)  BY AfterBegin
  <1>2. Busy(h)' => req'[h].todo = plan /\ req'[h].kind = kind /\ req'[h].read = read  BY AfterBegin
  <1> QED  BY <1>1, <1>2 DEF PlainMove, StockPlan

LEMMA PlainGo ==
    ASSUME DeskInv, NEW h \in Handlers, Busy(h), req[h].kind \notin LabelKinds,
           NEW plan, NEW read, GoOn(h, plan, read),
           plan \in PlainPlans \cup {<<>>} \/ (plan \in FormPlans /\ read.c \in Changes)
    PROVE  PlainMove(h)
  <1>1. /\ OthersStay(h) /\ crossed' = crossed /\ (Busy(h)' <=> plan # <<>>)  BY AfterGoOn
  <1>2. Busy(h)' => req'[h].todo = plan /\ req'[h].kind = req[h].kind /\ req'[h].read = read
        BY AfterGoOn
  <1> QED  BY <1>1, <1>2 DEF PlainMove, StockPlan

LEMMA StockStops ==
    ASSUME DeskInv, NEW h \in Handlers, Busy(h), Stop(h)
    PROVE  PlainMove(h)
  <1>1. /\ OthersStay(h) /\ crossed' = crossed /\ ~ Busy(h)'  BY AfterGoOn DEF Stop
  <1> QED  BY <1>1 DEF PlainMove

(* What a request that is at a step is about                                *)
LEMMA StockAt ==
    ASSUME StockRead, NEW h \in Handlers, NEW step, At(h, step), Concerns(h, StockKinds)
    PROVE  /\ Busy(h) /\ StockPlan(req[h])
           /\ step \notin LabelKinds => req[h].kind \notin LabelKinds
           /\ step \notin {"read", "save", "mark", "regenerate"} => req[h].todo \in PlainPlans
           /\ step \in {"read", "save"} => req[h].read.c \in Changes
           /\ step \in LabelKinds => req[h].kind = step /\ req[h].todo = <<req[h].kind>>
  <1>1. Busy(h) /\ Head(req[h].todo) = step /\ req[h].kind \in StockKinds  BY DEF At, Concerns
  <1>2. StockPlan(req[h])  BY <1>1 DEF StockRead
  <1> QED  BY <1>1, <1>2, PlanHeads

LEMMA StockProceeds ==
    ASSUME DeskInv, StockRead, NEW h \in Handlers, NEW step, At(h, step), Concerns(h, StockKinds),
           step \notin {"read", "save", "mark", "regenerate"}, Proceed(h)
    PROVE  PlainMove(h)
  <1>1. Busy(h) /\ req[h].kind \notin LabelKinds /\ req[h].todo \in PlainPlans
        BY StockAt DEF LabelKinds
  <1>2. Tail(req[h].todo) \in PlainPlans \cup {<<>>}  BY <1>1, PlainTails
  <1> QED  BY <1>1, <1>2, PlainGo DEF Proceed

LEMMA ActivePut ==
    ASSUME NEW p, ProductShape(p), NEW a
    PROVE  /\ ProductShape([p EXCEPT !.active = a])
           /\ [p EXCEPT !.active = a].variants = p.variants
  <1>1. DOMAIN p = {"pipeline", "stock", "reserved", "version", "active", "variants"}
        BY DEF ProductShape
  <1> DEFINE put == [p EXCEPT !.active = a]
  <1>2. put.variants = p.variants  BY <1>1
  <1>3. put = [pipeline |-> put.pipeline, stock |-> put.stock, reserved |-> put.reserved,
               version |-> put.version, active |-> put.active, variants |-> put.variants]
        BY <1>1
  <1> QED  BY <1>2, <1>3 DEF ProductShape

(* The orders' steps move units between rows.                                *)
LEMMA OrdersQuiet ==
    ASSUME RowsStand, UNCHANGED untouched,
           \/ product' = product
           \/ \E id : product' = Release(product, Live(product, id))
           \/ \E id : product' = Commit(product, Live(product, id))
           \/ \E id : Known(product, id) /\ product' = Reserve(product, id)
    PROVE  StockQuiet
  <1>1. UNCHANGED <<labels, aliases, codes, lastId, dropped, vendor>>  BY DEF untouched, labelRows
  <1>2. StockRows(product)  BY TheRows
  <1>3. CASE product' = product  BY <1>1, <1>3, RowsQuiet
  <1>4. CASE \E id : product' = Release(product, Live(product, id))
    <2>1. PICK id : product' = Release(product, Live(product, id))  BY <1>4
    <2> QED  BY <1>1, <1>2, <2>1, LiveIsKnown, ReleaseMoves DEF StockQuiet
  <1>5. CASE \E id : product' = Commit(product, Live(product, id))
    <2>1. PICK id : product' = Commit(product, Live(product, id))  BY <1>5
    <2> QED  BY <1>1, <1>2, <2>1, LiveIsKnown, CommitMoves DEF StockQuiet
  <1>6. CASE \E id : Known(product, id) /\ product' = Reserve(product, id)
    <2>1. PICK id : Known(product, id) /\ product' = Reserve(product, id)  BY <1>6
    <2> QED  BY <1>1, <1>2, <2>1, ReserveMoves DEF StockQuiet
  <1> QED  BY <1>3, <1>4, <1>5, <1>6

LEMMA ReleasesQuiet ==
    ASSUME RowsStand, UNCHANGED untouched, NEW o, ReleaseResources(o)
    PROVE  StockQuiet
  <1>1. product' = product \/ product' = Release(product, Live(product, order[o].variant))
        BY Zenon DEF ReleaseResources
  <1> QED  BY <1>1, OrdersQuiet

LEMMA OrdersKept ==
    ASSUME DeskInv, LabelInv, NEW h \in Handlers, Concerns(h, StockKinds),
           \/ PlaceOrder(h) \/ GetRates(h) \/ HoldCredit(h) \/ Supersede(h) \/ Expire(h)
           \/ ReleaseStep(h) \/ FailStep(h) \/ PaymentArrives(h) \/ Fulfil(h)
    PROVE  LabelInv' /\ RowsFollow
  <1>0. RowsStand /\ StockRead  BY DEF LabelInv
  <1>1. CASE PlaceOrder(h)
    <2>1. PICK o \in Orders, id \in {0} \cup {product.variants[i].id : i \in Slots(product)} :
             /\ Begin(h, "order", <<"rates", "credit">>, o)
             /\ product' = Reserve(product, id)
          BY <1>1, Zenon DEF PlaceOrder
    <2>2. Known(product, id)  BY DEF Known
    <2>3. UNCHANGED untouched  BY <1>1, Zenon DEF PlaceOrder
    <2>4. StockQuiet  BY <1>0, <2>1, <2>2, <2>3, OrdersQuiet
    <2>5. PlainMove(h)  BY <2>1, PlainBegins DEF PlainPlans, LabelKinds
    <2> QED  BY <2>4, <2>5, QuietKept
  <1>2. CASE GetRates(h)
    <2>1. At(h, "rates") /\ UNCHANGED untouched  BY <1>2, Zenon DEF GetRates
    <2>2. CASE Proceed(h) /\ UNCHANGED product
      <3>1. StockQuiet  BY <1>0, <2>1, <2>2, OrdersQuiet
      <3>2. PlainMove(h)  BY <1>0, <2>1, <2>2, StockProceeds
      <3> QED  BY <3>1, <3>2, QuietKept
    <2>3. CASE Stop(h) /\ ReleaseResources(req[h].read)
      <3>1. StockQuiet  BY <1>0, <2>1, <2>3, ReleasesQuiet
      <3>2. PlainMove(h)  BY <2>1, <2>3, StockStops DEF At
      <3> QED  BY <3>1, <3>2, QuietKept
    <2> QED  BY <1>2, <2>2, <2>3, Zenon DEF GetRates
  <1>3. CASE HoldCredit(h)
    <2>1. At(h, "credit") /\ Proceed(h) /\ UNCHANGED untouched  BY <1>3, Zenon DEF HoldCredit
    <2>2. product' = product \/ ReleaseResources(req[h].read)  BY <1>3, Zenon DEF HoldCredit
    <2>3. StockQuiet  BY <1>0, <2>1, <2>2, OrdersQuiet, ReleasesQuiet
    <2>4. PlainMove(h)  BY <1>0, <2>1, StockProceeds
    <2> QED  BY <2>3, <2>4, QuietKept
  <1>4. CASE Supersede(h) \/ Expire(h) \/ PaymentArrives(h)
    <2>1. UNCHANGED catalogue  BY <1>4, Zenon DEF Supersede, Expire, PaymentArrives
    <2>2. \E o \in Orders : \/ Begin(h, "supersede", <<"release", "fail">>, o)
                            \/ Begin(h, "expire", <<"release", "fail">>, o)
                            \/ Begin(h, "pay", <<"fulfil">>, o)
          BY <1>4, Zenon DEF Supersede, Expire, PaymentArrives
    <2>3. PlainMove(h)  BY <2>2, PlainBegins DEF PlainPlans, LabelKinds
    <2> QED  BY <1>0, <2>1, <2>3, CatalogueQuiet, QuietKept
  <1>5. CASE ReleaseStep(h)
    <2>1. At(h, "release") /\ Proceed(h) /\ UNCHANGED untouched /\ ReleaseResources(req[h].read)
          BY <1>5, Zenon DEF ReleaseStep
    <2>2. PlainMove(h)  BY <1>0, <2>1, StockProceeds
    <2> QED  BY <1>0, <2>1, <2>2, ReleasesQuiet, QuietKept
  <1>6. CASE FailStep(h)
    <2>1. At(h, "fail") /\ Proceed(h) /\ UNCHANGED untouched /\ product' = product
          BY <1>6, Zenon DEF FailStep
    <2>2. PlainMove(h)  BY <1>0, <2>1, StockProceeds
    <2> QED  BY <1>0, <2>1, <2>2, OrdersQuiet, QuietKept
  <1>7. CASE Fulfil(h)
    <2> DEFINE o == req[h].read
               id == Live(product, order[o].variant)
    <2>1. At(h, "fulfil") /\ UNCHANGED untouched  BY <1>7, Zenon DEF Fulfil
    <2>2. product' = product \/ product' = Commit(product, id)  BY <1>7, Zenon DEF Fulfil
    <2>3. StockQuiet  BY <1>0, <2>1, <2>2, OrdersQuiet
    <2>4. Proceed(h) \/ GoOn(h, <<"release", "fail">>, o)  BY <1>7, Zenon DEF Fulfil
    <2>5. Busy(h) /\ req[h].kind \notin LabelKinds  BY <1>0, <2>1, StockAt DEF LabelKinds
    <2>6. ASSUME GoOn(h, <<"release", "fail">>, o) PROVE PlainMove(h)
          BY <2>5, <2>6, PlainGo DEF PlainPlans
    <2>7. ASSUME Proceed(h) PROVE PlainMove(h)  BY <1>0, <2>1, <2>7, StockProceeds
    <2> QED  BY <2>3, <2>4, <2>6, <2>7, QuietKept
  <1> QED  BY <1>1, <1>2, <1>3, <1>4, <1>5, <1>6, <1>7

(* Rows and labels that change with what labels stand for carried over.      *)
LEMMA CarriedKept ==
    ASSUME LabelInv, NEW h \in Handlers, PlainMove(h), RowsStand', LabelsStand', RowsFollow,
           Carry(labels, labels'), aliases' = aliases, vendor' = vendor
    PROVE  LabelInv' /\ RowsFollow
  <1>1. StockRead'  BY ReadAside DEF LabelInv
  <1>2. VendorStands'  BY VendorAside DEF LabelInv, PlainMove, LabelKinds
  <1> QED  BY <1>1, <1>2 DEF LabelInv

LEMMA FieldsQuiet ==
    ASSUME RowsStand, UNCHANGED <<labels, aliases, codes, lastId, dropped, vendor>>,
           NEW q, ProductShape(q), q.variants = product.variants, product' = q
    PROVE  StockQuiet
  BY TheRows, StockMoves DEF StockQuiet

(* A listing saved without variants                                          *)
LEMMA SimpleKept ==
    ASSUME LabelInv, NEW h \in Handlers, PlainMove(h), SaveSimple(h),
           UNCHANGED <<aliases, codes, vendor>>
    PROVE  LabelInv' /\ RowsFollow
  <1> DEFINE n == req[h].read.form.stock
  <1>1. product' = [product EXCEPT !.variants = <<>>, !.stock = n]  BY Zenon DEF SaveSimple
  <1>2. dropped' = dropped \cup Skus(product) /\ UNCHANGED <<labels, lastId>>
        BY Zenon DEF SaveSimple
  <1> HIDE DEF n
  <1>3. ProductShape(product') /\ product'.variants = <<>>
        BY <1>1 DEF LabelInv, RowsStand, ProductShape
  <1>4. Slots(product') = {} /\ ~ HasVariants(product')  BY <1>3 DEF Slots, HasVariants
  <1>5. Skus(product') = {}  BY <1>4 DEF Skus
  <1>6. <<>> \in Seq(Range(<<>>))  OBVIOUS
  <1>7. RowsStand' /\ RowsFollow  BY <1>2, <1>3, <1>4, <1>6 DEF LabelInv, RowsStand, RowsFollow
  <1>8. LabelsStand'  BY <1>2, <1>4, <1>5 DEF LabelInv, LabelsStand
  <1> QED  BY <1>2, <1>7, <1>8, SameCarry, CarriedKept

(* Rows of a form                                                            *)
LEMMA MatrixRows ==
    ASSUME NEW skus, skus \in Seq(Range(skus)), NEW units, NEW from \in Nat
    PROVE  LET rows == Matrix(skus, units, from)
           IN  /\ DOMAIN rows = 1 .. Len(skus) /\ rows \in Seq(Range(rows))
               /\ \A i \in 1 .. Len(skus) : /\ RowShape(rows[i])
                                           /\ rows[i].id = from + i /\ rows[i].sku = skus[i]
  <1> DEFINE rows == Matrix(skus, units, from)
  <1>1. DOMAIN skus = 1 .. Len(skus) /\ Len(skus) \in Nat  OBVIOUS
  <1>2. rows = [i \in 1 .. Len(skus) |-> [id |-> from + i, sku |-> skus[i], stock |-> units[i],
                                          reserved |-> 0, version |-> 0]]
        BY <1>1 DEF Matrix
  <1> HIDE DEF rows
  <1>3. ASSUME NEW i \in 1 .. Len(skus)
        PROVE  RowShape(rows[i]) /\ rows[i].id = from + i /\ rows[i].sku = skus[i]
    <2>1. rows[i] = [id |-> from + i, sku |-> skus[i], stock |-> units[i], reserved |-> 0,
                     version |-> 0]
          BY <1>2
    <2> QED  BY <2>1 DEF RowShape
  <1>4. rows = [i \in 1 .. Len(skus) |-> rows[i]] /\ DOMAIN rows = 1 .. Len(skus)  BY <1>2
  <1>5. rows \in Seq(Range(rows))  BY <1>1, <1>4, SeqOfIts
  <1> QED  BY <1>3, <1>4, <1>5 DEF rows

(* What the row that a label stands for is                                   *)
LEMMA LabelRow ==
    ASSUME RowsStand, LabelsStand, NEW l \in labels, Live(product, l.key) # 0
    PROVE  /\ RowOf(product, l.key).sku = l.sku
           /\ l.sku \in Skus(product)
  <1>1. PICK i \in Slots(product) : product.variants[i].id = l.key /\ l.key # 0  BY DEF Live
  <1>2. Slot(product, l.key) \in Slots(product) /\ product.variants[Slot(product, l.key)].id = l.key
        BY <1>1 DEF Slot
  <1>3. RowOf(product, l.key) = product.variants[Slot(product, l.key)]  BY <1>1 DEF RowOf
  <1> QED  BY <1>2, <1>3 DEF LabelsStand, Skus

LEMMA LiveOfItsSku ==
    ASSUME RowsStand, LabelsStand, NEW l \in labels, l.sku \in Skus(product) \ dropped
    PROVE  Live(product, l.key) # 0
  <1>1. PICK i \in Slots(product) : product.variants[i].id = l.key  BY DEF LabelsStand
  <1>2. product.variants[i].id \in 1 .. lastId /\ lastId \in Nat  BY DEF RowsStand
  <1> QED  BY <1>1, <1>2 DEF Live

(* The labels of rows that were replaced follow their sizes.                 *)
LEMMA MatrixKept ==
    ASSUME LabelInv, NEW h \in Handlers, PlainMove(h), SaveMatrix(h), req[h].read.c \in Changes,
           UNCHANGED <<aliases, codes, vendor>>
    PROVE  LabelInv' /\ RowsFollow
  <1> DEFINE skus == req[h].read.c.skus
             units == [i \in DOMAIN skus |-> FormStock(req[h].read.form, skus[i])]
             rows == Matrix(skus, units, lastId)
             Follows(l) == Live(product, l.key) # 0 /\ RowOf(product, l.key).sku \in Range(skus)
             Target(l) == CHOOSE i \in DOMAIN rows : rows[i].sku = RowOf(product, l.key).sku
             New(l) == IF Follows(l) THEN [l EXCEPT !.key = rows[Target(l)].id] ELSE l
  <1>1. /\ req[h].read.c.what = "matrix" /\ skus # <<>>
        /\ product' = Synced([product EXCEPT !.variants = rows])
        /\ lastId' = lastId + Len(skus)
        /\ labels' = {New(l) : l \in labels}
        /\ dropped' = dropped \cup (IF HasVariants(product) THEN Skus(product) \ Range(skus)
                                    ELSE {Plain})
        BY Zenon DEF SaveMatrix
  <1>2. skus \in Sizes  BY <1>1 DEF Changes
  <1>3. skus \in Seq(Range(skus)) /\ IsInjective(skus)  BY <1>2, CatalogueAssumption
  <1>4. /\ RowsStand /\ LabelsStand /\ lastId \in Nat /\ codes \in Nat
        BY DEF LabelInv, RowsStand, LabelsStand
  <1> HIDE DEF units
  <1>5. /\ DOMAIN rows = 1 .. Len(skus) /\ rows \in Seq(Range(rows))
        /\ \A i \in 1 .. Len(skus) : /\ RowShape(rows[i])
                                     /\ rows[i].id = lastId + i /\ rows[i].sku = skus[i]
        BY <1>3, <1>4, MatrixRows
  <1>6. DOMAIN skus = 1 .. Len(skus) /\ Len(skus) \in Nat  BY <1>3
  <1>7. Range(skus) = {skus[i] : i \in 1 .. Len(skus)}  BY <1>6 DEF Range
  <1> HIDE DEF skus, rows
  <1>8. product'.variants = rows /\ ProductShape(product')
    <2> DEFINE q == [product EXCEPT !.variants = rows]
    <2>1. q.variants = rows /\ ProductShape(q)  BY <1>4 DEF RowsStand, ProductShape
    <2>2. StockRows(q)  BY <2>1, <1>5 DEF StockRows, Slots
    <2> HIDE DEF q
    <2>3. RowsMoved(q, Synced(q)) /\ Synced(q).variants = q.variants  BY <2>2, SyncedMoves
    <2> QED  BY <1>1, <2>1, <2>3 DEF RowsMoved, q
  <1>9. Slots(product') = 1 .. Len(skus)  BY <1>5, <1>8 DEF Slots
  <1>10. Skus(product') = Range(skus)  BY <1>5, <1>7, <1>8, <1>9 DEF Skus
  <1>11. HasVariants(product')
    <2>1. 1 \in 1 .. Len(skus)  BY <1>1, <1>3, <1>6
    <2> QED  BY <1>5, <1>8, <2>1 DEF HasVariants
  <1>12. RowsStand'
    <2>1. \A i \in 1 .. Len(skus) : rows[i].id \in 1 .. lastId'  BY <1>1, <1>4, <1>5, <1>6
    <2>2. lastId' \in Nat  BY <1>1, <1>4, <1>6
    <2>3. \A i, j \in 1 .. Len(skus) : rows[i].id = rows[j].id => i = j  BY <1>4, <1>5, <1>6
    <2>4. \A i, j \in 1 .. Len(skus) : rows[i].sku = rows[j].sku => i = j
          BY <1>3, <1>5, <1>6 DEF IsInjective
    <2> QED  BY <1>5, <1>8, <1>9, <2>1, <2>2, <2>3, <2>4 DEF RowsStand
  <1>13. ASSUME NEW l \in labels
         PROVE  /\ New(l).id = l.id /\ New(l).sku = l.sku /\ New(l).code = l.code
                /\ New(l).sent = l.sent /\ LabelShape(New(l)) /\ New(l).key \in 0 .. lastId'
                /\ Follows(l) => \E i \in 1 .. Len(skus) : /\ rows[i].id = New(l).key
                                                           /\ rows[i].sku = l.sku
                /\ ~ Follows(l) => New(l).key \in 0 .. lastId
    <2>1. LabelShape(l) /\ l.key \in 0 .. lastId  BY <1>4 DEF LabelsStand
    <2>2. CASE Follows(l)
      <3>1. RowOf(product, l.key).sku = l.sku  BY <1>4, <2>2, LabelRow
      <3>2. PICK i \in 1 .. Len(skus) : rows[i].sku = l.sku  BY <1>5, <1>7, <2>2, <3>1
      <3>3. Target(l) \in 1 .. Len(skus) /\ rows[Target(l)].sku = l.sku  BY <1>5, <3>1, <3>2
      <3>4. PICK t \in 1 .. Len(skus) : t = Target(l)  BY <3>3
      <3>5. New(l) = [l EXCEPT !.key = rows[t].id]  BY <2>2, <3>4
      <3>6. rows[t].id \in 0 .. lastId' /\ rows[t].sku = l.sku
            BY <1>1, <1>4, <1>5, <1>6, <3>3, <3>4
      <3> HIDE DEF New, Target, Follows
      <3>7. /\ New(l).id = l.id /\ New(l).sku = l.sku /\ New(l).code = l.code
            /\ New(l).sent = l.sent /\ LabelShape(New(l)) /\ New(l).key = rows[t].id
            BY <2>1, <3>5 DEF LabelShape
      <3> QED  BY <2>2, <3>6, <3>7
    <2>3. CASE ~ Follows(l)
      <3>1. New(l) = l  BY <2>3
      <3>2. l.key \in 0 .. lastId'  BY <1>1, <1>4, <1>6, <2>1
      <3> QED  BY <2>1, <2>3, <3>1, <3>2
    <2> QED  BY <2>2, <2>3
  <1> HIDE DEF New
  <1>14. Carry(labels, labels')  BY <1>1, <1>13 DEF Carry
  <1>15. ASSUME NEW l \in labels, NEW i \in 1 .. Len(skus), rows[i].id = New(l).key
         PROVE  rows[i].sku = l.sku
    <2>1. CASE Follows(l)
      <3>1. PICK j \in 1 .. Len(skus) : rows[j].id = New(l).key /\ rows[j].sku = l.sku
            BY <1>13, <2>1
      <3>2. i = j  BY <1>4, <1>5, <1>6, <1>15, <3>1
      <3> QED  BY <3>1, <3>2
    <2>2. CASE ~ Follows(l)
      <3>1. New(l).key \in 0 .. lastId  BY <1>13, <2>2
      <3> QED  BY <1>4, <1>5, <1>6, <1>15, <3>1
    <2> QED  BY <2>1, <2>2
  <1>16. ASSUME NEW l \in labels
         PROVE  /\ l.sku \in Range(skus) \cup dropped'
                /\ l.sku \in Range(skus) \ dropped' => Follows(l)
    <2>1. l.sku \in Skus(product) \cup dropped \/ (l.sku = Plain /\ ~ HasVariants(product))
          BY <1>4 DEF LabelsStand
    <2>2. CASE HasVariants(product)
      <3>1. l.sku \in Range(skus) \ dropped' => l.sku \in Skus(product) \ dropped
            BY <1>1, <2>1, <2>2
      <3>2. l.sku \in Skus(product) \ dropped => Live(product, l.key) # 0  BY <1>4, LiveOfItsSku
      <3>3. Live(product, l.key) # 0 => RowOf(product, l.key).sku = l.sku  BY <1>4, LabelRow
      <3> QED  BY <1>1, <2>1, <2>2, <3>1, <3>2, <3>3
    <2>3. CASE ~ HasVariants(product)
      <3>1. HasVariants(product) <=> Slots(product) # {}
            BY <1>4, EmptyOrNot DEF RowsStand, HasVariants, Slots
      <3>2. Skus(product) = {}  BY <2>3, <3>1 DEF Skus
      <3> QED  BY <1>1, <2>1, <2>3, <3>2
    <2> QED  BY <2>2, <2>3
  <1>17. LabelsStand'
    <2>1. ASSUME NEW m \in labels'
          PROVE  /\ LabelShape(m) /\ m.id \in 1 .. codes /\ m.key \in 0 .. lastId'
                 /\ \A i \in 1 .. Len(skus) : rows[i].id = m.key => rows[i].sku = m.sku
                 /\ m.sku \in Range(skus) \cup dropped'
                 /\ m.sku \in Range(skus) \ dropped' =>
                       \E i \in 1 .. Len(skus) : rows[i].id = m.key
      <3>1. PICK l \in labels : m = New(l)  BY <1>1
      <3>2. l.id \in 1 .. codes  BY <1>4 DEF LabelsStand
      <3> QED  BY <1>13, <1>15, <1>16, <3>1, <3>2
    <2>2. ASSUME NEW m \in labels', NEW n \in labels', m.id = n.id PROVE m = n
      <3>1. PICK k \in labels, l \in labels : m = New(k) /\ n = New(l)  BY <1>1
      <3>2. k.id = l.id  BY <1>13, <2>2, <3>1
      <3>3. k = l  BY <1>4, <3>2 DEF LabelsStand
      <3> QED  BY <3>1, <3>3
    <2> QED  BY <1>4, <1>8, <1>9, <1>10, <1>11, <2>1, <2>2 DEF LabelsStand
  <1>18. RowsFollow
    <2>1. \A k \in 1 .. Len(skus) : lastId + k > lastId  BY <1>4
    <2> QED  BY <1>1, <1>4, <1>5, <1>6, <1>8, <1>9, <2>1 DEF RowsFollow
  <1> QED  BY <1>12, <1>14, <1>17, <1>18, CarriedKept

(* Labels drawn for rows that had none                                       *)
LEMMA EnsuredKept ==
    ASSUME LabelInv, NEW h \in Handlers, PlainMove(h), EnsureLabels(h)
    PROVE  LabelInv' /\ RowsFollow
  <1> DEFINE missing == Unlabelled(product)
             New(id) == NewLabel(id, codes + Rank(missing, id))
  <1>1. /\ labels' = labels \cup {New(id) : id \in missing}
        /\ codes' = codes + Cardinality(missing)
        BY Zenon DEF EnsureLabels, Rank
  <1>2. UNCHANGED <<product, aliases, lastId, dropped, vendor>>  BY Zenon DEF EnsureLabels, past
  <1>3. RowsStand /\ LabelsStand /\ lastId \in Nat /\ codes \in Nat
        BY DEF LabelInv, RowsStand, LabelsStand
  <1>4. \A i \in Slots(product) : product.variants[i].id \in 1 .. lastId  BY <1>3 DEF RowsStand
  <1>5. ASSUME NEW id \in missing
        PROVE  /\ \A l \in labels : l.key # id
               /\ \/ id = 0 /\ ~ HasVariants(product)
                  \/ id # 0 /\ \E i \in Slots(product) : product.variants[i].id = id
        BY <1>3, <1>4 DEF Unlabelled
  <1>6. missing \in SUBSET (0 .. lastId)  BY <1>3, <1>4 DEF Unlabelled
  <1> HIDE DEF missing
  <1>7. /\ Cardinality(missing) \in Nat
        /\ \A k \in missing : Rank(missing, k) \in 1 .. Cardinality(missing)
        /\ \A k, m \in missing : Rank(missing, k) = Rank(missing, m) => k = m
        BY <1>3, <1>6, Ranks
  <1>8. ASSUME NEW id \in missing
        PROVE  /\ LabelShape(New(id)) /\ New(id).id \in codes + 1 .. codes'
               /\ New(id).id = codes + Rank(missing, id)
               /\ New(id).key = id
               /\ New(id).sku = (IF id = 0 THEN Plain ELSE RowOf(product, id).sku)
    <2>1. New(id) = [id |-> codes + Rank(missing, id), code |-> codes + Rank(missing, id),
                     key |-> id, sent |-> FALSE,
                     sku |-> IF id = 0 THEN Plain ELSE RowOf(product, id).sku]
          BY DEF NewLabel
    <2>2. codes + Rank(missing, id) \in codes + 1 .. codes'  BY <1>1, <1>3, <1>7
    <2> HIDE DEF New
    <2> QED  BY <2>1, <2>2 DEF LabelShape
  <1>9. ASSUME NEW id \in missing, id # 0
        PROVE  \E i \in Slots(product) : /\ product.variants[i].id = id
                                         /\ RowOf(product, id).sku = product.variants[i].sku
    <2>1. Known(product, id)  BY <1>5, <1>9 DEF Known
    <2> QED  BY <1>9, <2>1, SlotIs DEF RowOf
  <1>10. ASSUME NEW id \in missing, NEW i \in Slots(product), product.variants[i].id = New(id).key
         PROVE  product.variants[i].sku = New(id).sku
    <2>1. New(id).key = id /\ id # 0  BY <1>4, <1>8, <1>10
    <2>2. PICK j \in Slots(product) : /\ product.variants[j].id = id
                                      /\ RowOf(product, id).sku = product.variants[j].sku
          BY <1>9, <2>1
    <2>3. i = j  BY <1>3, <1>10, <2>1, <2>2 DEF RowsStand
    <2> QED  BY <1>8, <2>1, <2>2, <2>3
  <1>11. ASSUME NEW id \in missing
         PROVE  /\ \/ New(id).sku \in Skus(product) \cup dropped
                   \/ New(id).sku = Plain /\ ~ HasVariants(product)
                /\ New(id).sku \in Skus(product) \ dropped =>
                      \E i \in Slots(product) : product.variants[i].id = New(id).key
    <2>1. CASE id = 0
      <3>1. HasVariants(product) <=> Slots(product) # {}
            BY <1>3, EmptyOrNot DEF RowsStand, HasVariants, Slots
      <3>2. ~ HasVariants(product) /\ Skus(product) = {}  BY <1>5, <2>1, <3>1 DEF Skus
      <3> QED  BY <1>8, <2>1, <3>2
    <2>2. CASE id # 0  BY <1>5, <1>8, <1>9, <2>2 DEF Skus
    <2> QED  BY <2>1, <2>2
  <1> HIDE DEF New
  <1>12. RowsStand'  BY <1>2, <1>3 DEF RowsStand, ProductShape, Slots
  <1>13. ASSUME NEW l \in labels', NEW m \in labels', l.id = m.id PROVE l = m
    <2>1. \A k \in labels : k.id \in 1 .. codes  BY <1>3 DEF LabelsStand
    <2>2. CASE l \in labels /\ m \in labels  BY <1>3, <1>13, <2>2 DEF LabelsStand
    <2>3. CASE l \notin labels /\ m \notin labels
      <3>1. PICK k \in missing, n \in missing : l = New(k) /\ m = New(n)  BY <1>1, <2>3
      <3>2. codes + Rank(missing, k) = codes + Rank(missing, n)  BY <1>8, <1>13, <3>1
      <3>3. Rank(missing, k) = Rank(missing, n)  BY <1>3, <1>7, <3>2
      <3> QED  BY <1>7, <3>1, <3>3
    <2>4. \A id \in missing, k \in labels : New(id).id # k.id  BY <1>3, <1>8, <2>1
    <2> QED  BY <1>1, <1>13, <2>2, <2>3, <2>4
  <1>14. LabelsStand'
    <2>1. ASSUME NEW l \in labels'
          PROVE  /\ LabelShape(l) /\ l.id \in 1 .. codes' /\ l.key \in 0 .. lastId
                 /\ \A i \in Slots(product) :
                       product.variants[i].id = l.key => product.variants[i].sku = l.sku
                 /\ l.sku \in Skus(product) \cup dropped \/ (l.sku = Plain /\ ~ HasVariants(product))
                 /\ l.sku \in Skus(product) \ dropped =>
                       \E i \in Slots(product) : product.variants[i].id = l.key
      <3>1. CASE l \in labels
        <4>1. \A k \in 1 .. codes : k \in 1 .. codes'  BY <1>1, <1>3, <1>7
        <4> QED  BY <1>3, <3>1, <4>1 DEF LabelsStand
      <3>2. CASE l \notin labels
        <4>1. PICK id \in missing : l = New(id)  BY <1>1, <3>2
        <4>2. \A k \in codes + 1 .. codes' : k \in 1 .. codes'  BY <1>3
        <4>3. id \in 0 .. lastId  BY <1>6
        <4> QED  BY <1>8, <1>10, <1>11, <4>1, <4>2, <4>3
      <3> QED  BY <3>1, <3>2
    <2>2. codes' \in Nat  BY <1>1, <1>3, <1>7
    <2> QED  BY <1>2, <1>13, <2>1, <2>2 DEF LabelsStand
  <1>15. Carry(labels, labels')  BY <1>1 DEF Carry
  <1>16. RowsFollow  BY <1>2, <1>3, TheRows, SameRows, RowsFollowMoved
  <1> QED  BY <1>2, <1>12, <1>14, <1>15, <1>16, CarriedKept

(* A row comes before those there were.                                      *)
ComesFirst(p, q, row) ==
    /\ q.variants \in Seq(Range(q.variants)) /\ q.variants # <<>>
    /\ 1 \in Slots(q) /\ q.variants[1] = row
    /\ \A i \in Slots(p) : i + 1 \in Slots(q) /\ q.variants[i + 1] = p.variants[i]
    /\ \A i \in Slots(q) :
          i \in Nat /\ (i = 1 \/ (i - 1 \in Slots(p) /\ q.variants[i] = p.variants[i - 1]))

LEMMA RowBefore ==
    ASSUME NEW p, NEW q, NEW row, p.variants \in Seq(Range(p.variants)),
           q.variants = <<row>> \o p.variants
    PROVE  ComesFirst(p, q, row)
  <1> DEFINE S == Range(p.variants) \cup {row}
             n == Len(p.variants)
  <1>1. p.variants \in Seq(S) /\ <<row>> \in Seq(S)  OBVIOUS
  <1>2. n \in Nat /\ Slots(p) = 1 .. n  BY <1>1 DEF Slots
  <1> HIDE DEF S
  <1>3. /\ Len(q.variants) = n + 1 /\ q.variants[1] = row /\ q.variants \in Seq(S)
        /\ \A i \in 1 .. n : q.variants[i + 1] = p.variants[i]
        BY <1>1
  <1>4. DOMAIN q.variants = 1 .. n + 1  BY <1>3
  <1>5. q.variants = [i \in 1 .. n + 1 |-> q.variants[i]]  BY <1>3, <1>4, SequenceIs
  <1> HIDE DEF n
  <1>6. q.variants \in Seq(Range(q.variants))
    <2> DEFINE k == n + 1
    <2>1. k \in Nat  BY <1>2
    <2>2. q.variants = [i \in 1 .. k |-> q.variants[i]]  BY <1>5
    <2> HIDE DEF k
    <2> QED  BY <2>1, <2>2, SeqOfIts
  <1>7. q.variants # <<>>  BY <1>2, <1>3
  <1>8. Slots(q) = 1 .. n + 1  BY <1>4 DEF Slots
  <1>9. \A i \in 1 .. n : i + 1 \in 1 .. n + 1  BY <1>2
  <1>10. ASSUME NEW i \in 1 .. n + 1, i # 1
         PROVE  i - 1 \in 1 .. n /\ q.variants[i] = p.variants[i - 1]
    <2>1. i - 1 \in 1 .. n /\ (i - 1) + 1 = i  BY <1>2, <1>10
    <2> QED  BY <1>3, <2>1
  <1>11. 1 \in 1 .. n + 1 /\ \A i \in 1 .. n + 1 : i \in Nat  BY <1>2
  <1> QED  BY <1>2, <1>3, <1>6, <1>7, <1>8, <1>9, <1>10, <1>11 DEF ComesFirst

(* The migration's row has an id and a size of its own.                      *)
LEMMA MigratedKept ==
    ASSUME LabelInv, NEW h \in Handlers, PlainMove(h), Migrate(h)
    PROVE  LabelInv' /\ RowsFollow
  <1> DEFINE row == [id |-> lastId + 1, sku |-> Plain, stock |-> req[h].read.stock,
                     reserved |-> req[h].read.reserved, version |-> 0]
             n == req[h].read.stock
  <1>1. CASE UNCHANGED catalogue  BY <1>1, CatalogueQuiet, QuietKept DEF LabelInv
  <1>2. CASE ~ UNCHANGED catalogue
    <2>1. /\ Plain \notin Skus(product)
          /\ product' = [product EXCEPT !.variants = <<row>> \o @, !.stock = n, !.reserved = 0]
          /\ lastId' = lastId + 1 /\ dropped' = dropped \cup {Plain}
          BY <1>2, Zenon DEF Migrate
    <2>2. UNCHANGED <<labels, aliases, codes, vendor>>  BY <1>2, Zenon DEF Migrate, labelRows
    <2>3. RowsStand /\ LabelsStand /\ lastId \in Nat  BY DEF LabelInv, RowsStand
    <2>4. RowShape(row) /\ row.id = lastId + 1 /\ row.sku = Plain  BY DEF RowShape
    <2> HIDE DEF row, n
    <2>5. ProductShape(product') /\ product'.variants = <<row>> \o product.variants
          BY <2>1, <2>3 DEF RowsStand, ProductShape
    <2>6. product.variants \in Seq(Range(product.variants))  BY <2>3 DEF RowsStand
    <2>7. ComesFirst(product, product', row)  BY <2>5, <2>6, RowBefore
    <2>8. /\ product'.variants \in Seq(Range(product'.variants)) /\ product'.variants # <<>>
          /\ 1 \in Slots(product') /\ product'.variants[1] = row
          /\ \A i \in Slots(product) :
                i + 1 \in Slots(product') /\ product'.variants[i + 1] = product.variants[i]
          /\ \A i \in Slots(product') :
                /\ i \in Nat
                /\ \/ i = 1
                   \/ i - 1 \in Slots(product) /\ product'.variants[i] = product.variants[i - 1]
          BY <2>7 DEF ComesFirst
    <2>9. \A i \in Slots(product) :
             /\ RowShape(product.variants[i]) /\ product.variants[i].id \in 1 .. lastId
             /\ product.variants[i].sku # Plain
           BY <2>1, <2>3 DEF RowsStand, Skus
    <2>10. Skus(product') = Skus(product) \cup {Plain}  BY <2>4, <2>8 DEF Skus
    <2>11. RowsStand'
      <3>1. \A i \in Slots(product') :
               RowShape(product'.variants[i]) /\ product'.variants[i].id \in 1 .. lastId'
        <4>1. ASSUME NEW i \in Slots(product')
              PROVE  RowShape(product'.variants[i]) /\ product'.variants[i].id \in 1 .. lastId + 1
          <5>1. CASE i = 1  BY <2>3, <2>4, <2>8, <5>1
          <5>2. CASE i # 1
            <6>1. RowShape(product.variants[i - 1]) /\ product.variants[i - 1].id \in 1 .. lastId
                  BY <2>8, <2>9, <5>2
            <6>2. product'.variants[i] = product.variants[i - 1]  BY <2>8, <5>2
            <6> QED  BY <2>3, <6>1, <6>2
          <5> QED  BY <5>1, <5>2
        <4> QED  BY <2>1, <4>1
      <3>2. ASSUME NEW i \in Slots(product'), NEW j \in Slots(product'),
                   \/ product'.variants[i].id = product'.variants[j].id
                   \/ product'.variants[i].sku = product'.variants[j].sku
            PROVE  i = j
        <4>1. CASE i = 1 \/ j = 1
          <5>1. \A k \in Slots(product') : k # 1 =>
                   /\ product'.variants[k].id \in 1 .. lastId /\ product'.variants[k].sku # Plain
                BY <2>8, <2>9
          <5>2. lastId + 1 \notin 1 .. lastId  BY <2>3
          <5> QED  BY <2>4, <2>8, <3>2, <4>1, <5>1, <5>2
        <4>2. CASE i # 1 /\ j # 1
          <5>1. /\ i - 1 \in Slots(product) /\ j - 1 \in Slots(product)
                /\ product'.variants[i] = product.variants[i - 1]
                /\ product'.variants[j] = product.variants[j - 1]
                BY <2>8, <4>2
          <5>2. i - 1 = j - 1  BY <2>3, <3>2, <5>1 DEF RowsStand
          <5> QED  BY <2>8, <5>2
        <4> QED  BY <4>1, <4>2
      <3>3. lastId' \in Nat  BY <2>1, <2>3
      <3> QED  BY <2>5, <2>8, <3>1, <3>2, <3>3 DEF RowsStand
    <2>12. LabelsStand'
      <3>1. ASSUME NEW l \in labels
            PROVE  /\ l.key \in 0 .. lastId'
                   /\ \A i \in Slots(product') :
                         product'.variants[i].id = l.key => product'.variants[i].sku = l.sku
                   /\ l.sku \in Skus(product') \cup dropped'
                   /\ l.sku \in Skus(product') \ dropped' =>
                         \E i \in Slots(product') : product'.variants[i].id = l.key
        <4>1. l.key \in 0 .. lastId  BY <2>3 DEF LabelsStand
        <4>2. \A i \in Slots(product) : product.variants[i].id = l.key => product.variants[i].sku = l.sku
              BY <2>3 DEF LabelsStand
        <4>3. l.sku \in Skus(product) \cup dropped \/ l.sku = Plain  BY <2>3 DEF LabelsStand
        <4>4. l.sku \in Skus(product) \ dropped => \E i \in Slots(product) : product.variants[i].id = l.key
              BY <2>3 DEF LabelsStand
        <4>5. \A i \in Slots(product') :
                 product'.variants[i].id = l.key => product'.variants[i].sku = l.sku
          <5>1. l.key # lastId + 1  BY <2>3, <4>1
          <5> QED  BY <2>4, <2>8, <4>2, <5>1
        <4>6. l.sku \in Skus(product') \ dropped' =>
                 \E i \in Slots(product') : product'.variants[i].id = l.key
              BY <2>1, <2>8, <2>10, <4>4
        <4>7. l.key \in 0 .. lastId'  BY <2>1, <2>3, <4>1
        <4> QED  BY <2>1, <2>10, <4>3, <4>5, <4>6, <4>7
      <3> QED  BY <2>2, <2>3, <2>8, <3>1 DEF HasVariants, LabelsStand
    <2>13. RowsFollow
      <3>1. lastId + 1 > lastId /\ lastId <= lastId'  BY <2>1, <2>3
      <3> QED  BY <2>4, <2>8, <3>1 DEF RowsFollow
    <2> QED  BY <2>2, <2>11, <2>12, <2>13, SameCarry, CarriedKept
  <1> QED  BY <1>1, <1>2

(* The form of the product and the migration                                 *)
LEMMA SavedKept ==
    ASSUME DeskInv, LabelInv, NEW h \in Handlers, Concerns(h, StockKinds), Save(h)
    PROVE  LabelInv' /\ RowsFollow
  <1>1. At(h, "save") /\ RowsStand /\ StockRead  BY Zenon DEF Save, LabelInv
  <1>2. Busy(h) /\ req[h].kind \notin LabelKinds /\ req[h].read.c \in Changes
        BY <1>1, StockAt DEF LabelKinds
  <1>3. CASE Stop(h) /\ UNCHANGED catalogue
        BY <1>1, <1>2, <1>3, StockStops, CatalogueQuiet, QuietKept
  <1>4. CASE ~ (Stop(h) /\ UNCHANGED catalogue)
    <2>1. /\ SaveFields(h) \/ SaveStock(h) \/ SaveSimple(h) \/ SavePipeline(h) \/ SaveMatrix(h)
          /\ GoOn(h, <<"labels", "tell">>, [row |-> req[h].read.row, saved |-> product'])
          /\ UNCHANGED <<aliases, codes, vendor>>
          BY <1>4, Zenon DEF Save
    <2>2. PlainMove(h)  BY <1>2, <2>1, PlainGo DEF PlainPlans
    <2>3. ProductShape(product)  BY <1>1 DEF RowsStand
    <2>4. CASE SaveFields(h)
      <3> DEFINE yes == /\ req[h].read.c.what = "list"
                        /\ \/ product.active \/ req[h].read.row.active
                           \/ CanActivate(req[h].read.row)
      <3>1. UNCHANGED <<labels, lastId, dropped>>  BY <2>4, Zenon DEF SaveFields
      <3>2. product' = [product EXCEPT !.active = yes]  BY <2>4 DEF SaveFields
      <3> HIDE DEF yes
      <3>3. StockQuiet  BY <1>1, <2>1, <2>3, <3>1, <3>2, ActivePut, FieldsQuiet
      <3> QED  BY <2>2, <3>3, QuietKept
    <2>5. CASE SaveStock(h)
      <3>1. UNCHANGED <<labels, lastId, dropped>>  BY <2>5, Zenon DEF SaveStock
      <3>2. product' = [product EXCEPT !.stock = req[h].read.form.stock]
            BY <2>5, Zenon DEF SaveStock
      <3>3. StockQuiet  BY <1>1, <2>1, <2>3, <3>1, <3>2, ProductPut, FieldsQuiet
      <3> QED  BY <2>2, <3>3, QuietKept
    <2>6. CASE SaveSimple(h)  BY <2>1, <2>2, <2>6, SimpleKept
    <2>7. CASE SavePipeline(h)
      <3>1. UNCHANGED <<product, labels, lastId, dropped>>  BY <2>7, Zenon DEF SavePipeline
      <3> QED  BY <1>1, <2>1, <2>2, <3>1, RowsQuiet, QuietKept
    <2>8. CASE SaveMatrix(h)  BY <1>2, <2>1, <2>2, <2>8, MatrixKept
    <2> QED  BY <2>1, <2>4, <2>5, <2>6, <2>7, <2>8
  <1> QED  BY <1>3, <1>4

LEMMA FormKept ==
    ASSUME DeskInv, LabelInv, NEW h \in Handlers, Concerns(h, StockKinds),
           \/ OpenForm(h) \/ ReadProduct(h) \/ EnsureLabels(h) \/ TellShoppers(h)
           \/ StartMigration(h) \/ Migrate(h)
    PROVE  LabelInv' /\ RowsFollow
  <1>0. RowsStand /\ StockRead  BY DEF LabelInv
  <1>1. CASE OpenForm(h)
    <2>1. PICK c \in Changes :
             Begin(h, c.what, <<"read", "save", "labels", "tell">>, [form |-> product, c |-> c])
          BY <1>1, Zenon DEF OpenForm
    <2>2. c.what \notin LabelKinds  BY DEF Changes, LabelKinds
    <2>3. [form |-> product, c |-> c].c \in Changes  OBVIOUS
    <2>4. PlainMove(h)  BY <2>1, <2>2, <2>3, PlainBegins DEF FormPlans
    <2>5. UNCHANGED catalogue  BY <1>1, Zenon DEF OpenForm
    <2> QED  BY <1>0, <2>4, <2>5, CatalogueQuiet, QuietKept
  <1>2. CASE ReadProduct(h)
    <2> DEFINE read == [form |-> req[h].read.form, c |-> req[h].read.c, row |-> product]
    <2>1. At(h, "read") /\ GoOn(h, <<"save", "labels", "tell">>, read) /\ UNCHANGED catalogue
          BY <1>2, Zenon DEF ReadProduct
    <2>2. Busy(h) /\ req[h].kind \notin LabelKinds /\ req[h].read.c \in Changes
          BY <1>0, <2>1, StockAt DEF LabelKinds
    <2>3. read.c \in Changes  BY <2>2
    <2> HIDE DEF read
    <2>4. PlainMove(h)  BY <2>1, <2>2, <2>3, PlainGo DEF FormPlans
    <2> QED  BY <1>0, <2>1, <2>4, CatalogueQuiet, QuietKept
  <1>3. CASE EnsureLabels(h)
    <2>1. At(h, "labels") /\ Proceed(h)  BY <1>3, Zenon DEF EnsureLabels
    <2>2. PlainMove(h)  BY <1>0, <2>1, StockProceeds
    <2> QED  BY <1>3, <2>2, EnsuredKept
  <1>4. CASE TellShoppers(h)
    <2>1. At(h, "tell") /\ Proceed(h) /\ UNCHANGED <<product, labelRows, lastId, past>>
          BY <1>4, Zenon DEF TellShoppers
    <2>2. PlainMove(h)  BY <1>0, <2>1, StockProceeds
    <2>3. StockQuiet  BY <1>0, <2>1, RowsQuiet DEF labelRows, past
    <2> QED  BY <2>2, <2>3, QuietKept
  <1>5. CASE StartMigration(h)
    <2>1. Begin(h, "migrate", <<"migrate">>, product) /\ UNCHANGED catalogue
          BY <1>5, Zenon DEF StartMigration
    <2>2. PlainMove(h)  BY <2>1, PlainBegins DEF PlainPlans, LabelKinds
    <2> QED  BY <1>0, <2>1, <2>2, CatalogueQuiet, QuietKept
  <1>6. CASE Migrate(h)
    <2>1. At(h, "migrate") /\ Proceed(h)  BY <1>6, Zenon DEF Migrate
    <2>2. PlainMove(h)  BY <1>0, <2>1, StockProceeds
    <2> QED  BY <1>6, <2>2, MigratedKept
  <1> QED  BY <1>1, <1>2, <1>3, <1>4, <1>5, <1>6

(* Labels that change in their codes and in whether they were sent           *)
LEMMA LabelsAside ==
    ASSUME RowsStand, LabelsStand, UNCHANGED <<product, lastId, dropped>>,
           codes' \in Nat, codes' >= codes,
           \A m \in labels' : /\ LabelShape(m)
                              /\ \E l \in labels : m.id = l.id /\ m.key = l.key /\ m.sku = l.sku,
           \A m, n \in labels' : m.id = n.id => m = n
    PROVE  RowsStand' /\ LabelsStand'
  <1>1. RowsStand'  BY DEF RowsStand, ProductShape, Slots
  <1>2. codes \in Nat /\ \A k \in 1 .. codes : k \in 1 .. codes'  BY DEF LabelsStand
  <1>3. ASSUME NEW m \in labels'
        PROVE  /\ LabelShape(m) /\ m.id \in 1 .. codes' /\ m.key \in 0 .. lastId
               /\ \A i \in Slots(product) :
                     product.variants[i].id = m.key => product.variants[i].sku = m.sku
               /\ \/ m.sku \in Skus(product) \cup dropped
                  \/ m.sku = Plain /\ ~ HasVariants(product)
               /\ m.sku \in Skus(product) \ dropped =>
                     \E i \in Slots(product) : product.variants[i].id = m.key
    <2>1. PICK l \in labels : m.id = l.id /\ m.key = l.key /\ m.sku = l.sku  OBVIOUS
    <2>2. LabelShape(m)  OBVIOUS
    <2>3. l.id \in 1 .. codes /\ l.key \in 0 .. lastId  BY DEF LabelsStand
    <2>4. \A i \in Slots(product) :
             product.variants[i].id = l.key => product.variants[i].sku = l.sku
          BY DEF LabelsStand
    <2>5. /\ \/ l.sku \in Skus(product) \cup dropped
             \/ l.sku = Plain /\ ~ HasVariants(product)
          /\ l.sku \in Skus(product) \ dropped =>
                \E i \in Slots(product) : product.variants[i].id = l.key
          BY DEF LabelsStand
    <2> QED  BY <1>2, <2>1, <2>2, <2>3, <2>4, <2>5
  <1> QED  BY <1>1, <1>3 DEF LabelsStand

LEMMA LabelFound ==
    ASSUME DeskInv, LabelInv, NEW h \in Handlers, NEW kind \in LabelKinds, FindLabel(h, kind)
    PROVE  LabelInv' /\ RowsFollow
  <1>1. PICK code \in KnownCodes, l \in labels :
           /\ Carries(l, code)
           /\ Begin(h, kind, <<kind>>, [code |-> code, label |-> l])
        BY Zenon DEF FindLabel
  <1>2. UNCHANGED catalogue  BY Zenon DEF FindLabel
  <1>3. OthersStay(h) /\ crossed \subseteq crossed'  BY <1>1, AfterBegin
  <1>4. Busy(h)' => /\ req'[h].todo = <<kind>> /\ req'[h].kind = kind
                    /\ req'[h].read = [code |-> code, label |-> l]
    <2> DEFINE plan == <<kind>>
               read == [code |-> code, label |-> l]
    <2>1. Begin(h, kind, plan, read)  BY <1>1
    <2> HIDE DEF plan, read
    <2>2. Busy(h)' => req'[h].todo = plan /\ req'[h].kind = kind /\ req'[h].read = read
          BY <2>1, AfterBegin
    <2> QED  BY <2>2 DEF plan, read
  <1>5. Busy(h)' => LabelOf(h)' = l /\ req'[h].read.code = code  BY <1>4 DEF LabelOf
  <1>6. l \in labels' /\ aliases' = aliases /\ vendor' = vendor  BY <1>2 DEF catalogue
  <1>7. Busy(h)' => /\ req'[h].kind = "mark" => ToMark(h)'
                    /\ req'[h].kind = "regenerate" => ToRegenerate(h)'
    <2>1. l.code = code \/ Aliased(code, l)  BY <1>1 DEF Carries, Aliased
    <2>2. Aliased(code, l)' <=> Aliased(code, l)  BY <1>6 DEF Aliased
    <2>3. Busy(h)' => ToMark(h)'  BY <1>5, <1>6, <2>1, <2>2 DEF ToMark, Aliased
    <2>4. Busy(h)' => ToRegenerate(h)'  BY <1>5, <1>6 DEF ToRegenerate
    <2> QED  BY <2>3, <2>4
  <1>8. VendorStands'
    <2>1. Carry(labels, labels')  BY <1>2, SameCarry DEF catalogue
    <2> QED  BY <1>3, <1>6, <1>7, <2>1, VendorAside DEF LabelInv
  <1>9. StockRead'
    <2>1. Busy(h)' => StockPlan(req'[h])  BY <1>4 DEF StockPlan
    <2> QED  BY <1>3, <2>1 DEF LabelInv, StockRead, OthersStay
  <1>10. RowsStand' /\ LabelsStand'
    <2>1. StockQuiet  BY <1>2, CatalogueQuiet DEF LabelInv
    <2> QED  BY <2>1, RowsAside DEF LabelInv, StockQuiet
  <1>11. RowsFollow  BY <1>2, TheRows, SameRows, RowsFollowMoved DEF LabelInv, catalogue
  <1> QED  BY <1>8, <1>9, <1>10, <1>11 DEF LabelInv

(* One request about a label at a time, when the two were never at once.     *)
LEMMA OneAtALabel ==
    ASSUME DeskInv, Apart("mark", "regenerate"), NEW g \in Handlers, NEW h \in Handlers,
           Busy(g), Busy(h), req[g].kind = "mark"
    PROVE  req[h].kind # "regenerate"
  BY DEF DeskInv, Apart

LEMMA AtALabel ==
    ASSUME DeskInv, LabelInv, NEW h \in Handlers, Concerns(h, StockKinds),
           NEW step \in LabelKinds, At(h, step), Proceed(h)
    PROVE  /\ Busy(h) /\ req[h].kind = step /\ PlainMove(h) /\ ~ Busy(h)' /\ crossed' = crossed
  <1>1. Busy(h) /\ req[h].kind = step /\ req[h].todo = <<req[h].kind>>  BY StockAt DEF LabelInv
  <1>2. Tail(req[h].todo) = <<>>  BY <1>1
  <1>3. /\ OthersStay(h) /\ crossed' = crossed /\ ~ Busy(h)'  BY <1>1, <1>2, AfterGoOn DEF Proceed
  <1> QED  BY <1>1, <1>3 DEF PlainMove

LEMMA MarkedKept ==
    ASSUME DeskInv, LabelInv, NEW h \in Handlers, Concerns(h, StockKinds), MarkSent(h)
    PROVE  LabelInv' /\ RowsFollow
  <1> DEFINE read == req[h].read
             New(l) == IF ~ read.label.sent /\ l.id = read.label.id THEN [l EXCEPT !.sent = TRUE]
                       ELSE l
  <1>1. At(h, "mark") /\ Proceed(h)  BY Zenon DEF MarkSent
  <1>2. /\ labels' = {New(l) : l \in labels}
        /\ vendor' = vendor \cup {[code |-> read.code, sku |-> read.label.sku]}
        /\ UNCHANGED <<product, aliases, codes, lastId, dropped>>
    <2>1. labels' = IF read.label.sent THEN labels
                    ELSE {IF l.id = read.label.id THEN [l EXCEPT !.sent = TRUE] ELSE l :
                          l \in labels}
          BY Zenon DEF MarkSent
    <2>2. CASE read.label.sent  BY <2>1, <2>2, Zenon DEF MarkSent
    <2>3. CASE ~ read.label.sent  BY <2>1, <2>3, Zenon DEF MarkSent
    <2> QED  BY <2>2, <2>3
  <1>3. /\ Busy(h) /\ req[h].kind = "mark" /\ PlainMove(h) /\ ~ Busy(h)' /\ crossed' = crossed
        BY <1>1, AtALabel DEF LabelKinds
  <1>4. RowsStand /\ LabelsStand /\ codes \in Nat  BY DEF LabelInv, LabelsStand
  <1>5. ASSUME NEW l \in labels
        PROVE  /\ LabelShape(New(l)) /\ New(l).id = l.id /\ New(l).key = l.key
               /\ New(l).sku = l.sku /\ New(l).code = l.code
               /\ l.sent => New(l).sent
               /\ l.id = read.label.id /\ ~ read.label.sent => New(l).sent
    <2>1. LabelShape(l)  BY <1>4 DEF LabelsStand
    <2> QED  BY <2>1 DEF LabelShape
  <1> HIDE DEF New
  <1>6. RowsStand' /\ LabelsStand'
    <2>1. ASSUME NEW m \in labels'
          PROVE  /\ LabelShape(m)
                 /\ \E l \in labels : m.id = l.id /\ m.key = l.key /\ m.sku = l.sku
          BY <1>2, <1>5
    <2>2. ASSUME NEW m \in labels', NEW n \in labels', m.id = n.id PROVE m = n
      <3>1. PICK k \in labels, l \in labels : m = New(k) /\ n = New(l)  BY <1>2
      <3>2. k.id = l.id  BY <1>5, <2>2, <3>1
      <3>3. k = l  BY <1>4, <3>2 DEF LabelsStand
      <3> QED  BY <3>1, <3>3
    <2> QED  BY <1>2, <1>4, <2>1, <2>2, LabelsAside
  <1>7. StockRead'  BY <1>3, ReadAside DEF LabelInv
  <1>8. ASSUME Apart("mark", "regenerate")'
        PROVE  /\ \A v \in vendor' : \E m \in labels' :
                     m.sku = v.sku /\ (Aliased(v.code, m) \/ (m.code = v.code /\ m.sent))
               /\ \A g \in Doing({"mark"})' : ToMark(g)'
               /\ Doing({"regenerate"})' = {}
    <2>1. Apart("mark", "regenerate")  BY <1>3, <1>8 DEF Apart
    <2>2. \A c, l : l \in labels => (Aliased(c, l) <=> Aliased(c, New(l)))  BY <1>5 DEF Aliased
    <2>3. ASSUME NEW v \in vendor
          PROVE  \E m \in labels' :
                    m.sku = v.sku /\ (Aliased(v.code, m) \/ (m.code = v.code /\ m.sent))
      <3>1. PICK l \in labels :
               l.sku = v.sku /\ (Aliased(v.code, l) \/ (l.code = v.code /\ l.sent))
            BY <2>1 DEF LabelInv, VendorStands
      <3> QED  BY <1>2, <1>5, <2>2, <3>1
    <2>4. \E m \in labels' :
             /\ m.sku = read.label.sku
             /\ Aliased(read.code, m) \/ (m.code = read.code /\ m.sent)
      <3>1. ToMark(h)  BY <1>3, <2>1 DEF LabelInv, VendorStands, Doing
      <3>2. PICK l \in labels :
               /\ l.id = read.label.id /\ l.sku = read.label.sku
               /\ \/ Aliased(read.code, l)
                  \/ l.code = read.code /\ (read.label.sent => l.sent)
            BY <3>1 DEF ToMark, LabelOf
      <3> QED  BY <1>2, <1>5, <2>2, <3>2
    <2>5. ASSUME NEW g \in Doing({"mark"})' PROVE ToMark(g)'
      <3>1. g \in Doing({"mark"}) /\ req'[g] = req[g]
            BY <1>3, <2>5 DEF Doing, PlainMove, OthersStay
      <3>2. PICK l \in labels :
               /\ l.id = LabelOf(g).id /\ l.sku = LabelOf(g).sku
               /\ \/ Aliased(req[g].read.code, l)
                  \/ l.code = req[g].read.code /\ (LabelOf(g).sent => l.sent)
            BY <2>1, <3>1 DEF LabelInv, VendorStands, ToMark
      <3>3. New(l) \in labels' /\ aliases' = aliases  BY <1>2
      <3> QED  BY <1>5, <3>1, <3>2, <3>3 DEF ToMark, LabelOf, Aliased
    <2>6. ASSUME NEW g \in Doing({"regenerate"})' PROVE FALSE
      <3>1. g \in Handlers /\ Busy(g) /\ req[g].kind = "regenerate"
            BY <1>3, <2>6 DEF Doing, PlainMove, OthersStay
      <3> QED  BY <1>3, <2>1, <3>1, OneAtALabel
    <2> QED  BY <1>2, <2>3, <2>4, <2>5, <2>6
  <1>9. VendorStands'  BY <1>2, <1>8 DEF VendorStands, Aliased
  <1>10. RowsFollow  BY <1>2, <1>4, TheRows, SameRows, RowsFollowMoved
  <1> QED  BY <1>6, <1>7, <1>9, <1>10 DEF LabelInv

LEMMA RegeneratedKept ==
    ASSUME DeskInv, LabelInv, NEW h \in Handlers, Concerns(h, StockKinds), Regenerate(h)
    PROVE  LabelInv' /\ RowsFollow
  <1> DEFINE old == req[h].read.label
             New(l) == IF l.id = old.id THEN [l EXCEPT !.code = codes + 1, !.sent = FALSE] ELSE l
  <1>1. At(h, "regenerate") /\ Proceed(h)  BY Zenon DEF Regenerate
  <1>2. /\ Busy(h) /\ req[h].kind = "regenerate" /\ PlainMove(h) /\ ~ Busy(h)'
        /\ crossed' = crossed
        BY <1>1, AtALabel DEF LabelKinds
  <1>3. CASE UNCHANGED catalogue  BY <1>2, <1>3, CatalogueQuiet, QuietKept DEF LabelInv
  <1>4. CASE ~ UNCHANGED catalogue
    <2>1. /\ labels' = {New(l) : l \in labels}
          /\ aliases' = aliases \cup OldCode(old) /\ codes' = codes + 1
          /\ UNCHANGED <<product, lastId, dropped, vendor>>
          BY <1>4, Zenon DEF Regenerate
    <2>2. RowsStand /\ LabelsStand /\ codes \in Nat  BY DEF LabelInv, LabelsStand
    <2>3. ASSUME NEW l \in labels
          PROVE  /\ LabelShape(New(l)) /\ New(l).id = l.id /\ New(l).key = l.key
                 /\ New(l).sku = l.sku
                 /\ l.id = old.id => ~ New(l).sent
                 /\ l.id # old.id => New(l) = l
      <3>1. LabelShape(l)  BY <2>2 DEF LabelsStand
      <3> QED  BY <3>1 DEF LabelShape
    <2> HIDE DEF New
    <2>4. RowsStand' /\ LabelsStand'
      <3>1. ASSUME NEW m \in labels'
            PROVE  /\ LabelShape(m)
                   /\ \E l \in labels : m.id = l.id /\ m.key = l.key /\ m.sku = l.sku
            BY <2>1, <2>3
      <3>2. ASSUME NEW m \in labels', NEW n \in labels', m.id = n.id PROVE m = n
        <4>1. PICK k \in labels, l \in labels : m = New(k) /\ n = New(l)  BY <2>1
        <4>2. k.id = l.id  BY <2>3, <3>2, <4>1
        <4>3. k = l  BY <2>2, <4>2 DEF LabelsStand
        <4> QED  BY <4>1, <4>3
      <3>3. codes' \in Nat /\ codes' >= codes  BY <2>1, <2>2
      <3> QED  BY <2>1, <2>2, <3>1, <3>2, <3>3, LabelsAside
    <2>5. StockRead'  BY <1>2, ReadAside DEF LabelInv
    <2>6. ASSUME Apart("mark", "regenerate")'
          PROVE  /\ \A v \in vendor : \E m \in labels' :
                       /\ m.sku = v.sku
                       /\ Aliased(v.code, m)' \/ (m.code = v.code /\ m.sent)
                 /\ Doing({"mark"})' = {}
                 /\ \A g \in Doing({"regenerate"})' : ToRegenerate(g)'
      <3>1. Apart("mark", "regenerate")  BY <1>2, <2>6 DEF Apart
      <3>2. ToRegenerate(h)  BY <1>2, <3>1 DEF LabelInv, VendorStands, Doing
      <3>3. ASSUME NEW l \in labels, l.id = old.id, l.sent
            PROVE  l.code = old.code /\ old.sent
        <4>1. PICK m \in labels : m.id = old.id /\ (m.sent => m.code = old.code /\ old.sent)
              BY <3>2 DEF ToRegenerate, LabelOf
        <4>2. m = l  BY <2>2, <3>3, <4>1 DEF LabelsStand
        <4> QED  BY <3>3, <4>1, <4>2
      <3>4. ASSUME NEW v \in vendor
            PROVE  \E m \in labels' : /\ m.sku = v.sku
                                      /\ Aliased(v.code, m)' \/ (m.code = v.code /\ m.sent)
        <4>1. PICK l \in labels :
                 l.sku = v.sku /\ (Aliased(v.code, l) \/ (l.code = v.code /\ l.sent))
              BY <3>1 DEF LabelInv, VendorStands
        <4>2. New(l) \in labels' /\ New(l).sku = v.sku /\ New(l).id = l.id  BY <2>1, <2>3, <4>1
        <4>3. CASE Aliased(v.code, l)
          <5>1. [code |-> v.code, label |-> New(l).id] \in aliases'  BY <2>1, <4>2, <4>3 DEF Aliased
          <5> QED  BY <4>2, <5>1 DEF Aliased
        <4>4. CASE l.code = v.code /\ l.sent /\ l.id = old.id
          <5>1. old.code = v.code /\ old.sent  BY <3>3, <4>4
          <5>2. [code |-> v.code, label |-> old.id] \in aliases'  BY <2>1, <5>1 DEF OldCode
          <5>3. [code |-> v.code, label |-> New(l).id] \in aliases'  BY <4>2, <4>4, <5>2
          <5> QED  BY <4>2, <5>3 DEF Aliased
        <4>5. CASE l.code = v.code /\ l.sent /\ l.id # old.id
          <5>1. New(l) = l  BY <2>3, <4>5
          <5> QED  BY <4>1, <4>2, <4>5, <5>1
        <4> QED  BY <4>1, <4>3, <4>4, <4>5
      <3>5. ASSUME NEW g \in Doing({"mark"})' PROVE FALSE
        <4>1. g \in Handlers /\ Busy(g) /\ req[g].kind = "mark"
              BY <1>2, <3>5 DEF Doing, PlainMove, OthersStay
        <4> QED  BY <1>2, <3>1, <4>1, OneAtALabel
      <3>6. ASSUME NEW g \in Doing({"regenerate"})' PROVE ToRegenerate(g)'
        <4>1. g \in Doing({"regenerate"}) /\ req'[g] = req[g]
              BY <1>2, <3>6 DEF Doing, PlainMove, OthersStay
        <4>2. PICK l \in labels :
                 /\ l.id = LabelOf(g).id /\ l.sku = LabelOf(g).sku
                 /\ l.sent => l.code = LabelOf(g).code /\ LabelOf(g).sent
              BY <3>1, <4>1 DEF LabelInv, VendorStands, ToRegenerate
        <4>3. New(l) \in labels' /\ New(l).id = l.id /\ New(l).sku = l.sku  BY <2>1, <2>3
        <4>4. New(l).sent => New(l) = l  BY <2>3
        <4> QED  BY <4>1, <4>2, <4>3, <4>4 DEF ToRegenerate, LabelOf
      <3> QED  BY <3>4, <3>5, <3>6
    <2>7. VendorStands'  BY <2>1, <2>6 DEF VendorStands, Aliased
    <2>8. RowsFollow  BY <2>1, <2>2, TheRows, SameRows, RowsFollowMoved
    <2> QED  BY <2>4, <2>5, <2>7, <2>8 DEF LabelInv
  <1> QED  BY <1>3, <1>4

LEMMA CatalogueKept ==
    ASSUME DeskInv, LabelInv, NEW h \in Handlers, Concerns(h, StockKinds), CatalogueStep(h)
    PROVE  LabelInv' /\ RowsFollow
  <1>1. CASE \/ PlaceOrder(h) \/ GetRates(h) \/ HoldCredit(h) \/ Supersede(h) \/ Expire(h)
             \/ ReleaseStep(h) \/ FailStep(h) \/ PaymentArrives(h) \/ Fulfil(h)
        BY <1>1, OrdersKept, Zenon
  <1>2. CASE \/ OpenForm(h) \/ ReadProduct(h) \/ EnsureLabels(h) \/ TellShoppers(h)
             \/ StartMigration(h) \/ Migrate(h)
        BY <1>2, FormKept, Zenon
  <1>3. CASE Save(h)  BY <1>3, SavedKept
  <1>4. CASE FindLabel(h, "mark") \/ FindLabel(h, "regenerate")  BY <1>4, LabelFound DEF LabelKinds
  <1>5. CASE MarkSent(h)  BY <1>5, MarkedKept
  <1>6. CASE Regenerate(h)  BY <1>6, RegeneratedKept
  <1> QED  BY <1>1, <1>2, <1>3, <1>4, <1>5, <1>6, Zenon DEF CatalogueStep

(* Scanners move units, and write lines.                                     *)
LEMMA WarehouseKept ==
    ASSUME DeskInv, LabelInv, NEW h \in Handlers, Concerns(h, StockKinds), WarehouseStep(h)
    PROVE  LabelInv' /\ RowsFollow
  <1>0. RowsStand /\ StockRead  BY DEF LabelInv
  <1>1. CASE ScanToAdjust(h)
    <2>1. \E read : Begin(h, "adjust", <<"adjust">>, read)  BY <1>1, Zenon DEF ScanToAdjust
    <2>2. PlainMove(h)  BY <2>1, PlainBegins DEF PlainPlans, LabelKinds
    <2>3. UNCHANGED catalogue  BY <1>1, Zenon DEF ScanToAdjust
    <2> QED  BY <1>0, <2>2, <2>3, CatalogueQuiet, QuietKept
  <1>2. CASE Adjust(h)
    <2> DEFINE id == Live(product, req[h].read.id)
               delta == req[h].read.delta
    <2>1. At(h, "adjust") /\ UNCHANGED <<labelRows, lastId, past>>  BY <1>2, Zenon DEF Adjust
    <2>2. \/ Stop(h) /\ product' = product
          \/ /\ product' = AdjustedRow(product, id, delta)
             /\ GoOn(h, <<"tell">>, [row |-> product, saved |-> product'])
          BY <1>2, Zenon DEF Adjust
    <2>3. Busy(h) /\ req[h].kind \notin LabelKinds  BY <1>0, <2>1, StockAt DEF LabelKinds
    <2>4. StockRows(product) /\ Known(product, id)  BY <1>0, TheRows, LiveIsKnown
    <2>5. RowsMoved(product, product')  BY <2>2, <2>4, SameRows, AdjustedMoves
    <2>6. StockQuiet  BY <2>1, <2>5 DEF StockQuiet, labelRows, past
    <2>7. PlainMove(h)
      <3>1. CASE Stop(h)  BY <2>3, <3>1, StockStops
      <3>2. CASE GoOn(h, <<"tell">>, [row |-> product, saved |-> product'])
            BY <2>3, <3>2, PlainGo DEF PlainPlans
      <3> QED  BY <2>2, <3>1, <3>2
    <2> QED  BY <2>6, <2>7, QuietKept
  <1>3. CASE ScanLine(h)
    <2>1. \E read : Begin(h, "scan", <<"upsert">>, read)  BY <1>3, Zenon DEF ScanLine
    <2>2. PlainMove(h)  BY <2>1, PlainBegins DEF PlainPlans, LabelKinds
    <2>3. UNCHANGED catalogue  BY <1>3, Zenon DEF ScanLine
    <2> QED  BY <1>0, <2>2, <2>3, CatalogueQuiet, QuietKept
  <1>4. CASE UpsertLine(h)
    <2>1. At(h, "upsert") /\ Proceed(h) /\ UNCHANGED catalogue  BY <1>4, Zenon DEF UpsertLine
    <2>2. PlainMove(h)  BY <1>0, <2>1, StockProceeds
    <2> QED  BY <1>0, <2>1, <2>2, CatalogueQuiet, QuietKept
  <1>5. CASE PlanLine(h)
    <2>1. \E read : Begin(h, "plan", <<"write">>, read)  BY <1>5, Zenon DEF PlanLine
    <2>2. PlainMove(h)  BY <2>1, PlainBegins DEF PlainPlans, LabelKinds
    <2>3. UNCHANGED catalogue  BY <1>5, Zenon DEF PlanLine
    <2> QED  BY <1>0, <2>2, <2>3, CatalogueQuiet, QuietKept
  <1>6. CASE WriteLine(h)
    <2>1. At(h, "write") /\ Proceed(h) /\ UNCHANGED catalogue  BY <1>6, Zenon DEF WriteLine
    <2>2. PlainMove(h)  BY <1>0, <2>1, StockProceeds
    <2> QED  BY <1>0, <2>1, <2>2, CatalogueQuiet, QuietKept
  <1>7. CASE RemoveLine(h)
    <2>1. Begin(h, "plan", <<>>, {}) /\ UNCHANGED catalogue  BY <1>7, Zenon DEF RemoveLine
    <2>2. PlainMove(h)  BY <2>1, PlainBegins DEF LabelKinds
    <2> QED  BY <1>0, <2>1, <2>2, CatalogueQuiet, QuietKept
  <1>8. CASE OpenToClose(h, "discard", "discard") \/ OpenToClose(h, "confirm", "check")
    <2>1. UNCHANGED catalogue  BY <1>8, Zenon DEF OpenToClose
    <2>2. \E read : Begin(h, "discard", <<"discard">>, read) \/ Begin(h, "confirm", <<"check">>, read)
          BY <1>8, Zenon DEF OpenToClose
    <2>3. PlainMove(h)  BY <2>2, PlainBegins DEF PlainPlans, LabelKinds
    <2> QED  BY <1>0, <2>1, <2>3, CatalogueQuiet, QuietKept
  <1>9. CASE Discard(h)
    <2>1. At(h, "discard") /\ Proceed(h) /\ UNCHANGED catalogue  BY <1>9, Zenon DEF Discard
    <2>2. PlainMove(h)  BY <1>0, <2>1, StockProceeds
    <2> QED  BY <1>0, <2>1, <2>2, CatalogueQuiet, QuietKept
  <1>10. CASE CheckPlan(h)
    <2>1. At(h, "check") /\ UNCHANGED catalogue  BY <1>10, Zenon DEF CheckPlan
    <2>2. Stop(h) \/ \E read : GoOn(h, <<"apply">>, read)  BY <1>10, Zenon DEF CheckPlan
    <2>3. Busy(h) /\ req[h].kind \notin LabelKinds  BY <1>0, <2>1, StockAt DEF LabelKinds
    <2>4. ASSUME NEW read, GoOn(h, <<"apply">>, read) PROVE PlainMove(h)
          BY <2>3, <2>4, PlainGo DEF PlainPlans
    <2>5. PlainMove(h)  BY <2>2, <2>3, <2>4, StockStops
    <2> QED  BY <1>0, <2>1, <2>5, CatalogueQuiet, QuietKept
  <1>11. CASE ApplyPlan(h)
    <2>1. At(h, "apply") /\ Proceed(h) /\ UNCHANGED <<labelRows, lastId, past>>
          BY <1>11, Zenon DEF ApplyPlan
    <2>2. product' = product \/ product' = Altered(product, req[h].read.plan)
          BY <1>11, Zenon DEF ApplyPlan
    <2>3. RowsMoved(product, product')  BY <1>0, <2>2, TheRows, SameRows, AlteredMoves
    <2>4. StockQuiet  BY <2>1, <2>3 DEF StockQuiet, labelRows, past
    <2>5. PlainMove(h)  BY <1>0, <2>1, StockProceeds
    <2> QED  BY <2>4, <2>5, QuietKept
  <1> QED  BY <1>1, <1>2, <1>3, <1>4, <1>5, <1>6, <1>7, <1>8, <1>9, <1>10, <1>11, Zenon
           DEF WarehouseStep

(* Alerts leave the rows alone.                                              *)
LEMMA AlertsKept ==
    ASSUME DeskInv, LabelInv, NEW h \in Handlers, Concerns(h, StockKinds), AlertsStep(h)
    PROVE  LabelInv' /\ RowsFollow
  <1>0. RowsStand /\ StockRead  BY DEF LabelInv
  <1>1. CASE Subscribe(h)
    <2>1. \E read : Begin(h, "ask", <<"arm">>, read)  BY <1>1, Zenon DEF Subscribe
    <2>2. PlainMove(h)  BY <2>1, PlainBegins DEF PlainPlans, LabelKinds
    <2>3. UNCHANGED catalogue  BY <1>1, Zenon DEF Subscribe
    <2> QED  BY <1>0, <2>2, <2>3, CatalogueQuiet, QuietKept
  <1>2. CASE Toggle(h)
    <2>1. \E plan \in {<<"arm">>, <<>>} : \E read : Begin(h, "ask", plan, read)
          BY <1>2, Zenon DEF Toggle
    <2>2. PlainMove(h)  BY <2>1, PlainBegins DEF PlainPlans, LabelKinds
    <2>3. UNCHANGED catalogue  BY <1>2, Zenon DEF Toggle
    <2> QED  BY <1>0, <2>2, <2>3, CatalogueQuiet, QuietKept
  <1>3. CASE Arm(h)
    <2>1. At(h, "arm") /\ Proceed(h) /\ UNCHANGED catalogue  BY <1>3, Zenon DEF Arm, ArmFor
    <2>2. PlainMove(h)  BY <1>0, <2>1, StockProceeds
    <2> QED  BY <1>0, <2>1, <2>2, CatalogueQuiet, QuietKept
  <1>4. CASE Hook(h) \/ Job(h)
    <2>1. \E plan \in {<<"gather">>, <<"enrol", "gather">>} : \E read : Begin(h, "notify", plan, read)
          BY <1>4, Zenon DEF Hook, Job, Notify, Enrolment
    <2>2. UNCHANGED <<product, labels, aliases, codes, lastId, dropped, vendor>>
          BY <1>4, Zenon DEF Hook, Job, catalogue, labelRows, past
    <2>3. PlainMove(h)  BY <2>1, PlainBegins DEF PlainPlans, LabelKinds
    <2>4. StockQuiet  BY <1>0, <2>2, RowsQuiet
    <2> QED  BY <2>3, <2>4, QuietKept
  <1>5. CASE (At(h, "enrol") /\ Enrol(h)) \/ Gather(h) \/ (At(h, "mail") /\ Mail(h)) \/ Mark(h)
    <2> DEFINE plans == {<<>>, <<"enrol", "gather">>, <<"gather">>, <<"mail">>, <<"told">>}
    <2>1. UNCHANGED catalogue  BY <1>5, Zenon DEF Enrol, ArmFor, Gather, Mail, Mark
    <2>2. \E step \in {"enrol", "gather", "mail", "told"} : At(h, step)
          BY <1>5, Zenon DEF Gather, Mark
    <2>3. Stop(h) \/ \E plan \in plans : \E read : GoOn(h, plan, read)
          BY <1>5, Zenon DEF Enrol, Enrolment, Gather, Mail, Mark
    <2>4. Busy(h) /\ req[h].kind \notin LabelKinds  BY <1>0, <2>2, StockAt DEF LabelKinds
    <2>5. ASSUME NEW plan \in plans, NEW read, GoOn(h, plan, read) PROVE PlainMove(h)
          BY <2>4, <2>5, PlainGo DEF PlainPlans
    <2>6. PlainMove(h)  BY <2>3, <2>4, <2>5, StockStops
    <2> QED  BY <1>0, <2>1, <2>6, CatalogueQuiet, QuietKept
  <1> QED  BY <1>1, <1>2, <1>3, <1>4, <1>5, Zenon DEF AlertsStep

LEMMA LabelsBeside ==
    ASSUME LabelInv, StoodBy(StockKinds), UNCHANGED stock
    PROVE  LabelInv' /\ RowsFollow
  <1>1. UNCHANGED catalogue  BY DEF stock
  <1>2. UNCHANGED <<product, lastId, labels, codes, dropped, aliases, vendor>>
        BY <1>1 DEF catalogue
  <1>3. RowsStand' /\ LabelsStand'
    <2>1. StockQuiet  BY <1>1, CatalogueQuiet DEF LabelInv
    <2> QED  BY <2>1, RowsAside DEF LabelInv, StockQuiet
  <1>10. RowsFollow  BY <1>2, TheRows, SameRows, RowsFollowMoved DEF LabelInv
  <1>4. StockRead'  BY DEF LabelInv, StockRead, StoodBy, Busy, StockPlan
  <1>5. "mark" \in StockKinds /\ "regenerate" \in StockKinds  BY DEF StockKinds, ProductKinds
  <1>6. \A g \in Doing({"mark"})' : g \in Doing({"mark"}) /\ req'[g] = req[g]
        BY <1>5 DEF StoodBy, Doing, Busy
  <1>7. \A g \in Doing({"regenerate"})' : g \in Doing({"regenerate"}) /\ req'[g] = req[g]
        BY <1>5 DEF StoodBy, Doing, Busy
  <1>8. Apart("mark", "regenerate")' => Apart("mark", "regenerate")  BY DEF StoodBy, Apart
  <1>9. VendorStands'
    <2>1. \A g \in Doing({"mark"}) : req'[g] = req[g] /\ ToMark(g) => ToMark(g)'
          BY <1>2 DEF ToMark, LabelOf, Aliased
    <2>2. \A g \in Doing({"regenerate"}) : req'[g] = req[g] /\ ToRegenerate(g) => ToRegenerate(g)'
          BY <1>2 DEF ToRegenerate, LabelOf
    <2> QED  BY <1>2, <1>6, <1>7, <1>8, <2>1, <2>2 DEF LabelInv, VendorStands, Aliased
  <1> QED  BY <1>3, <1>4, <1>9, <1>10 DEF LabelInv

LEMMA LabelsCrash ==
    ASSUME DeskInv, LabelInv, NEW h \in Handlers, Crash(h), UNCHANGED stock
    PROVE  LabelInv' /\ RowsFollow
  <1>1. PlainMove(h)  BY AfterCrash DEF PlainMove
  <1>2. StockQuiet  BY CatalogueQuiet DEF stock, LabelInv
  <1> QED  BY <1>1, <1>2, QuietKept

(* What a step of the back office does to the product                        *)
LEMMA LabelsKept ==
    ASSUME DeskInv, LabelInv, NEW h \in Handlers, Step(h)
    PROVE  LabelInv' /\ RowsFollow
  <1>1. CASE StockStep(h)
    <2>1. \A kinds : kinds \subseteq StockKinds /\ Concerns(h, kinds) => Concerns(h, StockKinds)
          BY DEF Concerns
    <2>2. Concerns(h, StockKinds)  BY <1>1, <2>1 DEF StockStep, StockKinds
    <2>3. CatalogueStep(h) \/ WarehouseStep(h) \/ AlertsStep(h)  BY <1>1, Zenon DEF StockStep
    <2> QED  BY <2>2, <2>3, CatalogueKept, WarehouseKept, AlertsKept
  <1>2. CASE StoodBy(StockKinds) /\ UNCHANGED stock  BY <1>2, LabelsBeside
  <1>3. CASE Crash(h) /\ UNCHANGED stock  BY <1>3, LabelsCrash
  <1> QED  BY <1>1, <1>2, <1>3, StockOrNot

LEMMA PipelinePut ==
    ASSUME NEW p, ProductShape(p), NEW a
    PROVE  /\ ProductShape([p EXCEPT !.pipeline = a])
           /\ [p EXCEPT !.pipeline = a].variants = p.variants
  <1>1. DOMAIN p = {"pipeline", "stock", "reserved", "version", "active", "variants"}
        BY DEF ProductShape
  <1> DEFINE put == [p EXCEPT !.pipeline = a]
  <1>2. put.variants = p.variants  BY <1>1
  <1>3. put = [pipeline |-> put.pipeline, stock |-> put.stock, reserved |-> put.reserved,
               version |-> put.version, active |-> put.active, variants |-> put.variants]
        BY <1>1
  <1> QED  BY <1>2, <1>3 DEF ProductShape

(* The product at the start                                                  *)
LEMMA FirstRows ==
    ASSUME CatalogueInit, product # SimpleProduct
    PROVE  /\ ProductShape(product)
           /\ \E skus \in {<<"S", "M">>, <<"S">>} : \E units :
                 product.variants = Matrix(skus, units, 0)
  <1> DEFINE p(skus) == MatrixProduct(skus)
             q(skus) == [p(skus) EXCEPT !.pipeline = TRUE]
             rows(skus) == Matrix(skus, [i \in DOMAIN skus |-> Opening], 0)
  <1>1. ASSUME NEW skus
        PROVE  ProductShape(p(skus)) /\ p(skus).variants = rows(skus)
    <2> DEFINE n == Opening * Len(skus)
    <2>1. p(skus) = [SimpleProduct EXCEPT !.stock = n, !.variants = rows(skus)]
          BY DEF MatrixProduct
    <2> HIDE DEF p, n, rows
    <2> QED  BY <2>1 DEF SimpleProduct, ProductShape
  <1>2. ASSUME NEW skus
        PROVE  ProductShape(q(skus)) /\ q(skus).variants = rows(skus)
    <2> HIDE DEF p, rows
    <2> QED  BY <1>1, PipelinePut
  <1>3. \E skus \in {<<"S", "M">>, <<"S">>} : product = p(skus) \/ product = q(skus)
        BY Zenon DEF CatalogueInit
  <1> HIDE DEF p, q
  <1> QED  BY <1>1, <1>2, <1>3, Zenon

LEMMA FirstSizes ==
    \A skus \in {<<"S", "M">>, <<"S">>} :
        /\ skus \in Seq(Range(skus)) /\ Len(skus) \in 1 .. 2
        /\ \A i, j \in 1 .. Len(skus) : skus[i] = skus[j] => i = j
  <1> SUFFICES ASSUME NEW skus \in {<<"S", "M">>, <<"S">>}
               PROVE  /\ skus \in Seq(Range(skus)) /\ Len(skus) \in 1 .. 2
                      /\ \A i, j \in 1 .. Len(skus) : skus[i] = skus[j] => i = j
      OBVIOUS
  <1>1. <<"S", "M">> \in Seq({"S", "M"}) /\ Len(<<"S", "M">>) = 2  OBVIOUS
  <1>2. <<"S">> \in Seq({"S", "M"}) /\ Len(<<"S">>) = 1  OBVIOUS
  <1>3. skus \in Seq({"S", "M"}) /\ Len(skus) \in 1 .. 2 /\ Len(skus) \in Nat
    <2>1. CASE skus = <<"S", "M">>  BY <1>1, <2>1
    <2>2. CASE skus = <<"S">>  BY <1>2, <2>2
    <2> QED  BY <2>1, <2>2
  <1>4. skus \in Seq(Range(skus))  BY <1>3, SequenceIs, SeqOfIts
  <1>5. <<"S", "M">>[1] = "S" /\ <<"S", "M">>[2] = "M"  OBVIOUS
  <1>6. \A i, j \in 1 .. Len(skus) : skus[i] = skus[j] => i = j  BY <1>1, <1>2, <1>5
  <1> QED  BY <1>3, <1>4, <1>6

LEMMA LabelsBegin ==
    ASSUME Init
    PROVE  LabelInv
  <1>1. /\ CatalogueInit /\ lastId = 2 /\ codes = 2 /\ aliases = {} /\ vendor = {} /\ dropped = {}
        BY DEF Init, CatalogueInit
  <1>2. \A h \in Handlers : ~ Busy(h)  BY DEF Init, DeskInit, Idle, Busy
  <1>3. StockRead /\ VendorStands  BY <1>1, <1>2 DEF StockRead, VendorStands, Doing
  <1>4. CASE product = SimpleProduct
    <2>1. ProductShape(product) /\ product.variants = <<>>  BY <1>4 DEF SimpleProduct, ProductShape
    <2>2. Slots(product) = {} /\ ~ HasVariants(product)  BY <2>1 DEF Slots, HasVariants
    <2>3. <<>> \in Seq(Range(<<>>))  OBVIOUS
    <2>4. RowsStand  BY <1>1, <2>1, <2>2, <2>3 DEF RowsStand
    <2>5. labels = {NewLabel(0, 1)}  BY <1>1, <2>1 DEF CatalogueInit
    <2>6. NewLabel(0, 1) = [id |-> 1, code |-> 1, key |-> 0, sent |-> FALSE, sku |-> Plain]
          BY DEF NewLabel
    <2>7. Skus(product) = {}  BY <2>2 DEF Skus
    <2>8. LabelsStand  BY <1>1, <2>2, <2>5, <2>6, <2>7 DEF LabelsStand, LabelShape
    <2> QED  BY <1>3, <2>4, <2>8 DEF LabelInv
  <1>5. CASE product # SimpleProduct
    <2>1. PICK skus \in {<<"S", "M">>, <<"S">>} : \E units :
             ProductShape(product) /\ product.variants = Matrix(skus, units, 0)
          BY <1>1, <1>5, FirstRows, Zenon
    <2>2. PICK units : ProductShape(product) /\ product.variants = Matrix(skus, units, 0)  BY <2>1
    <2>3. /\ skus \in Seq(Range(skus)) /\ Len(skus) \in 1 .. 2
          /\ \A i, j \in 1 .. Len(skus) : skus[i] = skus[j] => i = j
          BY FirstSizes
    <2>4. 0 \in Nat  OBVIOUS
    <2> DEFINE rows == Matrix(skus, units, 0)
               n == Len(skus)
    <2>5. /\ DOMAIN rows = 1 .. n /\ rows \in Seq(Range(rows))
          /\ \A i \in 1 .. n : RowShape(rows[i]) /\ rows[i].id = 0 + i /\ rows[i].sku = skus[i]
          BY <2>3, <2>4, MatrixRows
    <2> HIDE DEF rows
    <2>6. product.variants = rows /\ n \in 1 .. 2  BY <2>2, <2>3 DEF rows
    <2> HIDE DEF n
    <2>7. Slots(product) = 1 .. n /\ \A i \in 1 .. n : i \in 1 .. 2  BY <2>5, <2>6 DEF Slots
    <2>8. \A i \in Slots(product) : /\ RowShape(product.variants[i]) /\ product.variants[i].id = i
                                    /\ product.variants[i].sku = skus[i]
          BY <2>5, <2>6, <2>7
    <2>9. RowsStand
      <3>1. \A i, j \in Slots(product) :
               product.variants[i].sku = product.variants[j].sku => i = j
            BY <2>3, <2>7, <2>8 DEF n
      <3>2. \A i, j \in Slots(product) : product.variants[i].id = product.variants[j].id => i = j
            BY <2>8
      <3>3. \A i \in Slots(product) : product.variants[i].id \in 1 .. lastId  BY <1>1, <2>7, <2>8
      <3>4. product.variants \in Seq(Range(product.variants))  BY <2>5, <2>6
      <3> QED  BY <1>1, <2>2, <2>8, <3>1, <3>2, <3>3, <3>4 DEF RowsStand
    <2>10. product.variants # <<>>  BY <2>5, <2>6
    <2>11. labels = {NewLabel(i, i) : i \in Slots(product)}  BY <1>1, <2>10 DEF CatalogueInit, Slots
    <2>12. ASSUME NEW i \in Slots(product)
           PROVE  NewLabel(i, i) = [id |-> i, code |-> i, key |-> i, sent |-> FALSE, sku |-> skus[i]]
      <3>1. i # 0 /\ i \in Nat  BY <2>6, <2>7
      <3>2. Known(product, i)  BY <2>8 DEF Known
      <3>3. Slot(product, i) = i
        <4>1. PICK s \in Slots(product) : s = Slot(product, i) /\ product.variants[s].id = i
              BY <3>1, <3>2, SlotIs
        <4> QED  BY <2>8, <4>1
      <3>4. RowOf(product, i).sku = skus[i]  BY <2>8, <3>1, <3>3 DEF RowOf
      <3> QED  BY <3>1, <3>4 DEF NewLabel
    <2>13. Skus(product) = {skus[i] : i \in Slots(product)}  BY <2>8 DEF Skus
    <2>14. ASSUME NEW l \in labels
           PROVE  /\ LabelShape(l) /\ l.id \in 1 .. codes /\ l.key \in 0 .. lastId /\ l.key = l.id
                  /\ l.key \in Slots(product) /\ l.sku = skus[l.key]
      <3>1. PICK i \in Slots(product) : l = NewLabel(i, i)  BY <2>11
      <3>2. l = [id |-> i, code |-> i, key |-> i, sent |-> FALSE, sku |-> skus[i]]  BY <2>12, <3>1
      <3>3. i \in 1 .. 2  BY <2>7
      <3> QED  BY <1>1, <3>2, <3>3 DEF LabelShape
    <2>15. \A l, m \in labels : l.id = m.id => l = m
      <3>1. ASSUME NEW l \in labels, NEW m \in labels, l.id = m.id PROVE l = m
        <4>1. PICK i \in Slots(product), j \in Slots(product) :
                 l = NewLabel(i, i) /\ m = NewLabel(j, j)
              BY <2>11
        <4>2. l.id = i /\ m.id = j  BY <2>12, <4>1
        <4> QED  BY <3>1, <4>1, <4>2
      <3> QED  BY <3>1
    <2>16. LabelsStand  BY <1>1, <2>8, <2>13, <2>14, <2>15 DEF LabelsStand
    <2> QED  BY <1>3, <2>9, <2>16 DEF LabelInv
  <1> QED  BY <1>4, <1>5

LEMMA LabelsShow ==
    ASSUME LabelInv
    PROVE  SentLabelsScan
  <1> SUFFICES ASSUME Apart("mark", "regenerate"), NEW v \in vendor
               PROVE  \E l \in labels :
                         /\ Carries(l, v.code) /\ l.sku = v.sku
                         /\ (v.sku \in Skus(product) \ dropped) =>
                               /\ Live(product, l.key) # 0
                               /\ RowOf(product, l.key).sku = v.sku
      BY Zenon DEF SentLabelsScan
  <1>1. PICK l \in labels : l.sku = v.sku /\ (Aliased(v.code, l) \/ (l.code = v.code /\ l.sent))
        BY DEF LabelInv, VendorStands
  <1>2. Carries(l, v.code)  BY <1>1 DEF Carries, Aliased
  <1>3. RowsStand /\ LabelsStand  BY DEF LabelInv
  <1>4. ASSUME v.sku \in Skus(product) \ dropped
        PROVE  Live(product, l.key) # 0 /\ RowOf(product, l.key).sku = v.sku
    <2>1. Live(product, l.key) # 0  BY <1>1, <1>3, <1>4, LiveOfItsSku
    <2> QED  BY <1>1, <1>3, <2>1, LabelRow
  <1> QED  BY <1>1, <1>2, <1>4

LEMMA RelayStutters ==
    ASSUME RelayInv, UNCHANGED relaying
    PROVE  RelayInv'
  <1>1. UNCHANGED <<relay, link, shown, accepted, overrun>>  BY DEF relaying
  <1>2. Missing' = Missing /\ LastScans' = LastScans  BY <1>1 DEF Missing, LastScans
  <1> QED  BY <1>1, <1>2 DEF RelayInv

LEMMA RelayOrNot ==
    ASSUME NEW h, Step(h)
    PROVE  RelayStep(h) \/ UNCHANGED relaying
  <1>1. ContentStep(h) => RelayStep(h) \/ UNCHANGED relaying  BY Zenon DEF ContentStep
  <1> QED  BY <1>1, Zenon DEF Step, everything, content

(* However orders, edits of the form, migrations, scanners and requests      *)
(* about labels interleave and stop midway, a label that staff have sent to  *)
(* a vendor resolves to a label of its size, and to the row of that size as  *)
(* long as no save dropped it, unless sending and regenerating overlapped    *)
(* (barcode.service.js markSent and regenerate, reattachVariantBarcodes);    *)
(* and a scan of the phone reaches the page or is kept for it (scan-         *)
(* relay.service.js).                                                        *)
THEOREM ScansStayResolved == Spec => []ScansResolve
  <1>1. Init => DeskInv /\ LabelInv /\ RelayInv  BY DeskBegins, LabelsBegin, RelayBegins DEF Init
  <1>2. DeskInv /\ LabelInv /\ RelayInv /\ [Next]_<<desk, everything>>
            => DeskInv' /\ LabelInv' /\ RelayInv'
    <2>1. ASSUME DeskInv, LabelInv, RelayInv, NEW h \in Handlers, Step(h)
          PROVE  LabelInv' /\ RelayInv'
      <3>1. RelayStep(h) \/ UNCHANGED relaying  BY <2>1, RelayOrNot
      <3> QED  BY <2>1, <3>1, LabelsKept, RelayKept, RelayStutters
    <2>2. ASSUME DeskInv, LabelInv, RelayInv, UNCHANGED <<desk, everything>>
          PROVE  LabelInv' /\ RelayInv'
      <3>1. UNCHANGED desk /\ UNCHANGED stock /\ UNCHANGED relaying
            BY <2>2, Zenon DEF everything, content
      <3>2. LabelInv'  BY <2>2, <3>1, DeskStutters, LabelsBeside
      <3>3. RelayInv'  BY <2>2, <3>1, RelayStutters
      <3> QED  BY <3>2, <3>3
    <2> QED  BY <2>1, <2>2, DeskIsKept, Zenon DEF Next
  <1>3. LabelInv /\ RelayInv => ScansResolve  BY LabelsShow, RelayShows DEF ScansResolve
  <1> QED  BY <1>1, <1>2, <1>3, PTL DEF Spec

-----------------------------------------------------------------------------
(* The units of the product.  Rows and orders are counted in numbers,        *)
NumRow(row) == row.stock \in Int /\ row.reserved \in Nat /\ row.version \in Int
UnitRows(p) == StockRows(p) /\ NumRow(p) /\ \A i \in Slots(p) : NumRow(p.variants[i])
OrderRecords ==
    [pay : {"none", "UNPAID", "FAILED", "PAID"}, variant : Nat, credit : Nat, freed : Nat,
     ready : BOOLEAN]
OrdersStand ==
    /\ order \in [Orders -> OrderRecords]
    /\ \A o \in Orders :
          order[o].variant <= lastId /\ (order[o].pay = "none" => order[o] = NoOrder)
    /\ held = SumFunctionOnSet([o \in Orders |-> order[o].credit], Orders)

(* and so are the lines of the session, one for each row, and what requests   *)
(* have read;                                                                *)
SeenRecords == [onHand : Int, avail : Int, version : Int]
LineRecords ==
    [id : Nat, action : {"ADD", "REMOVE", "SET", "NO_CHANGE"}, qty : Nat, seen : SeenRecords]
LinesStand(S) ==
    IsFiniteSet(S) /\ S \subseteq LineRecords /\ \A x, y \in S : x.id = y.id => x = y
Reviewed(s) ==
    /\ s.id \in Nat /\ s.delta \in Int /\ NumRow(s.row) /\ s.line \in LineRecords
    /\ s.line.seen.onHand = s.row.stock /\ s.delta = Delta(s.line, s.row.stock)
    /\ s.row.stock + s.delta >= s.row.reserved
PlanStands(plan) ==
    /\ IsFiniteSet(plan) /\ \A s \in plan : Reviewed(s)
    /\ \A s, t \in plan : s.line.id = t.line.id => s = t

OrderKinds == {"order", "supersede", "expire", "pay"}
OrderSteps == {"rates", "credit", "release", "fail", "fulfil"}
UnitsRead(r) ==
    LET step == Head(r.todo)
        read == r.read
    IN  /\ step \in OrderSteps <=> r.kind \in OrderKinds
        /\ step \in {"rates", "credit"} => r.kind = "order"
        /\ step \in {"read", "save"} => UnitRows(read.form)
        /\ step = "migrate" => UnitRows(read)
        /\ step = "adjust" => read.id \in Nat /\ read.delta \in Int
        /\ step = "upsert" => read.id \in Nat /\ read.seen \in SeenRecords
        /\ step = "write" => read \in LineRecords
        /\ step = "check" => LinesStand(read.lines) /\ r.kind = "confirm"
        /\ step = "apply" => PlanStands(read.plan) /\ r.kind = "confirm"
        /\ step = "discard" => r.kind = "discard"
StockReads == \A h \in Handlers : Busy(h) /\ req[h].kind \in StockKinds => UnitsRead(req[h])

(* one order is made by one request, and no credit is on hold for it before.  *)
MadeOnce ==
    /\ \A h \in Doing(OrderKinds) :
          /\ req[h].read \in Orders /\ order[req[h].read].pay # "none"
          /\ req[h].kind = "order" => order[req[h].read].credit = 0
    /\ \A g, h \in Doing({"order"}) : req[g].read = req[h].read => g = h

(* What is promised: the units reserved are those of the orders that hold      *)
(* theirs, in the row of each while the row is there; a holder without its row  *)
(* is one of before the migration.                                           *)
Promises(p) == IF HasVariants(p) THEN SumOver(p, Reserved) ELSE p.reserved
HoldsIn(orders, o) == orders[o].pay \notin {"none", "PAID"} /\ orders[o].freed = 0
HoldersIn(orders) == {o \in Orders : HoldsIn(orders, o)}
HoldersOf(orders, id) == {o \in HoldersIn(orders) : orders[o].variant = id}
Promised(p, orders) ==
    /\ Promises(p) = Cardinality(HoldersIn(orders))
    /\ HasVariants(p) => p.reserved = 0
    /\ \A i \in Slots(p) : p.variants[i].reserved >= Cardinality(HoldersOf(orders, p.variants[i].id))
    /\ HasVariants(p) /\ (\E o \in HoldersIn(orders) : Live(p, orders[o].variant) = 0) =>
          Slots(p) = {1} /\ p.variants[1].sku = Plain

(* What is on hand is what the ledger says.                                   *)
Recorded(p, events) ==
    /\ OnHand(p) = events + Opening * Most(1, Len(p.variants))
    /\ p.stock = OnHand(p)

(* A session is applied by a confirmation, which ends it as a draft.           *)
Session ==
    /\ session \in {"DRAFT", "CONFIRMED", "DISCARDED"} /\ applied \in Nat /\ LinesStand(lines)
    /\ applied # 0 => session # "DRAFT"
    /\ Apart("confirm", "confirm") => applied <= 1 /\ (applied # 0 => Doing({"confirm"}) = {})
    /\ Apart("confirm", "discard") =>
          /\ session = "DISCARDED" => applied = 0 /\ Doing({"confirm"}) = {}
          /\ applied # 0 => Doing({"discard"}) = {}

UnitsHold ==
    /\ UnitRows(product) /\ ledger \in Int
    /\ ~ strayed => Promised(product, order)
    /\ ~ written => Recorded(product, ledger)
UnitsInv == UnitsHold /\ OrdersStand /\ StockReads /\ MadeOnce /\ Session /\ ~ amiss

(* The units of rows, and what a sum over the rows is.                       *)
UnitsOf(p) == [i \in Slots(p) |-> p.variants[i].reserved]
StocksOf(p) == [i \in Slots(p) |-> p.variants[i].stock]

LEMMA SumsAre ==
    ASSUME NEW p
    PROVE  /\ SumOver(p, Reserved) = SumFunctionOnSet(UnitsOf(p), Slots(p))
           /\ SumOver(p, Stocked) = SumFunctionOnSet(StocksOf(p), Slots(p))
  BY DEF SumOver, Reserved, Stocked, UnitsOf, StocksOf

LEMMA SlotsAre ==
    ASSUME NEW p, StockRows(p)
    PROVE  /\ Len(p.variants) \in Nat /\ Slots(p) = 1 .. Len(p.variants) /\ IsFiniteSet(Slots(p))
           /\ HasVariants(p) <=> Slots(p) # {}
  <1>1. p.variants \in Seq(Range(p.variants))  BY DEF StockRows
  <1>2. Len(p.variants) \in Nat /\ Slots(p) = 1 .. Len(p.variants)  BY <1>1 DEF Slots
  <1>3. p.variants = <<>> <=> Slots(p) = {}  BY <1>1, EmptyOrNot DEF Slots
  <1> QED  BY <1>2, <1>3, FS_Interval DEF HasVariants

LEMMA SumsCount ==
    ASSUME NEW p, UnitRows(p)
    PROVE  /\ SumOver(p, Reserved) \in Nat /\ SumOver(p, Stocked) \in Int
           /\ \A i \in Slots(p) : p.variants[i].reserved <= SumOver(p, Reserved)
           /\ Promises(p) \in Nat /\ OnHand(p) \in Int
  <1>1. IsFiniteSet(Slots(p))  BY SlotsAre DEF UnitRows
  <1>2. \A i \in Slots(p) : /\ UnitsOf(p)[i] \in Nat /\ UnitsOf(p)[i] = p.variants[i].reserved
                            /\ StocksOf(p)[i] \in Int
        BY DEF UnitRows, NumRow, UnitsOf, StocksOf
  <1> DEFINE u == UnitsOf(p)
             s == StocksOf(p)
  <1> HIDE DEF u, s
  <1>3. SumFunctionOnSet(u, Slots(p)) \in Nat  BY <1>1, <1>2, SumNat DEF u
  <1>4. SumFunctionOnSet(s, Slots(p)) \in Int  BY <1>1, <1>2, SumInt DEF s
  <1>5. \A i \in Slots(p) : u[i] <= SumFunctionOnSet(u, Slots(p))  BY <1>1, <1>2, SumMember DEF u
  <1> QED  BY <1>2, <1>3, <1>4, <1>5, SumsAre DEF u, s, Promises, OnHand, UnitRows, NumRow

(* One row moves by some units, or the product itself does.                  *)
RowShift(p, q, k, ds, dr) ==
    /\ RowsMoved(p, q) /\ k \in Slots(p) /\ ds \in Int /\ dr \in Int
    /\ q.variants[k].stock = p.variants[k].stock + ds
    /\ q.variants[k].reserved = p.variants[k].reserved + dr
    /\ \A i \in Slots(p) : q.variants[i].version \in Int
    /\ \A i \in Slots(p) \ {k} : /\ q.variants[i].stock = p.variants[i].stock
                                 /\ q.variants[i].reserved = p.variants[i].reserved
    /\ q.reserved = p.reserved /\ q.version = p.version
    /\ q.stock = OnHand(q) \/ (ds = 0 /\ q.stock = p.stock)
SelfShift(p, q, ds, dr) ==
    /\ RowsMoved(p, q) /\ q.variants = p.variants /\ ds \in Int /\ dr \in Int
    /\ q.stock = p.stock + ds /\ q.reserved = p.reserved + dr /\ q.version \in Int

LEMMA RowShifts ==
    ASSUME NEW p, NEW q, UnitRows(p), NEW k, NEW ds, NEW dr, RowShift(p, q, k, ds, dr),
           p.variants[k].reserved + dr \in Nat
    PROVE  /\ UnitRows(q) /\ Slots(q) = Slots(p) /\ HasVariants(p) /\ HasVariants(q)
           /\ Promises(q) = Promises(p) + dr /\ OnHand(q) = OnHand(p) + ds
           /\ Len(q.variants) = Len(p.variants)
  <1>1. StockRows(p) /\ StockRows(q) /\ Slots(q) = Slots(p)  BY MovedOf DEF RowShift, UnitRows
  <1>2. IsFiniteSet(Slots(p)) /\ HasVariants(p) /\ HasVariants(q)
        /\ Len(q.variants) = Len(p.variants)
        BY <1>1, SlotsAre DEF RowShift
  <1>3. \A i \in Slots(p) : /\ p.variants[i].stock \in Int /\ p.variants[i].reserved \in Nat
                            /\ q.variants[i].stock \in Int /\ q.variants[i].reserved \in Nat
                            /\ q.variants[i].version \in Int
        BY DEF RowShift, UnitRows, NumRow
  <1> DEFINE u == UnitsOf(p)
             v == UnitsOf(q)
             s == StocksOf(p)
             t == StocksOf(q)
  <1>4. \A i \in Slots(p) : /\ u[i] = p.variants[i].reserved /\ v[i] = q.variants[i].reserved
                            /\ s[i] = p.variants[i].stock /\ t[i] = q.variants[i].stock
        BY <1>1 DEF UnitsOf, StocksOf
  <1> HIDE DEF u, v, s, t
  <1>12. k \in Slots(p) /\ \A i \in Slots(p) \ {k} : u[i] = v[i] /\ s[i] = t[i]
        BY <1>4 DEF RowShift
  <1>13. \A i \in Slots(p) : u[i] \in Int /\ v[i] \in Int /\ s[i] \in Int /\ t[i] \in Int
        BY <1>3, <1>4
  <1>5. SumFunctionOnSet(v, Slots(p)) = SumFunctionOnSet(u, Slots(p)) - u[k] + v[k]
        BY <1>2, <1>12, <1>13, SumChange
  <1>6. SumFunctionOnSet(t, Slots(p)) = SumFunctionOnSet(s, Slots(p)) - s[k] + t[k]
        BY <1>2, <1>12, <1>13, SumChange
  <1>7. SumOver(q, Reserved) = SumOver(p, Reserved) - u[k] + v[k]  BY <1>1, <1>5, SumsAre DEF u, v
  <1>8. SumOver(q, Stocked) = SumOver(p, Stocked) - s[k] + t[k]  BY <1>1, <1>6, SumsAre DEF s, t
  <1>9. SumOver(p, Reserved) \in Nat /\ SumOver(p, Stocked) \in Int  BY SumsCount
  <1>10. Promises(q) = Promises(p) + dr /\ OnHand(q) = OnHand(p) + ds /\ OnHand(q) \in Int
    <2>1. v[k] = u[k] + dr /\ t[k] = s[k] + ds /\ dr \in Int /\ ds \in Int
          BY <1>4, <1>12 DEF RowShift
    <2>2. u[k] \in Int /\ s[k] \in Int  BY <1>12, <1>13
    <2>3. /\ SumOver(q, Reserved) = SumOver(p, Reserved) + dr
          /\ SumOver(q, Stocked) = SumOver(p, Stocked) + ds
          BY <1>7, <1>8, <1>9, <2>1, <2>2
    <2> QED  BY <1>2, <1>9, <2>1, <2>3 DEF Promises, OnHand
  <1>11. NumRow(q)  BY <1>10 DEF RowShift, NumRow, UnitRows
  <1> QED  BY <1>1, <1>2, <1>3, <1>10, <1>11 DEF UnitRows, NumRow

LEMMA SelfShifts ==
    ASSUME NEW p, NEW q, UnitRows(p), NEW ds, NEW dr, SelfShift(p, q, ds, dr),
           p.reserved + dr \in Nat
    PROVE  /\ UnitRows(q) /\ Slots(q) = Slots(p) /\ (HasVariants(q) <=> HasVariants(p))
           /\ Len(q.variants) = Len(p.variants)
           /\ ~ HasVariants(p) => /\ Promises(q) = Promises(p) + dr
                                  /\ OnHand(q) = OnHand(p) + ds /\ q.stock = OnHand(q)
  <1>1. StockRows(q) /\ Slots(q) = Slots(p)  BY MovedOf DEF SelfShift, UnitRows
  <1>2. (HasVariants(q) <=> HasVariants(p)) /\ Len(q.variants) = Len(p.variants)
        BY DEF SelfShift, HasVariants
  <1> QED  BY <1>1, <1>2 DEF SelfShift, UnitRows, NumRow, Promises, OnHand

(* What becomes of a row that is written,                                    *)
LEMMA RowAfter ==
    ASSUME NEW p, StockRows(p), NEW id, id # 0, Known(p, id), NEW row
    PROVE  LET q == WithRow(p, id, row)
               k == Slot(p, id)
           IN  /\ k \in Slots(p) /\ RowOf(p, id) = p.variants[k] /\ p.variants[k].id = id
               /\ q.variants[k] = row /\ Slots(q) = Slots(p)
               /\ \A i \in Slots(p) \ {k} : q.variants[i] = p.variants[i]
               /\ q.stock = p.stock /\ q.reserved = p.reserved /\ q.version = p.version
  <1>1. PICK s \in Slots(p) : s = Slot(p, id)  BY SlotIs
  <1> DEFINE q == WithRow(p, id, row)
  <1>2. q = [p EXCEPT !.variants[s] = row]  BY <1>1 DEF WithRow
  <1>3. DOMAIN p = {"pipeline", "stock", "reserved", "version", "active", "variants"}
        BY DEF StockRows, ProductShape
  <1>4. q.variants = [p.variants EXCEPT ![s] = row]
        /\ q.stock = p.stock /\ q.reserved = p.reserved /\ q.version = p.version
        BY <1>2, <1>3
  <1>5. p.variants = [i \in Slots(p) |-> p.variants[i]]  BY SameRows DEF RowsMoved
  <1>6. q.variants = [i \in Slots(p) |-> IF i = s THEN row ELSE p.variants[i]]  BY <1>4, <1>5
  <1>7. DOMAIN q.variants = Slots(p)  BY <1>6
  <1> HIDE DEF q
  <1>8. Slots(q) = Slots(p)  BY <1>7 DEF Slots
  <1>9. p.variants[s].id = id /\ RowOf(p, id) = p.variants[s]  BY <1>1, SlotIs, RowIs
  <1> QED  BY <1>1, <1>4, <1>6, <1>8, <1>9 DEF q

(* of a product whose stock is the sum,                                      *)
LEMMA SyncedIs ==
    ASSUME NEW p, StockRows(p), HasVariants(p)
    PROVE  LET q == Synced(p)
           IN  /\ q.variants = p.variants /\ q.stock = OnHand(q) /\ q.reserved = p.reserved
               /\ q.version = p.version /\ Slots(q) = Slots(p)
  <1> DEFINE n == SumOver(p, Stocked)
             q == Synced(p)
  <1>1. q = [p EXCEPT !.stock = n]  BY DEF Synced
  <1>2. DOMAIN p = {"pipeline", "stock", "reserved", "version", "active", "variants"}
        BY DEF StockRows, ProductShape
  <1> HIDE DEF n
  <1>3. /\ q.variants = p.variants /\ q.stock = n /\ q.reserved = p.reserved
        /\ q.version = p.version
        BY <1>1, <1>2
  <1> HIDE DEF q
  <1>4. Slots(q) = Slots(p) /\ HasVariants(q)  BY <1>3 DEF Slots, HasVariants
  <1>5. SumOver(q, Stocked) = n  BY <1>3, <1>4, SumsAre DEF StocksOf, n
  <1> QED  BY <1>3, <1>4, <1>5 DEF OnHand, q

(* and of one row, or a product, that is moved.                              *)
LEMMA FieldsMoved ==
    ASSUME NEW row, ProductShape(row) \/ RowShape(row), NEW a, NEW b, NEW c
    PROVE  /\ Moved(row, a, b, c).stock = row.stock + a
           /\ Moved(row, a, b, c).reserved = row.reserved + b
           /\ Moved(row, a, b, c).version = row.version + c
           /\ [row EXCEPT !.stock = a].stock = a /\ [row EXCEPT !.stock = a].reserved = row.reserved
           /\ [row EXCEPT !.stock = a].version = row.version
  <1>1. {"stock", "reserved", "version"} \subseteq DOMAIN row  BY DEF ProductShape, RowShape
  <1> QED  BY <1>1 DEF Moved

LEMMA ShiftedAgain ==
    ASSUME NEW p, NEW q, UnitRows(p), NEW k, NEW ds, NEW dr,
           RowsMoved(p, q), k \in Slots(p), ds \in Int, dr \in Int,
           q.variants[k].stock = p.variants[k].stock + ds,
           q.variants[k].reserved = p.variants[k].reserved + dr,
           \A i \in Slots(p) : q.variants[i].version \in Int,
           \A i \in Slots(p) \ {k} : /\ q.variants[i].stock = p.variants[i].stock
                                     /\ q.variants[i].reserved = p.variants[i].reserved,
           q.reserved = p.reserved, q.version = p.version
    PROVE  RowShift(p, Synced(q), k, ds, dr)
  <1>1. StockRows(q) /\ Slots(q) = Slots(p)  BY MovedOf DEF UnitRows
  <1>2. HasVariants(q)  BY <1>1, SlotsAre
  <1>3. RowsMoved(p, Synced(q))  BY SyncedAfter DEF UnitRows
  <1> DEFINE r == Synced(q)
  <1>4. /\ r.variants = q.variants /\ r.stock = OnHand(r) /\ r.reserved = q.reserved
        /\ r.version = q.version
        BY <1>1, <1>2, SyncedIs
  <1> HIDE DEF r
  <1>5. RowsMoved(p, r)  BY <1>3 DEF r
  <1>6. RowShift(p, r, k, ds, dr)  BY <1>4, <1>5 DEF RowShift
  <1> QED  BY <1>6 DEF r

LEMMA OneMoves ==
    ASSUME NEW p, UnitRows(p), NEW id, Known(p, id), NEW a \in Int, NEW b \in Int, NEW c \in Int
    PROVE  LET q == WithRow(p, id, Moved(RowOf(p, id), a, b, c))
           IN  /\ id = 0 => SelfShift(p, q, a, b)
               /\ id # 0 /\ a = 0 => RowShift(p, q, Slot(p, id), a, b)
               /\ id # 0 => RowShift(p, Synced(q), Slot(p, id), a, b)
  <1> DEFINE q == WithRow(p, id, Moved(RowOf(p, id), a, b, c))
             k == Slot(p, id)
  <1>1. StockRows(p) /\ RowsMoved(p, q)  BY MovedRow DEF UnitRows
  <1>2. CASE id = 0
    <2>1. q = Moved(p, a, b, c)  BY <1>2 DEF WithRow, RowOf
    <2>2. q.variants = p.variants  BY <1>1, <2>1, ProductAdds DEF StockRows
    <2>3. q.stock = p.stock + a /\ q.reserved = p.reserved + b /\ q.version = p.version + c
          BY <1>1, <2>1, FieldsMoved DEF StockRows
    <2> HIDE DEF q
    <2>4. SelfShift(p, q, a, b)  BY <1>1, <2>2, <2>3 DEF SelfShift, UnitRows, NumRow
    <2> QED  BY <1>2, <2>4 DEF q
  <1>3. CASE id # 0
    <2> DEFINE new == Moved(RowOf(p, id), a, b, c)
    <2>1. /\ k \in Slots(p) /\ RowOf(p, id) = p.variants[k]
          /\ q.variants[k] = new /\ Slots(q) = Slots(p)
          /\ \A i \in Slots(p) \ {k} : q.variants[i] = p.variants[i]
          /\ q.stock = p.stock /\ q.reserved = p.reserved /\ q.version = p.version
          BY <1>1, <1>3, RowAfter
    <2>2. RowShape(RowOf(p, id))  BY <1>1, <1>3, RowIs
    <2>3. /\ new.stock = RowOf(p, id).stock + a /\ new.reserved = RowOf(p, id).reserved + b
          /\ new.version = RowOf(p, id).version + c
          BY <2>2, FieldsMoved
    <2> HIDE DEF q, k, new
    <2>4. \A i \in Slots(p) : NumRow(p.variants[i])  BY DEF UnitRows
    <2>5. \A i \in Slots(p) : q.variants[i].version \in Int  BY <2>1, <2>3, <2>4 DEF NumRow
    <2>6. /\ q.variants[k].stock = p.variants[k].stock + a
          /\ q.variants[k].reserved = p.variants[k].reserved + b
          BY <2>1, <2>3
    <2>7. RowShift(p, Synced(q), k, a, b)  BY <1>1, <2>1, <2>5, <2>6, ShiftedAgain
    <2>8. a = 0 => RowShift(p, q, k, a, b)  BY <1>1, <2>1, <2>5, <2>6 DEF RowShift
    <2> QED  BY <1>3, <2>7, <2>8 DEF q, k
  <1> QED  BY <1>2, <1>3

(* One unit taken in the order of the rows comes off the first that has any. *)
FirstSum(p, m) == SumFunctionOnSet([j \in 1 .. m |-> p.variants[j].reserved], 1 .. m)

LEMMA SharesAre ==
    ASSUME NEW p, NEW i \in Slots(p)
    PROVE  Shares(p, Reserved, 1)[i] = Least(p.variants[i].reserved, Most(0, 1 - FirstSum(p, i - 1)))
  BY DEF Shares, Reserved, FirstSum

LEMMA FirstSums ==
    ASSUME NEW p, UnitRows(p), NEW m \in 0 .. Len(p.variants)
    PROVE  /\ FirstSum(p, m) \in Nat
           /\ \A j \in 1 .. m : p.variants[j].reserved <= FirstSum(p, m)
           /\ (\A j \in 1 .. m : p.variants[j].reserved = 0) => FirstSum(p, m) = 0
  <1> DEFINE f == [j \in 1 .. m |-> p.variants[j].reserved]
  <1>1. Len(p.variants) \in Nat /\ Slots(p) = 1 .. Len(p.variants)  BY SlotsAre DEF UnitRows
  <1>2. \A j \in 1 .. m : f[j] = p.variants[j].reserved /\ f[j] \in Nat
        BY <1>1 DEF UnitRows, NumRow
  <1>3. IsFiniteSet(1 .. m)  BY <1>1, FS_Interval
  <1> HIDE DEF f
  <1>4. SumFunctionOnSet(f, 1 .. m) \in Nat  BY <1>2, <1>3, SumNat
  <1>5. \A j \in 1 .. m : f[j] <= SumFunctionOnSet(f, 1 .. m)  BY <1>2, <1>3, SumMember
  <1>6. (\A j \in 1 .. m : f[j] = 0) => SumFunctionOnSet(f, 1 .. m) = 0  BY <1>3, SumZero
  <1> QED  BY <1>2, <1>4, <1>5, <1>6 DEF f, FirstSum

LEMMA ShareOne ==
    ASSUME NEW p, UnitRows(p), NEW take, take = Shares(p, Reserved, 1)
    PROVE  \/ \A i \in Slots(p) : take[i] = 0 /\ p.variants[i].reserved = 0
           \/ \E k \in Slots(p) : /\ take[k] = 1 /\ p.variants[k].reserved >= 1
                                  /\ \A i \in Slots(p) \ {k} : take[i] = 0
  <1> DEFINE r(i) == p.variants[i].reserved
             T == {i \in Slots(p) : r(i) # 0}
  <1>1. Len(p.variants) \in Nat /\ Slots(p) = 1 .. Len(p.variants)  BY SlotsAre DEF UnitRows
  <1>2. \A i \in Slots(p) : r(i) \in Nat  BY DEF UnitRows, NumRow
  <1>3. \A i \in Slots(p) : take[i] = Least(r(i), Most(0, 1 - FirstSum(p, i - 1)))  BY SharesAre
  <1>4. \A i \in Slots(p) : i - 1 \in 0 .. Len(p.variants)  BY <1>1
  <1>5. ASSUME NEW i \in Slots(p), r(i) = 0 PROVE take[i] = 0
    <2>1. FirstSum(p, i - 1) \in Nat  BY <1>4, FirstSums
    <2> QED  BY <1>3, <1>5, <2>1 DEF Least, Most
  <1>6. CASE T = {}  BY <1>5, <1>6
  <1>7. CASE T # {}
    <2>1. PICK k \in T : \A m \in T : k <= m
      <3>1. T \in SUBSET Nat  BY <1>1
      <3> HIDE DEF T
      <3> QED  BY <1>7, <3>1, LeastNumber
    <2>2. take[k] = 1 /\ r(k) >= 1
      <3>1. \A j \in 1 .. k - 1 : p.variants[j].reserved = 0  BY <1>1, <2>1
      <3>2. FirstSum(p, k - 1) = 0  BY <1>4, <2>1, <3>1, FirstSums
      <3> QED  BY <1>2, <1>3, <2>1, <3>2 DEF Least, Most
    <2>3. ASSUME NEW i \in Slots(p) \ {k} PROVE take[i] = 0
      <3>1. CASE r(i) = 0  BY <1>5, <3>1
      <3>2. CASE r(i) # 0
        <4>1. k \in 1 .. i - 1  BY <1>1, <2>1, <2>3, <3>2
        <4>2. FirstSum(p, i - 1) \in Nat /\ r(k) <= FirstSum(p, i - 1)  BY <1>4, <4>1, FirstSums
        <4> QED  BY <1>2, <1>3, <2>2, <4>2 DEF Least, Most
      <3> QED  BY <3>1, <3>2
    <2> QED  BY <2>1, <2>2, <2>3
  <1> QED  BY <1>6, <1>7

(* What becomes of one row that is moved.                                    *)
OneMoved(p, q, id, a, b) ==
    /\ id = 0 => SelfShift(p, q, a, b)
    /\ id # 0 /\ a = 0 => RowShift(p, q, Slot(p, id), a, b)
    /\ id # 0 => RowShift(p, Synced(q), Slot(p, id), a, b)

LEMMA OneMovesSo ==
    ASSUME NEW p, UnitRows(p), NEW id, Known(p, id), NEW a \in Int, NEW b \in Int, NEW c \in Int
    PROVE  OneMoved(p, WithRow(p, id, Moved(RowOf(p, id), a, b, c)), id, a, b)
  BY OneMoves DEF OneMoved

LEMMA ProductIsPut ==
    ASSUME NEW p, ProductShape(p), NEW a, NEW q, q = [p EXCEPT !.stock = a]
    PROVE  q.variants = p.variants /\ q.stock = a /\ q.reserved = p.reserved /\ q.version = p.version
  BY ProductPut, FieldsMoved

(* What orders and scanners do to the units of rows.                         *)
LEMMA ReserveUnits ==
    ASSUME NEW p, UnitRows(p), NEW id, Known(p, id), CanReserve(p, id)
    PROVE  LET q == Reserve(p, id)
           IN  /\ ~ HasVariants(p) => id = 0 /\ SelfShift(p, q, 0, 1)
               /\ HasVariants(p) => id # 0 /\ RowShift(p, q, Slot(p, id), 0, 1)
  <1>1. id # 0 <=> HasVariants(p)  BY DEF CanReserve
  <1>2. Reserve(p, id) = WithRow(p, id, Moved(RowOf(p, id), 0, 1, 1))  BY DEF Reserve
  <1>4. 0 \in Int /\ 1 \in Int  OBVIOUS
  <1>3. OneMoved(p, WithRow(p, id, Moved(RowOf(p, id), 0, 1, 1)), id, 0, 1)  BY <1>4, OneMovesSo
  <1> QED  BY <1>1, <1>2, <1>3 DEF OneMoved

LEMMA RowAdded ==
    ASSUME NEW row, RowShape(row), NEW a, NEW b, NEW c
    PROVE  /\ Moved(row, a, b, c).stock = row.stock + a
           /\ Moved(row, a, b, c).reserved = row.reserved + b
           /\ Moved(row, a, b, c).version = row.version + c
  BY FieldsMoved

LEMMA RowsPut ==
    ASSUME NEW p, StockRows(p), NEW f, f = [i \in Slots(p) |-> f[i]],
           \A i \in Slots(p) : AsMuch(p.variants[i], f[i])
    PROVE  LET q == [p EXCEPT !.variants = f]
           IN  RowsMoved(p, q) /\ q.variants = f /\ q.reserved = p.reserved /\ q.version = p.version
               /\ q.stock = p.stock
  <1>1. DOMAIN p = {"pipeline", "stock", "reserved", "version", "active", "variants"}
        BY DEF StockRows, ProductShape
  <1>2. RowsMoved(p, [p EXCEPT !.variants = f])  BY EachMoves
  <1> QED  BY <1>1, <1>2

LEMMA CommitUnits ==
    ASSUME NEW p, UnitRows(p), NEW id, Known(p, id), CanCommit(p, id)
    PROVE  LET q == Commit(p, id)
           IN  /\ ~ HasVariants(p) => id = 0 /\ p.reserved >= 1 /\ SelfShift(p, q, -1, -1)
               /\ HasVariants(p) => \E k \in Slots(p) :
                     /\ RowShift(p, q, k, -1, -1) /\ p.variants[k].reserved >= 1
                     /\ id # 0 => p.variants[k].id = id
  <1>0. StockRows(p)  BY DEF UnitRows
  <1>1. CASE id # 0
    <2>1. Commit(p, id) = Synced(WithRow(p, id, Moved(RowOf(p, id), -1, -1, 1)))  BY <1>1 DEF Commit
    <2>6. OneMoved(p, WithRow(p, id, Moved(RowOf(p, id), -1, -1, 1)), id, -1, -1)  BY OneMovesSo
    <2>2. RowShift(p, Commit(p, id), Slot(p, id), -1, -1)  BY <1>1, <2>1, <2>6 DEF OneMoved
    <2>3. /\ RowOf(p, id) = p.variants[Slot(p, id)] /\ Slot(p, id) \in Slots(p)
          /\ p.variants[Slot(p, id)].id = id
          BY <1>0, <1>1, RowIs, SlotIs
    <2>4. RowOf(p, id).reserved >= 1  BY <1>1 DEF CanCommit
    <2>5. HasVariants(p)  BY <1>0, <2>3, SlotsAre
    <2> QED  BY <2>2, <2>3, <2>4, <2>5
  <1>2. CASE id = 0 /\ ~ HasVariants(p)
    <2>1. Commit(p, id) = Moved(p, -1, -1, 1)  BY <1>2 DEF Commit
    <2>2. WithRow(p, id, Moved(RowOf(p, id), -1, -1, 1)) = Moved(p, -1, -1, 1)
          BY <1>2 DEF WithRow, RowOf
    <2>5. OneMoved(p, WithRow(p, id, Moved(RowOf(p, id), -1, -1, 1)), id, -1, -1)  BY OneMovesSo
    <2>3. SelfShift(p, Commit(p, id), -1, -1)  BY <1>2, <2>1, <2>2, <2>5 DEF OneMoved
    <2>4. p.reserved >= 1  BY <1>2 DEF CanCommit, RowOf
    <2> QED  BY <1>2, <2>3, <2>4
  <1>3. CASE id = 0 /\ HasVariants(p)
    <2> DEFINE take == Shares(p, Reserved, 1)
               f == [i \in Slots(p) |-> IF take[i] = 0 THEN p.variants[i]
                                        ELSE Moved(p.variants[i], -take[i], -take[i], 1)]
               r == [p EXCEPT !.variants = f]
    <2>1. Commit(p, id) = Synced(r)  BY <1>3 DEF Commit
    <2>2. SumOver(p, Reserved) >= 1  BY <1>3 DEF CanCommit
    <2>3. \/ \A i \in Slots(p) : take[i] = 0 /\ p.variants[i].reserved = 0
          \/ \E k \in Slots(p) : /\ take[k] = 1 /\ p.variants[k].reserved >= 1
                                 /\ \A i \in Slots(p) \ {k} : take[i] = 0
          BY ShareOne
    <2> HIDE DEF take
    <2>4. ~ \A i \in Slots(p) : p.variants[i].reserved = 0
      <3>1. SUFFICES ASSUME \A i \in Slots(p) : p.variants[i].reserved = 0 PROVE FALSE  OBVIOUS
      <3> DEFINE u == UnitsOf(p)
      <3>2. \A i \in Slots(p) : u[i] = 0  BY <3>1 DEF UnitsOf
      <3> HIDE DEF u
      <3>3. SumFunctionOnSet(u, Slots(p)) = 0  BY <1>0, <3>2, SlotsAre, SumZero
      <3> QED  BY <2>2, <3>3, SumsAre DEF u
    <2>5. PICK k \in Slots(p) : /\ take[k] = 1 /\ p.variants[k].reserved >= 1
                                /\ \A i \in Slots(p) \ {k} : take[i] = 0
          BY <2>3, <2>4
    <2>6. \A i \in Slots(p) : RowShape(p.variants[i])  BY <1>0 DEF StockRows
    <2>7. \A i \in Slots(p) : AsMuch(p.variants[i], f[i])
      <3>1. ASSUME NEW i \in Slots(p) PROVE AsMuch(p.variants[i], f[i])  BY <2>6, RowAdds
      <3> QED  BY <3>1
    <2>8. f = [i \in Slots(p) |-> f[i]]  OBVIOUS
    <2>9. \A i \in Slots(p) \ {k} : f[i] = p.variants[i]  BY <2>5
    <2>10. f[k] = Moved(p.variants[k], -1, -1, 1)  BY <2>5
    <2> HIDE DEF f
    <2>11. /\ RowsMoved(p, r) /\ r.variants = f /\ r.reserved = p.reserved /\ r.version = p.version
           /\ r.stock = p.stock
          BY <1>0, <2>7, <2>8, RowsPut
    <2> HIDE DEF r
    <2>12. /\ f[k].stock = p.variants[k].stock + -1 /\ f[k].reserved = p.variants[k].reserved + -1
           /\ f[k].version = p.variants[k].version + 1
          BY <2>6, <2>10, RowAdded
    <2>13. \A i \in Slots(p) : NumRow(p.variants[i])  BY DEF UnitRows
    <2>14. \A i \in Slots(p) : r.variants[i].version \in Int
          BY <2>9, <2>11, <2>12, <2>13 DEF NumRow
    <2>15. \A i \in Slots(p) \ {k} : /\ r.variants[i].stock = p.variants[i].stock
                                     /\ r.variants[i].reserved = p.variants[i].reserved
          BY <2>9, <2>11
    <2>16. -1 \in Int  OBVIOUS
    <2>17. /\ r.variants[k].stock = p.variants[k].stock + -1
           /\ r.variants[k].reserved = p.variants[k].reserved + -1
          BY <2>11, <2>12
    <2>18. RowShift(p, Synced(r), k, -1, -1)  BY <2>11, <2>14, <2>15, <2>16, <2>17, ShiftedAgain
    <2> QED  BY <1>3, <2>1, <2>5, <2>18
  <1> QED  BY <1>1, <1>2, <1>3

LEMMA ReleaseUnits ==
    ASSUME NEW p, UnitRows(p), NEW id, Known(p, id)
    PROVE  LET q == Release(p, id)
           IN  /\ ~ HasVariants(p) => /\ id = 0
                                      /\ SelfShift(p, q, 0, -Least(p.reserved, 1))
               /\ HasVariants(p) => \E k \in Slots(p), d \in {0, 1} :
                     /\ RowShift(p, q, k, 0, -d) /\ p.variants[k].reserved >= d
                     /\ id # 0 => p.variants[k].id = id /\ (d = 0 => p.variants[k].reserved = 0)
                     /\ id = 0 /\ d = 0 => \A i \in Slots(p) : p.variants[i].reserved = 0
  <1>0. StockRows(p)  BY DEF UnitRows
  <1>1. \A row : NumRow(row) => /\ Least(row.reserved, 1) \in {0, 1}
                                /\ row.reserved >= Least(row.reserved, 1)
                                /\ Least(row.reserved, 1) = 0 => row.reserved = 0
        BY DEF NumRow, Least
  <1>2. CASE id # 0
    <2> DEFINE d == Least(RowOf(p, id).reserved, 1)
               k == Slot(p, id)
    <2>1. Release(p, id) = WithRow(p, id, Moved(RowOf(p, id), 0, -d, 0))  BY <1>2 DEF Release
    <2>3. /\ RowOf(p, id) = p.variants[k] /\ k \in Slots(p) /\ p.variants[k].id = id
          BY <1>0, <1>2, RowIs, SlotIs
    <2>4. NumRow(p.variants[k])  BY <2>3 DEF UnitRows
    <2>5. d \in {0, 1} /\ p.variants[k].reserved >= d /\ (d = 0 => p.variants[k].reserved = 0)
          BY <1>1, <2>3, <2>4
    <2> HIDE DEF d, k
    <2>6. -d \in Int /\ 0 \in Int  BY <2>5
    <2>9. OneMoved(p, WithRow(p, id, Moved(RowOf(p, id), 0, -d, 0)), id, 0, -d)  BY <2>6, OneMovesSo
    <2>7. RowShift(p, Release(p, id), k, 0, -d)  BY <1>2, <2>1, <2>9 DEF k, OneMoved
    <2>8. HasVariants(p)  BY <1>0, <2>3, SlotsAre
    <2> QED  BY <1>2, <2>3, <2>5, <2>7, <2>8
  <1>3. CASE id = 0 /\ ~ HasVariants(p)
    <2> DEFINE d == Least(p.reserved, 1)
    <2>1. Release(p, id) = WithRow(p, id, Moved(RowOf(p, id), 0, -d, 0))  BY <1>3 DEF Release, RowOf
    <2>2. d \in {0, 1}  BY <1>1 DEF UnitRows
    <2> HIDE DEF d
    <2>3. -d \in Int /\ 0 \in Int  BY <2>2
    <2>5. OneMoved(p, WithRow(p, id, Moved(RowOf(p, id), 0, -d, 0)), id, 0, -d)  BY <2>3, OneMovesSo
    <2>4. SelfShift(p, Release(p, id), 0, -d)  BY <1>3, <2>1, <2>5 DEF OneMoved
    <2> QED  BY <1>3, <2>4 DEF d
  <1>4. CASE id = 0 /\ HasVariants(p)
    <2> DEFINE take == Shares(p, Reserved, 1)
               f == [i \in Slots(p) |-> Moved(p.variants[i], 0, -take[i], 0)]
               r == [p EXCEPT !.variants = f]
    <2>1. Release(p, id) = r  BY <1>4 DEF Release
    <2>3. \/ \A i \in Slots(p) : take[i] = 0 /\ p.variants[i].reserved = 0
          \/ \E k \in Slots(p) : /\ take[k] = 1 /\ p.variants[k].reserved >= 1
                                 /\ \A i \in Slots(p) \ {k} : take[i] = 0
          BY ShareOne
    <2> HIDE DEF take
    <2>5. PICK k \in Slots(p), d \in {0, 1} :
              /\ take[k] = d /\ p.variants[k].reserved >= d
              /\ \A i \in Slots(p) \ {k} : take[i] = 0
              /\ d = 0 => \A i \in Slots(p) : p.variants[i].reserved = 0
      <3>1. PICK j \in Slots(p) : TRUE  BY <1>0, <1>4, SlotsAre
      <3>2. CASE \A i \in Slots(p) : take[i] = 0 /\ p.variants[i].reserved = 0  BY <3>1, <3>2
      <3> QED  BY <2>3, <3>2
    <2>6. \A i \in Slots(p) : RowShape(p.variants[i])  BY <1>0 DEF StockRows
    <2>7. \A i \in Slots(p) : AsMuch(p.variants[i], f[i])
      <3>1. ASSUME NEW i \in Slots(p) PROVE AsMuch(p.variants[i], f[i])  BY <2>6, RowAdds
      <3> QED  BY <3>1
    <2>8. f = [i \in Slots(p) |-> f[i]]  OBVIOUS
    <2>9. \A i \in Slots(p) : f[i] = Moved(p.variants[i], 0, -take[i], 0)  OBVIOUS
    <2> HIDE DEF f
    <2>11. /\ RowsMoved(p, r) /\ r.variants = f /\ r.reserved = p.reserved /\ r.version = p.version
           /\ r.stock = p.stock
          BY <1>0, <2>7, <2>8, RowsPut
    <2> HIDE DEF r
    <2>12. \A i \in Slots(p) : /\ f[i].stock = p.variants[i].stock + 0
                               /\ f[i].reserved = p.variants[i].reserved + -take[i]
                               /\ f[i].version = p.variants[i].version + 0
          BY <2>6, <2>9, RowAdded
    <2>13. \A i \in Slots(p) : NumRow(p.variants[i])  BY DEF UnitRows
    <2>14. /\ \A i \in Slots(p) : r.variants[i].version \in Int
           /\ \A i \in Slots(p) \ {k} : /\ r.variants[i].stock = p.variants[i].stock
                                        /\ r.variants[i].reserved = p.variants[i].reserved
           /\ r.variants[k].stock = p.variants[k].stock + 0
           /\ r.variants[k].reserved = p.variants[k].reserved + -d
          BY <2>5, <2>11, <2>12, <2>13 DEF NumRow
    <2>15. -d \in Int  OBVIOUS
    <2>16. RowShift(p, r, k, 0, -d)  BY <2>11, <2>14, <2>15 DEF RowShift
    <2> QED  BY <1>4, <2>1, <2>5, <2>16
  <1> QED  BY <1>2, <1>3, <1>4

LEMMA AdjustUnits ==
    ASSUME NEW p, UnitRows(p), NEW id, Known(p, id), NEW n \in Int, Adjustable(p, id, n)
    PROVE  LET q == AdjustedRow(p, id, n)
           IN  /\ ~ HasVariants(p) => SelfShift(p, q, n, 0)
               /\ HasVariants(p) => RowShift(p, q, Slot(p, id), n, 0)
  <1>0. StockRows(p)  BY DEF UnitRows
  <1> DEFINE q == WithRow(p, id, [RowOf(p, id) EXCEPT !.stock = @ + n])
  <1>1. (id # 0 <=> HasVariants(p)) /\ AdjustedRow(p, id, n) = IF id = 0 THEN q ELSE Synced(q)
        BY DEF AdjustedRow, Adjustable
  <1>2. RowsMoved(p, q)  BY <1>0, MovedRow
  <1>3. CASE id = 0
    <2> DEFINE a == p.stock + n
    <2>1. q = [p EXCEPT !.stock = a]  BY <1>3 DEF WithRow, RowOf
    <2> HIDE DEF a, q
    <2>2. q.variants = p.variants /\ q.stock = a /\ q.reserved = p.reserved /\ q.version = p.version
          BY <1>0, <2>1, ProductIsPut DEF StockRows
    <2>3. SelfShift(p, q, n, 0)  BY <1>2, <2>2 DEF SelfShift, UnitRows, NumRow, a
    <2> QED  BY <1>1, <1>3, <2>3
  <1>4. CASE id # 0
    <2> DEFINE k == Slot(p, id)
               a == RowOf(p, id).stock + n
               new == [RowOf(p, id) EXCEPT !.stock = a]
    <2>0. q = WithRow(p, id, new)  OBVIOUS
    <2>1. /\ k \in Slots(p) /\ RowOf(p, id) = p.variants[k]
          /\ q.variants[k] = new /\ Slots(q) = Slots(p)
          /\ \A i \in Slots(p) \ {k} : q.variants[i] = p.variants[i]
          /\ q.reserved = p.reserved /\ q.version = p.version
          BY <1>0, <1>4, <2>0, RowAfter
    <2>2. RowShape(RowOf(p, id))  BY <1>0, <1>4, RowIs
    <2> HIDE DEF a
    <2>3. /\ new.stock = a /\ new.reserved = RowOf(p, id).reserved
          /\ new.version = RowOf(p, id).version
          BY <2>2, FieldsMoved
    <2> HIDE DEF q, k, new
    <2>4. \A i \in Slots(p) : NumRow(p.variants[i])  BY DEF UnitRows
    <2>5. \A i \in Slots(p) : q.variants[i].version \in Int  BY <2>1, <2>3, <2>4 DEF NumRow
    <2>6. /\ q.variants[k].stock = p.variants[k].stock + n
          /\ q.variants[k].reserved = p.variants[k].reserved + 0
          BY <2>1, <2>3, <2>4 DEF NumRow, a
    <2>7. \A i \in Slots(p) \ {k} : /\ q.variants[i].stock = p.variants[i].stock
                                    /\ q.variants[i].reserved = p.variants[i].reserved
          BY <2>1
    <2>8. RowShift(p, Synced(q), k, n, 0)  BY <1>2, <2>1, <2>5, <2>6, <2>7, ShiftedAgain
    <2> QED  BY <1>1, <1>4, <2>8 DEF k
  <1> QED  BY <1>3, <1>4

(* What the plan of a session does to rows: each moves by what the plan says    *)
(* of it.                                                                    *)
OwnRows(p) == \A i, j \in Slots(p) : p.variants[i].id = p.variants[j].id => i = j
PlanFits(p, plan) ==
    /\ IsFiniteSet(plan)
    /\ \A s \in plan : s.delta \in Int /\ Known(p, s.id) /\ (s.id # 0 <=> HasVariants(p))
OnRow(plan, id) == {s \in plan : s.id = id}
PlanShift(p, q, plan) ==
    /\ RowsMoved(p, q) /\ q.reserved = p.reserved /\ q.version = p.version
    /\ HasVariants(p) =>
          /\ \A i \in Slots(p) :
                /\ q.variants[i].stock =
                      p.variants[i].stock + SumOfDeltas(OnRow(plan, p.variants[i].id))
                /\ q.variants[i].reserved = p.variants[i].reserved
                /\ q.variants[i].version = p.variants[i].version
          /\ q.stock = OnHand(q)
    /\ ~ HasVariants(p) => q.variants = p.variants /\ q.stock = p.stock + SumOfDeltas(plan)

LEMMA AlteredIs ==
    ASSUME NEW p, StockRows(p), NEW plan
    PROVE  PlanShift(p, Altered(p, plan), plan)
  <1> DEFINE Raised(row, n) == [row EXCEPT !.stock = @ + n]
             f == [i \in Slots(p) |->
                     Raised(p.variants[i], SumOfDeltas({s \in plan : s.id = p.variants[i].id}))]
             q == Altered(p, plan)
  <1>1. RowsMoved(p, q)  BY AlteredMoves
  <1>2. CASE HasVariants(p)
    <2> DEFINE r == [p EXCEPT !.variants = f]
    <2>1. q = Synced(r)  BY <1>2 DEF Altered
    <2>2. \A i \in Slots(p) : RowShape(p.variants[i])  BY DEF StockRows
    <2>3. ASSUME NEW i \in Slots(p)
          PROVE  /\ AsMuch(p.variants[i], f[i])
                 /\ f[i].stock = p.variants[i].stock + SumOfDeltas(OnRow(plan, p.variants[i].id))
                 /\ f[i].reserved = p.variants[i].reserved
                 /\ f[i].version = p.variants[i].version
      <3> DEFINE n == SumOfDeltas(OnRow(plan, p.variants[i].id))
                 a == p.variants[i].stock + n
                 row == p.variants[i]
      <3>1. f[i] = [row EXCEPT !.stock = a]  BY DEF OnRow
      <3> HIDE DEF n
      <3>2. RowShape(row)  BY <2>2
      <3> HIDE DEF f
      <3>3. AsMuch(row, f[i])  BY <3>1, <3>2, RowAdds
      <3>4. f[i].stock = a /\ f[i].reserved = row.reserved /\ f[i].version = row.version
            BY <3>1, <3>2, FieldsMoved
      <3> QED  BY <3>3, <3>4 DEF n
    <2>4. f = [i \in Slots(p) |-> f[i]]  OBVIOUS
    <2> HIDE DEF f, q
    <2>5. /\ RowsMoved(p, r) /\ r.variants = f /\ r.reserved = p.reserved /\ r.version = p.version
          BY <2>3, <2>4, RowsPut
    <2> HIDE DEF r
    <2>6. StockRows(r) /\ HasVariants(r)
      <3>1. StockRows(r) /\ Slots(r) = Slots(p)  BY <2>5, MovedOf
      <3> QED  BY <1>2, <3>1, SlotsAre
    <2>7. /\ q.variants = r.variants /\ q.stock = OnHand(q) /\ q.reserved = r.reserved
          /\ q.version = r.version
          BY <2>1, <2>6, SyncedIs
    <2>8. PlanShift(p, q, plan)  BY <1>1, <1>2, <2>3, <2>5, <2>7 DEF PlanShift, q
    <2> QED  BY <2>8 DEF q
  <1>3. CASE ~ HasVariants(p)
    <2> DEFINE a == p.stock + SumOfDeltas(plan)
    <2>1. q = [p EXCEPT !.stock = a]  BY <1>3 DEF Altered
    <2> HIDE DEF a, q
    <2>2. q.variants = p.variants /\ q.stock = a /\ q.reserved = p.reserved /\ q.version = p.version
          BY <2>1, ProductIsPut DEF StockRows
    <2>3. PlanShift(p, q, plan)  BY <1>1, <1>3, <2>2 DEF PlanShift, a, q
    <2> QED  BY <2>3 DEF q
  <1> QED  BY <1>2, <1>3

LEMMA DeltasAdd ==
    ASSUME NEW plan, IsFiniteSet(plan), \A s \in plan : s.delta \in Int
    PROVE  /\ SumOfDeltas(plan) \in Int /\ SumOfDeltas({}) = 0
           /\ \A s \in plan : SumOfDeltas({s}) = s.delta
  <1>1. SumOfDeltas(plan) \in Int
    <2> DEFINE f == [s \in plan |-> s.delta]
    <2>1. \A s \in plan : f[s] \in Int  OBVIOUS
    <2> HIDE DEF f
    <2>2. SumFunctionOnSet(f, plan) \in Int  BY <2>1, SumInt
    <2> QED  BY <2>2 DEF SumOfDeltas, f
  <1>2. SumOfDeltas({}) = 0  BY SumEmpty DEF SumOfDeltas
  <1>3. ASSUME NEW s \in plan PROVE SumOfDeltas({s}) = s.delta
    <2> DEFINE f == [x \in {s} |-> x.delta]
    <2>1. f[s] = s.delta /\ f[s] \in Int  OBVIOUS
    <2> HIDE DEF f
    <2>2. SumFunctionOnSet(f, {s}) = f[s]  BY <2>1, SumSingle
    <2> QED  BY <2>1, <2>2 DEF SumOfDeltas, f
  <1> QED  BY <1>1, <1>2, <1>3

LEMMA DeltasByRow ==
    ASSUME NEW p, UnitRows(p), OwnRows(p), NEW plan, PlanFits(p, plan), HasVariants(p)
    PROVE  /\ \A i \in Slots(p) : SumOfDeltas(OnRow(plan, p.variants[i].id)) \in Int
           /\ SumFunctionOnSet([i \in Slots(p) |-> SumOfDeltas(OnRow(plan, p.variants[i].id))], Slots(p))
                 = SumOfDeltas(plan)
  <1> DEFINE f == [s \in plan |-> s.delta]
             e == [s \in plan |-> Slot(p, s.id)]
             g == [i \in Slots(p) |-> SumOfDeltas(OnRow(plan, p.variants[i].id))]
             on(i) == OnRow(plan, p.variants[i].id)
  <1>1. IsFiniteSet(plan) /\ IsFiniteSet(Slots(p))  BY SlotsAre DEF UnitRows, PlanFits
  <1>2. \A s \in plan : f[s] \in Int  BY DEF PlanFits
  <1>3. \A s \in plan : e[s] \in Slots(p) /\ p.variants[e[s]].id = s.id  BY SlotIs DEF PlanFits
  <1>4. \A i \in Slots(p) : on(i) = {s \in plan : e[s] = i}  BY <1>3 DEF OnRow, OwnRows
  <1>5. \A i \in Slots(p) : on(i) \in SUBSET plan  BY DEF OnRow
  <1>6. ASSUME NEW i \in Slots(p)
        PROVE  g[i] = SumFunctionOnSet(f, on(i)) /\ g[i] \in Int
    <2> DEFINE d == [s \in on(i) |-> s.delta]
    <2>1. IsFiniteSet(on(i))  BY <1>1, <1>5, FS_Subset
    <2>2. \A s \in on(i) : d[s] \in Int /\ d[s] = f[s]  BY <1>2, <1>5
    <2>3. g[i] = SumFunctionOnSet(d, on(i))  BY DEF SumOfDeltas
    <2> HIDE DEF d, on, f, g
    <2>4. SumFunctionOnSet(d, on(i)) = SumFunctionOnSet(f, on(i))  BY <2>1, <2>2, SumSame
    <2>5. SumFunctionOnSet(d, on(i)) \in Int  BY <2>1, <2>2, SumInt
    <2> QED  BY <2>3, <2>4, <2>5
  <1>7. \A i \in Slots(p) : g[i] = SumFunctionOnSet(f, {s \in plan : e[s] = i})  BY <1>4, <1>6
  <1>8. \A s \in plan : e[s] \in Slots(p)  BY <1>3
  <1>9. SumOfDeltas(plan) = SumFunctionOnSet(f, plan)  BY DEF SumOfDeltas
  <1>10. \A i \in Slots(p) : g[i] = SumOfDeltas(OnRow(plan, p.variants[i].id))  OBVIOUS
  <1> HIDE DEF e, f, on
  <1>11. SumFunctionOnSet(g, Slots(p)) = SumFunctionOnSet(f, plan)
    <2> HIDE DEF g
    <2> QED  BY <1>1, <1>2, <1>7, <1>8, SumGroups
  <1> QED  BY <1>6, <1>9, <1>10, <1>11

LEMMA PlanShifts ==
    ASSUME NEW p, UnitRows(p), OwnRows(p), NEW plan, PlanFits(p, plan), NEW q, PlanShift(p, q, plan)
    PROVE  /\ UnitRows(q) /\ Slots(q) = Slots(p) /\ (HasVariants(q) <=> HasVariants(p))
           /\ Len(q.variants) = Len(p.variants)
           /\ OnHand(q) = OnHand(p) + SumOfDeltas(plan) /\ Promises(q) = Promises(p)
           /\ q.stock = OnHand(q) /\ q.reserved = p.reserved
           /\ \A i \in Slots(p) : q.variants[i].reserved = p.variants[i].reserved
  <1>0. StockRows(p) /\ SumOfDeltas(plan) \in Int  BY DeltasAdd DEF UnitRows, PlanFits
  <1>1. StockRows(q) /\ Slots(q) = Slots(p)  BY MovedOf DEF PlanShift, UnitRows
  <1>2. (HasVariants(q) <=> HasVariants(p)) /\ Len(q.variants) = Len(p.variants)
        BY <1>0, <1>1, SlotsAre
  <1>3. CASE ~ HasVariants(p)
    <2>1. q.variants = p.variants /\ q.stock = p.stock + SumOfDeltas(plan)
          /\ q.reserved = p.reserved /\ q.version = p.version
          BY <1>3 DEF PlanShift
    <2> QED  BY <1>0, <1>1, <1>2, <1>3, <2>1 DEF UnitRows, NumRow, Promises, OnHand
  <1>4. CASE HasVariants(p)
    <2> DEFINE d == [i \in Slots(p) |-> SumOfDeltas(OnRow(plan, p.variants[i].id))]
               s == StocksOf(p)
               t == StocksOf(q)
               u == UnitsOf(p)
               v == UnitsOf(q)
    <2>1. /\ \A i \in Slots(p) : d[i] \in Int
          /\ SumFunctionOnSet(d, Slots(p)) = SumOfDeltas(plan)
          BY <1>4, DeltasByRow
    <2>2. \A i \in Slots(p) : /\ q.variants[i].stock = p.variants[i].stock + d[i]
                              /\ q.variants[i].reserved = p.variants[i].reserved
                              /\ q.variants[i].version = p.variants[i].version
          BY <1>4 DEF PlanShift
    <2>3. \A i \in Slots(p) : NumRow(p.variants[i])  BY DEF UnitRows
    <2>4. \A i \in Slots(p) : /\ s[i] \in Int /\ t[i] = s[i] + d[i]
                              /\ s[i] = p.variants[i].stock /\ t[i] = q.variants[i].stock
                              /\ u[i] \in Int /\ v[i] = u[i]
          BY <1>1, <2>2, <2>3 DEF StocksOf, UnitsOf, NumRow
    <2>5. IsFiniteSet(Slots(p))  BY <1>0, SlotsAre
    <2> HIDE DEF d, s, t, u, v
    <2>6. SumFunctionOnSet(t, Slots(p)) = SumFunctionOnSet(s, Slots(p)) + SumFunctionOnSet(d, Slots(p))
          BY <2>1, <2>4, <2>5, SumPlus
    <2>7. SumFunctionOnSet(v, Slots(p)) = SumFunctionOnSet(u, Slots(p))
      <3>1. \A i \in Slots(p) : v[i] \in Int /\ v[i] = u[i]  BY <2>4
      <3> QED  BY <2>5, <3>1, SumSame
    <2>8. /\ SumOver(q, Stocked) = SumOver(p, Stocked) + SumOfDeltas(plan)
          /\ SumOver(q, Reserved) = SumOver(p, Reserved)
          BY <1>1, <2>1, <2>6, <2>7, SumsAre DEF s, t, u, v
    <2>9. /\ OnHand(q) = OnHand(p) + SumOfDeltas(plan) /\ Promises(q) = Promises(p)
          BY <1>2, <1>4, <2>8 DEF OnHand, Promises
    <2>10. q.stock = OnHand(q) /\ q.reserved = p.reserved /\ q.version = p.version
           BY <1>4 DEF PlanShift
    <2>11. OnHand(p) \in Int  BY SumsCount
    <2>12. OnHand(q) \in Int  BY <1>0, <2>9, <2>11
    <2>13. NumRow(q)  BY <2>10, <2>12 DEF UnitRows, NumRow
    <2>14. \A i \in Slots(p) : NumRow(q.variants[i])  BY <2>1, <2>2, <2>3 DEF NumRow
    <2> QED  BY <1>1, <1>2, <2>2, <2>9, <2>10, <2>13, <2>14 DEF UnitRows
  <1> QED  BY <1>3, <1>4

(* One line of the plan for each row moves it by what it says.               *)
LEMMA PlanRow ==
    ASSUME NEW p, UnitRows(p), OwnRows(p), NEW plan, PlanFits(p, plan), NEW q, PlanShift(p, q, plan),
           NEW s \in plan, \A t \in plan : t.id = s.id => t = s
    PROVE  /\ RowOf(q, s.id).stock = RowOf(p, s.id).stock + s.delta
           /\ RowOf(q, s.id).reserved = RowOf(p, s.id).reserved
           /\ NumRow(RowOf(p, s.id))
  <1>0. StockRows(p) /\ StockRows(q) /\ Slots(q) = Slots(p)  BY MovedOf DEF UnitRows, PlanShift
  <1>1. SumOfDeltas({s}) = s.delta  BY DeltasAdd DEF PlanFits
  <1>2. CASE HasVariants(p)
    <2> DEFINE k == Slot(p, s.id)
    <2>1. s.id # 0 /\ Known(p, s.id)  BY <1>2 DEF PlanFits
    <2>2. k \in Slots(p) /\ p.variants[k].id = s.id /\ RowOf(p, s.id) = p.variants[k]
          BY <1>0, <2>1, SlotIs, RowIs
    <2>3. Known(q, s.id) /\ RowOf(q, s.id) = q.variants[k]
      <3>1. \A i \in Slots(p) : q.variants[i].id = p.variants[i].id  BY DEF PlanShift, RowsMoved
      <3>2. Known(q, s.id)  BY <1>0, <2>2, <3>1 DEF Known
      <3>3. Slot(q, s.id) \in Slots(q) /\ q.variants[Slot(q, s.id)].id = s.id
            /\ RowOf(q, s.id) = q.variants[Slot(q, s.id)]
            BY <1>0, <2>1, <3>2, SlotIs, RowIs
      <3>4. Slot(q, s.id) = k  BY <1>0, <2>2, <3>1, <3>3 DEF OwnRows
      <3> QED  BY <3>2, <3>3, <3>4
    <2>4. OnRow(plan, p.variants[k].id) = {s}  BY <2>2 DEF OnRow
    <2>5. /\ q.variants[k].stock = p.variants[k].stock + SumOfDeltas(OnRow(plan, p.variants[k].id))
          /\ q.variants[k].reserved = p.variants[k].reserved
          BY <1>2, <2>2 DEF PlanShift
    <2>6. NumRow(p.variants[k])  BY <2>2 DEF UnitRows
    <2> QED  BY <1>1, <2>2, <2>3, <2>4, <2>5, <2>6
  <1>3. CASE ~ HasVariants(p)
    <2>1. s.id = 0 /\ \A t \in plan : t.id = 0  BY <1>3 DEF PlanFits
    <2>2. plan = {s}  BY <2>1
    <2>3. q.stock = p.stock + SumOfDeltas(plan) /\ q.reserved = p.reserved  BY <1>3 DEF PlanShift
    <2> QED  BY <1>1, <2>1, <2>2, <2>3 DEF RowOf, UnitRows
  <1> QED  BY <1>2, <1>3

(* The orders that hold a unit, before and after one of them changes.        *)
Alike(x, y, o) == (HoldsIn(y, o) <=> HoldsIn(x, o)) /\ y[o].variant = x[o].variant

LEMMA HoldersCount ==
    ASSUME NEW x
    PROVE  /\ IsFiniteSet(Orders) /\ IsFiniteSet(HoldersIn(x)) /\ Cardinality(HoldersIn(x)) \in Nat
           /\ Cardinality(HoldersIn(x)) = 0 <=> HoldersIn(x) = {}
           /\ \A id : /\ HoldersOf(x, id) \in SUBSET HoldersIn(x) /\ IsFiniteSet(HoldersOf(x, id))
                      /\ Cardinality(HoldersOf(x, id)) \in Nat
                      /\ Cardinality(HoldersOf(x, id)) <= Cardinality(HoldersIn(x))
                      /\ Cardinality(HoldersOf(x, id)) = 0 <=> HoldersOf(x, id) = {}
  <1>1. IsFiniteSet(Orders)  BY CatalogueAssumption DEF CatalogueAssumption
  <1>2. HoldersIn(x) \in SUBSET Orders  BY DEF HoldersIn
  <1>3. IsFiniteSet(HoldersIn(x))  BY <1>1, <1>2, FS_Subset
  <1>5. \A id : HoldersOf(x, id) \in SUBSET HoldersIn(x)  BY DEF HoldersOf
  <1>6. \A id : IsFiniteSet(HoldersOf(x, id))  BY <1>3, <1>5, FS_Subset
  <1>7. \A id : /\ Cardinality(HoldersOf(x, id)) \in Nat
                /\ Cardinality(HoldersOf(x, id)) = 0 <=> HoldersOf(x, id) = {}
        BY <1>6, FS_CardinalityType, FS_EmptySet
  <1>8. \A id : Cardinality(HoldersOf(x, id)) <= Cardinality(HoldersIn(x))  BY <1>3, <1>5, FS_Subset
  <1>9. Cardinality(HoldersIn(x)) \in Nat /\ (Cardinality(HoldersIn(x)) = 0 <=> HoldersIn(x) = {})
        BY <1>3, FS_CardinalityType, FS_EmptySet
  <1> QED  BY <1>1, <1>3, <1>5, <1>6, <1>7, <1>8, <1>9

LEMMA HoldersSame ==
    ASSUME NEW x, NEW y, \A o \in Orders : Alike(x, y, o)
    PROVE  HoldersIn(y) = HoldersIn(x) /\ \A id : HoldersOf(y, id) = HoldersOf(x, id)
  BY DEF HoldersIn, HoldersOf, Alike

LEMMA HolderJoins ==
    ASSUME NEW x, NEW y, NEW o \in Orders, \A z \in Orders \ {o} : Alike(x, y, z),
           ~ HoldsIn(x, o), HoldsIn(y, o)
    PROVE  /\ Cardinality(HoldersIn(y)) = Cardinality(HoldersIn(x)) + 1
           /\ HoldersIn(y) = HoldersIn(x) \cup {o}
           /\ \A id : Cardinality(HoldersOf(y, id)) =
                         IF id = y[o].variant THEN Cardinality(HoldersOf(x, id)) + 1
                         ELSE Cardinality(HoldersOf(x, id))
  <1>1. HoldersIn(y) = HoldersIn(x) \cup {o} /\ o \notin HoldersIn(x)  BY DEF HoldersIn, Alike
  <1>2. \A id : HoldersOf(y, id) = IF id = y[o].variant THEN HoldersOf(x, id) \cup {o}
                                   ELSE HoldersOf(x, id)
        BY DEF HoldersOf, HoldersIn, Alike
  <1>3. \A id : o \notin HoldersOf(x, id)  BY <1>1 DEF HoldersOf
  <1>4. IsFiniteSet(HoldersIn(x)) /\ \A id : IsFiniteSet(HoldersOf(x, id))  BY HoldersCount
  <1>6. Cardinality(HoldersIn(x) \cup {o}) = Cardinality(HoldersIn(x)) + 1
        BY <1>1, <1>4, FS_AddElement
  <1>7. \A id : Cardinality(HoldersOf(x, id) \cup {o}) = Cardinality(HoldersOf(x, id)) + 1
        BY <1>3, <1>4, FS_AddElement
  <1> QED  BY <1>1, <1>2, <1>6, <1>7

LEMMA HolderLeaves ==
    ASSUME NEW x, NEW y, NEW o \in Orders, \A z \in Orders \ {o} : Alike(x, y, z),
           HoldsIn(x, o), ~ HoldsIn(y, o)
    PROVE  /\ Cardinality(HoldersIn(y)) = Cardinality(HoldersIn(x)) - 1
           /\ HoldersIn(y) = HoldersIn(x) \ {o} /\ Cardinality(HoldersIn(x)) >= 1
           /\ \A id : Cardinality(HoldersOf(y, id)) =
                         IF id = x[o].variant THEN Cardinality(HoldersOf(x, id)) - 1
                         ELSE Cardinality(HoldersOf(x, id))
           /\ Cardinality(HoldersOf(x, x[o].variant)) >= 1
  <1>1. HoldersIn(y) = HoldersIn(x) \ {o} /\ o \in HoldersIn(x)  BY DEF HoldersIn, Alike
  <1>2. \A id : HoldersOf(y, id) = IF id = x[o].variant THEN HoldersOf(x, id) \ {o}
                                   ELSE HoldersOf(x, id)
        BY DEF HoldersOf, HoldersIn, Alike
  <1>3. o \in HoldersOf(x, x[o].variant)  BY <1>1 DEF HoldersOf
  <1>4. IsFiniteSet(HoldersIn(x)) /\ \A id : IsFiniteSet(HoldersOf(x, id))  BY HoldersCount
  <1>6. Cardinality(HoldersIn(x) \ {o}) = Cardinality(HoldersIn(x)) - 1
        BY <1>1, <1>4, FS_RemoveElement
  <1>7. Cardinality(HoldersOf(x, x[o].variant) \ {o}) = Cardinality(HoldersOf(x, x[o].variant)) - 1
        BY <1>3, <1>4, FS_RemoveElement
  <1>8. Cardinality(HoldersIn(x)) >= 1 /\ Cardinality(HoldersOf(x, x[o].variant)) >= 1
        BY <1>1, <1>3, HoldersCount
  <1> QED  BY <1>1, <1>2, <1>6, <1>7, <1>8

(* A row goes on being there while rows move only in units.                   *)
LEMMA SameLive ==
    ASSUME NEW p, NEW q, StockRows(p), RowsMoved(p, q)
    PROVE  /\ Slots(q) = Slots(p) /\ (HasVariants(q) <=> HasVariants(p))
           /\ \A i \in Slots(p) : /\ q.variants[i].id = p.variants[i].id
                                  /\ q.variants[i].sku = p.variants[i].sku
           /\ \A id : Live(q, id) = Live(p, id)
  <1>1. /\ Slots(q) = Slots(p) /\ StockRows(q)
        /\ \A i \in Slots(p) : /\ q.variants[i].id = p.variants[i].id
                               /\ q.variants[i].sku = p.variants[i].sku
        BY MovedOf DEF RowsMoved
  <1>2. HasVariants(q) <=> HasVariants(p)  BY <1>1, SlotsAre
  <1> QED  BY <1>1, <1>2 DEF Live

(* The promises are kept when nobody's unit moves,                           *)
LEMMA PromisesStay ==
    ASSUME NEW p, NEW q, NEW x, NEW y, Promised(p, x), UnitRows(p), RowsMoved(p, q),
           \A o \in Orders : Alike(x, y, o),
           Promises(q) = Promises(p), q.reserved = p.reserved,
           \A i \in Slots(p) : q.variants[i].reserved = p.variants[i].reserved
    PROVE  Promised(q, y)
  <1>1. /\ Slots(q) = Slots(p) /\ (HasVariants(q) <=> HasVariants(p))
        /\ \A i \in Slots(p) : /\ q.variants[i].id = p.variants[i].id
                               /\ q.variants[i].sku = p.variants[i].sku
        /\ \A id : Live(q, id) = Live(p, id)
        BY SameLive DEF UnitRows
  <1>2. HoldersIn(y) = HoldersIn(x) /\ \A id : HoldersOf(y, id) = HoldersOf(x, id)  BY HoldersSame
  <1>3. \A o \in HoldersIn(x) : y[o].variant = x[o].variant  BY DEF HoldersIn, Alike
  <1> QED  BY <1>1, <1>2, <1>3 DEF Promised
(* What a shift does to the sums, each on its own.                           *)
LEMMA SelfSums ==
    ASSUME NEW p, NEW q, UnitRows(p), NEW ds, NEW dr, SelfShift(p, q, ds, dr),
           p.reserved + dr \in Nat, ~ HasVariants(p)
    PROVE  Promises(q) = Promises(p) + dr
  <1>1. /\ Promises(q) = Promises(p) + dr
        /\ OnHand(q) = OnHand(p) + ds /\ q.stock = OnHand(q)
        BY SelfShifts
  <1> QED  BY <1>1
LEMMA RowSums ==
    ASSUME NEW p, NEW q, UnitRows(p), NEW k, NEW ds, NEW dr, RowShift(p, q, k, ds, dr),
           p.variants[k].reserved + dr \in Nat
    PROVE  Promises(q) = Promises(p) + dr
  <1>1. /\ UnitRows(q) /\ Slots(q) = Slots(p) /\ HasVariants(p) /\ HasVariants(q)
        /\ Promises(q) = Promises(p) + dr /\ OnHand(q) = OnHand(p) + ds
        BY RowShifts
  <1> QED  BY <1>1

(* when an order takes one,                                                  *)
LEMMA PromiseMade ==
    ASSUME NEW p, NEW x, NEW y, Promised(p, x), UnitRows(p), OwnRows(p), NEW o \in Orders,
           \A z \in Orders \ {o} : Alike(x, y, z), ~ HoldsIn(x, o), HoldsIn(y, o),
           NEW id, id = y[o].variant, CanReserve(p, id), Known(p, id), NEW q, q = Reserve(p, id)
    PROVE  Promised(q, y)
  <1>1. /\ Cardinality(HoldersIn(y)) = Cardinality(HoldersIn(x)) + 1
        /\ HoldersIn(y) = HoldersIn(x) \cup {o}
        /\ \A k : Cardinality(HoldersOf(y, k)) = IF k = id THEN Cardinality(HoldersOf(x, k)) + 1
                                                 ELSE Cardinality(HoldersOf(x, k))
        BY HolderJoins
  <1>2. /\ ~ HasVariants(p) => id = 0 /\ SelfShift(p, q, 0, 1)
        /\ HasVariants(p) => id # 0 /\ RowShift(p, q, Slot(p, id), 0, 1)
        BY ReserveUnits
  <1>3. StockRows(p) /\ RowsMoved(p, q)  BY <1>2 DEF UnitRows, SelfShift, RowShift
  <1>4. /\ Slots(q) = Slots(p) /\ (HasVariants(q) <=> HasVariants(p))
        /\ \A i \in Slots(p) : /\ q.variants[i].id = p.variants[i].id
                               /\ q.variants[i].sku = p.variants[i].sku
        /\ \A k : Live(q, k) = Live(p, k)
        BY <1>3, SameLive
  <1>5. CASE ~ HasVariants(p)
    <2>1. p.reserved + 1 \in Nat  BY DEF UnitRows, NumRow
    <2>2. SelfShift(p, q, 0, 1)  BY <1>2, <1>5
    <2>3. Promises(q) = Promises(p) + 1  BY <1>5, <2>1, <2>2, SelfSums
    <2>4. Slots(p) = {}  BY <1>3, <1>5, SlotsAre
    <2> QED  BY <1>1, <1>4, <1>5, <2>3, <2>4 DEF Promised
  <1>6. CASE HasVariants(p)
    <2> DEFINE k == Slot(p, id)
    <2>1. k \in Slots(p) /\ p.variants[k].id = id /\ id # 0  BY <1>2, <1>6, SlotIs
    <2> HIDE DEF k
    <2>2. RowShift(p, q, k, 0, 1)  BY <1>2, <1>6 DEF k
    <2>3. p.variants[k].reserved + 1 \in Nat  BY <2>1 DEF UnitRows, NumRow
    <2>4. Promises(q) = Promises(p) + 1  BY <2>2, <2>3, RowSums
    <2>5. /\ q.reserved = p.reserved /\ q.variants[k].reserved = p.variants[k].reserved + 1
          /\ \A i \in Slots(p) \ {k} : q.variants[i].reserved = p.variants[i].reserved
          BY <2>2 DEF RowShift
    <2>6. ASSUME NEW i \in Slots(p)
          PROVE  q.variants[i].reserved >= Cardinality(HoldersOf(y, q.variants[i].id))
      <3>1. p.variants[i].reserved >= Cardinality(HoldersOf(x, p.variants[i].id))
            /\ p.variants[i].reserved \in Nat
            BY DEF Promised, UnitRows, NumRow
      <3>2. Cardinality(HoldersOf(x, p.variants[i].id)) \in Nat  BY HoldersCount
      <3>3. CASE i = k  BY <1>1, <1>4, <2>1, <2>5, <3>1, <3>2, <3>3
      <3>4. CASE i # k
        <4>1. p.variants[i].id # id  BY <2>1, <3>4 DEF OwnRows
        <4> QED  BY <1>1, <1>4, <2>5, <3>1, <3>4, <4>1
      <3> QED  BY <3>3, <3>4
    <2>7. ASSUME NEW z \in HoldersIn(y), Live(q, y[z].variant) = 0
          PROVE  Slots(q) = {1} /\ q.variants[1].sku = Plain
      <3>1. Live(p, id) = id  BY <2>1 DEF Live
      <3>2. z # o  BY <1>4, <2>1, <2>7, <3>1
      <3>3. z \in HoldersIn(x) /\ Live(p, x[z].variant) = 0
            BY <1>1, <1>4, <2>7, <3>2 DEF HoldersIn, Alike
      <3>4. Slots(p) = {1} /\ p.variants[1].sku = Plain  BY <1>6, <3>3 DEF Promised
      <3> QED  BY <1>4, <3>4
    <2> QED  BY <1>1, <1>4, <1>6, <2>4, <2>5, <2>6, <2>7 DEF Promised
  <1> QED  BY <1>5, <1>6

(* and when one that had it lets it go or is given it.                       *)
LEMMA PromiseEnds ==
    ASSUME NEW p, NEW x, NEW y, Promised(p, x), UnitRows(p), OwnRows(p), NEW o \in Orders,
           \A z \in Orders \ {o} : Alike(x, y, z), HoldsIn(x, o), ~ HoldsIn(y, o),
           NEW q, NEW ds,
           ~ HasVariants(p) => SelfShift(p, q, ds, -1),
           HasVariants(p) => \E k \in Slots(p) :
              /\ RowShift(p, q, k, ds, -1) /\ p.variants[k].reserved >= 1
              /\ Live(p, x[o].variant) # 0 => p.variants[k].id = x[o].variant
    PROVE  Promised(q, y)
  <1>1. /\ Cardinality(HoldersIn(y)) = Cardinality(HoldersIn(x)) - 1
        /\ HoldersIn(y) = HoldersIn(x) \ {o} /\ Cardinality(HoldersIn(x)) >= 1
        /\ \A k : Cardinality(HoldersOf(y, k)) =
                     IF k = x[o].variant THEN Cardinality(HoldersOf(x, k)) - 1
                     ELSE Cardinality(HoldersOf(x, k))
        BY HolderLeaves
  <1>2. Cardinality(HoldersIn(x)) \in Nat /\ Cardinality(HoldersIn(y)) \in Nat  BY HoldersCount
  <1>3. StockRows(p) /\ RowsMoved(p, q)  BY DEF UnitRows, SelfShift, RowShift
  <1>4. /\ Slots(q) = Slots(p) /\ (HasVariants(q) <=> HasVariants(p))
        /\ \A i \in Slots(p) : /\ q.variants[i].id = p.variants[i].id
                               /\ q.variants[i].sku = p.variants[i].sku
        /\ \A k : Live(q, k) = Live(p, k)
        BY <1>3, SameLive
  <1>5. CASE ~ HasVariants(p)
    <2>1. p.reserved = Cardinality(HoldersIn(x))  BY <1>5 DEF Promised, Promises
    <2>2. p.reserved + (-1) \in Nat  BY <1>1, <1>2, <2>1
    <2>3. Promises(q) = Promises(p) + (-1)
      <3>1. SelfShift(p, q, ds, -1)  BY <1>5
      <3> QED  BY <1>5, <2>2, <3>1, SelfSums
    <2>4. Slots(p) = {}  BY <1>3, <1>5, SlotsAre
    <2>5. Promises(q) = Cardinality(HoldersIn(y))  BY <1>1, <1>2, <1>5, <2>1, <2>3 DEF Promises
    <2> QED  BY <1>4, <1>5, <2>4, <2>5 DEF Promised
  <1>6. CASE HasVariants(p)
    <2>1. PICK k \in Slots(p) :
             /\ RowShift(p, q, k, ds, -1) /\ p.variants[k].reserved >= 1
             /\ Live(p, x[o].variant) # 0 => p.variants[k].id = x[o].variant
          BY <1>6
    <2>2. \A i \in Slots(p) : p.variants[i].reserved \in Nat  BY DEF UnitRows, NumRow
    <2>3. p.variants[k].reserved + (-1) \in Nat  BY <2>1, <2>2
    <2>4. Promises(q) = Promises(p) + (-1) /\ UnitRows(q)  BY <2>1, <2>3, RowShifts
    <2>5. /\ q.reserved = p.reserved /\ q.variants[k].reserved = p.variants[k].reserved + (-1)
          /\ \A i \in Slots(p) \ {k} : q.variants[i].reserved = p.variants[i].reserved
          BY <2>1 DEF RowShift
    <2>6. Promises(q) = Cardinality(HoldersIn(y))  BY <1>1, <1>2, <2>4 DEF Promised
    <2>7. ASSUME NEW i \in Slots(p)
          PROVE  q.variants[i].reserved >= Cardinality(HoldersOf(y, q.variants[i].id))
      <3>1. p.variants[i].reserved >= Cardinality(HoldersOf(x, p.variants[i].id))
            /\ p.variants[i].reserved \in Nat
            BY <2>2 DEF Promised
      <3>2. /\ Cardinality(HoldersOf(x, p.variants[i].id)) \in Nat
            /\ Cardinality(HoldersOf(y, p.variants[i].id)) <= Cardinality(HoldersIn(y))
            /\ Cardinality(HoldersOf(y, p.variants[i].id)) \in Nat
            BY HoldersCount
      <3>3. CASE Live(p, x[o].variant) # 0
        <4>1. CASE i = k  BY <1>1, <1>4, <2>1, <2>5, <3>1, <3>2, <3>3, <4>1
        <4>2. CASE i # k
          <5>1. p.variants[i].id # x[o].variant  BY <2>1, <3>3, <4>2 DEF OwnRows
          <5> QED  BY <1>1, <1>4, <2>5, <3>1, <4>2, <5>1
        <4> QED  BY <4>1, <4>2
      <3>4. CASE Live(p, x[o].variant) = 0
        <4>1. o \in HoldersIn(x)  BY DEF HoldersIn
        <4>2. Slots(p) = {1} /\ i = 1 /\ k = 1  BY <1>6, <3>4, <4>1 DEF Promised
        <4>3. Promises(q) = q.variants[1].reserved
          <5> DEFINE u == UnitsOf(q)
          <5>1. u[1] = q.variants[1].reserved  BY <1>4, <4>2 DEF UnitsOf
          <5>2. q.variants[1].reserved \in Int  BY <1>4, <2>4, <4>2 DEF UnitRows, NumRow
          <5> HIDE DEF u
          <5>3. SumFunctionOnSet(u, {1}) = u[1]  BY <5>1, <5>2, SumSingle
          <5> QED  BY <1>4, <1>6, <4>2, <5>1, <5>3, SumsAre DEF Promises, u
        <4> QED  BY <1>4, <2>6, <3>2, <4>2, <4>3
      <3> QED  BY <3>3, <3>4
    <2>8. ASSUME NEW z \in HoldersIn(y), Live(q, y[z].variant) = 0
          PROVE  Slots(q) = {1} /\ q.variants[1].sku = Plain
      <3>1. z \in HoldersIn(x) /\ Live(p, x[z].variant) = 0
            BY <1>1, <1>4, <2>8 DEF HoldersIn, Alike
      <3>2. Slots(p) = {1} /\ p.variants[1].sku = Plain  BY <1>6, <3>1 DEF Promised
      <3> QED  BY <1>4, <3>2
    <2> QED  BY <1>4, <1>6, <2>5, <2>6, <2>7, <2>8 DEF Promised
  <1> QED  BY <1>5, <1>6

(* A release or a commit of a unit that is held takes one.                   *)
LEMMA ReleasedOne ==
    ASSUME NEW p, NEW x, Promised(p, x), UnitRows(p), NEW o \in Orders, HoldsIn(x, o)
    PROVE  LET q == Release(p, Live(p, x[o].variant))
           IN  /\ ~ HasVariants(p) => SelfShift(p, q, 0, -1)
               /\ HasVariants(p) => \E k \in Slots(p) :
                     /\ RowShift(p, q, k, 0, -1) /\ p.variants[k].reserved >= 1
                     /\ Live(p, x[o].variant) # 0 => p.variants[k].id = x[o].variant
  <1> DEFINE id == Live(p, x[o].variant)
             q == Release(p, id)
  <1>1. Known(p, id) /\ (id # 0 => id = x[o].variant)  BY LiveIsKnown DEF Live
  <1>2. o \in HoldersIn(x) /\ o \in HoldersOf(x, x[o].variant)  BY DEF HoldersIn, HoldersOf
  <1>3. Cardinality(HoldersIn(x)) >= 1 /\ Cardinality(HoldersOf(x, x[o].variant)) >= 1
        BY <1>2, HoldersCount
  <1>4. /\ ~ HasVariants(p) => id = 0 /\ SelfShift(p, q, 0, -Least(p.reserved, 1))
        /\ HasVariants(p) => \E k \in Slots(p), d \in {0, 1} :
              /\ RowShift(p, q, k, 0, -d) /\ p.variants[k].reserved >= d
              /\ id # 0 => p.variants[k].id = id /\ (d = 0 => p.variants[k].reserved = 0)
              /\ id = 0 /\ d = 0 => \A i \in Slots(p) : p.variants[i].reserved = 0
        BY <1>1, ReleaseUnits
  <1> HIDE DEF q
  <1>5. CASE ~ HasVariants(p)
    <2>1. p.reserved >= 1 /\ p.reserved \in Nat
          BY <1>3, <1>5 DEF Promised, Promises, UnitRows, NumRow
    <2>2. Least(p.reserved, 1) = 1  BY <2>1 DEF Least
    <2> QED  BY <1>4, <1>5, <2>2 DEF q
  <1>6. CASE HasVariants(p)
    <2>1. PICK k \in Slots(p), d \in {0, 1} :
              /\ RowShift(p, q, k, 0, -d) /\ p.variants[k].reserved >= d
              /\ id # 0 => p.variants[k].id = id /\ (d = 0 => p.variants[k].reserved = 0)
              /\ id = 0 /\ d = 0 => \A i \in Slots(p) : p.variants[i].reserved = 0
          BY <1>4, <1>6
    <2>2. d # 0
      <3>1. SUFFICES ASSUME d = 0 PROVE FALSE  OBVIOUS
      <3>2. CASE id # 0
        <4>1. p.variants[k].reserved = 0 /\ p.variants[k].id = x[o].variant
              BY <1>1, <2>1, <3>1, <3>2
        <4>2. p.variants[k].reserved >= Cardinality(HoldersOf(x, x[o].variant))
              BY <4>1 DEF Promised
        <4> QED  BY <1>3, <4>1, <4>2, HoldersCount
      <3>3. CASE id = 0
        <4> DEFINE u == UnitsOf(p)
        <4>1. \A i \in Slots(p) : u[i] = 0  BY <2>1, <3>1, <3>3 DEF UnitsOf
        <4> HIDE DEF u
        <4>2. SumFunctionOnSet(u, Slots(p)) = 0  BY <4>1, SumZero, SlotsAre DEF UnitRows
        <4>3. Promises(p) = 0  BY <1>6, <4>2, SumsAre DEF Promises, u
        <4> QED  BY <1>3, <4>3 DEF Promised
      <3> QED  BY <3>2, <3>3
    <2>3. d = 1  BY <2>2
    <2>4. RowShift(p, q, k, 0, -1) /\ p.variants[k].reserved >= 1 /\ (id # 0 => p.variants[k].id = id)
          BY <2>1, <2>3
    <2> QED  BY <1>1, <1>6, <2>4 DEF q
  <1> QED  BY <1>5, <1>6

(* Rows that are replaced while nothing of them is reserved break no promise. *)
LEMMA NothingPromised ==
    ASSUME NEW p, NEW x, Promised(p, x), UnitRows(p), ~ Displaced(p), NEW q,
           \A i \in Slots(q) : q.variants[i].reserved = 0, StockRows(q),
           HasVariants(p) \/ HasVariants(q), q.reserved = p.reserved
    PROVE  Promised(q, x)
  <1>1. Promises(p) = 0  BY SumsCount DEF Displaced, Promises, UnitRows, NumRow
  <1>2. HoldersIn(x) = {} /\ Cardinality(HoldersIn(x)) = 0  BY <1>1, HoldersCount DEF Promised
  <1>3. \A id : Cardinality(HoldersOf(x, id)) = 0  BY <1>2, HoldersCount
  <1>4. q.reserved = 0  BY <1>1 DEF Promised, Promises
  <1>5. Promises(q) = 0
    <2> DEFINE u == UnitsOf(q)
    <2>1. \A i \in Slots(q) : u[i] = 0  BY DEF UnitsOf
    <2> HIDE DEF u
    <2>2. SumFunctionOnSet(u, Slots(q)) = 0  BY <2>1, SumZero, SlotsAre
    <2> QED  BY <1>4, <2>2, SumsAre DEF Promises, u
  <1> QED  BY <1>2, <1>3, <1>4, <1>5 DEF Promised

(* The migration's row takes over what the product promised.                 *)
LEMMA FirstRowAdds ==
    ASSUME NEW p, NEW q, UnitRows(p), UnitRows(q), NEW row, ComesFirst(p, q, row)
    PROVE  SumOver(q, Reserved) = row.reserved + SumOver(p, Reserved)
  <1> DEFINE S == Slots(p)
             T == Slots(q)
             f == UnitsOf(q)
             g == UnitsOf(p)
             e == [i \in S |-> i + 1]
  <1>1. IsFiniteSet(S) /\ IsFiniteSet(T) /\ \A i \in S : i \in Nat /\ i # 0
        BY SlotsAre DEF UnitRows
  <1>2. /\ 1 \in T /\ q.variants[1] = row
        /\ \A i \in S : i + 1 \in T /\ q.variants[i + 1] = p.variants[i]
        /\ \A i \in T : i \in Nat /\ (i = 1 \/ i - 1 \in S)
        BY DEF ComesFirst
  <1>3. /\ \A i \in T : f[i] \in Int
        /\ f[1] = row.reserved
        /\ \A i \in S : g[i] \in Int /\ f[i + 1] = g[i]
    <2>1. \A i \in T : f[i] = q.variants[i].reserved  BY DEF UnitsOf
    <2>2. \A i \in S : g[i] = p.variants[i].reserved  BY DEF UnitsOf
    <2>3. (\A i \in T : q.variants[i].reserved \in Int) /\ \A i \in S : p.variants[i].reserved \in Int
          BY DEF UnitRows, NumRow
    <2> QED  BY <1>2, <2>1, <2>2, <2>3
  <1>4. \A i \in S : e[i] = i + 1  OBVIOUS
  <1> HIDE DEF f, g, S, T, e
  <1>5. SumFunctionOnSet(f, T) = f[1] + SumFunctionOnSet(f, T \ {1})  BY <1>1, <1>2, <1>3, SumRemove
  <1>6. T \ {1} = {e[i] : i \in S}
    <2>1. \A i \in S : e[i] \in T \ {1}  BY <1>1, <1>2, <1>4
    <2>2. ASSUME NEW k \in T \ {1} PROVE \E i \in S : k = e[i]
      <3>1. k - 1 \in S /\ k \in Nat  BY <1>2
      <3>2. e[k - 1] = k  BY <1>4, <3>1
      <3> QED  BY <3>1, <3>2
    <2> QED  BY <2>1, <2>2
  <1>7. IsFiniteSet(T \ {1})  BY <1>1, FS_Subset
  <1>8. \A i, j \in S : e[i] = e[j] => i = j  BY <1>1, <1>4
  <1>9. \A i \in S : g[i] \in Int /\ f[e[i]] = g[i]  BY <1>3, <1>4
  <1>10. SumFunctionOnSet(f, T \ {1}) = SumFunctionOnSet(g, S)
         BY <1>1, <1>6, <1>7, <1>8, <1>9, SumImage
  <1> QED  BY <1>3, <1>5, <1>10, SumsAre DEF f, g, S, T

LEMMA PromisesMove ==
    ASSUME NEW p, NEW x, Promised(p, x), UnitRows(p), NEW q, UnitRows(q),
           NEW row, ComesFirst(p, q, row), Plain \notin Skus(p), row.sku = Plain,
           row.reserved = p.reserved, q.reserved = 0,
           \A o \in Orders : x[o].variant # row.id, row.id # 0
    PROVE  Promised(q, x)
  <1>1. /\ 1 \in Slots(q) /\ q.variants[1] = row
        /\ \A i \in Slots(p) : i + 1 \in Slots(q) /\ q.variants[i + 1] = p.variants[i]
        /\ \A i \in Slots(q) : /\ i \in Nat
                               /\ i = 1 \/ (i - 1 \in Slots(p) /\ q.variants[i] = p.variants[i - 1])
        BY DEF ComesFirst
  <1>2. HasVariants(q)  BY <1>1, SlotsAre DEF UnitRows
  <1>3. HoldersOf(x, row.id) = {} /\ Cardinality(HoldersOf(x, row.id)) = 0
    <2>1. HoldersOf(x, row.id) = {}  BY DEF HoldersOf, HoldersIn
    <2> QED  BY <2>1, HoldersCount
  <1>4. SumOver(q, Reserved) = p.reserved + SumOver(p, Reserved)  BY FirstRowAdds
  <1>5. p.reserved \in Nat /\ SumOver(p, Reserved) \in Nat  BY SumsCount DEF UnitRows, NumRow
  <1>6. Promises(q) = Promises(p)
    <2>1. CASE HasVariants(p)
      <3>1. p.reserved = 0  BY <2>1 DEF Promised
      <3> QED  BY <1>2, <1>4, <1>5, <2>1, <3>1 DEF Promises
    <2>2. CASE ~ HasVariants(p)
      <3>1. Slots(p) = {}  BY <2>2, SlotsAre DEF UnitRows
      <3>2. SumOver(p, Reserved) = 0  BY <3>1, SumsAre, SumEmpty
      <3> QED  BY <1>2, <1>4, <1>5, <2>2, <3>2 DEF Promises
    <2> QED  BY <2>1, <2>2
  <1>7. ASSUME NEW i \in Slots(q)
        PROVE  q.variants[i].reserved >= Cardinality(HoldersOf(x, q.variants[i].id))
    <2>1. CASE i = 1
      <3>1. q.variants[i] = row  BY <1>1, <2>1
      <3>2. q.variants[i].reserved = p.reserved /\ Cardinality(HoldersOf(x, q.variants[i].id)) = 0
            BY <1>3, <3>1
      <3> QED  BY <1>5, <3>2
    <2>2. CASE i # 1  BY <1>1, <2>2 DEF Promised
    <2> QED  BY <2>1, <2>2
  <1>8. ASSUME NEW o \in HoldersIn(x), Live(q, x[o].variant) = 0
        PROVE  Slots(q) = {1} /\ q.variants[1].sku = Plain
    <2>1. CASE HasVariants(p)
      <3>1. Live(p, x[o].variant) # 0
        <4>1. ~ (Slots(p) = {1} /\ p.variants[1].sku = Plain)  BY DEF Skus
        <4> QED  BY <2>1, <4>1 DEF Promised
      <3>2. \E i \in Slots(p) : p.variants[i].id = x[o].variant /\ x[o].variant # 0
            BY <3>1 DEF Live
      <3>3. \E i \in Slots(q) : q.variants[i].id = x[o].variant /\ x[o].variant # 0  BY <1>1, <3>2
      <3> QED  BY <1>8, <3>3 DEF Live
    <2>2. CASE ~ HasVariants(p)
      <3>1. Slots(p) = {}  BY <2>2, SlotsAre DEF UnitRows
      <3> QED  BY <1>1, <3>1
    <2> QED  BY <2>1, <2>2
  <1> QED  BY <1>2, <1>6, <1>7, <1>8 DEF Promised

-----------------------------------------------------------------------------
(* What a step of one request leaves of the others, and of what orders and    *)
(* sessions know of requests.                                                *)
Turn(h) ==
    /\ OthersStay(h) /\ crossed \subseteq crossed'
    /\ Busy(h)' /\ req'[h].kind \in StockKinds => UnitsRead(req'[h])
ClosingKinds == OrderKinds \cup {"confirm", "discard"}
Follows(h) ==
    Busy(h)' /\ req'[h].kind \in ClosingKinds =>
        /\ Busy(h) /\ req[h].kind = req'[h].kind
        /\ req[h].kind \in OrderKinds => req'[h].read = req[h].read

LEMMA TurnReads ==
    ASSUME StockReads, NEW h \in Handlers, Turn(h)
    PROVE  StockReads'
  <1> SUFFICES ASSUME NEW g \in Handlers, Busy(g)', req'[g].kind \in StockKinds
               PROVE  UnitsRead(req'[g])
      BY DEF StockReads
  <1>1. CASE g = h  BY <1>1 DEF Turn
  <1>2. CASE g # h
    <2>1. req'[g] = req[g] /\ Busy(g)  BY <1>2 DEF Turn, OthersStay
    <2> QED  BY <2>1 DEF StockReads
  <1> QED  BY <1>1, <1>2

LEMMA DoingAfter ==
    ASSUME NEW h \in Handlers, OthersStay(h), Follows(h), NEW kinds, kinds \subseteq ClosingKinds,
           NEW g \in Doing(kinds)'
    PROVE  g \in Doing(kinds) /\ req'[g].kind = req[g].kind
           /\ (req[g].kind \in OrderKinds => req'[g].read = req[g].read)
  BY DEF Doing, OthersStay, Follows

LEMMA MadeStill ==
    ASSUME MadeOnce, NEW h \in Handlers, OthersStay(h), Follows(h),
           \A o \in Orders : order[o].pay # "none" => order'[o].pay # "none",
           \A g \in Doing({"order"})' : order'[req[g].read].credit = 0
    PROVE  MadeOnce'
  <1>1. OrderKinds \subseteq ClosingKinds /\ {"order"} \subseteq ClosingKinds
        BY DEF ClosingKinds, OrderKinds
  <1>2. ASSUME NEW g \in Doing(OrderKinds)'
        PROVE  /\ req'[g].read \in Orders /\ order'[req'[g].read].pay # "none"
               /\ req'[g].kind = "order" => order'[req'[g].read].credit = 0
    <2>1. /\ g \in Doing(OrderKinds) /\ req'[g].kind = req[g].kind
          /\ req'[g].read = req[g].read
          BY <1>1, DoingAfter DEF Doing
    <2>2. req'[g].kind = "order" => g \in Doing({"order"})'  BY <1>2 DEF Doing
    <2> QED  BY <2>1, <2>2 DEF MadeOnce
  <1>3. ASSUME NEW g \in Doing({"order"})', NEW k \in Doing({"order"})', req'[g].read = req'[k].read
        PROVE  g = k
    <2>1. /\ g \in Doing({"order"}) /\ k \in Doing({"order"})
          /\ req'[g].read = req[g].read /\ req'[k].read = req[k].read
          BY <1>1, DoingAfter DEF Doing, OrderKinds
    <2> QED  BY <1>3, <2>1 DEF MadeOnce
  <1> QED  BY <1>2, <1>3 DEF MadeOnce

LEMMA SessionStill ==
    ASSUME Session, NEW h \in Handlers, OthersStay(h), Follows(h), crossed \subseteq crossed',
           UNCHANGED <<session, applied>>, LinesStand(lines')
    PROVE  Session'
  <1>1. \A k, l : Apart(k, l)' => Apart(k, l)  BY DEF Apart
  <1>2. Doing({"confirm"})' \subseteq Doing({"confirm"}) /\ Doing({"discard"})' \subseteq Doing({"discard"})
        BY DoingAfter DEF ClosingKinds
  <1>3. /\ Apart("confirm", "confirm") => applied <= 1 /\ (applied # 0 => Doing({"confirm"}) = {})
        /\ Apart("confirm", "discard") =>
              /\ session = "DISCARDED" => applied = 0 /\ Doing({"confirm"}) = {}
              /\ applied # 0 => Doing({"discard"}) = {}
        BY Zenon DEF Session
  <1>4. /\ session \in {"DRAFT", "CONFIRMED", "DISCARDED"} /\ applied \in Nat
        /\ applied # 0 => session # "DRAFT"
        BY DEF Session
  <1>5. session' = session /\ applied' = applied  OBVIOUS
  <1>6. /\ Apart("confirm", "confirm")' => applied' <= 1 /\ (applied' # 0 => Doing({"confirm"})' = {})
        /\ Apart("confirm", "discard")' =>
              /\ session' = "DISCARDED" => applied' = 0 /\ Doing({"confirm"})' = {}
              /\ applied' # 0 => Doing({"discard"})' = {}
        BY <1>1, <1>2, <1>3, <1>5
  <1> QED  BY <1>4, <1>5, <1>6 DEF Session

(* Steps of the desk                                                         *)
LEMMA BeginTurn ==
    ASSUME DeskInv, NEW h \in Handlers, NEW kind, NEW plan, NEW read, Begin(h, kind, plan, read),
           plan # <<>> => UnitsRead([todo |-> plan, kind |-> kind, read |-> read])
    PROVE  Turn(h) /\ (kind \notin ClosingKinds => Follows(h))
  <1>1. /\ OthersStay(h) /\ crossed \subseteq crossed' /\ (Busy(h)' <=> plan # <<>>)  BY AfterBegin
  <1>2. Busy(h)' => req'[h] = [todo |-> plan, kind |-> kind, read |-> read] /\ req'[h].kind = kind
        BY AfterBegin
  <1> QED  BY <1>1, <1>2 DEF Turn, Follows

LEMMA GoTurn ==
    ASSUME DeskInv, NEW h \in Handlers, Busy(h), NEW plan, NEW read, GoOn(h, plan, read),
           plan # <<>> => UnitsRead([todo |-> plan, kind |-> req[h].kind, read |-> read]),
           plan # <<>> /\ req[h].kind \in OrderKinds => read = req[h].read
    PROVE  Turn(h) /\ Follows(h)
  <1>1. /\ OthersStay(h) /\ crossed' = crossed /\ (Busy(h)' <=> plan # <<>>)  BY AfterGoOn
  <1>2. Busy(h)' => /\ req'[h] = [todo |-> plan, kind |-> req[h].kind, read |-> read]
                    /\ req'[h].kind = req[h].kind /\ req'[h].read = read
        BY AfterGoOn
  <1> QED  BY <1>1, <1>2 DEF Turn, Follows

LEMMA StopTurn ==
    ASSUME DeskInv, NEW h \in Handlers, Busy(h), Stop(h)
    PROVE  Turn(h) /\ Follows(h) /\ ~ Busy(h)'
  <1>1. GoOn(h, <<>>, {})  BY DEF Stop
  <1>2. OthersStay(h) /\ crossed' = crossed /\ ~ Busy(h)'  BY <1>1, AfterGoOn
  <1> QED  BY <1>2 DEF Turn, Follows

LEMMA CrashTurn ==
    ASSUME DeskInv, NEW h \in Handlers, Crash(h)
    PROVE  Turn(h) /\ Follows(h) /\ ~ Busy(h)'
  <1>1. OthersStay(h) /\ crossed' = crossed /\ ~ Busy(h)'  BY AfterCrash
  <1> QED  BY <1>1 DEF Turn, Follows

(* Steps that read nothing of units                                          *)
IdleSteps == {"labels", "tell", "arm", "enrol", "gather", "mail", "told", "mark", "regenerate"}
LEMMA IdleReads ==
    ASSUME NEW r, Head(r.todo) \in IdleSteps, r.kind \notin OrderKinds
    PROVE  UnitsRead(r)
  BY DEF UnitsRead, IdleSteps, OrderSteps

LEMMA TailReads ==
    ASSUME NEW r, r.todo \in PlainPlans, UnitsRead(r), Tail(r.todo) # <<>>
    PROVE  UnitsRead([todo |-> Tail(r.todo), kind |-> r.kind, read |-> r.read])
  <1> DEFINE q == [todo |-> Tail(r.todo), kind |-> r.kind, read |-> r.read]
  <1>1. q.todo = Tail(r.todo) /\ q.kind = r.kind /\ q.read = r.read  OBVIOUS
  <1> HIDE DEF q
  <1>2. CASE \E step \in PlainSteps : r.todo = <<step>>
    <2>1. PICK step \in PlainSteps : r.todo = <<step>>  BY <1>2
    <2> QED  BY <2>1
  <1>3. CASE r.todo = <<"rates", "credit">>
    <2>1. Head(r.todo) = "rates" /\ Tail(r.todo) = <<"credit">>  BY <1>3
    <2>2. r.kind = "order"  BY <2>1 DEF UnitsRead, OrderSteps
    <2>3. q.todo = <<"credit">>  BY <1>1, <2>1
    <2>4. Head(q.todo) = "credit"  BY <2>3
    <2> QED  BY <1>1, <2>2, <2>4 DEF UnitsRead, OrderSteps, OrderKinds, q
  <1>4. CASE r.todo = <<"release", "fail">>
    <2>1. Head(r.todo) = "release" /\ Tail(r.todo) = <<"fail">>  BY <1>4
    <2>2. r.kind \in OrderKinds  BY <2>1 DEF UnitsRead, OrderSteps
    <2>3. q.todo = <<"fail">>  BY <1>1, <2>1
    <2>4. Head(q.todo) = "fail"  BY <2>3
    <2> QED  BY <1>1, <2>2, <2>4 DEF UnitsRead, OrderSteps, q
  <1>5. CASE r.todo = <<"labels", "tell">> \/ r.todo = <<"enrol", "gather">>
    <2>1. Head(r.todo) \in {"labels", "enrol"} /\ Head(Tail(r.todo)) \in {"tell", "gather"}  BY <1>5
    <2>2. r.kind \notin OrderKinds  BY <2>1 DEF UnitsRead, OrderSteps
    <2>3. Head(q.todo) \in IdleSteps  BY <1>1, <2>1 DEF IdleSteps
    <2> QED  BY <1>1, <2>2, <2>3, IdleReads DEF q
  <1>6. \/ r.todo \in {<<"rates", "credit">>, <<"release", "fail">>, <<"labels", "tell">>,
                       <<"enrol", "gather">>}
        \/ \E step \in PlainSteps : r.todo = <<step>>
        BY DEF PlainPlans, PlainSteps
  <1> QED  BY <1>2, <1>3, <1>4, <1>5, <1>6

LEMMA ProceedTurn ==
    ASSUME DeskInv, StockRead, StockReads, NEW h \in Handlers, NEW step, At(h, step),
           Concerns(h, StockKinds), step \notin {"read", "save"}, Proceed(h)
    PROVE  Turn(h) /\ Follows(h)
  <1>1. Busy(h) /\ Head(req[h].todo) = step /\ req[h].kind \in StockKinds  BY DEF At, Concerns
  <1>2. UnitsRead(req[h])  BY <1>1 DEF StockReads
  <1>3. GoOn(h, Tail(req[h].todo), req[h].read)  BY DEF Proceed
  <1>4. CASE step \notin {"mark", "regenerate"}
    <2>1. req[h].todo \in PlainPlans  BY <1>4, StockAt
    <2> QED  BY <1>1, <1>2, <1>3, <2>1, TailReads, GoTurn
  <1>5. CASE step \in LabelKinds
    <2>1. req[h].todo = <<step>>  BY <1>5, StockAt
    <2>2. Tail(req[h].todo) = <<>>  BY <2>1
    <2> QED  BY <1>1, <1>3, <2>2, GoTurn
  <1> QED  BY <1>4, <1>5 DEF LabelKinds

(* Nothing of the units changes                                              *)
UnitsAside ==
    UNCHANGED <<product, order, held, ledger, lastId, strayed, written, session, lines, applied, amiss>>

LEMMA OrdersAside ==
    ASSUME OrdersStand, UNCHANGED <<order, held, lastId>>
    PROVE  OrdersStand'
  BY DEF OrdersStand

LEMMA HoldAside ==
    ASSUME UnitsHold, UNCHANGED <<product, order, ledger, strayed, written>>
    PROVE  UnitsHold'
  BY DEF UnitsHold

LEMMA UnitsStay ==
    ASSUME UnitsInv, NEW h \in Handlers, Turn(h), Follows(h), UnitsAside
    PROVE  UnitsInv'
  <1>1. StockReads'  BY TurnReads DEF UnitsInv
  <1>2. OrdersStand' /\ UnitsHold' /\ ~ amiss'  BY OrdersAside, HoldAside DEF UnitsInv, UnitsAside
  <1>3. MadeOnce'
    <2>1. \A g \in Doing({"order"})' : order'[req[g].read].credit = 0
      <3>1. ASSUME NEW g \in Doing({"order"})' PROVE order'[req[g].read].credit = 0
        <4>1. g \in Doing({"order"})  BY DoingAfter DEF Turn, ClosingKinds, OrderKinds
        <4>2. g \in Doing(OrderKinds) /\ req[g].kind = "order"  BY <4>1 DEF Doing, OrderKinds
        <4> QED  BY <4>2 DEF UnitsInv, MadeOnce, UnitsAside
      <3> QED  BY <3>1
    <2> QED  BY <2>1, MadeStill DEF UnitsInv, UnitsAside, Turn
  <1>4. Session'
    <2>1. LinesStand(lines')  BY DEF UnitsInv, Session, UnitsAside
    <2> QED  BY <2>1, SessionStill DEF UnitsInv, UnitsAside, Turn
  <1> QED  BY <1>1, <1>2, <1>3, <1>4 DEF UnitsInv

(* The product after one row, or itself, has moved                           *)
Shifts(p, q, ds, dr) ==
    /\ ~ HasVariants(p) => SelfShift(p, q, ds, dr) /\ p.reserved + dr \in Nat
    /\ HasVariants(p) =>
          \E k \in Slots(p) : RowShift(p, q, k, ds, dr) /\ p.variants[k].reserved + dr \in Nat

LEMMA ShiftHolds ==
    ASSUME NEW p, NEW q, UnitRows(p), NEW ds, NEW dr, Shifts(p, q, ds, dr)
    PROVE  UnitRows(q) /\ \A e \in Int : Recorded(p, e) => Recorded(q, e + ds)
  <1>0. OnHand(p) \in Int /\ Len(p.variants) \in Nat  BY SumsCount, SlotsAre DEF UnitRows
  <1>1. CASE ~ HasVariants(p)
    <2>1. SelfShift(p, q, ds, dr) /\ p.reserved + dr \in Nat  BY <1>1 DEF Shifts
    <2>2. /\ UnitRows(q) /\ Len(q.variants) = Len(p.variants)
          /\ OnHand(q) = OnHand(p) + ds /\ q.stock = OnHand(q)
          BY <1>1, <2>1, SelfShifts
    <2>3. ds \in Int  BY <2>1 DEF SelfShift
    <2>4. Opening * Most(1, Len(p.variants)) \in Int
          BY <1>0, CatalogueAssumption DEF CatalogueAssumption, Most
    <2>5. ASSUME NEW e \in Int, Recorded(p, e) PROVE Recorded(q, e + ds)
      <3> DEFINE m == Opening * Most(1, Len(p.variants))
      <3>1. OnHand(p) = e + m /\ m \in Int  BY <2>4, <2>5 DEF Recorded
      <3>2. m = Opening * Most(1, Len(q.variants))  BY <2>2
      <3> HIDE DEF m
      <3>3. OnHand(q) = (e + ds) + m  BY <2>2, <2>3, <3>1
      <3> QED  BY <2>2, <3>2, <3>3 DEF Recorded
    <2> QED  BY <2>2, <2>5
  <1>2. CASE HasVariants(p)
    <2>1. PICK k \in Slots(p) : RowShift(p, q, k, ds, dr) /\ p.variants[k].reserved + dr \in Nat
          BY <1>2 DEF Shifts
    <2>2. UnitRows(q) /\ Len(q.variants) = Len(p.variants) /\ OnHand(q) = OnHand(p) + ds
          BY <2>1, RowShifts
    <2>3. ds \in Int /\ (q.stock = OnHand(q) \/ (ds = 0 /\ q.stock = p.stock))  BY <2>1 DEF RowShift
    <2>4. Opening * Most(1, Len(p.variants)) \in Int
          BY <1>0, CatalogueAssumption DEF CatalogueAssumption, Most
    <2>5. ASSUME NEW e \in Int, Recorded(p, e) PROVE Recorded(q, e + ds)
      <3> DEFINE m == Opening * Most(1, Len(p.variants))
      <3>1. OnHand(p) = e + m /\ m \in Int /\ p.stock = OnHand(p)  BY <2>4, <2>5 DEF Recorded
      <3>2. m = Opening * Most(1, Len(q.variants))  BY <2>2
      <3> HIDE DEF m
      <3>3. OnHand(q) = (e + ds) + m  BY <2>2, <2>3, <3>1
      <3>4. q.stock = OnHand(q)  BY <1>0, <2>2, <2>3, <3>1
      <3> QED  BY <3>2, <3>3, <3>4 DEF Recorded
    <2> QED  BY <2>2, <2>5
  <1> QED  BY <1>1, <1>2

(* One order changes.                                                        *)
LEMMA OrderPut ==
    ASSUME OrdersStand, NEW o \in Orders, order' \in [Orders -> OrderRecords],
           \A z \in Orders \ {o} : order'[z] = order[z],
           order'[o].variant <= lastId, order'[o].pay # "none",
           held' = held - order[o].credit + order'[o].credit, lastId' = lastId
    PROVE  OrdersStand'
  <1> DEFINE f == [z \in Orders |-> order[z].credit]
             g == [z \in Orders |-> order'[z].credit]
  <1>1. IsFiniteSet(Orders)  BY CatalogueAssumption DEF CatalogueAssumption
  <1>2. \A z \in Orders : f[z] \in Int /\ g[z] \in Int  BY DEF OrdersStand, OrderRecords
  <1>3. \A z \in Orders \ {o} : f[z] = g[z]  OBVIOUS
  <1>4. f[o] = order[o].credit /\ g[o] = order'[o].credit  OBVIOUS
  <1>5. held = SumFunctionOnSet(f, Orders)  BY DEF OrdersStand
  <1>6. \A z \in Orders : order'[z].variant <= lastId' /\ (order'[z].pay = "none" => order'[z] = NoOrder)
        BY DEF OrdersStand
  <1> HIDE DEF f, g
  <1>7. SumFunctionOnSet(g, Orders) = SumFunctionOnSet(f, Orders) - f[o] + g[o]
        BY <1>1, <1>2, <1>3, SumChange
  <1>8. held' = SumFunctionOnSet(g, Orders)  BY <1>4, <1>5, <1>7
  <1> QED  BY <1>6, <1>8 DEF OrdersStand, g

(* What one release leaves                                                   *)
LEMMA ReleaseShifts ==
    ASSUME NEW p, UnitRows(p), NEW id, Known(p, id)
    PROVE  \E dr : Shifts(p, Release(p, id), 0, dr)
  <1> DEFINE q == Release(p, id)
  <1>1. /\ ~ HasVariants(p) => /\ id = 0
                               /\ SelfShift(p, q, 0, -Least(p.reserved, 1))
        /\ HasVariants(p) => \E k \in Slots(p), d \in {0, 1} :
              /\ RowShift(p, q, k, 0, -d) /\ p.variants[k].reserved >= d
        BY ReleaseUnits
  <1> HIDE DEF q
  <1>2. CASE ~ HasVariants(p)
    <2> DEFINE dr == -Least(p.reserved, 1)
    <2>1. p.reserved + dr \in Nat  BY DEF UnitRows, NumRow, Least
    <2>2. SelfShift(p, q, 0, dr)  BY <1>1, <1>2
    <2> HIDE DEF dr
    <2> QED  BY <1>2, <2>1, <2>2 DEF Shifts, q
  <1>3. CASE HasVariants(p)
    <2>1. PICK k \in Slots(p), d \in {0, 1} : RowShift(p, q, k, 0, -d) /\ p.variants[k].reserved >= d
          BY <1>1, <1>3
    <2> DEFINE dr == -d
    <2>2. p.variants[k].reserved \in Nat  BY DEF UnitRows, NumRow
    <2>3. p.variants[k].reserved + dr \in Nat  BY <2>1, <2>2
    <2>4. RowShift(p, q, k, 0, dr)  BY <2>1
    <2> HIDE DEF dr
    <2> QED  BY <1>3, <2>3, <2>4 DEF Shifts, q
  <1> QED  BY <1>2, <1>3

LEMMA ReleaseHolds ==
    ASSUME UnitsHold, OrdersStand, OwnRows(product), NEW o \in Orders, ReleaseResources(o),
           UNCHANGED <<ledger, lastId, written>>
    PROVE  /\ UnitsHold' /\ OrdersStand'
           /\ \A z \in Orders : /\ order'[z].pay = order[z].pay
                                /\ order'[z].credit = 0 \/ order'[z].credit = order[z].credit
           /\ order[o].credit # 0 /\ order[o].pay # "PAID" => order'[o].credit = 0
  <1> DEFINE id == Live(product, order[o].variant)
  <1>1. CASE UNCHANGED <<product, orderRows, strayed>> /\ order[o].pay \in {"none", "PAID"}
    <2>1. order[o].pay = "none" => order[o].credit = 0  BY DEF OrdersStand, NoOrder
    <2> QED  BY <1>1, <2>1, HoldAside, OrdersAside DEF orderRows
  <1>2. CASE order[o].pay \notin {"none", "PAID"}
    <2>1. /\ product' = Release(product, id)
          /\ order' = [order EXCEPT ![o].credit = 0, ![o].freed = @ + 1]
          /\ held' = held - order[o].credit
          /\ strayed' = (strayed \/ order[o].freed > 0)
          BY <1>2, Zenon DEF ReleaseResources
    <2>2. order \in [Orders -> OrderRecords] /\ held \in Int
      <3>1. order \in [Orders -> OrderRecords]  BY DEF OrdersStand
      <3> DEFINE f == [z \in Orders |-> order[z].credit]
      <3>2. \A z \in Orders : f[z] \in Int  BY <3>1 DEF OrderRecords
      <3>3. held = SumFunctionOnSet(f, Orders) /\ IsFiniteSet(Orders)
            BY CatalogueAssumption DEF OrdersStand, CatalogueAssumption
      <3> HIDE DEF f
      <3> QED  BY <3>1, <3>2, <3>3, SumInt
    <2>3. /\ order' \in [Orders -> OrderRecords]
          /\ \A z \in Orders \ {o} : order'[z] = order[z]
          /\ order'[o].pay = order[o].pay /\ order'[o].variant = order[o].variant
          /\ order'[o].credit = 0 /\ order'[o].freed = order[o].freed + 1
          BY <2>1, <2>2 DEF OrderRecords
    <2>4. order[o].credit \in Nat /\ order[o].freed \in Nat /\ order[o].variant <= lastId
          BY <2>2 DEF OrderRecords, OrdersStand
    <2>5. OrdersStand'
      <3>1. held' = held - order[o].credit + order'[o].credit  BY <2>1, <2>2, <2>3, <2>4
      <3> QED  BY <1>2, <2>3, <2>4, <3>1, OrderPut
    <2>6. UnitRows(product) /\ ledger \in Int  BY DEF UnitsHold
    <2>7. PICK dr : Shifts(product, product', 0, dr)  BY <2>1, <2>6, LiveIsKnown, ReleaseShifts
    <2>8. UnitRows(product') /\ \A e \in Int : Recorded(product, e) => Recorded(product', e + 0)
          BY <2>6, <2>7, ShiftHolds
    <2>9. ASSUME ~ written' PROVE Recorded(product', ledger')
      <3>1. Recorded(product, ledger)  BY <2>9 DEF UnitsHold
      <3>2. Recorded(product', ledger + 0)  BY <2>6, <2>8, <3>1
      <3>3. ledger' = ledger + 0  BY <2>6
      <3> QED  BY <3>2, <3>3
    <2>10. ASSUME ~ strayed' PROVE Promised(product', order')
      <3>0. ~ (strayed \/ order[o].freed > 0)  BY <2>1, <2>10, Zenon
      <3>1. ~ strayed /\ order[o].freed = 0
        <4>1. ~ strayed /\ ~ (order[o].freed > 0)  BY <3>0, Zenon
        <4>2. order[o].freed = 0  BY <2>4, <4>1
        <4> QED  BY <4>1, <4>2, Zenon
      <3>2. HoldsIn(order, o) /\ ~ HoldsIn(order', o)  BY <1>2, <2>3, <3>1 DEF HoldsIn
      <3>3. \A z \in Orders \ {o} : Alike(order, order', z)  BY <2>3 DEF Alike, HoldsIn
      <3>4. Promised(product, order)  BY <3>1 DEF UnitsHold
      <3>5. /\ ~ HasVariants(product) => SelfShift(product, product', 0, -1)
            /\ HasVariants(product) => \E k \in Slots(product) :
                  /\ RowShift(product, product', k, 0, -1) /\ product.variants[k].reserved >= 1
                  /\ Live(product, order[o].variant) # 0 => product.variants[k].id = order[o].variant
            BY <2>1, <2>6, <3>2, <3>4, ReleasedOne
      <3> HIDE DEF id
      <3> QED  BY <2>6, <3>2, <3>3, <3>4, <3>5, PromiseEnds
    <2>11. UnitsHold'  BY <2>6, <2>8, <2>9, <2>10 DEF UnitsHold
    <2> QED  BY <2>3, <2>5, <2>11
  <1> QED  BY <1>1, <1>2, Zenon DEF ReleaseResources

(* Steps that only read units                                                *)
LEMMA AllAside == ASSUME UNCHANGED <<catalogue, warehouse>> PROVE UnitsAside
  BY DEF catalogue, warehouse, UnitsAside

LEMMA HereReads ==
    ASSUME StockReads, NEW h \in Handlers, NEW step, At(h, step), Concerns(h, StockKinds)
    PROVE  Busy(h) /\ Head(req[h].todo) = step /\ UnitsRead(req[h])
  BY DEF StockReads, At, Concerns

LEMMA BeginIdle ==
    ASSUME DeskInv, NEW h \in Handlers, NEW kind, NEW plan, NEW read, Begin(h, kind, plan, read),
           kind \notin ClosingKinds,
           plan # <<>> => Head(plan) \in IdleSteps
    PROVE  Turn(h) /\ Follows(h)
  <1> DEFINE r == [todo |-> plan, kind |-> kind, read |-> read]
  <1>1. r.todo = plan /\ r.kind = kind  OBVIOUS
  <1> HIDE DEF r
  <1>2. plan # <<>> => UnitsRead(r)  BY <1>1, IdleReads DEF ClosingKinds
  <1> QED  BY <1>2, BeginTurn DEF r

LEMMA GoIdle ==
    ASSUME DeskInv, NEW h \in Handlers, Busy(h), req[h].kind \notin OrderKinds,
           NEW plan, NEW read, GoOn(h, plan, read),
           plan # <<>> => Head(plan) \in IdleSteps
    PROVE  Turn(h) /\ Follows(h)
  <1> DEFINE r == [todo |-> plan, kind |-> req[h].kind, read |-> read]
  <1>1. r.todo = plan /\ r.kind = req[h].kind  OBVIOUS
  <1> HIDE DEF r
  <1>2. plan # <<>> => UnitsRead(r)  BY <1>1, IdleReads
  <1> QED  BY <1>2, GoTurn DEF r

LEMMA NotOrders ==
    ASSUME NEW r, UnitsRead(r), Head(r.todo) \notin OrderSteps
    PROVE  r.kind \notin OrderKinds
  BY DEF UnitsRead

LEMMA FormStays ==
    ASSUME DeskInv, StockRead, UnitsInv, NEW h \in Handlers, Concerns(h, StockKinds),
           UNCHANGED warehouse,
           OpenForm(h) \/ ReadProduct(h) \/ EnsureLabels(h) \/ TellShoppers(h) \/ StartMigration(h)
    PROVE  UnitsInv'
  <1>0. StockReads /\ UnitRows(product)  BY DEF UnitsInv, UnitsHold
  <1>1. CASE OpenForm(h)
    <2>1. PICK c \in Changes :
             Begin(h, c.what, <<"read", "save", "labels", "tell">>, [form |-> product, c |-> c])
          BY <1>1, Zenon DEF OpenForm
    <2>2. c.what \notin ClosingKinds  BY DEF Changes, ClosingKinds, OrderKinds
    <2> DEFINE plan == <<"read", "save", "labels", "tell">>
               read == [form |-> product, c |-> c]
               r == [todo |-> plan, kind |-> c.what, read |-> read]
    <2>3. Head(plan) = "read" /\ r.todo = plan /\ r.kind = c.what /\ r.read = read /\ read.form = product
          OBVIOUS
    <2>4. Begin(h, c.what, plan, read)  BY <2>1
    <2> HIDE DEF plan, read, r
    <2>5. UnitsRead(r)  BY <1>0, <2>2, <2>3 DEF UnitsRead, OrderSteps, ClosingKinds
    <2>6. Turn(h) /\ Follows(h)  BY <2>2, <2>4, <2>5, BeginTurn DEF r
    <2>7. UNCHANGED catalogue  BY <1>1, Zenon DEF OpenForm
    <2> QED  BY <2>6, <2>7, AllAside, UnitsStay
  <1>2. CASE ReadProduct(h)
    <2> DEFINE plan == <<"save", "labels", "tell">>
               read == [form |-> req[h].read.form, c |-> req[h].read.c, row |-> product]
               r == [todo |-> plan, kind |-> req[h].kind, read |-> read]
    <2>1. At(h, "read") /\ GoOn(h, plan, read) /\ UNCHANGED catalogue
          BY <1>2, Zenon DEF ReadProduct
    <2>2. Busy(h) /\ Head(req[h].todo) = "read" /\ UnitsRead(req[h])  BY <1>0, <2>1, HereReads
    <2>3. req[h].kind \notin OrderKinds /\ UnitRows(req[h].read.form)
          BY <2>2, NotOrders DEF UnitsRead, OrderSteps
    <2>4. Head(plan) = "save" /\ r.todo = plan /\ r.kind = req[h].kind /\ r.read = read
          /\ read.form = req[h].read.form
          OBVIOUS
    <2> HIDE DEF plan, read, r
    <2>5. UnitsRead(r)  BY <2>3, <2>4 DEF UnitsRead, OrderSteps
    <2>6. Turn(h) /\ Follows(h)  BY <2>1, <2>2, <2>3, <2>5, GoTurn DEF r
    <2> QED  BY <2>1, <2>6, AllAside, UnitsStay
  <1>3. CASE EnsureLabels(h)
    <2>1. At(h, "labels") /\ Proceed(h) /\ UNCHANGED <<product, orderRows, ledger, lastId, past>>
          BY <1>3, Zenon DEF EnsureLabels
    <2>2. Turn(h) /\ Follows(h)  BY <1>0, <2>1, ProceedTurn
    <2>3. UnitsAside  BY <2>1 DEF UnitsAside, orderRows, past, warehouse
    <2> QED  BY <2>2, <2>3, UnitsStay
  <1>4. CASE TellShoppers(h)
    <2>1. At(h, "tell") /\ Proceed(h) /\ UNCHANGED <<product, orderRows, ledger, lastId, past>>
          BY <1>4, Zenon DEF TellShoppers
    <2>2. Turn(h) /\ Follows(h)  BY <1>0, <2>1, ProceedTurn
    <2>3. UnitsAside  BY <2>1 DEF UnitsAside, orderRows, past, warehouse
    <2> QED  BY <2>2, <2>3, UnitsStay
  <1>5. CASE StartMigration(h)
    <2>1. Begin(h, "migrate", <<"migrate">>, product) /\ UNCHANGED catalogue
          BY <1>5, Zenon DEF StartMigration
    <2> DEFINE plan == <<"migrate">>
               r == [todo |-> plan, kind |-> "migrate", read |-> product]
    <2>2. Head(plan) = "migrate" /\ r.todo = plan /\ r.kind = "migrate" /\ r.read = product  OBVIOUS
    <2>3. Begin(h, "migrate", plan, product)  BY <2>1
    <2> HIDE DEF plan, r
    <2>4. UnitsRead(r)  BY <1>0, <2>2 DEF UnitsRead, OrderSteps, OrderKinds
    <2>5. "migrate" \notin ClosingKinds  BY DEF ClosingKinds, OrderKinds
    <2>6. Turn(h) /\ Follows(h)  BY <2>3, <2>4, <2>5, BeginTurn DEF r
    <2> QED  BY <2>1, <2>6, AllAside, UnitsStay
  <1> QED  BY <1>1, <1>2, <1>3, <1>4, <1>5, Zenon

LEMMA LabelStays ==
    ASSUME DeskInv, StockRead, UnitsInv, NEW h \in Handlers, Concerns(h, StockKinds),
           UNCHANGED warehouse,
           FindLabel(h, "mark") \/ FindLabel(h, "regenerate") \/ MarkSent(h) \/ Regenerate(h)
    PROVE  UnitsInv'
  <1>0. StockReads  BY DEF UnitsInv
  <1>1. ASSUME NEW kind \in LabelKinds, FindLabel(h, kind)
        PROVE  UnitsInv'
    <2>1. PICK read : Begin(h, kind, <<kind>>, read)  BY <1>1, Zenon DEF FindLabel
    <2>2. Head(<<kind>>) \in IdleSteps /\ kind \notin ClosingKinds
          BY DEF LabelKinds, IdleSteps, ClosingKinds, OrderKinds
    <2>3. Turn(h) /\ Follows(h)  BY <2>1, <2>2, BeginIdle
    <2>4. UNCHANGED catalogue  BY <1>1, Zenon DEF FindLabel
    <2> QED  BY <2>3, <2>4, AllAside, UnitsStay
  <1>2. CASE MarkSent(h)
    <2>1. At(h, "mark") /\ Proceed(h) /\ UNCHANGED <<product, orderRows, ledger, lastId, strayed, written>>
          BY <1>2, Zenon DEF MarkSent
    <2>2. Turn(h) /\ Follows(h)  BY <1>0, <2>1, ProceedTurn
    <2>3. UnitsAside  BY <2>1 DEF UnitsAside, orderRows, warehouse
    <2> QED  BY <2>2, <2>3, UnitsStay
  <1>3. CASE Regenerate(h)
    <2>1. At(h, "regenerate") /\ Proceed(h)  BY <1>3, Zenon DEF Regenerate
    <2>2. UNCHANGED catalogue \/ UNCHANGED <<product, orderRows, ledger, lastId, strayed, written>>
          BY <1>3, Zenon DEF Regenerate
    <2>3. Turn(h) /\ Follows(h)  BY <1>0, <2>1, ProceedTurn
    <2>4. UnitsAside  BY <2>2, AllAside DEF UnitsAside, orderRows, warehouse
    <2> QED  BY <2>3, <2>4, UnitsStay
  <1> QED  BY <1>1, <1>2, <1>3, Zenon DEF LabelKinds

LEMMA AlertsStay ==
    ASSUME DeskInv, StockRead, UnitsInv, NEW h \in Handlers, Concerns(h, StockKinds), AlertsStep(h)
    PROVE  UnitsInv'
  <1>0. StockReads /\ "ask" \notin ClosingKinds /\ "notify" \notin ClosingKinds
        BY DEF UnitsInv, ClosingKinds, OrderKinds
  <1>1. CASE Subscribe(h) \/ Toggle(h)
    <2>1. \E plan \in {<<"arm">>, <<>>} : \E read : Begin(h, "ask", plan, read)
          BY <1>1, Zenon DEF Subscribe, Toggle
    <2>2. \A plan \in {<<"arm">>, <<>>} : plan # <<>> => Head(plan) \in IdleSteps  BY DEF IdleSteps
    <2>3. Turn(h) /\ Follows(h)  BY <1>0, <2>1, <2>2, BeginIdle
    <2>4. UNCHANGED <<catalogue, warehouse>>  BY <1>1, Zenon DEF Subscribe, Toggle
    <2> QED  BY <2>3, <2>4, AllAside, UnitsStay
  <1>2. CASE Hook(h) \/ Job(h)
    <2> DEFINE plans == {<<"gather">>, <<"enrol", "gather">>}
    <2>1. \E plan \in plans : \E read : Begin(h, "notify", plan, read)
          BY <1>2, Zenon DEF Hook, Job, Notify, Enrolment
    <2>2. \A plan \in plans : plan # <<>> => Head(plan) \in IdleSteps  BY DEF IdleSteps
    <2>3. Turn(h) /\ Follows(h)  BY <1>0, <2>1, <2>2, BeginIdle
    <2>4. \/ UNCHANGED <<catalogue, warehouse>>
          \/ UNCHANGED <<product, orderRows, ledger, lastId, past, warehouse>>
          BY <1>2, Zenon DEF Hook, Job
    <2>5. UnitsAside  BY <2>4, AllAside DEF UnitsAside, orderRows, past, warehouse
    <2> QED  BY <2>3, <2>5, UnitsStay
  <1>3. CASE Arm(h)
    <2>1. At(h, "arm") /\ Proceed(h) /\ UNCHANGED <<catalogue, warehouse>>
          BY <1>3, Zenon DEF Arm, ArmFor
    <2>2. Turn(h) /\ Follows(h)  BY <1>0, <2>1, ProceedTurn
    <2> QED  BY <2>1, <2>2, AllAside, UnitsStay
  <1>4. CASE (At(h, "enrol") /\ Enrol(h)) \/ Gather(h) \/ (At(h, "mail") /\ Mail(h)) \/ Mark(h)
    <2> DEFINE plans == {<<>>, <<"enrol", "gather">>, <<"gather">>, <<"mail">>, <<"told">>}
    <2>1. UNCHANGED <<catalogue, warehouse>>  BY <1>4, Zenon DEF Enrol, ArmFor, Gather, Mail, Mark
    <2>2. \E step \in {"enrol", "gather", "mail", "told"} : At(h, step)
          BY <1>4, Zenon DEF Gather, Mark
    <2>3. Stop(h) \/ \E plan \in plans : \E read : GoOn(h, plan, read)
          BY <1>4, Zenon DEF Enrol, Enrolment, Gather, Mail, Mark
    <2>4. Busy(h) /\ req[h].kind \notin OrderKinds
          BY <1>0, <2>2, HereReads, NotOrders DEF OrderSteps
    <2>5. \A plan \in plans : plan # <<>> => Head(plan) \in IdleSteps  BY DEF IdleSteps
    <2>6. Turn(h) /\ Follows(h)  BY <2>3, <2>4, <2>5, StopTurn, GoIdle
    <2> QED  BY <2>1, <2>6, AllAside, UnitsStay
  <1> QED  BY <1>1, <1>2, <1>3, <1>4, Zenon DEF AlertsStep

(* Steps of orders                                                           *)
LEMMA HeldCounts ==
    ASSUME OrdersStand
    PROVE  /\ held \in Int /\ order \in [Orders -> OrderRecords]
           /\ \A o \in Orders : /\ order[o] \in OrderRecords /\ order[o].credit \in Nat
                                /\ order[o].freed \in Nat /\ order[o].variant \in Nat
  <1>1. order \in [Orders -> OrderRecords]  BY DEF OrdersStand
  <1> DEFINE f == [z \in Orders |-> order[z].credit]
  <1>2. \A z \in Orders : f[z] \in Int  BY <1>1 DEF OrderRecords
  <1>3. held = SumFunctionOnSet(f, Orders) /\ IsFiniteSet(Orders)
        BY CatalogueAssumption DEF OrdersStand, CatalogueAssumption
  <1> HIDE DEF f
  <1>4. held \in Int  BY <1>2, <1>3, SumInt
  <1> QED  BY <1>1, <1>4 DEF OrderRecords

LEMMA SessionBeside ==
    ASSUME Session, NEW h \in Handlers, OthersStay(h), crossed \subseteq crossed',
           Busy(h)' => req'[h].kind \notin {"confirm", "discard"},
           UNCHANGED <<session, applied>>, LinesStand(lines')
    PROVE  Session'
  <1>1. \A k, l : Apart(k, l)' => Apart(k, l)  BY DEF Apart
  <1>2. Doing({"confirm"})' \subseteq Doing({"confirm"}) /\ Doing({"discard"})' \subseteq Doing({"discard"})
        BY DEF Doing, OthersStay, Busy
  <1>3. /\ Apart("confirm", "confirm") => applied <= 1 /\ (applied # 0 => Doing({"confirm"}) = {})
        /\ Apart("confirm", "discard") =>
              /\ session = "DISCARDED" => applied = 0 /\ Doing({"confirm"}) = {}
              /\ applied # 0 => Doing({"discard"}) = {}
        BY Zenon DEF Session
  <1>4. /\ session \in {"DRAFT", "CONFIRMED", "DISCARDED"} /\ applied \in Nat
        /\ applied # 0 => session # "DRAFT"
        BY DEF Session
  <1>5. session' = session /\ applied' = applied  OBVIOUS
  <1>6. /\ Apart("confirm", "confirm")' => applied' <= 1 /\ (applied' # 0 => Doing({"confirm"})' = {})
        /\ Apart("confirm", "discard")' =>
              /\ session' = "DISCARDED" => applied' = 0 /\ Doing({"confirm"})' = {}
              /\ applied' # 0 => Doing({"discard"})' = {}
        BY <1>1, <1>2, <1>3, <1>5
  <1> QED  BY <1>4, <1>5, <1>6 DEF Session

LEMMA OrderMoves ==
    ASSUME UnitsInv, NEW h \in Handlers, Turn(h), Follows(h), UnitsHold', OrdersStand',
           UNCHANGED <<session, lines, applied, amiss>>,
           \A o \in Orders : order[o].pay # "none" => order'[o].pay # "none",
           \A g \in Doing({"order"})' : order'[req[g].read].credit = 0
    PROVE  UnitsInv'
  <1>1. StockReads'  BY TurnReads DEF UnitsInv
  <1>2. MadeOnce'  BY MadeStill DEF UnitsInv, Turn
  <1>3. Session'
    <2>1. LinesStand(lines')  BY DEF UnitsInv, Session
    <2> QED  BY <2>1, SessionStill DEF UnitsInv, Turn
  <1> QED  BY <1>1, <1>2, <1>3 DEF UnitsInv

(* An order's request begins.                                                *)
LEMMA OrderBegins ==
    ASSUME DeskInv, UnitsInv, NEW h \in Handlers, NEW kind \in OrderKinds, NEW plan,
           plan # <<>>, Head(plan) \in OrderSteps,
           Head(plan) \in {"rates", "credit"} => kind = "order",
           NEW o \in Orders, Begin(h, kind, plan, o),
           UnitsHold', OrdersStand', UNCHANGED <<session, lines, applied, amiss>>,
           order'[o].pay # "none",
           kind = "order" => order'[o].credit = 0 /\ order[o].pay = "none",
           \A z \in Orders : order[z].pay # "none" =>
              order'[z].pay # "none" /\ order'[z].credit = order[z].credit
    PROVE  UnitsInv'
  <1> DEFINE r == [todo |-> plan, kind |-> kind, read |-> o]
  <1>1. r.todo = plan /\ r.kind = kind  OBVIOUS
  <1>2. UnitsRead(r)
    <2> HIDE DEF r
    <2> QED  BY <1>1 DEF UnitsRead, OrderSteps
  <1> HIDE DEF r
  <1>3. Turn(h)  BY <1>2, BeginTurn DEF r
  <1>4. /\ OthersStay(h) /\ ~ Busy(h) /\ Busy(h)' /\ crossed \subseteq crossed'
        /\ req'[h].kind = kind /\ req'[h].read = o
        BY AfterBegin
  <1>5. StockReads'  BY <1>3, TurnReads DEF UnitsInv
  <1>6. MadeOnce'
    <2>1. \A g \in Handlers \ {h} : g \in Doing(OrderKinds)' => g \in Doing(OrderKinds) /\ req'[g] = req[g]
          BY <1>4 DEF OthersStay, Doing
    <2>2. ASSUME NEW g \in Doing(OrderKinds)'
          PROVE  /\ req'[g].read \in Orders /\ order'[req'[g].read].pay # "none"
                 /\ req'[g].kind = "order" => order'[req'[g].read].credit = 0
      <3>1. CASE g = h  BY <1>4, <3>1
      <3>2. CASE g # h
        <4>1. g \in Doing(OrderKinds) /\ req'[g] = req[g]  BY <2>1, <3>2 DEF Doing
        <4>2. /\ req[g].read \in Orders /\ order[req[g].read].pay # "none"
              /\ req[g].kind = "order" => order[req[g].read].credit = 0
              BY <4>1 DEF UnitsInv, MadeOnce
        <4> QED  BY <4>1, <4>2
      <3> QED  BY <3>1, <3>2
    <2>3. ASSUME NEW g \in Doing({"order"})', NEW k \in Doing({"order"})', req'[g].read = req'[k].read
          PROVE  g = k
      <3>1. \A x \in Handlers \ {h} : x \in Doing({"order"})' =>
               x \in Doing({"order"}) /\ x \in Doing(OrderKinds) /\ req'[x] = req[x]
            BY <1>4 DEF OthersStay, Doing, OrderKinds
      <3>2. \A x \in Doing({"order"}) : order[req[x].read].pay # "none"
            BY DEF UnitsInv, MadeOnce, Doing, OrderKinds
      <3>3. h \in Doing({"order"})' => kind = "order"  BY <1>4 DEF Doing
      <3>4. g \in Handlers /\ k \in Handlers  BY DEF Doing
      <3>5. CASE g = h /\ k # h  BY <1>4, <2>3, <3>1, <3>2, <3>3, <3>4, <3>5
      <3>6. CASE k = h /\ g # h  BY <1>4, <2>3, <3>1, <3>2, <3>3, <3>4, <3>6
      <3>7. CASE g # h /\ k # h  BY <2>3, <3>1, <3>4, <3>7 DEF UnitsInv, MadeOnce
      <3> QED  BY <3>5, <3>6, <3>7
    <2> QED  BY <2>2, <2>3 DEF MadeOnce
  <1>7. Session'
    <2>1. LinesStand(lines')  BY DEF UnitsInv, Session
    <2>2. kind \notin {"confirm", "discard"}  BY DEF OrderKinds
    <2> QED  BY <1>4, <2>1, <2>2, SessionBeside DEF UnitsInv
  <1> QED  BY <1>5, <1>6, <1>7 DEF UnitsInv

LEMMA Placed ==
    ASSUME DeskInv, LabelInv, UnitsInv, NEW h \in Handlers, UNCHANGED warehouse, PlaceOrder(h)
    PROVE  UnitsInv'
  <1>1. PICK o \in Orders, id \in {0} \cup {product.variants[i].id : i \in Slots(product)} :
           /\ order[o].pay = "none" /\ CanReserve(product, id)
           /\ Begin(h, "order", <<"rates", "credit">>, o)
           /\ product' = Reserve(product, id)
           /\ order' = [order EXCEPT ![o].pay = "UNPAID", ![o].variant = id]
           /\ UNCHANGED <<held, ledger, strayed, untouched>>
        BY Zenon DEF PlaceOrder
  <1>2. UNCHANGED <<lastId, written, session, lines, applied, amiss>>
        BY <1>1 DEF untouched, warehouse
  <1>3. Known(product, id) /\ id \in 0 .. lastId /\ lastId \in Nat /\ OwnRows(product)
        BY DEF Known, LabelInv, RowsStand, OwnRows
  <1>4. /\ held \in Int /\ order \in [Orders -> OrderRecords] /\ order[o] = NoOrder
        BY <1>1, HeldCounts DEF UnitsInv, OrdersStand
  <1>5. /\ order' \in [Orders -> OrderRecords]
        /\ \A z \in Orders \ {o} : order'[z] = order[z]
        /\ order'[o].pay = "UNPAID" /\ order'[o].variant = id
        /\ order'[o].credit = order[o].credit /\ order'[o].freed = order[o].freed
    <2>1. id \in Nat /\ order[o] \in OrderRecords  BY <1>3, <1>4
    <2> DEFINE put == [[order[o] EXCEPT !.pay = "UNPAID"] EXCEPT !.variant = id]
    <2>2. order' = [order EXCEPT ![o] = put]  BY <1>1, <1>4
    <2>3. /\ put \in OrderRecords /\ put.pay = "UNPAID" /\ put.variant = id
          /\ put.credit = order[o].credit /\ put.freed = order[o].freed
          BY <2>1 DEF OrderRecords
    <2> HIDE DEF put
    <2> QED  BY <1>4, <2>2, <2>3
  <1>6. order[o].credit = 0 /\ order[o].freed = 0  BY <1>4 DEF NoOrder
  <1>7. OrdersStand'
    <2>1. held' = held - order[o].credit + order'[o].credit  BY <1>1, <1>4, <1>5, <1>6
    <2>2. order'[o].variant <= lastId  BY <1>3, <1>5
    <2> QED  BY <1>2, <1>5, <2>1, <2>2, OrderPut DEF UnitsInv
  <1>8. UnitsHold'
    <2>1. UnitRows(product) /\ ledger \in Int  BY DEF UnitsInv, UnitsHold
    <2> DEFINE q == Reserve(product, id)
    <2>2. /\ ~ HasVariants(product) => id = 0 /\ SelfShift(product, q, 0, 1)
          /\ HasVariants(product) => id # 0 /\ RowShift(product, q, Slot(product, id), 0, 1)
          BY <1>1, <1>3, <2>1, ReserveUnits
    <2> HIDE DEF q
    <2>3. Shifts(product, q, 0, 1)
      <3>1. product.reserved + 1 \in Nat /\ \A i \in Slots(product) : product.variants[i].reserved + 1 \in Nat
            BY <2>1 DEF UnitRows, NumRow
      <3>2. HasVariants(product) => Slot(product, id) \in Slots(product)  BY <2>2 DEF RowShift
      <3> QED  BY <2>2, <3>1, <3>2 DEF Shifts
    <2>4. UnitRows(q) /\ \A e \in Int : Recorded(product, e) => Recorded(q, e + 0)
          BY <2>1, <2>3, ShiftHolds
    <2>5. product' = q  BY <1>1 DEF q
    <2>6. ASSUME ~ written' PROVE Recorded(product', ledger')
      <3>1. Recorded(product, ledger)  BY <1>2, <2>6 DEF UnitsInv, UnitsHold
      <3>2. Recorded(q, ledger + 0) /\ ledger' = ledger + 0  BY <1>1, <2>1, <2>4, <3>1
      <3> QED  BY <2>5, <3>2
    <2>7. ASSUME ~ strayed' PROVE Promised(product', order')
      <3>1. Promised(product, order)  BY <1>1, <2>7 DEF UnitsInv, UnitsHold
      <3>2. \A z \in Orders \ {o} : Alike(order, order', z)  BY <1>5 DEF Alike, HoldsIn
      <3>3. ~ HoldsIn(order, o) /\ HoldsIn(order', o)  BY <1>1, <1>5, <1>6 DEF HoldsIn
      <3>4. id = order'[o].variant /\ CanReserve(product, id)  BY <1>1, <1>5
      <3>5. Promised(q, order')  BY <1>3, <2>1, <3>1, <3>2, <3>3, <3>4, PromiseMade DEF q
      <3> QED  BY <2>5, <3>5
    <2> QED  BY <1>1, <2>1, <2>4, <2>5, <2>6, <2>7 DEF UnitsHold
  <1>9. \A z \in Orders : order[z].pay # "none" =>
           order'[z].pay # "none" /\ order'[z].credit = order[z].credit
        BY <1>1, <1>5
  <1> DEFINE plan == <<"rates", "credit">>
  <1>10. Head(plan) = "rates" /\ plan # <<>> /\ Begin(h, "order", plan, o)  BY <1>1
  <1> HIDE DEF plan
  <1>11. "order" \in OrderKinds /\ Head(plan) \in OrderSteps  BY <1>10 DEF OrderKinds, OrderSteps
  <1> QED  BY <1>1, <1>2, <1>5, <1>6, <1>7, <1>8, <1>9, <1>10, <1>11, OrderBegins

LEMMA OrderBegun ==
    ASSUME DeskInv, UnitsInv, NEW h \in Handlers, UNCHANGED warehouse,
           Supersede(h) \/ Expire(h) \/ PaymentArrives(h)
    PROVE  UnitsInv'
  <1>1. \E o \in Orders : \E kind \in {"supersede", "expire", "pay"} :
           \E plan \in {<<"release", "fail">>, <<"fulfil">>} :
              Begin(h, kind, plan, o) /\ (order[o].pay = "UNPAID" \/ order[o].ready)
        BY Zenon DEF Supersede, Expire, PaymentArrives
  <1>2. PICK o \in Orders, kind \in {"supersede", "expire", "pay"},
             plan \in {<<"release", "fail">>, <<"fulfil">>} :
              Begin(h, kind, plan, o) /\ (order[o].pay = "UNPAID" \/ order[o].ready)
        BY <1>1
  <1>3. UNCHANGED catalogue  BY Zenon DEF Supersede, Expire, PaymentArrives
  <1>4. UnitsAside  BY <1>3, AllAside
  <1>5. order[o].pay # "none"  BY <1>2 DEF UnitsInv, OrdersStand, NoOrder
  <1>6. UnitsHold' /\ OrdersStand'  BY <1>4, OrdersAside, HoldAside DEF UnitsInv, UnitsAside
  <1>7. plan # <<>> /\ Head(plan) \in {"release", "fulfil"}  BY <1>2
  <1>8. kind \in OrderKinds /\ Head(plan) \in OrderSteps /\ Head(plan) \notin {"rates", "credit"}
        /\ kind # "order"
        BY <1>7 DEF OrderKinds, OrderSteps
  <1>9. order' = order /\ UNCHANGED <<session, lines, applied, amiss>>  BY <1>4 DEF UnitsAside
  <1> QED  BY <1>2, <1>5, <1>6, <1>7, <1>8, <1>9, OrderBegins

(* What an order's request is about                                          *)
LEMMA AtOrder ==
    ASSUME StockRead, UnitsInv, NEW h \in Handlers, NEW step \in OrderSteps, At(h, step),
           Concerns(h, StockKinds)
    PROVE  /\ Busy(h) /\ req[h].kind \in OrderKinds /\ req[h].read \in Orders
           /\ order[req[h].read].pay # "none"
           /\ step \in {"rates", "credit"} => req[h].kind = "order" /\ order[req[h].read].credit = 0
           /\ req[h].todo \in PlainPlans
           /\ h \in Doing({req[h].kind})
  <1>1. Busy(h) /\ Head(req[h].todo) = step /\ UnitsRead(req[h])  BY HereReads DEF UnitsInv
  <1>2. req[h].kind \in OrderKinds /\ (step \in {"rates", "credit"} => req[h].kind = "order")
        BY <1>1 DEF UnitsRead
  <1>3. h \in Doing(OrderKinds)  BY <1>1, <1>2 DEF Doing
  <1>4. req[h].todo \in PlainPlans  BY StockAt DEF OrderSteps
  <1>5. h \in Doing({req[h].kind})  BY <1>1 DEF Doing
  <1> QED  BY <1>1, <1>2, <1>3, <1>4, <1>5 DEF UnitsInv, MadeOnce

LEMMA ReleasedMove ==
    ASSUME DeskInv, LabelInv, UnitsInv, NEW h \in Handlers, Turn(h), Follows(h), UNCHANGED warehouse,
           UNCHANGED <<ledger, untouched>>, NEW o \in Orders, ReleaseResources(o)
    PROVE  UnitsInv'
  <1>1. UNCHANGED <<ledger, lastId, written, session, lines, applied, amiss>>
        BY DEF untouched, warehouse
  <1>2. OwnRows(product)  BY DEF LabelInv, RowsStand, OwnRows
  <1>3. /\ UnitsHold' /\ OrdersStand'
        /\ \A z \in Orders : /\ order'[z].pay = order[z].pay
                             /\ order'[z].credit = 0 \/ order'[z].credit = order[z].credit
        BY <1>1, <1>2, ReleaseHolds DEF UnitsInv
  <1>4. ASSUME NEW g \in Doing({"order"})' PROVE order'[req[g].read].credit = 0
    <2>1. g \in Doing({"order"})  BY DoingAfter DEF Turn, ClosingKinds, OrderKinds
    <2>2. req[g].read \in Orders /\ order[req[g].read].credit = 0
          BY <2>1 DEF UnitsInv, MadeOnce, Doing, OrderKinds
    <2> QED  BY <1>3, <2>2
  <1> QED  BY <1>1, <1>3, <1>4, OrderMoves

LEMMA LoneTail ==
    ASSUME NEW t \in PlainPlans, Head(t) \notin {"rates", "release", "labels", "enrol"}
    PROVE  Tail(t) = <<>>
  <1>1. \/ t \in {<<"rates", "credit">>, <<"release", "fail">>, <<"labels", "tell">>,
                  <<"enrol", "gather">>}
        \/ \E step \in PlainSteps : t = <<step>>
        BY DEF PlainPlans, PlainSteps
  <1>2. CASE \E step \in PlainSteps : t = <<step>>
    <2>1. PICK step \in PlainSteps : t = <<step>>  BY <1>2
    <2> QED  BY <2>1
  <1>3. CASE t \in {<<"rates", "credit">>, <<"release", "fail">>, <<"labels", "tell">>,
                    <<"enrol", "gather">>}
        BY <1>3
  <1> QED  BY <1>1, <1>2, <1>3

LEMMA RatesKept ==
    ASSUME DeskInv, LabelInv, UnitsInv, NEW h \in Handlers, Concerns(h, StockKinds),
           UNCHANGED warehouse, GetRates(h) \/ ReleaseStep(h)
    PROVE  UnitsInv'
  <1>0. StockRead /\ StockReads  BY DEF LabelInv, UnitsInv
  <1>1. \E step \in {"rates", "release"} : At(h, step)  BY Zenon DEF GetRates, ReleaseStep
  <1>2. PICK step \in {"rates", "release"} : At(h, step)  BY <1>1
  <1>3. step \in OrderSteps /\ step \notin {"read", "save"}  BY DEF OrderSteps
  <1>4. Busy(h) /\ req[h].read \in Orders  BY <1>0, <1>2, <1>3, AtOrder
  <1>5. UNCHANGED <<ledger, untouched>>  BY Zenon DEF GetRates, ReleaseStep
  <1>6. \/ Proceed(h) /\ UNCHANGED <<product, orderRows, strayed>>
        \/ (Stop(h) \/ Proceed(h)) /\ ReleaseResources(req[h].read)
        BY Zenon DEF GetRates, ReleaseStep
  <1>7. Turn(h) /\ Follows(h)  BY <1>0, <1>2, <1>3, <1>4, <1>6, StopTurn, ProceedTurn
  <1>8. CASE UNCHANGED <<product, orderRows, strayed>>
    <2>1. UnitsAside  BY <1>5, <1>8 DEF UnitsAside, orderRows, untouched, warehouse
    <2> QED  BY <1>7, <2>1, UnitsStay
  <1>9. CASE ReleaseResources(req[h].read)  BY <1>4, <1>5, <1>7, <1>9, ReleasedMove
  <1> QED  BY <1>6, <1>8, <1>9

(* Orders change in nothing that holds units.                                *)
LEMMA OthersPromised ==
    ASSUME UnitsHold, UNCHANGED <<product, ledger, strayed, written>>,
           \A z \in Orders : Alike(order, order', z)
    PROVE  UnitsHold'
  <1>1. UnitRows(product) /\ ledger \in Int /\ (~ written => Recorded(product, ledger))
        BY DEF UnitsHold
  <1>2. ASSUME ~ strayed PROVE Promised(product, order')
    <2>1. Promised(product, order)  BY <1>2 DEF UnitsHold
    <2>2. RowsMoved(product, product)  BY <1>1, SameRows DEF UnitRows
    <2> QED  BY <1>1, <2>1, <2>2, PromisesStay
  <1> QED  BY <1>1, <1>2 DEF UnitsHold

LEMMA CreditKept ==
    ASSUME DeskInv, LabelInv, UnitsInv, NEW h \in Handlers, Concerns(h, StockKinds),
           UNCHANGED warehouse, HoldCredit(h)
    PROVE  UnitsInv'
  <1>0. StockRead /\ StockReads  BY DEF LabelInv, UnitsInv
  <1>1. At(h, "credit") /\ Proceed(h) /\ UNCHANGED <<ledger, untouched>>  BY Zenon DEF HoldCredit
  <1>2. "credit" \in OrderSteps  BY DEF OrderSteps
  <1> DEFINE o == req[h].read
  <1>3. /\ Busy(h) /\ o \in Orders /\ order[o].pay # "none" /\ req[h].kind = "order"
        /\ order[o].credit = 0 /\ req[h].todo \in PlainPlans /\ h \in Doing({"order"})
        BY <1>0, <1>1, <1>2, AtOrder
  <1>4. Turn(h) /\ Follows(h)  BY <1>0, <1>1, ProceedTurn
  <1>5. CASE ReleaseResources(o)  BY <1>1, <1>3, <1>4, <1>5, ReleasedMove
  <1>6. ASSUME NEW amount \in {0, 1},
               order' = [order EXCEPT ![o].credit = amount, ![o].ready = TRUE],
               held' = held + amount, UNCHANGED <<product, strayed>>
        PROVE  UnitsInv'
    <2>0. UNCHANGED <<ledger, lastId, written, session, lines, applied, amiss>>
          BY <1>1 DEF untouched, warehouse
    <2>1. held \in Int /\ order \in [Orders -> OrderRecords]
          /\ order[o] \in OrderRecords /\ order[o].variant <= lastId
          BY <1>3, HeldCounts DEF UnitsInv, OrdersStand
    <2> DEFINE once == [order[o] EXCEPT !.credit = amount]
               put == [once EXCEPT !.ready = TRUE]
    <2>2. order' = [order EXCEPT ![o] = put]  BY <1>3, <1>6, <2>1
    <2>3. /\ put \in OrderRecords /\ put.pay = order[o].pay /\ put.variant = order[o].variant
          /\ put.credit = amount /\ put.freed = order[o].freed
      <3>1. /\ once \in OrderRecords /\ once.pay = order[o].pay /\ once.variant = order[o].variant
            /\ once.credit = amount /\ once.freed = order[o].freed
            BY <2>1 DEF OrderRecords
      <3> HIDE DEF once
      <3> QED  BY <3>1 DEF OrderRecords
    <2> HIDE DEF put
    <2>4. /\ order' \in [Orders -> OrderRecords] /\ order'[o] = put
          /\ \A z \in Orders \ {o} : order'[z] = order[z]
          BY <1>3, <2>1, <2>2, <2>3
    <2> HIDE DEF o
    <2>5. OrdersStand'
      <3>1. held' = held - order[o].credit + order'[o].credit  BY <1>3, <1>6, <2>1, <2>3, <2>4
      <3> QED  BY <1>3, <2>0, <2>1, <2>3, <2>4, <3>1, OrderPut DEF UnitsInv
    <2>6. UnitsHold'
      <3>1. \A z \in Orders : Alike(order, order', z)  BY <2>3, <2>4 DEF Alike, HoldsIn
      <3> QED  BY <1>6, <2>0, <3>1, OthersPromised DEF UnitsInv
    <2>7. ~ Busy(h)'
      <3>1. Head(req[h].todo) = "credit"  BY <1>1 DEF At
      <3>2. Tail(req[h].todo) = <<>>  BY <1>3, <3>1, LoneTail
      <3>3. GoOn(h, <<>>, req[h].read)  BY <1>1, <3>2 DEF Proceed
      <3> QED  BY <1>3, <3>3, AfterGoOn
    <2>8. ASSUME NEW g \in Doing({"order"})' PROVE order'[req[g].read].credit = 0
      <3>1. g \in Doing({"order"}) /\ g # h
        <4>1. g # h  BY <2>7 DEF Doing
        <4> QED  BY <1>4, <4>1, DoingAfter DEF Turn, ClosingKinds, OrderKinds
      <3>2. req[g].read # o  BY <1>3, <3>1 DEF UnitsInv, MadeOnce, o
      <3>3. req[g].read \in Orders /\ order[req[g].read].credit = 0
            BY <3>1 DEF UnitsInv, MadeOnce, Doing, OrderKinds
      <3> QED  BY <2>4, <3>2, <3>3
    <2>9. \A z \in Orders : order[z].pay # "none" => order'[z].pay # "none"  BY <2>3, <2>4
    <2> QED  BY <1>4, <2>0, <2>5, <2>6, <2>8, <2>9, OrderMoves
  <1>7. \/ ReleaseResources(o)
        \/ \E amount \in {0, 1} : /\ order' = [order EXCEPT ![o].credit = amount, ![o].ready = TRUE]
                                  /\ held' = held + amount /\ UNCHANGED <<product, strayed>>
        BY Zenon DEF HoldCredit
  <1> QED  BY <1>5, <1>6, <1>7

LEMMA FailKept ==
    ASSUME DeskInv, LabelInv, UnitsInv, NEW h \in Handlers, Concerns(h, StockKinds),
           UNCHANGED warehouse, FailStep(h)
    PROVE  UnitsInv'
  <1>0. StockRead /\ StockReads  BY DEF LabelInv, UnitsInv
  <1> DEFINE o == req[h].read
             status == IF order[o].pay = "UNPAID" THEN "FAILED" ELSE order[o].pay
  <1>1. /\ At(h, "fail") /\ Proceed(h)
        /\ order' = [order EXCEPT ![o].pay = status]
        /\ UNCHANGED <<product, held, ledger, strayed, untouched>>
        BY Zenon DEF FailStep
  <1>2. "fail" \in OrderSteps  BY DEF OrderSteps
  <1>3. o \in Orders /\ order[o].pay # "none"  BY <1>0, <1>1, <1>2, AtOrder
  <1>4. Turn(h) /\ Follows(h)  BY <1>0, <1>1, ProceedTurn
  <1>5. UNCHANGED <<product, held, ledger, strayed, lastId, written, session, lines, applied, amiss>>
        BY <1>1 DEF untouched, warehouse
  <1>6. held \in Int /\ order \in [Orders -> OrderRecords]
        /\ order[o] \in OrderRecords /\ order[o].variant <= lastId /\ order[o].credit \in Nat
        BY <1>3, HeldCounts DEF UnitsInv, OrdersStand
  <1> DEFINE put == [order[o] EXCEPT !.pay = status]
  <1>7. status \in {"none", "UNPAID", "FAILED", "PAID"} /\ status # "none"
        /\ (status = "PAID" <=> order[o].pay = "PAID")
        BY <1>3, <1>6 DEF OrderRecords
  <1>8. order' = [order EXCEPT ![o] = put]  BY <1>1, <1>3, <1>6
  <1> HIDE DEF status
  <1>9. /\ put \in OrderRecords /\ put.pay = status /\ put.variant = order[o].variant
        /\ put.credit = order[o].credit /\ put.freed = order[o].freed
        BY <1>6, <1>7 DEF OrderRecords
  <1> HIDE DEF put
  <1>10. /\ order' \in [Orders -> OrderRecords] /\ order'[o] = put
         /\ \A z \in Orders \ {o} : order'[z] = order[z]
         BY <1>3, <1>6, <1>8, <1>9
  <1> HIDE DEF o
  <1>11. OrdersStand'
    <2>1. held' = held - order[o].credit + order'[o].credit  BY <1>5, <1>6, <1>9, <1>10
    <2> QED  BY <1>3, <1>5, <1>6, <1>7, <1>9, <1>10, <2>1, OrderPut DEF UnitsInv
  <1>12. UnitsHold'
    <2>1. \A z \in Orders : Alike(order, order', z)  BY <1>3, <1>7, <1>9, <1>10 DEF Alike, HoldsIn
    <2> QED  BY <1>5, <2>1, OthersPromised DEF UnitsInv
  <1>13. ASSUME NEW g \in Doing({"order"})' PROVE order'[req[g].read].credit = 0
    <2>1. g \in Doing({"order"})  BY <1>4, DoingAfter DEF Turn, ClosingKinds, OrderKinds
    <2>2. req[g].read \in Orders /\ order[req[g].read].credit = 0
          BY <2>1 DEF UnitsInv, MadeOnce, Doing, OrderKinds
    <2> QED  BY <1>9, <1>10, <2>2
  <1>14. \A z \in Orders : order[z].pay # "none" => order'[z].pay # "none"  BY <1>7, <1>9, <1>10
  <1> QED  BY <1>4, <1>5, <1>11, <1>12, <1>13, <1>14, OrderMoves

(* What one commit leaves                                                    *)
LEMMA CommitShifts ==
    ASSUME NEW p, UnitRows(p), NEW id, Known(p, id), CanCommit(p, id)
    PROVE  /\ Shifts(p, Commit(p, id), -1, -1)
           /\ ~ HasVariants(p) => SelfShift(p, Commit(p, id), -1, -1)
           /\ HasVariants(p) => \E k \in Slots(p) :
                 /\ RowShift(p, Commit(p, id), k, -1, -1) /\ p.variants[k].reserved >= 1
                 /\ id # 0 => p.variants[k].id = id
  <1> DEFINE q == Commit(p, id)
  <1>1. /\ ~ HasVariants(p) => id = 0 /\ p.reserved >= 1 /\ SelfShift(p, q, -1, -1)
        /\ HasVariants(p) => \E k \in Slots(p) :
              /\ RowShift(p, q, k, -1, -1) /\ p.variants[k].reserved >= 1
              /\ id # 0 => p.variants[k].id = id
        BY CommitUnits
  <1> HIDE DEF q
  <1>2. CASE ~ HasVariants(p)
    <2>1. p.reserved + (-1) \in Nat  BY <1>1, <1>2 DEF UnitRows, NumRow
    <2> QED  BY <1>1, <1>2, <2>1 DEF Shifts, q
  <1>3. CASE HasVariants(p)
    <2>1. PICK k \in Slots(p) : /\ RowShift(p, q, k, -1, -1) /\ p.variants[k].reserved >= 1
                                /\ id # 0 => p.variants[k].id = id
          BY <1>1, <1>3
    <2>2. p.variants[k].reserved + (-1) \in Nat  BY <2>1 DEF UnitRows, NumRow
    <2>3. Shifts(p, q, -1, -1)  BY <1>3, <2>1, <2>2 DEF Shifts
    <2> QED  BY <1>3, <2>1, <2>3 DEF q
  <1> QED  BY <1>2, <1>3

LEMMA FulfilKept ==
    ASSUME DeskInv, LabelInv, UnitsInv, NEW h \in Handlers, Concerns(h, StockKinds),
           UNCHANGED warehouse, Fulfil(h)
    PROVE  UnitsInv'
  <1>0. StockRead /\ StockReads /\ OwnRows(product)  BY DEF LabelInv, UnitsInv, RowsStand, OwnRows
  <1> DEFINE o == req[h].read
             id == Live(product, order[o].variant)
  <1>1. At(h, "fulfil") /\ UNCHANGED untouched  BY Zenon DEF Fulfil
  <1>2. "fulfil" \in OrderSteps  BY DEF OrderSteps
  <1>3. Busy(h) /\ o \in Orders /\ order[o].pay # "none" /\ req[h].kind \in OrderKinds
        BY <1>0, <1>1, <1>2, AtOrder
  <1>4. CASE Proceed(h) /\ UNCHANGED <<product, orderRows, ledger, strayed>>
    <2>1. Turn(h) /\ Follows(h)  BY <1>0, <1>1, <1>4, ProceedTurn
    <2>2. UnitsAside  BY <1>1, <1>4 DEF UnitsAside, orderRows, untouched, warehouse
    <2> QED  BY <2>1, <2>2, UnitsStay
  <1>5. CASE GoOn(h, <<"release", "fail">>, o) /\ UNCHANGED <<product, orderRows, ledger, strayed>>
    <2> DEFINE plan == <<"release", "fail">>
               r == [todo |-> plan, kind |-> req[h].kind, read |-> o]
    <2>1. Head(plan) = "release" /\ r.todo = plan /\ r.kind = req[h].kind  OBVIOUS
    <2>2. GoOn(h, plan, o)  BY <1>5
    <2> HIDE DEF plan, r
    <2>3. UnitsRead(r)  BY <1>3, <2>1 DEF UnitsRead, OrderSteps
    <2>4. Turn(h) /\ Follows(h)  BY <1>3, <2>2, <2>3, GoTurn DEF r
    <2>5. UnitsAside  BY <1>1, <1>5 DEF UnitsAside, orderRows, untouched, warehouse
    <2> QED  BY <2>4, <2>5, UnitsStay
  <1>6. CASE /\ order[o].pay # "PAID" /\ CanCommit(product, id) /\ Proceed(h)
             /\ product' = Commit(product, id)
             /\ order' = [order EXCEPT ![o].pay = "PAID", ![o].credit = 0]
             /\ held' = held - order[o].credit
             /\ ledger' = ledger - 1
             /\ strayed' = (strayed \/ order[o].freed > 0)
    <2>1. Turn(h) /\ Follows(h)  BY <1>0, <1>1, <1>6, ProceedTurn
    <2>2. UNCHANGED <<lastId, written, session, lines, applied, amiss>>
          BY <1>1 DEF untouched, warehouse
    <2>3. held \in Int /\ order \in [Orders -> OrderRecords]
          /\ order[o] \in OrderRecords /\ order[o].variant <= lastId
          /\ order[o].credit \in Nat /\ order[o].freed \in Nat
          BY <1>3, HeldCounts DEF UnitsInv, OrdersStand
    <2> DEFINE once == [order[o] EXCEPT !.pay = "PAID"]
               put == [once EXCEPT !.credit = 0]
    <2>4. order' = [order EXCEPT ![o] = put]  BY <1>3, <1>6, <2>3
    <2>5. /\ put \in OrderRecords /\ put.pay = "PAID" /\ put.variant = order[o].variant
          /\ put.credit = 0 /\ put.freed = order[o].freed
      <3>1. /\ once \in OrderRecords /\ once.pay = "PAID" /\ once.variant = order[o].variant
            /\ once.freed = order[o].freed
            BY <2>3 DEF OrderRecords
      <3> HIDE DEF once
      <3> QED  BY <3>1 DEF OrderRecords
    <2> HIDE DEF put
    <2>6. /\ order' \in [Orders -> OrderRecords] /\ order'[o] = put
          /\ \A z \in Orders \ {o} : order'[z] = order[z]
          BY <1>3, <2>3, <2>4, <2>5
    <2>7. UnitRows(product) /\ ledger \in Int  BY DEF UnitsInv, UnitsHold
    <2> DEFINE q == Commit(product, id)
    <2>8. /\ Shifts(product, q, -1, -1)
          /\ ~ HasVariants(product) => SelfShift(product, q, -1, -1)
          /\ HasVariants(product) => \E k \in Slots(product) :
                /\ RowShift(product, q, k, -1, -1) /\ product.variants[k].reserved >= 1
                /\ id # 0 => product.variants[k].id = id
          BY <1>6, <2>7, LiveIsKnown, CommitShifts
    <2>9. id # 0 => id = order[o].variant  BY DEF Live
    <2>10. product' = q  BY <1>6
    <2> HIDE DEF q
    <2>11. UnitRows(q) /\ \A e \in Int : Recorded(product, e) => Recorded(q, e + (-1))
      <3>1. Shifts(product, q, -1, -1)  BY <2>8
      <3> DEFINE d == -1
      <3>2. Shifts(product, q, d, d)  BY <3>1
      <3> HIDE DEF d
      <3>3. UnitRows(q) /\ \A e \in Int : Recorded(product, e) => Recorded(q, e + d)
            BY <2>7, <3>2, ShiftHolds
      <3> QED  BY <3>3 DEF d
    <2>12. ASSUME ~ written' PROVE Recorded(product', ledger')
      <3>1. Recorded(product, ledger)  BY <2>2, <2>12 DEF UnitsInv, UnitsHold
      <3>2. Recorded(q, ledger + (-1)) /\ ledger' = ledger + (-1)  BY <1>6, <2>7, <2>11, <3>1
      <3> QED  BY <2>10, <3>2
    <2>13. ASSUME ~ strayed' PROVE Promised(product', order')
      <3>0. ~ (strayed \/ order[o].freed > 0)  BY <1>6, <2>13, Zenon
      <3>1. ~ strayed /\ order[o].freed = 0
        <4>1. ~ strayed /\ ~ (order[o].freed > 0)  BY <3>0, Zenon
        <4>2. order[o].freed = 0  BY <2>3, <4>1
        <4> QED  BY <4>1, <4>2, Zenon
      <3>2. HoldsIn(order, o) /\ ~ HoldsIn(order', o)  BY <1>3, <1>6, <2>5, <2>6, <3>1 DEF HoldsIn
      <3>3. \A z \in Orders \ {o} : Alike(order, order', z)  BY <2>6 DEF Alike, HoldsIn
      <3>4. Promised(product, order)  BY <3>1 DEF UnitsInv, UnitsHold
      <3>5. HasVariants(product) => \E k \in Slots(product) :
               /\ RowShift(product, q, k, -1, -1) /\ product.variants[k].reserved >= 1
               /\ Live(product, order[o].variant) # 0 => product.variants[k].id = order[o].variant
            BY <2>8, <2>9
      <3>6. ~ HasVariants(product) => SelfShift(product, q, -1, -1)  BY <2>8
      <3> DEFINE d == -1
      <3>7. /\ ~ HasVariants(product) => SelfShift(product, q, d, -1)
            /\ HasVariants(product) => \E k \in Slots(product) :
                 /\ RowShift(product, q, k, d, -1) /\ product.variants[k].reserved >= 1
                 /\ Live(product, order[o].variant) # 0 => product.variants[k].id = order[o].variant
            BY <3>5, <3>6
      <3> HIDE DEF d, id, o
      <3>8. Promised(q, order')  BY <1>0, <1>3, <2>7, <3>2, <3>3, <3>4, <3>7, PromiseEnds
      <3> QED  BY <2>10, <3>8
    <2>14. UnitsHold'  BY <1>6, <2>7, <2>10, <2>11, <2>12, <2>13 DEF UnitsHold
    <2>15. OrdersStand'
      <3>1. held' = held - order[o].credit + order'[o].credit  BY <1>6, <2>3, <2>5, <2>6
      <3> HIDE DEF o
      <3> QED  BY <1>3, <2>2, <2>3, <2>5, <2>6, <3>1, OrderPut DEF UnitsInv
    <2>16. ASSUME NEW g \in Doing({"order"})' PROVE order'[req[g].read].credit = 0
      <3>1. g \in Doing({"order"})  BY <2>1, DoingAfter DEF Turn, ClosingKinds, OrderKinds
      <3>2. req[g].read \in Orders /\ order[req[g].read].credit = 0
            BY <3>1 DEF UnitsInv, MadeOnce, Doing, OrderKinds
      <3> QED  BY <2>5, <2>6, <3>2
    <2>17. \A z \in Orders : order[z].pay # "none" => order'[z].pay # "none"  BY <2>5, <2>6
    <2> QED  BY <2>1, <2>2, <2>14, <2>15, <2>16, <2>17, OrderMoves
  <1> QED  BY <1>4, <1>5, <1>6, Zenon DEF Fulfil

(* The form writes what it says of stock.                                    *)
LEMMA StockMovesOn ==
    ASSUME UnitsInv, NEW h \in Handlers, Turn(h), Follows(h), UnitsHold',
           UNCHANGED <<order, held, session, lines, applied, amiss>>,
           lastId \in Nat, lastId' \in Nat, lastId' >= lastId
    PROVE  UnitsInv'
  <1>1. OrdersStand'
    <2>1. /\ order' \in [Orders -> OrderRecords]
          /\ \A o \in Orders : order'[o].variant <= lastId /\ order'[o].variant \in Nat
          BY HeldCounts DEF UnitsInv, OrdersStand
    <2>2. \A o \in Orders : order'[o].variant <= lastId'  BY <2>1
    <2> QED  BY <2>1, <2>2 DEF UnitsInv, OrdersStand
  <1>2. ASSUME NEW g \in Doing({"order"})' PROVE order'[req[g].read].credit = 0
    <2>1. g \in Doing({"order"})  BY DoingAfter DEF Turn, ClosingKinds, OrderKinds
    <2> QED  BY <2>1 DEF UnitsInv, MadeOnce, Doing, OrderKinds
  <1> QED  BY <1>1, <1>2, OrderMoves

LEMMA ActiveIs ==
    ASSUME NEW p, ProductShape(p), NEW a, NEW q, q = [p EXCEPT !.active = a]
    PROVE  /\ q.variants = p.variants /\ q.stock = p.stock /\ q.reserved = p.reserved
           /\ q.version = p.version
  <1>1. DOMAIN p = {"pipeline", "stock", "reserved", "version", "active", "variants"}
        BY DEF ProductShape
  <1> QED  BY <1>1

LEMMA FieldsStand ==
    ASSUME NEW p, UnitRows(p), NEW q, StockRows(q), q.variants = p.variants, q.stock \in Int,
           q.reserved = p.reserved, q.version = p.version
    PROVE  /\ UnitRows(q) /\ \A x : Promised(p, x) => Promised(q, x)
           /\ q.stock = p.stock => \A e : Recorded(p, e) => Recorded(q, e)
  <1>1. Slots(q) = Slots(p) /\ (HasVariants(q) <=> HasVariants(p))  BY DEF Slots, HasVariants
  <1>2. UnitRows(q)  BY <1>1 DEF UnitRows, NumRow
  <1>3. SumOver(q, Reserved) = SumOver(p, Reserved) /\ SumOver(q, Stocked) = SumOver(p, Stocked)
    <2>1. UnitsOf(q) = UnitsOf(p) /\ StocksOf(q) = StocksOf(p)  BY <1>1 DEF UnitsOf, StocksOf
    <2> QED  BY <1>1, <2>1, SumsAre
  <1>4. ASSUME NEW x, Promised(p, x) PROVE Promised(q, x)
    <2>1. Promises(q) = Promises(p)  BY <1>1, <1>3 DEF Promises
    <2>2. RowsMoved(p, q)  BY StockMoves DEF UnitRows, StockRows
    <2>3. \A o \in Orders : Alike(x, x, o)  BY DEF Alike
    <2>4. \A i \in Slots(p) : q.variants[i].reserved = p.variants[i].reserved  OBVIOUS
    <2> QED  BY <1>4, <2>1, <2>2, <2>3, <2>4, PromisesStay
  <1>5. ASSUME q.stock = p.stock, NEW e, Recorded(p, e) PROVE Recorded(q, e)
    <2>1. OnHand(q) = OnHand(p)  BY <1>1, <1>3, <1>5 DEF OnHand
    <2> QED  BY <1>5, <2>1 DEF Recorded
  <1> QED  BY <1>2, <1>4, <1>5

(* Saves of fields and of stock                                              *)
LEMMA FieldsHold ==
    ASSUME UnitsHold, RowsStand, RowsStand', UNCHANGED <<order, ledger>>, NEW h,
           SaveFields(h) \/ (SaveStock(h) /\ UnitRows(req[h].read.form)) \/ SavePipeline(h)
    PROVE  UnitsHold' /\ lastId' = lastId
  <1>0. UnitRows(product) /\ ledger \in Int /\ ProductShape(product)  BY DEF UnitsHold, RowsStand
  <1>1. StockRows(product')  BY DEF RowsStand, StockRows, Slots
  <1>2. CASE SaveFields(h)
    <2> DEFINE yes == /\ req[h].read.c.what = "list"
                      /\ \/ product.active \/ req[h].read.row.active
                         \/ CanActivate(req[h].read.row)
    <2>1. UNCHANGED <<lastId, strayed, written>>  BY <1>2, Zenon DEF SaveFields
    <2>2. product' = [product EXCEPT !.active = yes]  BY <1>2 DEF SaveFields
    <2> HIDE DEF yes
    <2>3. /\ product'.variants = product.variants /\ product'.stock = product.stock
          /\ product'.reserved = product.reserved /\ product'.version = product.version
          BY <1>0, <2>2, ActiveIs
    <2>4. product'.stock \in Int  BY <1>0, <2>3 DEF UnitRows, NumRow
    <2>5. /\ UnitRows(product') /\ \A x : Promised(product, x) => Promised(product', x)
          /\ \A e : Recorded(product, e) => Recorded(product', e)
          BY <1>0, <1>1, <2>3, <2>4, FieldsStand
    <2> QED  BY <1>0, <2>1, <2>5 DEF UnitsHold
  <1>3. CASE SaveStock(h) /\ UnitRows(req[h].read.form)
    <2> DEFINE n == req[h].read.form.stock
    <2>1. UNCHANGED <<lastId, strayed>> /\ written' = TRUE  BY <1>3, Zenon DEF SaveStock
    <2>2. product' = [product EXCEPT !.stock = n]  BY <1>3, Zenon DEF SaveStock
    <2>3. n \in Int  BY <1>3 DEF UnitRows, NumRow
    <2> HIDE DEF n
    <2>4. /\ product'.variants = product.variants /\ product'.stock = n
          /\ product'.reserved = product.reserved /\ product'.version = product.version
          BY <1>0, <2>2, ProductIsPut
    <2>5. UnitRows(product') /\ \A x : Promised(product, x) => Promised(product', x)
          BY <1>0, <1>1, <2>3, <2>4, FieldsStand
    <2> QED  BY <1>0, <2>1, <2>5 DEF UnitsHold
  <1>4. CASE SavePipeline(h)
    <2>1. UNCHANGED <<product, lastId, strayed, written>>  BY <1>4, Zenon DEF SavePipeline
    <2> QED  BY <2>1, HoldAside
  <1> QED  BY <1>2, <1>3, <1>4

(* The form without variants                                                 *)
LEMMA SimpleHolds ==
    ASSUME UnitsHold, RowsStand, RowsStand', UNCHANGED <<order, ledger>>, NEW h, SaveSimple(h),
           UnitRows(req[h].read.form)
    PROVE  UnitsHold' /\ lastId' = lastId
  <1>0. UnitRows(product) /\ ledger \in Int /\ ProductShape(product)  BY DEF UnitsHold, RowsStand
  <1>1. StockRows(product')  BY DEF RowsStand, StockRows, Slots
  <1> DEFINE n == req[h].read.form.stock
  <1>2. /\ product' = [product EXCEPT !.variants = <<>>, !.stock = n]
        /\ written' = TRUE /\ lastId' = lastId
        /\ strayed' = (strayed \/ (HasVariants(product) /\ Displaced(product)))
        BY Zenon DEF SaveSimple
  <1>3. n \in Int  BY DEF UnitRows, NumRow
  <1> HIDE DEF n
  <1>4. /\ product'.variants = <<>> /\ product'.stock = n
        /\ product'.reserved = product.reserved /\ product'.version = product.version
    <2>1. DOMAIN product = {"pipeline", "stock", "reserved", "version", "active", "variants"}
          BY <1>0 DEF ProductShape
    <2> QED  BY <1>2, <2>1
  <1>5. Slots(product') = {} /\ ~ HasVariants(product')  BY <1>4 DEF Slots, HasVariants
  <1>6. UnitRows(product')  BY <1>0, <1>1, <1>3, <1>4, <1>5 DEF UnitRows, NumRow
  <1>7. ASSUME ~ strayed' PROVE Promised(product', order')
    <2>1. ~ (strayed \/ (HasVariants(product) /\ Displaced(product)))  BY <1>2, <1>7, Zenon
    <2>2. ~ strayed /\ (HasVariants(product) => ~ Displaced(product))  BY <2>1, Zenon
    <2>3. Promised(product, order)  BY <2>2 DEF UnitsHold
    <2>4. CASE HasVariants(product)
      <3>1. \A i \in Slots(product') : product'.variants[i].reserved = 0  BY <1>5
      <3>2. Promised(product', order)  BY <1>0, <1>1, <1>4, <2>2, <2>3, <2>4, <3>1, NothingPromised
      <3> QED  BY <3>2
    <2>5. CASE ~ HasVariants(product)
      <3>1. product'.variants = product.variants  BY <1>4, <2>5 DEF HasVariants
      <3>2. Promised(product', order)  BY <1>0, <1>1, <1>3, <1>4, <2>3, <3>1, FieldsStand
      <3> QED  BY <3>2
    <2> QED  BY <2>4, <2>5
  <1> QED  BY <1>0, <1>2, <1>6, <1>7 DEF UnitsHold

(* The form with variants                                                    *)
LEMMA FormStockCounts ==
    ASSUME NEW form, UnitRows(form), NEW sku
    PROVE  FormStock(form, sku) \in Int
  <1>1. CASE sku \in Skus(form)
    <2>1. \E i \in Slots(form) : form.variants[i].sku = sku  BY <1>1 DEF Skus
    <2> DEFINE k == CHOOSE i \in Slots(form) : form.variants[i].sku = sku
    <2>2. k \in Slots(form)  BY <2>1
    <2>3. form.variants[k].stock \in Int  BY <2>2 DEF UnitRows, NumRow
    <2> QED  BY <1>1, <2>3 DEF FormStock
  <1>2. CASE sku \notin Skus(form)  BY <1>2 DEF FormStock
  <1> QED  BY <1>1, <1>2

LEMMA RowsAnew ==
    ASSUME NEW p, UnitRows(p), NEW rows, rows \in Seq(Range(rows)), rows # <<>>,
           \A i \in DOMAIN rows : RowShape(rows[i]) /\ NumRow(rows[i]) /\ rows[i].reserved = 0
    PROVE  LET q == Synced([p EXCEPT !.variants = rows])
           IN  /\ UnitRows(q) /\ HasVariants(q) /\ q.reserved = p.reserved
               /\ \A i \in Slots(q) : q.variants[i].reserved = 0
  <1> DEFINE r == [p EXCEPT !.variants = rows]
             q == Synced(r)
  <1>1. ProductShape(p) /\ NumRow(p)  BY DEF UnitRows, StockRows
  <1>2. ProductShape(r) /\ r.variants = rows /\ r.reserved = p.reserved /\ r.version = p.version
        BY <1>1 DEF ProductShape
  <1> HIDE DEF r
  <1>3. StockRows(r) /\ HasVariants(r)  BY <1>2 DEF StockRows, Slots, HasVariants
  <1>4. /\ q.variants = r.variants /\ q.stock = OnHand(q) /\ q.reserved = r.reserved
        /\ q.version = r.version /\ Slots(q) = Slots(r)
        BY <1>3, SyncedIs
  <1>5. StockRows(q)  BY <1>3, SyncedMoves, MovedOf
  <1> HIDE DEF q
  <1>6. HasVariants(q) /\ \A i \in Slots(q) : NumRow(q.variants[i]) /\ q.variants[i].reserved = 0
        BY <1>2, <1>4 DEF HasVariants, Slots
  <1>7. q.stock \in Int
    <2>1. OnHand(q) = SumFunctionOnSet(StocksOf(q), Slots(q))  BY <1>6, SumsAre DEF OnHand
    <2>2. IsFiniteSet(Slots(q))  BY <1>5, SlotsAre
    <2>3. \A i \in Slots(q) : StocksOf(q)[i] \in Int  BY <1>6 DEF StocksOf, NumRow
    <2> QED  BY <1>4, <2>1, <2>2, <2>3, SumInt
  <1>8. NumRow(q)  BY <1>1, <1>2, <1>4, <1>7 DEF NumRow
  <1>9. UnitRows(q)  BY <1>5, <1>6, <1>8 DEF UnitRows
  <1> QED  BY <1>2, <1>4, <1>6, <1>9 DEF q, r

LEMMA MatrixHolds ==
    ASSUME UnitsHold, RowsStand, UNCHANGED <<order, ledger>>, NEW h, SaveMatrix(h),
           UnitRows(req[h].read.form), req[h].read.c \in Changes
    PROVE  UnitsHold' /\ lastId' \in Nat /\ lastId' >= lastId
  <1>0. UnitRows(product) /\ ledger \in Int /\ lastId \in Nat  BY DEF UnitsHold, RowsStand
  <1> DEFINE skus == req[h].read.c.skus
             form == req[h].read.form
             units == [i \in DOMAIN skus |-> FormStock(form, skus[i])]
             rows == Matrix(skus, units, lastId)
  <1>1. /\ skus # <<>> /\ product' = Synced([product EXCEPT !.variants = rows])
        /\ lastId' = lastId + Len(skus) /\ written' = TRUE
        /\ strayed' = (strayed \/ Displaced(product))
        BY Zenon DEF SaveMatrix
  <1>2. skus \in Seq(Range(skus))  BY <1>1, CatalogueAssumption DEF Changes, CatalogueAssumption
  <1>3. Len(skus) \in Nat /\ DOMAIN skus = 1 .. Len(skus) /\ Len(skus) # 0  BY <1>1, <1>2
  <1> HIDE DEF skus
  <1>4. /\ DOMAIN rows = 1 .. Len(skus) /\ rows \in Seq(Range(rows))
        /\ \A i \in 1 .. Len(skus) : RowShape(rows[i])
        BY <1>0, <1>2, MatrixRows
  <1>5. ASSUME NEW i \in DOMAIN rows
        PROVE  RowShape(rows[i]) /\ NumRow(rows[i]) /\ rows[i].reserved = 0
    <2>1. i \in DOMAIN skus  BY <1>3, <1>4
    <2>2. rows[i] = [id |-> lastId + i, sku |-> skus[i], stock |-> units[i], reserved |-> 0,
                     version |-> 0]
          BY <2>1 DEF Matrix
    <2>3. units[i] \in Int  BY <2>1, FormStockCounts
    <2> HIDE DEF units
    <2>4. rows[i].stock = units[i] /\ rows[i].reserved = 0 /\ rows[i].version = 0  BY <2>2
    <2> HIDE DEF rows
    <2> QED  BY <1>4, <2>3, <2>4 DEF NumRow
  <1>6. rows # <<>>
    <2>1. 1 \in DOMAIN rows  BY <1>3, <1>4
    <2> QED  BY <2>1
  <1> HIDE DEF rows
  <1>7. /\ UnitRows(product') /\ HasVariants(product') /\ product'.reserved = product.reserved
        /\ \A i \in Slots(product') : product'.variants[i].reserved = 0
        BY <1>0, <1>1, <1>4, <1>5, <1>6, RowsAnew
  <1>8. ASSUME ~ strayed' PROVE Promised(product', order')
    <2>1. ~ (strayed \/ Displaced(product))  BY <1>1, <1>8, Zenon
    <2>2. ~ strayed /\ ~ Displaced(product)  BY <2>1, Zenon
    <2>3. Promised(product, order)  BY <2>2 DEF UnitsHold
    <2>4. StockRows(product')  BY <1>7 DEF UnitRows
    <2>5. Promised(product', order)  BY <1>0, <1>7, <2>2, <2>3, <2>4, NothingPromised
    <2> QED  BY <2>5
  <1>9. UnitsHold'  BY <1>0, <1>1, <1>7, <1>8 DEF UnitsHold
  <1> QED  BY <1>0, <1>1, <1>3, <1>9

LEMMA SaveUnits ==
    ASSUME DeskInv, LabelInv, LabelInv', UnitsInv, NEW h \in Handlers, Concerns(h, StockKinds),
           UNCHANGED warehouse, Save(h)
    PROVE  UnitsInv'
  <1>0. /\ At(h, "save") /\ RowsStand /\ RowsStand' /\ StockRead /\ StockReads /\ UnitsHold
        BY Zenon DEF Save, LabelInv, UnitsInv
  <1>1. Busy(h) /\ req[h].read.c \in Changes  BY <1>0, StockAt DEF LabelKinds
  <1>2. Head(req[h].todo) = "save" /\ UnitsRead(req[h])  BY <1>0, HereReads
  <1>3. req[h].kind \notin OrderKinds /\ UnitRows(req[h].read.form)
        BY <1>2, NotOrders DEF UnitsRead, OrderSteps
  <1>4. CASE Stop(h) /\ UNCHANGED catalogue  BY <1>1, <1>4, StopTurn, AllAside, UnitsStay
  <1>5. CASE ~ (Stop(h) /\ UNCHANGED catalogue)
    <2>1. /\ SaveFields(h) \/ SaveStock(h) \/ SaveSimple(h) \/ SavePipeline(h) \/ SaveMatrix(h)
          /\ \E read : GoOn(h, <<"labels", "tell">>, read)
          /\ UNCHANGED <<orderRows, ledger>>
          BY <1>5, Zenon DEF Save
    <2>2. Head(<<"labels", "tell">>) \in IdleSteps  BY DEF IdleSteps
    <2>3. Turn(h) /\ Follows(h)  BY <1>1, <1>3, <2>1, <2>2, GoIdle
    <2>4. UNCHANGED <<order, held, ledger, session, lines, applied, amiss>>
          BY <2>1 DEF orderRows, warehouse
    <2>5. lastId \in Nat  BY <1>0 DEF RowsStand
    <2>6. UnitsHold' /\ lastId' \in Nat /\ lastId' >= lastId
      <3>1. CASE SaveFields(h) \/ SaveStock(h) \/ SavePipeline(h)
        <4>1. UnitsHold' /\ lastId' = lastId  BY <1>0, <1>3, <2>4, <3>1, FieldsHold
        <4> QED  BY <2>5, <4>1
      <3>2. CASE SaveSimple(h)
        <4>1. UnitsHold' /\ lastId' = lastId  BY <1>0, <1>3, <2>4, <3>2, SimpleHolds
        <4> QED  BY <2>5, <4>1
      <3>3. CASE SaveMatrix(h)  BY <1>0, <1>1, <1>3, <2>4, <3>3, MatrixHolds
      <3> QED  BY <2>1, <3>1, <3>2, <3>3
    <2> QED  BY <2>3, <2>4, <2>5, <2>6, StockMovesOn
  <1> QED  BY <1>4, <1>5

(* One row instead of the product                                            *)
LEMMA OneRowStock ==
    ASSUME NEW p, StockRows(p), ~ HasVariants(p), NEW q, NEW row, ComesFirst(p, q, row),
           row.stock \in Int
    PROVE  OnHand(q) = row.stock /\ Most(1, Len(q.variants)) = 1 /\ Most(1, Len(p.variants)) = 1
  <1>1. Slots(p) = {} /\ Len(p.variants) = 0  BY SlotsAre DEF HasVariants
  <1>2. Slots(q) = {1} /\ HasVariants(q) /\ q.variants[1] = row /\ q.variants \in Seq(Range(q.variants))
        BY <1>1 DEF ComesFirst, HasVariants
  <1>3. StocksOf(q) = [i \in {1} |-> q.variants[i].stock]  BY <1>2 DEF StocksOf
  <1>4. StocksOf(q)[1] = row.stock  BY <1>2, <1>3
  <1>5. SumFunctionOnSet(StocksOf(q), {1}) = StocksOf(q)[1]  BY <1>4, SumSingle
  <1>6. SumOver(q, Stocked) = row.stock  BY <1>2, <1>4, <1>5, SumsAre
  <1>7. Len(q.variants) = 1
    <2>1. DOMAIN q.variants = {1}  BY <1>2 DEF Slots
    <2> DEFINE n == Len(q.variants)
    <2>2. DOMAIN q.variants = 1 .. n /\ n \in Nat  BY <1>2
    <2> HIDE DEF n
    <2>3. 1 .. n = {1} /\ n \in Nat  BY <2>1, <2>2
    <2>4. n >= 1  BY <2>3
    <2>5. n \in 1 .. n  BY <2>3, <2>4
    <2> QED  BY <2>3, <2>5 DEF n
  <1> QED  BY <1>1, <1>2, <1>6, <1>7 DEF OnHand, Most

LEMMA MigrateUnits ==
    ASSUME DeskInv, LabelInv, LabelInv', UnitsInv, NEW h \in Handlers, Concerns(h, StockKinds),
           UNCHANGED warehouse, Migrate(h)
    PROVE  UnitsInv'
  <1>0. /\ At(h, "migrate") /\ Proceed(h) /\ RowsStand /\ RowsStand' /\ StockRead /\ StockReads
        /\ UnitsHold
        BY Zenon DEF Migrate, LabelInv, UnitsInv
  <1>1. Turn(h) /\ Follows(h)  BY <1>0, ProceedTurn
  <1> DEFINE read == req[h].read
             row == [id |-> lastId + 1, sku |-> Plain, stock |-> read.stock,
                     reserved |-> read.reserved, version |-> 0]
  <1>2. UnitRows(read)
    <2>1. Head(req[h].todo) = "migrate" /\ UnitsRead(req[h])  BY <1>0, HereReads
    <2> QED  BY <2>1 DEF UnitsRead
  <1>3. CASE UNCHANGED catalogue  BY <1>1, <1>3, AllAside, UnitsStay
  <1>4. CASE ~ UNCHANGED catalogue
    <2>1. /\ Plain \notin Skus(product)
          /\ product' = [product EXCEPT !.variants = <<row>> \o @, !.stock = read.stock,
                                        !.reserved = 0]
          /\ lastId' = lastId + 1
          /\ strayed' = (strayed \/ product.reserved # read.reserved)
          /\ written' = (written \/ product.stock # read.stock \/ HasVariants(product))
          /\ UNCHANGED <<orderRows, ledger>>
          BY <1>4, Zenon DEF Migrate
    <2>2. UNCHANGED <<order, held, ledger, session, lines, applied, amiss>>
          BY <2>1 DEF orderRows, warehouse
    <2>3. lastId \in Nat /\ UnitRows(product) /\ ledger \in Int /\ ProductShape(product)
          BY <1>0 DEF RowsStand, UnitsHold
    <2>4. read.stock \in Int /\ read.reserved \in Nat  BY <1>2 DEF UnitRows, NumRow
    <2>5. /\ row.id = lastId + 1 /\ row.sku = Plain /\ row.stock = read.stock
          /\ row.reserved = read.reserved /\ row.version = 0
          OBVIOUS
    <2> HIDE DEF row, read
    <2>6. NumRow(row)  BY <2>4, <2>5 DEF NumRow
    <2>7. /\ product'.variants = <<row>> \o product.variants /\ product'.stock = read.stock
          /\ product'.reserved = 0 /\ product'.version = product.version
      <3> DEFINE rows == <<row>> \o product.variants
                 n == read.stock
      <3>1. product' = [product EXCEPT !.variants = rows, !.stock = n, !.reserved = 0]  BY <2>1
      <3> HIDE DEF rows, n
      <3>2. DOMAIN product = {"pipeline", "stock", "reserved", "version", "active", "variants"}
            BY <2>3 DEF ProductShape
      <3>3. product'.variants = rows /\ product'.stock = n /\ product'.reserved = 0
            /\ product'.version = product.version
            BY <3>1, <3>2
      <3> QED  BY <3>3 DEF rows, n
    <2>8. product.variants \in Seq(Range(product.variants))  BY <1>0 DEF RowsStand
    <2>9. ComesFirst(product, product', row)  BY <2>7, <2>8, RowBefore
    <2>10. StockRows(product')  BY <1>0 DEF RowsStand, StockRows, Slots
    <2>11. UnitRows(product')
      <3>1. NumRow(product')  BY <2>3, <2>4, <2>7 DEF NumRow, UnitRows
      <3>2. \A i \in Slots(product') :
               \/ product'.variants[i] = row
               \/ i - 1 \in Slots(product) /\ product'.variants[i] = product.variants[i - 1]
            BY <2>9 DEF ComesFirst
      <3>3. \A i \in Slots(product') : NumRow(product'.variants[i])
            BY <2>3, <2>6, <3>2 DEF UnitRows
      <3> QED  BY <2>10, <3>1, <3>3 DEF UnitRows
    <2>12. ASSUME ~ strayed' PROVE Promised(product', order')
      <3>1. ~ (strayed \/ product.reserved # read.reserved)  BY <2>1, <2>12, Zenon
      <3>2. ~ strayed /\ product.reserved = read.reserved  BY <3>1, Zenon
      <3>3. Promised(product, order)  BY <1>0, <3>2 DEF UnitsHold
      <3>4. \A o \in Orders : order[o].variant # row.id
        <4>1. \A o \in Orders : order[o].variant \in Nat /\ order[o].variant <= lastId
              BY HeldCounts DEF UnitsInv, OrdersStand
        <4> QED  BY <2>3, <2>5, <4>1
      <3>5. row.id # 0 /\ row.reserved = product.reserved  BY <2>3, <2>5, <3>2
      <3>6. Promised(product', order)
            BY <2>1, <2>3, <2>5, <2>7, <2>9, <2>11, <3>3, <3>4, <3>5, PromisesMove
      <3> QED  BY <2>2, <3>6
    <2>13. ASSUME ~ written' PROVE Recorded(product', ledger')
      <3>1. ~ (written \/ product.stock # read.stock \/ HasVariants(product))  BY <2>1, <2>13, Zenon
      <3>2. ~ written /\ product.stock = read.stock /\ ~ HasVariants(product)  BY <3>1, Zenon
      <3>3. Recorded(product, ledger)  BY <1>0, <3>2 DEF UnitsHold
      <3>4. StockRows(product) /\ row.stock \in Int  BY <2>3, <2>4, <2>5 DEF UnitRows
      <3>5. /\ OnHand(product') = row.stock /\ Most(1, Len(product'.variants)) = 1
            /\ Most(1, Len(product.variants)) = 1
            BY <2>9, <3>2, <3>4, OneRowStock
      <3>6. OnHand(product) = product.stock  BY <3>2 DEF OnHand
      <3> QED  BY <2>2, <2>5, <2>7, <3>2, <3>3, <3>5, <3>6 DEF Recorded
    <2>14. UnitsHold'  BY <2>2, <2>3, <2>11, <2>12, <2>13 DEF UnitsHold
    <2>15. lastId' \in Nat /\ lastId' >= lastId  BY <2>1, <2>3
    <2> QED  BY <1>1, <2>2, <2>3, <2>14, <2>15, StockMovesOn
  <1> QED  BY <1>3, <1>4

(* Scanners                                                                  *)
LEMMA RowCounts ==
    ASSUME NEW p, UnitRows(p), NEW id, Known(p, id)
    PROVE  NumRow(RowOf(p, id))
  <1>1. CASE id = 0  BY <1>1, RowIs DEF UnitRows
  <1>2. CASE id # 0  BY <1>2, RowIs DEF UnitRows
  <1> QED  BY <1>1, <1>2

LEMMA LiveCounts == ASSUME RowsStand, NEW id PROVE Live(product, id) \in Nat
  <1>1. \A i \in Slots(product) : product.variants[i].id \in Nat  BY DEF RowsStand
  <1> QED  BY <1>1 DEF Live

LEMMA ExpectedCounts ==
    ASSUME NEW row, NumRow(row)
    PROVE  Expected(row) \in SeenRecords /\ Expected(row).onHand = row.stock
  <1>1. Available(row) \in Int  BY DEF NumRow, Available, Most
  <1> QED  BY <1>1 DEF NumRow, Expected, SeenRecords

LEMMA MadeBeside ==
    ASSUME MadeOnce, NEW h \in Handlers, OthersStay(h), order' = order,
           Busy(h)' => req'[h].kind \notin OrderKinds
    PROVE  MadeOnce'
  <1>1. \A g \in Doing(OrderKinds)' : g \in Doing(OrderKinds) /\ req'[g] = req[g]
        BY DEF Doing, OthersStay
  <1>2. \A g \in Doing({"order"})' : g \in Doing({"order"}) /\ req'[g] = req[g]
        BY DEF Doing, OthersStay, OrderKinds
  <1> QED  BY <1>1, <1>2 DEF MadeOnce

LEMMA ScannerMoves ==
    ASSUME UnitsInv, NEW h \in Handlers, Turn(h), Busy(h)' => req'[h].kind \notin OrderKinds,
           UnitsHold', UNCHANGED <<order, held, lastId>>, Session', ~ amiss'
    PROVE  UnitsInv'
  <1>1. StockReads'  BY TurnReads DEF UnitsInv
  <1>2. MadeOnce'  BY MadeBeside DEF UnitsInv, Turn
  <1>3. OrdersStand'  BY OrdersAside DEF UnitsInv
  <1> QED  BY <1>1, <1>2, <1>3 DEF UnitsInv

LEMMA LinesMove ==
    ASSUME UnitsInv, NEW h \in Handlers, Turn(h), Follows(h),
           Busy(h)' => req'[h].kind \notin OrderKinds,
           UNCHANGED <<catalogue, session, applied, amiss>>, LinesStand(lines')
    PROVE  UnitsInv'
  <1>1. UnitsHold'  BY HoldAside DEF UnitsInv, catalogue
  <1>2. Session'  BY SessionStill DEF UnitsInv, Turn
  <1> QED  BY <1>1, <1>2, ScannerMoves DEF UnitsInv, catalogue

LEMMA AtScanner ==
    ASSUME DeskInv, StockRead, StockReads, NEW h \in Handlers, NEW step,
           step \in {"adjust", "upsert", "write", "discard", "check", "apply"}, At(h, step),
           Concerns(h, StockKinds)
    PROVE  /\ Busy(h) /\ req[h].kind \notin OrderKinds /\ UnitsRead(req[h])
           /\ Head(req[h].todo) = step /\ req[h].todo \in PlainPlans
           /\ Proceed(h) => Turn(h) /\ Follows(h) /\ ~ Busy(h)' /\ crossed' = crossed /\ OthersStay(h)
  <1>1. Busy(h) /\ Head(req[h].todo) = step /\ UnitsRead(req[h])  BY HereReads
  <1>2. req[h].kind \notin OrderKinds  BY <1>1, NotOrders DEF OrderSteps
  <1>3. req[h].todo \in PlainPlans  BY StockAt
  <1>4. ASSUME Proceed(h)
        PROVE  Turn(h) /\ Follows(h) /\ ~ Busy(h)' /\ crossed' = crossed /\ OthersStay(h)
    <2>1. Turn(h) /\ Follows(h)  BY <1>4, ProceedTurn
    <2>2. Tail(req[h].todo) = <<>>  BY <1>1, <1>3, LoneTail
    <2>3. GoOn(h, <<>>, req[h].read)  BY <1>4, <2>2 DEF Proceed
    <2>4. ~ Busy(h)' /\ crossed' = crossed /\ OthersStay(h)  BY <1>1, <2>3, AfterGoOn
    <2> QED  BY <2>1, <2>4
  <1> QED  BY <1>1, <1>2, <1>3, <1>4

LEMMA AdjustKept ==
    ASSUME DeskInv, LabelInv, UnitsInv, NEW h \in Handlers, Concerns(h, StockKinds),
           ScanToAdjust(h) \/ Adjust(h)
    PROVE  UnitsInv'
  <1>0. /\ RowsStand /\ StockRead /\ StockReads /\ UnitsHold /\ UnitRows(product)
        /\ ledger \in Int
        BY DEF LabelInv, UnitsInv, UnitsHold
  <1>1. CASE ScanToAdjust(h)
    <2>1. \E l \in labels, n \in Counts, counted \in BOOLEAN :
             /\ Begin(h, "adjust", <<"adjust">>,
                      [id |-> Hit(l),
                       delta |-> IF counted THEN n - RowOf(product, Hit(l)).stock ELSE n])
             /\ UNCHANGED <<catalogue, warehouse>>
          BY <1>1, Zenon DEF ScanToAdjust
    <2>2. PICK l \in labels, n \in Counts, counted \in BOOLEAN :
             /\ Begin(h, "adjust", <<"adjust">>,
                      [id |-> Hit(l),
                       delta |-> IF counted THEN n - RowOf(product, Hit(l)).stock ELSE n])
             /\ UNCHANGED <<catalogue, warehouse>>
          BY <2>1
    <2>3. Hit(l) \in Nat /\ Known(product, Hit(l))  BY <1>0, LiveCounts, LiveIsKnown DEF Hit
    <2>4. RowOf(product, Hit(l)).stock \in Int  BY <1>0, <2>3, RowCounts DEF NumRow
    <2>5. n \in Nat  BY WarehouseAssumption DEF WarehouseAssumption
    <2> DEFINE plan == <<"adjust">>
               delta == IF counted THEN n - RowOf(product, Hit(l)).stock ELSE n
               read == [id |-> Hit(l), delta |-> delta]
               r == [todo |-> plan, kind |-> "adjust", read |-> read]
    <2>6. delta \in Int  BY <2>4, <2>5
    <2>7. Begin(h, "adjust", plan, read)  BY <2>2
    <2> HIDE DEF delta
    <2>8. /\ Head(plan) = "adjust" /\ r.todo = plan /\ r.kind = "adjust" /\ r.read = read
          /\ read.id = Hit(l) /\ read.delta = delta
          OBVIOUS
    <2> HIDE DEF plan, read, r
    <2>9. UnitsRead(r)  BY <2>3, <2>6, <2>8 DEF UnitsRead, OrderSteps, OrderKinds
    <2>10. "adjust" \notin ClosingKinds  BY DEF ClosingKinds, OrderKinds
    <2>11. Turn(h) /\ Follows(h)  BY <2>7, <2>9, <2>10, BeginTurn DEF r
    <2> QED  BY <2>2, <2>11, AllAside, UnitsStay
  <1>2. CASE Adjust(h)
    <2> DEFINE id == Live(product, req[h].read.id)
               delta == req[h].read.delta
    <2>1. At(h, "adjust") /\ UNCHANGED <<orderRows, lastId, past, warehouse>>
          BY <1>2, Zenon DEF Adjust
    <2>2. /\ Busy(h) /\ req[h].kind \notin OrderKinds /\ UnitsRead(req[h])
          /\ Head(req[h].todo) = "adjust"
          BY <1>0, <2>1, AtScanner
    <2>3. delta \in Int  BY <2>2 DEF UnitsRead
    <2>4. UNCHANGED <<order, held, lastId, strayed, written, session, lines, applied, amiss>>
          BY <2>1 DEF orderRows, past, warehouse
    <2>5. CASE Stop(h) /\ UNCHANGED <<product, ledger>>
      <3>1. UnitsAside  BY <2>4, <2>5 DEF UnitsAside
      <3> QED  BY <2>2, <2>5, <3>1, StopTurn, UnitsStay
    <2>6. CASE /\ Adjustable(product, id, delta) /\ product' = AdjustedRow(product, id, delta)
               /\ ledger' = ledger + delta
               /\ GoOn(h, <<"tell">>, [row |-> product, saved |-> product'])
      <3>1. Head(<<"tell">>) \in IdleSteps  BY DEF IdleSteps
      <3>2. Turn(h) /\ Follows(h)  BY <2>2, <2>6, <3>1, GoIdle
      <3>3. Busy(h)' => req'[h].kind \notin OrderKinds  BY <2>2, <2>6, AfterGoOn
      <3> DEFINE q == AdjustedRow(product, id, delta)
      <3>4. Known(product, id)  BY LiveIsKnown
      <3>5. /\ ~ HasVariants(product) => SelfShift(product, q, delta, 0)
            /\ HasVariants(product) => RowShift(product, q, Slot(product, id), delta, 0)
            BY <1>0, <2>3, <2>6, <3>4, AdjustUnits
      <3>6. product' = q  BY <2>6
      <3> HIDE DEF q, id, delta
      <3>7. Shifts(product, q, delta, 0)
        <4>1. product.reserved + 0 \in Nat /\ \A i \in Slots(product) : product.variants[i].reserved + 0 \in Nat
              BY <1>0 DEF UnitRows, NumRow
        <4>2. HasVariants(product) => Slot(product, id) \in Slots(product)  BY <3>5 DEF RowShift
        <4> QED  BY <3>5, <4>1, <4>2 DEF Shifts
      <3>8. UnitRows(q) /\ \A e \in Int : Recorded(product, e) => Recorded(q, e + delta)
            BY <1>0, <3>7, ShiftHolds
      <3>9. ASSUME ~ strayed' PROVE Promised(product', order')
        <4>1. Promised(product, order)  BY <1>0, <2>4, <3>9 DEF UnitsHold
        <4>2. /\ RowsMoved(product, q) /\ q.reserved = product.reserved /\ Promises(q) = Promises(product)
              /\ \A i \in Slots(product) : q.variants[i].reserved = product.variants[i].reserved
          <5>0. /\ product.reserved \in Nat /\ Promises(product) \in Nat
                /\ \A i \in Slots(product) : product.variants[i].reserved \in Nat
                BY <1>0, SumsCount DEF UnitRows, NumRow
          <5>1. CASE ~ HasVariants(product)
            <6>1. SelfShift(product, q, delta, 0)  BY <3>5, <5>1
            <6>2. product.reserved + 0 \in Nat  BY <5>0
            <6>3. Promises(q) = Promises(product) + 0  BY <1>0, <5>1, <6>1, <6>2, SelfSums
            <6>4. RowsMoved(product, q) /\ q.variants = product.variants
                  /\ q.reserved = product.reserved + 0
                  BY <6>1 DEF SelfShift
            <6> QED  BY <5>0, <6>3, <6>4
          <5>2. CASE HasVariants(product)
            <6> DEFINE k == Slot(product, id)
            <6>1. RowShift(product, q, k, delta, 0)  BY <3>5, <5>2
            <6> HIDE DEF k
            <6>2. k \in Slots(product)  BY <6>1 DEF RowShift
            <6>3. product.variants[k].reserved + 0 \in Nat  BY <5>0, <6>2
            <6>4. Promises(q) = Promises(product) + 0  BY <1>0, <6>1, <6>3, RowSums
            <6>5. /\ RowsMoved(product, q) /\ q.reserved = product.reserved
                  /\ q.variants[k].reserved = product.variants[k].reserved + 0
                  /\ \A i \in Slots(product) \ {k} :
                        q.variants[i].reserved = product.variants[i].reserved
                  BY <6>1 DEF RowShift
            <6> QED  BY <5>0, <6>2, <6>4, <6>5
          <5> QED  BY <5>1, <5>2
        <4>3. \A o \in Orders : Alike(order, order', o)  BY <2>4 DEF Alike
        <4>4. Promised(q, order')  BY <1>0, <4>1, <4>2, <4>3, PromisesStay
        <4> QED  BY <3>6, <4>4
      <3>10. ASSUME ~ written' PROVE Recorded(product', ledger')
        <4>1. Recorded(product, ledger)  BY <1>0, <2>4, <3>10 DEF UnitsHold
        <4>2. Recorded(q, ledger + delta) /\ ledger' = ledger + delta
              BY <1>0, <2>6, <3>8, <4>1 DEF delta
        <4> QED  BY <3>6, <4>2
      <3>11. UnitsHold'
        <4>1. ledger' \in Int  BY <1>0, <2>3, <2>6 DEF delta
        <4> QED  BY <3>6, <3>8, <3>9, <3>10, <4>1 DEF UnitsHold
      <3>12. Session'
        <4>1. LinesStand(lines')  BY <2>4 DEF UnitsInv, Session
        <4> QED  BY <2>4, <3>2, <4>1, SessionStill DEF UnitsInv, Turn
      <3> QED  BY <2>4, <3>2, <3>3, <3>11, <3>12, ScannerMoves DEF UnitsInv
    <2> QED  BY <1>2, <2>5, <2>6, Zenon DEF Adjust
  <1> QED  BY <1>1, <1>2

(* The lines of the session                                                  *)
LEMMA LinesMapped ==
    ASSUME NEW S, LinesStand(S), NEW id, NEW new \in [S -> LineRecords],
           \A x \in S : new[x].id = x.id,
           NEW T, \A t \in T : \E x \in S : t = (IF x.id = id THEN new[x] ELSE x)
    PROVE  LinesStand(T)
  <1> DEFINE f == [x \in S |-> IF x.id = id THEN new[x] ELSE x]
  <1>1. IsFiniteSet(S) /\ S \subseteq LineRecords /\ \A x, y \in S : x.id = y.id => x = y
        BY DEF LinesStand
  <1>2. \A x \in S : f[x] = (IF x.id = id THEN new[x] ELSE x)  OBVIOUS
  <1>3. \A x \in S : f[x] \in LineRecords /\ f[x].id = x.id  BY <1>1
  <1>4. \A t \in T : \E x \in S : t = f[x]  BY <1>2
  <1>5. f \in [S -> LineRecords]  BY <1>1
  <1> HIDE DEF f
  <1>7. IsFiniteSet(T)
    <2>1. IsFiniteSet(S)  BY <1>1
    <2>2. \E g \in [S -> LineRecords] : \A t \in T : \E x \in S : t = g[x]  BY <1>4, <1>5
    <2> QED  BY ONLY <2>1, <2>2, ImageIsFinite
  <1>8. T \subseteq LineRecords  BY <1>3, <1>4
  <1>9. ASSUME NEW s \in T, NEW t \in T, s.id = t.id PROVE s = t
    <2>1. PICK x \in S : s = f[x]  BY <1>4
    <2>2. PICK y \in S : t = f[y]  BY <1>4
    <2>3. x = y  BY <1>1, <1>3, <1>9, <2>1, <2>2
    <2> QED  BY <2>1, <2>2, <2>3
  <1> QED  BY <1>7, <1>8, <1>9 DEF LinesStand

LEMMA LinesKept ==
    ASSUME DeskInv, LabelInv, UnitsInv, NEW h \in Handlers, Concerns(h, StockKinds),
           UpsertLine(h) \/ WriteLine(h)
    PROVE  UnitsInv'
  <1>0. RowsStand /\ StockRead /\ StockReads /\ LinesStand(lines)
        BY DEF LabelInv, UnitsInv, Session
  <1> DEFINE read == req[h].read
  <1>1. lines \subseteq LineRecords /\ IsFiniteSet(lines) /\ \A x, y \in lines : x.id = y.id => x = y
        BY <1>0 DEF LinesStand
  <1>2. CASE UpsertLine(h)
    <2>1. At(h, "upsert") /\ Proceed(h) /\ UNCHANGED <<catalogue, session, applied, amiss>>
          BY <1>2, Zenon DEF UpsertLine
    <2>2. /\ Busy(h) /\ UnitsRead(req[h]) /\ Head(req[h].todo) = "upsert"
          /\ Turn(h) /\ Follows(h) /\ ~ Busy(h)'
          BY <1>0, <2>1, AtScanner
    <2>3. read.id \in Nat /\ read.seen \in SeenRecords  BY <2>2 DEF UnitsRead
    <2>4. \/ lines' = {IF x.id = read.id THEN [x EXCEPT !.seen = read.seen] ELSE x : x \in lines}
          \/ lines' = lines
          \/ /\ ~ \E x \in lines : x.id = read.id
             /\ lines' = lines \cup {[id |-> read.id, action |-> "NO_CHANGE", qty |-> 0,
                                      seen |-> read.seen]}
          BY <1>2, Zenon DEF UpsertLine
    <2> DEFINE id == read.id
               seen == read.seen
    <2> HIDE DEF read
    <2>5. CASE lines' = {IF x.id = id THEN [x EXCEPT !.seen = seen] ELSE x : x \in lines}
      <3> DEFINE new == [x \in lines |-> [x EXCEPT !.seen = seen]]
      <3>0. seen \in SeenRecords  BY <2>3
      <3> HIDE DEF seen
      <3>1. new \in [lines -> LineRecords] /\ \A x \in lines : new[x].id = x.id
            BY <1>1, <3>0 DEF LineRecords
      <3>2. \A t \in lines' : \E x \in lines : t = (IF x.id = id THEN new[x] ELSE x)  BY <2>5
      <3> HIDE DEF new, id
      <3>3. LinesStand(lines')  BY <1>0, <3>1, <3>2, LinesMapped
      <3> QED  BY <2>1, <2>2, <3>3, LinesMove
    <2>6. CASE lines' = lines  BY <1>0, <2>1, <2>2, <2>6, LinesMove
    <2>7. CASE /\ ~ \E x \in lines : x.id = id
               /\ lines' = lines \cup {[id |-> id, action |-> "NO_CHANGE", qty |-> 0,
                                        seen |-> seen]}
      <3> DEFINE added == [id |-> id, action |-> "NO_CHANGE", qty |-> 0, seen |-> seen]
      <3>1. added \in LineRecords /\ added.id = id  BY <2>3 DEF LineRecords
      <3>2. lines' = lines \cup {added}  BY <2>7
      <3> HIDE DEF added
      <3>3. IsFiniteSet(lines')  BY <1>1, <3>2, FS_AddElement
      <3>4. LinesStand(lines')  BY <1>1, <2>7, <3>1, <3>2, <3>3 DEF LinesStand
      <3> QED  BY <2>1, <2>2, <3>4, LinesMove
    <2> QED  BY <2>4, <2>5, <2>6, <2>7
  <1>3. CASE WriteLine(h)
    <2>1. /\ At(h, "write") /\ Proceed(h) /\ UNCHANGED <<catalogue, session, applied, amiss>>
          /\ lines' = {IF x.id = read.id THEN read ELSE x : x \in lines}
          BY <1>3, Zenon DEF WriteLine
    <2>2. /\ Busy(h) /\ UnitsRead(req[h]) /\ Head(req[h].todo) = "write"
          /\ Turn(h) /\ Follows(h) /\ ~ Busy(h)'
          BY <1>0, <2>1, AtScanner
    <2>3. read \in LineRecords  BY <2>2 DEF UnitsRead
    <2> HIDE DEF read
    <2> DEFINE new == [x \in lines |-> IF x.id = read.id THEN read ELSE x]
    <2>4. new \in [lines -> LineRecords] /\ \A x \in lines : new[x].id = x.id  BY <1>1, <2>3
    <2>5. lines' = {IF x.id = read.id THEN new[x] ELSE x : x \in lines}  BY <2>1
    <2> HIDE DEF new
    <2> DEFINE id == read.id
    <2>6. LinesStand(lines')
      <3>1. \A t \in lines' : \E x \in lines : t = (IF x.id = id THEN new[x] ELSE x)  BY <2>5
      <3> HIDE DEF id
      <3> QED  BY <1>0, <2>4, <3>1, LinesMapped
    <2> QED  BY <2>1, <2>2, <2>6, LinesMove
  <1> QED  BY <1>2, <1>3

LEMMA LinesBegun ==
    ASSUME DeskInv, LabelInv, UnitsInv, NEW h \in Handlers, Concerns(h, StockKinds),
           ScanLine(h) \/ PlanLine(h) \/ RemoveLine(h)
    PROVE  UnitsInv'
  <1>0. RowsStand /\ StockReads /\ LinesStand(lines) /\ UnitRows(product)
        BY DEF LabelInv, UnitsInv, Session, UnitsHold
  <1>1. lines \subseteq LineRecords /\ IsFiniteSet(lines) /\ \A x, y \in lines : x.id = y.id => x = y
        BY <1>0 DEF LinesStand
  <1>2. \A id : /\ Live(product, id) \in Nat /\ Expected(RowOf(product, Live(product, id))) \in SeenRecords
        BY <1>0, LiveIsKnown, LiveCounts, RowCounts, ExpectedCounts
  <1>3. "scan" \notin ClosingKinds /\ "plan" \notin ClosingKinds  BY DEF ClosingKinds, OrderKinds
  <1>4. CASE ScanLine(h)
    <2>1. \E l \in labels : \E known :
             /\ Begin(h, "scan", <<"upsert">>,
                      [id |-> Hit(l), known |-> known, seen |-> Expected(RowOf(product, Hit(l)))])
             /\ UNCHANGED <<catalogue, warehouse>>
          BY <1>4, Zenon DEF ScanLine
    <2>2. PICK l \in labels : \E known :
             /\ Begin(h, "scan", <<"upsert">>,
                      [id |-> Hit(l), known |-> known, seen |-> Expected(RowOf(product, Hit(l)))])
             /\ UNCHANGED <<catalogue, warehouse>>
          BY <2>1
    <2>8. PICK known :
             /\ Begin(h, "scan", <<"upsert">>,
                      [id |-> Hit(l), known |-> known, seen |-> Expected(RowOf(product, Hit(l)))])
             /\ UNCHANGED <<catalogue, warehouse>>
          BY <2>2
    <2> DEFINE plan == <<"upsert">>
               seen == Expected(RowOf(product, Hit(l)))
               read == [id |-> Hit(l), known |-> known, seen |-> seen]
               r == [todo |-> plan, kind |-> "scan", read |-> read]
    <2>3. seen \in SeenRecords /\ Hit(l) \in Nat  BY <1>2 DEF Hit
    <2>4. Begin(h, "scan", plan, read)  BY <2>8
    <2> HIDE DEF seen
    <2>5. /\ Head(plan) = "upsert" /\ r.todo = plan /\ r.kind = "scan" /\ r.read = read
          /\ read.id = Hit(l) /\ read.seen = seen
          OBVIOUS
    <2> HIDE DEF plan, read, r
    <2>6. UnitsRead(r)  BY <2>3, <2>5 DEF UnitsRead, OrderSteps, OrderKinds
    <2>7. Turn(h) /\ Follows(h)  BY <1>3, <2>4, <2>6, BeginTurn DEF r
    <2> QED  BY <2>7, <2>8, AllAside, UnitsStay
  <1>5. CASE PlanLine(h)
    <2>1. \E x \in lines, action \in {"ADD", "REMOVE", "SET", "NO_CHANGE"}, n \in Counts,
             fresh \in BOOLEAN :
             LET seen == IF fresh THEN Expected(RowOf(product, Live(product, x.id))) ELSE x.seen
             IN  /\ Begin(h, "plan", <<"write">>,
                          [x EXCEPT !.action = action, !.seen = seen,
                                    !.qty = IF action = "NO_CHANGE" THEN 0 ELSE n])
                 /\ UNCHANGED <<catalogue, warehouse>>
          BY <1>5, Zenon DEF PlanLine
    <2>2. PICK x \in lines, action \in {"ADD", "REMOVE", "SET", "NO_CHANGE"}, n \in Counts,
               fresh \in BOOLEAN :
             LET seen == IF fresh THEN Expected(RowOf(product, Live(product, x.id))) ELSE x.seen
             IN  /\ Begin(h, "plan", <<"write">>,
                          [x EXCEPT !.action = action, !.seen = seen,
                                    !.qty = IF action = "NO_CHANGE" THEN 0 ELSE n])
                 /\ UNCHANGED <<catalogue, warehouse>>
          BY <2>1
    <2> DEFINE seen == IF fresh THEN Expected(RowOf(product, Live(product, x.id))) ELSE x.seen
               qty == IF action = "NO_CHANGE" THEN 0 ELSE n
               read == [x EXCEPT !.action = action, !.seen = seen, !.qty = qty]
               plan == <<"write">>
               r == [todo |-> plan, kind |-> "plan", read |-> read]
    <2>3. x \in LineRecords /\ n \in Nat  BY <1>1, WarehouseAssumption DEF WarehouseAssumption
    <2>4. seen \in SeenRecords /\ qty \in Nat  BY <1>2, <2>3 DEF LineRecords
    <2>5. Begin(h, "plan", plan, read)  BY <2>2
    <2> HIDE DEF seen, qty
    <2>6. read \in LineRecords
      <3> DEFINE one == [x EXCEPT !.action = action]
                 two == [one EXCEPT !.seen = seen]
      <3>1. one \in LineRecords  BY <2>3 DEF LineRecords
      <3> HIDE DEF one
      <3>2. two \in LineRecords  BY <2>4, <3>1 DEF LineRecords
      <3> HIDE DEF two
      <3>3. [two EXCEPT !.qty = qty] \in LineRecords  BY <2>4, <3>2 DEF LineRecords
      <3>4. read = [two EXCEPT !.qty = qty]  BY DEF one, two
      <3> QED  BY <3>3, <3>4
    <2> HIDE DEF read
    <2>7. Head(plan) = "write" /\ r.todo = plan /\ r.kind = "plan" /\ r.read = read  OBVIOUS
    <2> HIDE DEF plan, r
    <2>8. UnitsRead(r)  BY <2>6, <2>7 DEF UnitsRead, OrderSteps, OrderKinds
    <2>9. Turn(h) /\ Follows(h)  BY <1>3, <2>5, <2>8, BeginTurn DEF r
    <2> QED  BY <2>2, <2>9, AllAside, UnitsStay
  <1>6. CASE RemoveLine(h)
    <2>1. /\ Begin(h, "plan", <<>>, {}) /\ (\E x \in lines : lines' = lines \ {x})
          /\ UNCHANGED <<catalogue, session, applied, amiss>>
          BY <1>6, Zenon DEF RemoveLine
    <2>2. Turn(h) /\ Follows(h)  BY <1>3, <2>1, BeginTurn
    <2>3. ~ Busy(h)'  BY <2>1, AfterBegin
    <2>4. LinesStand(lines')
      <3>1. lines' \subseteq lines  BY <2>1
      <3>2. IsFiniteSet(lines')  BY <1>1, <3>1, FS_Subset
      <3> QED  BY <1>1, <3>1, <3>2 DEF LinesStand
    <2> QED  BY <2>1, <2>2, <2>3, <2>4, LinesMove
  <1> QED  BY <1>4, <1>5, <1>6

(* A draft is opened to confirm or discard it.                               *)
LEMMA ClosingBegins ==
    ASSUME DeskInv, UnitsInv, NEW h \in Handlers,
           OpenToClose(h, "discard", "discard") \/ OpenToClose(h, "confirm", "check")
    PROVE  UnitsInv'
  <1>1. PICK kind \in {"confirm", "discard"}, step \in {"check", "discard"} :
           /\ kind = "confirm" <=> step = "check"
           /\ OpenToClose(h, kind, step)
        OBVIOUS
  <1> DEFINE plan == <<step>>
             read == [lines |-> lines]
             r == [todo |-> plan, kind |-> kind, read |-> read]
  <1>2. /\ session = "DRAFT" /\ Begin(h, kind, plan, read) /\ UNCHANGED <<catalogue, warehouse>>
        BY <1>1 DEF OpenToClose
  <1>3. Head(plan) = step /\ plan # <<>> /\ r.todo = plan /\ r.kind = kind /\ r.read.lines = lines
        OBVIOUS
  <1>4. LinesStand(lines) /\ applied = 0  BY <1>2 DEF UnitsInv, Session
  <1> HIDE DEF plan, read, r
  <1>5. UnitsRead(r)  BY <1>1, <1>3, <1>4 DEF UnitsRead, OrderSteps, OrderKinds
  <1>6. Turn(h)  BY <1>2, <1>5, BeginTurn DEF r
  <1>7. Busy(h)' => req'[h].kind \notin OrderKinds
    <2>1. Busy(h)' => req'[h].kind = kind  BY <1>2, AfterBegin
    <2> QED  BY <1>1, <2>1 DEF OrderKinds
  <1>8. UNCHANGED <<product, order, held, ledger, lastId, strayed, written, session, lines, applied, amiss>>
        BY <1>2, AllAside DEF UnitsAside
  <1>9. UnitsHold'  BY <1>8, HoldAside DEF UnitsInv
  <1>10. Session'
    <2>1. session' = "DRAFT" /\ applied' = 0 /\ LinesStand(lines')  BY <1>2, <1>4, <1>8
    <2> QED  BY <2>1 DEF Session
  <1> QED  BY <1>6, <1>7, <1>8, <1>9, <1>10, ScannerMoves DEF UnitsInv

(* Once one that closes it has come to its end, none of those it never met     *)
(* is at work.                                                               *)
LEMMA ClosedAlone ==
    ASSUME DeskInv, NEW h \in Handlers, NEW kind, h \in Doing({kind}), OthersStay(h), ~ Busy(h)',
           crossed' = crossed
    PROVE  /\ \A other : /\ Doing({other})' \subseteq Doing({other})
                         /\ Apart(kind, other) => Doing({other})' = {}
           /\ \A a, b : Apart(a, b)' <=> Apart(a, b)
  <1>1. \A other : \A g \in Doing({other})' : g # h /\ g \in Doing({other})
        BY DEF Doing, OthersStay
  <1>2. ASSUME NEW other, NEW g \in Doing({other})' PROVE ~ Apart(kind, other)
    <2>1. g \in Handlers /\ g # h /\ Busy(g) /\ Busy(h) /\ req[g].kind = other /\ req[h].kind = kind
          BY <1>1, <1>2 DEF Doing
    <2>2. {req[h].kind, req[g].kind} \in crossed  BY <2>1 DEF DeskInv
    <2> QED  BY <2>1, <2>2 DEF Apart
  <1>3. \A other : Apart(kind, other) => Doing({other})' = {}  BY <1>2
  <1>4. \A a, b : Apart(a, b)' <=> Apart(a, b)  BY DEF Apart
  <1> QED  BY <1>1, <1>3, <1>4

LEMMA PairIsOne == \A a, b : Apart(a, b) <=> Apart(b, a)
  <1>1. \A a, b : {a, b} = {b, a}  OBVIOUS
  <1> QED  BY <1>1 DEF Apart

LEMMA DiscardKept ==
    ASSUME DeskInv, LabelInv, UnitsInv, NEW h \in Handlers, Concerns(h, StockKinds), Discard(h)
    PROVE  UnitsInv'
  <1>1. /\ At(h, "discard") /\ Proceed(h) /\ session' = "DISCARDED"
        /\ UNCHANGED <<catalogue, lines, applied, amiss>>
        BY Zenon DEF Discard
  <1>2. /\ Busy(h) /\ UnitsRead(req[h]) /\ Head(req[h].todo) = "discard"
        /\ Turn(h) /\ ~ Busy(h)' /\ crossed' = crossed /\ OthersStay(h)
        BY <1>1, AtScanner DEF LabelInv, UnitsInv
  <1>3. req[h].kind = "discard"  BY <1>2 DEF UnitsRead
  <1>4. h \in Doing({"discard"})  BY <1>2, <1>3 DEF Doing
  <1>5. /\ Doing({"confirm"})' \subseteq Doing({"confirm"})
        /\ Apart("discard", "confirm") => Doing({"confirm"})' = {}
        /\ Apart("confirm", "confirm")' <=> Apart("confirm", "confirm")
        /\ Apart("confirm", "discard")' <=> Apart("confirm", "discard")
        BY <1>2, <1>4, ClosedAlone, Zenon
  <1>6. Apart("discard", "confirm") <=> Apart("confirm", "discard")  BY PairIsOne
  <1>7. Apart("confirm", "discard") => applied = 0  BY <1>4 DEF UnitsInv, Session
  <1>8. LinesStand(lines') /\ applied' = applied /\ applied \in Nat  BY <1>1 DEF UnitsInv, Session
  <1>9. Apart("confirm", "confirm")' => applied' <= 1 /\ (applied' # 0 => Doing({"confirm"})' = {})
        BY <1>5, <1>8 DEF UnitsInv, Session
  <1>10. Apart("confirm", "discard")' => applied' = 0 /\ Doing({"confirm"})' = {}
         BY <1>5, <1>6, <1>7, <1>8
  <1>11. Session'  BY <1>1, <1>8, <1>9, <1>10 DEF Session
  <1>12. UnitsHold'  BY <1>1, HoldAside DEF UnitsInv, catalogue
  <1>13. UNCHANGED <<order, held, lastId>> /\ ~ amiss'  BY <1>1 DEF catalogue, UnitsInv
  <1> QED  BY <1>2, <1>11, <1>12, <1>13, ScannerMoves

(* What the check makes of the lines that were read                          *)
LEMMA DeltaIs ==
    ASSUME NEW x \in LineRecords, NEW n \in Int
    PROVE  /\ Delta(x, n) \in Int
           /\ x.action = "SET" => n + Delta(x, n) = x.qty
  <1>1. x.qty \in Int /\ x.action \in {"ADD", "REMOVE", "SET", "NO_CHANGE"}  BY DEF LineRecords
  <1> QED  BY <1>1 DEF Delta

LEMMA PlanIsSound ==
    ASSUME NEW p, UnitRows(p), NEW S, LinesStand(S), NEW wanted, wanted \subseteq S,
           NEW now, \A x \in S : now[x] = RowOf(p, Live(p, x.id)),
           \A x \in wanted : ~ Conflict(x, now[x]) /\ Delta(x, now[x].stock) # 0,
           \A x \in wanted : Live(p, x.id) \in Nat,
           NEW plan,
           \A s \in plan : \E x \in wanted :
              s = [id |-> Live(p, x.id), delta |-> Delta(x, now[x].stock), row |-> now[x], line |-> x]
    PROVE  PlanStands(plan)
  <1> DEFINE f == [x \in wanted |-> [id |-> Live(p, x.id), delta |-> Delta(x, now[x].stock),
                                     row |-> now[x], line |-> x]]
             V == {f[x] : x \in wanted}
  <1>1. IsFiniteSet(S) /\ S \subseteq LineRecords /\ \A x, y \in S : x.id = y.id => x = y
        BY DEF LinesStand
  <1>2. \A s \in plan : \E x \in wanted : s = f[x]  OBVIOUS
  <1>3. f \in [wanted -> V]  OBVIOUS
  <1>4. ASSUME NEW x \in wanted
        PROVE  /\ f[x].id = Live(p, x.id) /\ f[x].delta = Delta(x, now[x].stock)
               /\ f[x].row = now[x] /\ f[x].line = x
        OBVIOUS
  <1>5. IsFiniteSet(wanted)  BY <1>1, FS_Subset
  <1> HIDE DEF f, V
  <1>6. IsFiniteSet(plan)  BY ONLY <1>2, <1>3, <1>5, ImageIsFinite
  <1>7. ASSUME NEW x \in wanted PROVE Reviewed(f[x])
    <2> DEFINE row == now[x]
    <2>1. x \in LineRecords  BY <1>1
    <2>2. NumRow(row)
      <3>1. row = RowOf(p, Live(p, x.id))  OBVIOUS
      <3> HIDE DEF row
      <3> QED  BY <3>1, LiveIsKnown, RowCounts
    <2>3. ~ Conflict(x, row) /\ Delta(x, row.stock) # 0  OBVIOUS
    <2>4. f[x].row = row /\ f[x].delta = Delta(x, row.stock) /\ f[x].line = x  BY <1>4
    <2>5. f[x].id \in Nat  BY <1>4
    <2> HIDE DEF row
    <2>6. x.seen.onHand = row.stock
      <3>1. Expected(row) = x.seen  BY <2>3, Zenon DEF Conflict
      <3> QED  BY <2>2, <3>1, ExpectedCounts
    <2>7. row.stock \in Int /\ row.reserved \in Int  BY <2>2 DEF NumRow
    <2>8. Delta(x, row.stock) \in Int  BY <2>1, <2>7, DeltaIs
    <2>9. row.stock + Delta(x, row.stock) >= row.reserved
      <3>1. ~ (row.stock + Delta(x, row.stock) < row.reserved)  BY <2>3, Zenon DEF Conflict
      <3> QED  BY <2>7, <2>8, <3>1
    <2> QED  BY <2>1, <2>2, <2>4, <2>5, <2>6, <2>8, <2>9 DEF Reviewed
  <1>8. \A s \in plan : Reviewed(s)  BY <1>2, <1>7
  <1>9. ASSUME NEW s \in plan, NEW t \in plan, s.line.id = t.line.id PROVE s = t
    <2>1. PICK x \in wanted : s = f[x]  BY <1>2
    <2>2. PICK y \in wanted : t = f[y]  BY <1>2
    <2>3. s.line = x /\ t.line = y  BY <1>4, <2>1, <2>2
    <2>4. x = y  BY <1>1, <1>9, <2>3
    <2> QED  BY <2>1, <2>2, <2>4
  <1> QED  BY <1>6, <1>8, <1>9 DEF PlanStands

LEMMA CheckKept ==
    ASSUME DeskInv, LabelInv, UnitsInv, NEW h \in Handlers, Concerns(h, StockKinds), CheckPlan(h)
    PROVE  UnitsInv'
  <1> DEFINE S == req[h].read.lines
             now == [x \in S |-> RowOf(product, Live(product, x.id))]
             wanted == {x \in S : x.action # "NO_CHANGE"}
             moving == {x \in wanted : Delta(x, now[x].stock) # 0}
             plan == {[id |-> Live(product, x.id), delta |-> Delta(x, now[x].stock), row |-> now[x],
                       line |-> x] : x \in moving}
  <1>0. RowsStand /\ UnitRows(product)  BY DEF LabelInv, UnitsInv, UnitsHold
  <1>1. At(h, "check") /\ UNCHANGED <<catalogue, warehouse>>  BY Zenon DEF CheckPlan
  <1>2. /\ Busy(h) /\ UnitsRead(req[h]) /\ Head(req[h].todo) = "check" /\ req[h].kind \notin OrderKinds
        BY <1>1, AtScanner DEF LabelInv, UnitsInv
  <1>3. LinesStand(S) /\ req[h].kind = "confirm"  BY <1>2 DEF UnitsRead
  <1>4. UnitsAside  BY <1>1, AllAside
  <1>5. \/ Stop(h)
        \/ /\ ~ \E x \in wanted : Conflict(x, now[x])
           /\ \E made : /\ GoOn(h, <<"apply">>, [plan |-> made])
                        /\ \A s \in made : \E x \in moving :
                              s = [id |-> Live(product, x.id), delta |-> Delta(x, now[x].stock),
                                   row |-> now[x], line |-> x]
    <2> DEFINE at(x) == RowOf(product, Live(product, x.id))
               some == {[id |-> Live(product, x.id), delta |-> Delta(x, at(x).stock), row |-> at(x),
                         line |-> x] : x \in {y \in wanted : Delta(y, at(y).stock) # 0}}
    <2>1. \A x \in wanted : now[x] = at(x)  OBVIOUS
    <2>2. \/ Stop(h)
          \/ (~ \E x \in wanted : Conflict(x, at(x))) /\ GoOn(h, <<"apply">>, [plan |-> some])
          BY Zenon DEF CheckPlan
    <2> HIDE DEF now
    <2>3. \A s \in some : \E x \in moving :
              s = [id |-> Live(product, x.id), delta |-> Delta(x, now[x].stock),
                   row |-> now[x], line |-> x]
          BY <2>1
    <2>4. (~ \E x \in wanted : Conflict(x, at(x))) => ~ \E x \in wanted : Conflict(x, now[x])
          BY <2>1
    <2> HIDE DEF some, moving, wanted, at
    <2> QED  BY <2>2, <2>3, <2>4
  <1>6. CASE Stop(h)  BY <1>2, <1>4, <1>6, StopTurn, UnitsStay
  <1>7. CASE /\ ~ \E x \in wanted : Conflict(x, now[x])
             /\ \E made : /\ GoOn(h, <<"apply">>, [plan |-> made])
                          /\ \A s \in made : \E x \in moving :
                                s = [id |-> Live(product, x.id), delta |-> Delta(x, now[x].stock),
                                     row |-> now[x], line |-> x]
    <2>1. PICK made : /\ GoOn(h, <<"apply">>, [plan |-> made])
                      /\ \A s \in made : \E x \in moving :
                            s = [id |-> Live(product, x.id), delta |-> Delta(x, now[x].stock),
                                 row |-> now[x], line |-> x]
          BY <1>7
    <2>2. PlanStands(made)
      <3>1. moving \subseteq S  OBVIOUS
      <3>2. \A x \in moving : ~ Conflict(x, now[x]) /\ Delta(x, now[x].stock) # 0  BY <1>7
      <3>3. \A x \in moving : Live(product, x.id) \in Nat  BY <1>0, LiveCounts
      <3>4. \A x \in S : now[x] = RowOf(product, Live(product, x.id))  OBVIOUS
      <3>5. \A s \in made : \E x \in moving :
               s = [id |-> Live(product, x.id), delta |-> Delta(x, now[x].stock),
                    row |-> now[x], line |-> x]
            BY <2>1
      <3> HIDE DEF now, moving, S
      <3> QED  BY <1>0, <1>3, <3>1, <3>2, <3>3, <3>4, <3>5, PlanIsSound
    <2> DEFINE todo == <<"apply">>
               read == [plan |-> made]
               r == [todo |-> todo, kind |-> req[h].kind, read |-> read]
    <2>3. /\ Head(todo) = "apply" /\ r.todo = todo /\ r.kind = req[h].kind
          /\ r.read.plan = made
          OBVIOUS
    <2>4. GoOn(h, todo, read)  BY <2>1
    <2> HIDE DEF todo, read, r
    <2>5. UnitsRead(r)  BY <1>2, <1>3, <2>2, <2>3 DEF UnitsRead, OrderSteps
    <2>6. Turn(h) /\ Follows(h)  BY <1>2, <2>4, <2>5, GoTurn DEF r
    <2> QED  BY <1>4, <2>6, UnitsStay
  <1> QED  BY <1>5, <1>6, <1>7

(* and what the units and the session become when the plan is applied        *)
LEMMA AppliedUnits ==
    ASSUME DeskInv, LabelInv, UnitsInv, NEW plan, PlanStands(plan),
           \A s \in plan : Live(product, s.id) = s.id /\ Adjustable(product, s.id, s.delta),
           product' = Altered(product, plan), ledger' = ledger + SumOfDeltas(plan),
           UNCHANGED <<order, strayed, written>>
    PROVE  UnitsHold'
  <1> DEFINE q == Altered(product, plan)
  <1>0. /\ RowsStand /\ UnitsHold /\ UnitRows(product) /\ ledger \in Int
        BY DEF LabelInv, UnitsInv, UnitsHold
  <1>1. StockRows(product) /\ OwnRows(product)  BY <1>0 DEF UnitRows, RowsStand, OwnRows
  <1>2. PlanFits(product, plan)
    <2>1. IsFiniteSet(plan) /\ \A s \in plan : s.delta \in Int  BY DEF PlanStands, Reviewed
    <2>2. \A s \in plan : Known(product, s.id) /\ (s.id # 0 <=> HasVariants(product))
          BY LiveIsKnown DEF Adjustable
    <2> QED  BY <2>1, <2>2 DEF PlanFits
  <1>3. PlanShift(product, q, plan)  BY <1>1, AlteredIs
  <1>4. SumOfDeltas(plan) \in Int  BY <1>2, DeltasAdd DEF PlanFits
  <1>5. product' = q  OBVIOUS
  <1> HIDE DEF q
  <1>6. /\ UnitRows(q) /\ (HasVariants(q) <=> HasVariants(product))
        /\ Len(q.variants) = Len(product.variants)
        /\ OnHand(q) = OnHand(product) + SumOfDeltas(plan) /\ Promises(q) = Promises(product)
        /\ q.stock = OnHand(q) /\ q.reserved = product.reserved
        /\ \A i \in Slots(product) : q.variants[i].reserved = product.variants[i].reserved
        BY <1>0, <1>1, <1>2, <1>3, PlanShifts
  <1>7. ASSUME ~ strayed' PROVE Promised(product', order')
    <2>1. Promised(product, order)  BY <1>0, <1>7 DEF UnitsHold
    <2>2. RowsMoved(product, q)  BY <1>3 DEF PlanShift
    <2>3. \A o \in Orders : Alike(order, order', o)  BY DEF Alike
    <2>4. Promised(q, order')  BY <1>0, <1>6, <2>1, <2>2, <2>3, PromisesStay
    <2> QED  BY <1>5, <2>4
  <1>8. ASSUME ~ written' PROVE Recorded(product', ledger')
    <2>1. Recorded(product, ledger)  BY <1>0, <1>8 DEF UnitsHold
    <2> DEFINE first == Opening * Most(1, Len(product.variants))
    <2>2. first \in Int  BY <1>1, SlotsAre, CatalogueAssumption DEF CatalogueAssumption, Most
    <2>3. OnHand(product) = ledger + first  BY <2>1 DEF Recorded
    <2>4. Opening * Most(1, Len(q.variants)) = first  BY <1>6
    <2> HIDE DEF first
    <2>5. OnHand(q) = ledger' + first  BY <1>0, <1>4, <1>6, <2>2, <2>3
    <2>6. Recorded(q, ledger')  BY <1>6, <2>4, <2>5 DEF Recorded
    <2> QED  BY <1>5, <2>6
  <1>9. ledger' \in Int  BY <1>0, <1>4
  <1> QED  BY <1>5, <1>6, <1>7, <1>8, <1>9 DEF UnitsHold

LEMMA AppliedSo ==
    ASSUME LabelInv, UnitsInv, NEW plan, PlanStands(plan),
           \A s \in plan : Live(product, s.id) = s.id /\ Adjustable(product, s.id, s.delta),
           \A s \in plan : s.id = s.line.id,
           NEW s \in plan, RowOf(product, s.id) = s.row
    PROVE  LET row == RowOf(Altered(product, plan), s.id)
           IN  /\ row.stock >= row.reserved
               /\ s.line.action = "SET" => row.stock = s.line.qty
               /\ s.line.action # "SET" => row.stock = s.line.seen.onHand + s.delta
  <1> DEFINE q == Altered(product, plan)
             row == RowOf(q, s.id)
  <1>0. UnitRows(product) /\ StockRows(product) /\ OwnRows(product)
        BY DEF LabelInv, UnitsInv, UnitsHold, UnitRows, RowsStand, OwnRows
  <1>1. PlanFits(product, plan)
    <2>1. IsFiniteSet(plan) /\ \A t \in plan : t.delta \in Int  BY DEF PlanStands, Reviewed
    <2>2. \A t \in plan : Known(product, t.id) /\ (t.id # 0 <=> HasVariants(product))
          BY LiveIsKnown DEF Adjustable
    <2> QED  BY <2>1, <2>2 DEF PlanFits
  <1>2. PlanShift(product, q, plan)  BY <1>0, AlteredIs
  <1>3. \A t \in plan : t.id = s.id => t = s  BY DEF PlanStands
  <1> HIDE DEF q
  <1>4. row.stock = s.row.stock + s.delta /\ row.reserved = s.row.reserved
        BY <1>0, <1>1, <1>2, <1>3, PlanRow
  <1>5. Reviewed(s)  BY DEF PlanStands
  <1>6. /\ s.row.stock + s.delta >= s.row.reserved /\ s.row.stock \in Int /\ s.line \in LineRecords
        /\ s.line.seen.onHand = s.row.stock /\ s.delta = Delta(s.line, s.row.stock)
        BY <1>5 DEF Reviewed, NumRow
  <1>7. s.line.action = "SET" => s.row.stock + s.delta = s.line.qty  BY <1>6, DeltaIs
  <1> HIDE DEF row
  <1>8. /\ row.stock >= row.reserved
        /\ s.line.action = "SET" => row.stock = s.line.qty
        /\ s.line.action # "SET" => row.stock = s.line.seen.onHand + s.delta
        BY <1>4, <1>6, <1>7
  <1> QED  BY <1>8 DEF row, q

LEMMA AppliedOnce ==
    ASSUME DeskInv, UnitsInv, NEW h \in Doing({"confirm"}), OthersStay(h), ~ Busy(h)',
           crossed' = crossed, session' = "CONFIRMED", applied' = applied + 1, lines' = lines
    PROVE  Session'
  <1>0. Session /\ LinesStand(lines') /\ applied \in Nat  BY DEF UnitsInv, Session
  <1>1. h \in Handlers  BY DEF Doing
  <1>2. /\ \A other : Apart("confirm", other) => Doing({other})' = {}
        /\ Apart("confirm", "confirm")' <=> Apart("confirm", "confirm")
        /\ Apart("confirm", "discard")' <=> Apart("confirm", "discard")
        BY <1>1, ClosedAlone, Zenon
  <1>3. Apart("confirm", "confirm") => applied = 0  BY <1>0 DEF Session
  <1>4. Apart("confirm", "confirm")' => applied' <= 1 /\ Doing({"confirm"})' = {}
        BY <1>0, <1>2, <1>3
  <1>5. Apart("confirm", "discard")' => Doing({"discard"})' = {}  BY <1>2
  <1>6. applied' \in Nat  BY <1>0
  <1> QED  BY <1>0, <1>4, <1>5, <1>6 DEF Session

LEMMA ApplyKept ==
    ASSUME DeskInv, LabelInv, UnitsInv, NEW h \in Handlers, Concerns(h, StockKinds), ApplyPlan(h)
    PROVE  UnitsInv'
  <1> DEFINE plan == req[h].read.plan
             can == \A s \in plan : Live(product, s.id) = s.id /\ Adjustable(product, s.id, s.delta)
             AsReviewed(s) ==
                LET row == RowOf(product', s.id)
                IN  /\ row.stock >= row.reserved
                    /\ s.line.action = "SET" => row.stock = s.line.qty
                    /\ s.line.action # "SET" => row.stock = s.line.seen.onHand + s.delta
             Off == /\ \A s \in plan : s.id = s.line.id
                    /\ \E s \in plan : RowOf(product, s.id) = s.row /\ ~ AsReviewed(s)
  <1>1. At(h, "apply") /\ Proceed(h) /\ UNCHANGED <<orderRows, labelRows, lastId, due, past, lines>>
        BY Zenon DEF ApplyPlan
  <1>2. /\ Busy(h) /\ UnitsRead(req[h]) /\ Head(req[h].todo) = "apply" /\ req[h].kind \notin OrderKinds
        /\ Turn(h) /\ Follows(h) /\ ~ Busy(h)' /\ crossed' = crossed /\ OthersStay(h)
        BY <1>1, AtScanner DEF LabelInv, UnitsInv
  <1>3. PlanStands(plan) /\ req[h].kind = "confirm"  BY <1>2 DEF UnitsRead
  <1>4. UNCHANGED <<order, held, lastId, strayed, written, lines>>  BY <1>1 DEF orderRows, past
  <1>5. CASE UNCHANGED <<product, ledger, session, applied, amiss>>
    <2>1. UnitsAside  BY <1>4, <1>5 DEF UnitsAside
    <2> QED  BY <1>2, <2>1, UnitsStay
  <1>6. CASE /\ can /\ product' = Altered(product, plan) /\ ledger' = ledger + SumOfDeltas(plan)
             /\ session' = "CONFIRMED" /\ applied' = applied + 1
             /\ amiss' = (amiss \/ Off)
    <2>1. UnitsHold'
      <3> HIDE DEF plan
      <3> QED  BY <1>3, <1>4, <1>6, AppliedUnits
    <2>2. ~ Off
      <3>1. ASSUME \A s \in plan : s.id = s.line.id, NEW s \in plan, RowOf(product, s.id) = s.row
            PROVE  AsReviewed(s)
        <4> HIDE DEF plan
        <4>1. LET row == RowOf(Altered(product, plan), s.id)
              IN  /\ row.stock >= row.reserved
                  /\ s.line.action = "SET" => row.stock = s.line.qty
                  /\ s.line.action # "SET" => row.stock = s.line.seen.onHand + s.delta
              BY <1>3, <1>6, <3>1, AppliedSo
        <4> QED  BY <1>6, <4>1
      <3> HIDE DEF AsReviewed, plan
      <3> QED  BY <3>1
    <2>3. ~ amiss'
      <3>1. ~ amiss  BY DEF UnitsInv
      <3> HIDE DEF Off
      <3> QED  BY <1>6, <2>2, <3>1
    <2>4. h \in Doing({"confirm"})  BY <1>2, <1>3 DEF Doing
    <2>5. Session'  BY <1>2, <1>4, <1>6, <2>4, AppliedOnce
    <2> QED  BY <1>2, <1>4, <2>1, <2>3, <2>5, ScannerMoves
  <1> QED  BY <1>5, <1>6, Zenon DEF ApplyPlan

(* The units at the start                                                    *)
LEMMA FirstStock ==
    ASSUME NEW n \in 1 .. 2, NEW c \in Int, NEW f, \A i \in 1 .. n : f[i] = c
    PROVE  SumFunctionOnSet(f, 1 .. n) = c * n
  <1>1. CASE n = 1
    <2>1. 1 .. n = {1} /\ f[1] = c  BY <1>1
    <2>2. SumFunctionOnSet(f, {1}) = f[1]  BY <2>1, SumSingle
    <2> QED  BY <1>1, <2>1, <2>2
  <1>2. CASE n = 2
    <2>1. 1 .. n = {1} \cup {2} /\ f[1] = c /\ f[2] = c  BY <1>2
    <2>2. SumFunctionOnSet(f, {1}) = f[1]  BY <2>1, SumSingle
    <2>3. IsFiniteSet({1})  BY FS_Singleton
    <2>5. 2 \notin {1} /\ \A y \in {1} \cup {2} : f[y] \in Int  BY <2>1
    <2>4. SumFunctionOnSet(f, {1} \cup {2}) = f[2] + SumFunctionOnSet(f, {1})  BY <2>3, <2>5, SumAdd
    <2> QED  BY <1>2, <2>1, <2>2, <2>4
  <1> QED  BY <1>1, <1>2

LEMMA FirstMatrix ==
    ASSUME CatalogueInit, product # SimpleProduct
    PROVE  \E skus \in {<<"S", "M">>, <<"S">>} :
              /\ product.variants = Matrix(skus, [i \in DOMAIN skus |-> Opening], 0)
              /\ product.stock = Opening * Len(skus) /\ product.reserved = 0 /\ product.version = 0
              /\ ProductShape(product)
  <1> DEFINE p(skus) == MatrixProduct(skus)
             q(skus) == [p(skus) EXCEPT !.pipeline = TRUE]
             rows(skus) == Matrix(skus, [i \in DOMAIN skus |-> Opening], 0)
  <1>1. ASSUME NEW skus
        PROVE  /\ ProductShape(p(skus)) /\ p(skus).variants = rows(skus)
               /\ p(skus).stock = Opening * Len(skus) /\ p(skus).reserved = 0 /\ p(skus).version = 0
    <2> DEFINE n == Opening * Len(skus)
    <2>1. p(skus) = [SimpleProduct EXCEPT !.stock = n, !.variants = rows(skus)]
          BY DEF MatrixProduct
    <2> HIDE DEF p, n, rows
    <2>2. /\ ProductShape(p(skus)) /\ p(skus).variants = rows(skus)
          /\ p(skus).stock = n /\ p(skus).reserved = 0 /\ p(skus).version = 0
          BY <2>1 DEF SimpleProduct, ProductShape
    <2> QED  BY <2>2 DEF n
  <1>2. ASSUME NEW skus
        PROVE  /\ ProductShape(q(skus)) /\ q(skus).variants = rows(skus)
               /\ q(skus).stock = p(skus).stock /\ q(skus).reserved = 0 /\ q(skus).version = 0
    <2> HIDE DEF p, rows
    <2>1. ProductShape(q(skus)) /\ q(skus).variants = rows(skus)  BY <1>1, PipelinePut
    <2>2. DOMAIN p(skus) = {"pipeline", "stock", "reserved", "version", "active", "variants"}
          BY <1>1 DEF ProductShape
    <2> QED  BY <1>1, <2>1, <2>2
  <1>3. \E skus \in {<<"S", "M">>, <<"S">>} : product = p(skus) \/ product = q(skus)
        BY Zenon DEF CatalogueInit
  <1>4. PICK skus \in {<<"S", "M">>, <<"S">>} : product = p(skus) \/ product = q(skus)  BY <1>3
  <1> HIDE DEF p, q, rows
  <1>5. /\ product.variants = rows(skus) /\ product.stock = Opening * Len(skus)
        /\ product.reserved = 0 /\ product.version = 0 /\ ProductShape(product)
        BY <1>1, <1>2, <1>4
  <1> QED  BY <1>5 DEF rows

LEMMA UnitsBegin ==
    ASSUME Init, LabelInv
    PROVE  UnitsInv
  <1>1. /\ CatalogueInit /\ lastId = 2 /\ held = 0 /\ ledger = 0
        /\ order = [o \in Orders |-> NoOrder] /\ ~ strayed
        /\ session = "DRAFT" /\ lines = {} /\ applied = 0 /\ amiss = FALSE
        BY DEF Init, CatalogueInit, WarehouseInit
  <1>2. \A h \in Handlers : ~ Busy(h)  BY DEF Init, DeskInit, Idle, Busy
  <1>3. StockReads /\ MadeOnce  BY <1>2 DEF StockReads, MadeOnce, Doing
  <1>4. \A o \in Orders : order[o] = NoOrder  BY <1>1
  <1>5. /\ NoOrder \in OrderRecords /\ NoOrder.pay = "none" /\ NoOrder.variant = 0
        /\ NoOrder.credit = 0
        BY DEF NoOrder, OrderRecords
  <1>6. OrdersStand
    <2> DEFINE f == [o \in Orders |-> order[o].credit]
    <2>1. IsFiniteSet(Orders) /\ \A o \in Orders : f[o] = 0
          BY <1>4, <1>5, CatalogueAssumption DEF CatalogueAssumption
    <2> HIDE DEF f
    <2>2. SumFunctionOnSet(f, Orders) = 0  BY <2>1, SumZero
    <2>3. held = SumFunctionOnSet([o \in Orders |-> order[o].credit], Orders)  BY <1>1, <2>2 DEF f
    <2>4. order \in [Orders -> OrderRecords]  BY <1>1, <1>5
    <2> HIDE DEF NoOrder
    <2>5. \A o \in Orders : order[o].variant <= lastId /\ (order[o].pay = "none" => order[o] = NoOrder)
          BY <1>1, <1>4, <1>5
    <2> QED  BY <2>3, <2>4, <2>5 DEF OrdersStand
  <1>7. Session
    <2>1. IsFiniteSet({})  BY FS_EmptySet
    <2>2. LinesStand(lines)  BY <1>1, <2>1 DEF LinesStand
    <2> QED  BY <1>1, <2>2 DEF Session
  <1>8. HoldersIn(order) = {} /\ \A id : HoldersOf(order, id) = {}
        BY <1>4, <1>5 DEF HoldersIn, HoldersOf, HoldsIn
  <1>9. Cardinality({}) = 0  BY FS_EmptySet
  <1>10. RowsStand /\ StockRows(product) /\ Opening \in Nat
         BY TheRows, CatalogueAssumption DEF LabelInv, CatalogueAssumption
  <1>11. ASSUME UnitRows(product), product.reserved = 0,
                \A i \in Slots(product) : product.variants[i].reserved = 0,
                OnHand(product) = Opening * Most(1, Len(product.variants)),
                product.stock = OnHand(product)
         PROVE  UnitsHold
    <2>1. Promises(product) = 0
      <3>1. IsFiniteSet(Slots(product)) /\ \A i \in Slots(product) : UnitsOf(product)[i] = 0
            BY <1>10, <1>11, SlotsAre DEF UnitsOf
      <3>2. SumOver(product, Reserved) = 0  BY <3>1, SumZero, SumsAre
      <3> QED  BY <1>11, <3>2 DEF Promises
    <2>2. Promised(product, order)
      <3>1. Cardinality(HoldersIn(order)) = 0 /\ \A id : Cardinality(HoldersOf(order, id)) = 0
            BY <1>8, <1>9
      <3>2. \A i \in Slots(product) :
               product.variants[i].reserved >= Cardinality(HoldersOf(order, product.variants[i].id))
            BY <1>11, <3>1
      <3>3. ~ \E o \in HoldersIn(order) : Live(product, order[o].variant) = 0  BY <1>8
      <3> QED  BY <1>11, <2>1, <3>1, <3>2, <3>3 DEF Promised
    <2>3. OnHand(product) \in Int  BY <1>11, SumsCount
    <2>4. Recorded(product, 0)  BY <1>11, <2>3 DEF Recorded
    <2> QED  BY <1>1, <1>11, <2>2, <2>4 DEF UnitsHold
  <1>12. UnitsHold
    <2>1. CASE product = SimpleProduct
      <3>1. /\ product.stock = Opening /\ product.reserved = 0 /\ product.version = 0
            /\ product.variants = <<>>
            BY <2>1 DEF SimpleProduct
      <3>2. Slots(product) = {} /\ ~ HasVariants(product) /\ Len(product.variants) = 0
            BY <3>1 DEF Slots, HasVariants
      <3>3. UnitRows(product)  BY <1>10, <3>1, <3>2 DEF UnitRows, NumRow
      <3>4. OnHand(product) = Opening /\ Opening * Most(1, Len(product.variants)) = Opening
            BY <1>10, <3>1, <3>2 DEF OnHand, Most
      <3> QED  BY <1>11, <3>1, <3>2, <3>3, <3>4
    <2>2. CASE product # SimpleProduct
      <3>1. PICK skus \in {<<"S", "M">>, <<"S">>} :
               /\ product.variants = Matrix(skus, [i \in DOMAIN skus |-> Opening], 0)
               /\ product.stock = Opening * Len(skus) /\ product.reserved = 0 /\ product.version = 0
               /\ ProductShape(product)
            BY <1>1, <2>2, FirstMatrix, Zenon
      <3> DEFINE n == Len(skus)
                 units == [i \in DOMAIN skus |-> Opening]
                 rows == Matrix(skus, units, 0)
      <3>2. n \in 1 .. 2 /\ skus \in Seq(Range(skus))  BY FirstSizes
      <3>3. DOMAIN skus = 1 .. n  BY <3>2
      <3>4. rows = [i \in 1 .. n |-> [id |-> 0 + i, sku |-> skus[i], stock |-> Opening,
                                      reserved |-> 0, version |-> 0]]
            BY <3>3 DEF Matrix
      <3>5. product.variants = rows /\ product.stock = Opening * n  BY <3>1
      <3> HIDE DEF rows, n
      <3>6. Slots(product) = 1 .. n  BY <3>4, <3>5 DEF Slots
      <3>7. \A i \in Slots(product) : /\ product.variants[i].stock = Opening
                                      /\ product.variants[i].reserved = 0
                                      /\ product.variants[i].version = 0
            BY <3>4, <3>5, <3>6
      <3>8. UnitRows(product)
        <4>1. NumRow(product)  BY <1>10, <3>1, <3>2, <3>5 DEF NumRow
        <4>2. \A i \in Slots(product) : NumRow(product.variants[i])  BY <1>10, <3>7 DEF NumRow
        <4> QED  BY <1>10, <4>1, <4>2 DEF UnitRows
      <3>9. OnHand(product) = Opening * n
        <4>1. \A i \in 1 .. n : StocksOf(product)[i] = Opening  BY <3>6, <3>7 DEF StocksOf
        <4>2. SumFunctionOnSet(StocksOf(product), 1 .. n) = Opening * n
          <5> DEFINE f == StocksOf(product)
          <5>1. n \in 1 .. 2 /\ Opening \in Int /\ \A i \in 1 .. n : f[i] = Opening
                BY <1>10, <3>2, <4>1
          <5> HIDE DEF f
          <5>2. SumFunctionOnSet(f, 1 .. n) = Opening * n  BY ONLY <5>1, FirstStock
          <5> QED  BY <5>2 DEF f
        <4>3. HasVariants(product)
          <5>1. 1 \in 1 .. n  BY <3>2
          <5> QED  BY <1>10, <3>6, <5>1, SlotsAre
        <4> QED  BY <3>6, <4>2, <4>3, SumsAre DEF OnHand
      <3>10. Most(1, Len(product.variants)) = n
        <4>1. 1 .. Len(product.variants) = 1 .. n /\ Len(product.variants) \in Nat
              BY <1>10, <3>6, SlotsAre
        <4>2. Len(product.variants) = n  BY <3>2, <4>1
        <4> QED  BY <3>2, <4>2 DEF Most
      <3> QED  BY <1>11, <3>1, <3>5, <3>7, <3>8, <3>9, <3>10
    <2> QED  BY <2>1, <2>2
  <1> QED  BY <1>1, <1>3, <1>6, <1>7, <1>12 DEF UnitsInv

-----------------------------------------------------------------------------
(* Every step keeps the units.                                               *)
LEMMA CatalogueUnits ==
    ASSUME DeskInv, LabelInv, LabelInv', UnitsInv, NEW h \in Handlers, Concerns(h, StockKinds),
           CatalogueStep(h), UNCHANGED warehouse
    PROVE  UnitsInv'
  <1>0. StockRead  BY DEF LabelInv
  <1>1. CASE PlaceOrder(h)  BY <1>1, Placed
  <1>2. CASE Supersede(h) \/ Expire(h) \/ PaymentArrives(h)  BY <1>2, OrderBegun
  <1>3. CASE GetRates(h) \/ ReleaseStep(h)  BY <1>3, RatesKept
  <1>4. CASE HoldCredit(h)  BY <1>4, CreditKept
  <1>5. CASE FailStep(h)  BY <1>5, FailKept
  <1>6. CASE Fulfil(h)  BY <1>6, FulfilKept
  <1>7. CASE \/ OpenForm(h) \/ ReadProduct(h) \/ EnsureLabels(h) \/ TellShoppers(h)
             \/ StartMigration(h)
        BY <1>0, <1>7, FormStays, Zenon
  <1>8. CASE Save(h)  BY <1>8, SaveUnits
  <1>9. CASE Migrate(h)  BY <1>9, MigrateUnits
  <1>10. CASE FindLabel(h, "mark") \/ FindLabel(h, "regenerate") \/ MarkSent(h) \/ Regenerate(h)
         BY <1>0, <1>10, LabelStays, Zenon
  <1> QED  BY <1>1, <1>2, <1>3, <1>4, <1>5, <1>6, <1>7, <1>8, <1>9, <1>10, Zenon DEF CatalogueStep

LEMMA WarehouseUnits ==
    ASSUME DeskInv, LabelInv, UnitsInv, NEW h \in Handlers, Concerns(h, StockKinds), WarehouseStep(h)
    PROVE  UnitsInv'
  <1>1. CASE ScanToAdjust(h) \/ Adjust(h)  BY <1>1, AdjustKept
  <1>2. CASE ScanLine(h) \/ PlanLine(h) \/ RemoveLine(h)  BY <1>2, LinesBegun
  <1>3. CASE UpsertLine(h) \/ WriteLine(h)  BY <1>3, LinesKept
  <1>4. CASE OpenToClose(h, "discard", "discard") \/ OpenToClose(h, "confirm", "check")
        BY <1>4, ClosingBegins
  <1>5. CASE Discard(h)  BY <1>5, DiscardKept
  <1>6. CASE CheckPlan(h)  BY <1>6, CheckKept
  <1>7. CASE ApplyPlan(h)  BY <1>7, ApplyKept
  <1> QED  BY <1>1, <1>2, <1>3, <1>4, <1>5, <1>6, <1>7, Zenon DEF WarehouseStep

LEMMA UnitsBeside ==
    ASSUME UnitsInv, StoodBy(StockKinds), UNCHANGED stock
    PROVE  UnitsInv'
  <1>1. UnitsAside  BY AllAside DEF stock
  <1>2. /\ StockReads /\ MadeOnce /\ Session /\ OrdersStand /\ UnitsHold /\ ~ amiss
        /\ LinesStand(lines)
        BY DEF UnitsInv, Session
  <1>3. ClosingKinds \subseteq StockKinds
        BY DEF ClosingKinds, OrderKinds, StockKinds, ProductKinds, ScannerKinds
  <1>4. \A kinds \in SUBSET ClosingKinds : \A g \in Doing(kinds)' : g \in Doing(kinds) /\ req'[g] = req[g]
        BY <1>3 DEF StoodBy, Doing, Busy
  <1>5. \A a, b : Apart(a, b)' => Apart(a, b)  BY DEF StoodBy, Apart
  <1>6. StockReads'  BY <1>2 DEF StockReads, StoodBy, Busy
  <1>7. MadeOnce'
    <2>1. OrderKinds \in SUBSET ClosingKinds /\ {"order"} \in SUBSET ClosingKinds
          BY DEF ClosingKinds, OrderKinds
    <2>2. \A g \in Doing(OrderKinds)' : g \in Doing(OrderKinds) /\ req'[g] = req[g]  BY <1>4, <2>1
    <2>3. \A g \in Doing({"order"})' : g \in Doing({"order"}) /\ req'[g] = req[g]  BY <1>4, <2>1
    <2>4. order' = order  BY <1>1 DEF UnitsAside
    <2> QED  BY <1>2, <2>2, <2>3, <2>4 DEF MadeOnce
  <1>8. Session'
    <2>1. {"confirm"} \in SUBSET ClosingKinds /\ {"discard"} \in SUBSET ClosingKinds
          BY DEF ClosingKinds
    <2>2. Doing({"confirm"})' \subseteq Doing({"confirm"}) /\ Doing({"discard"})' \subseteq Doing({"discard"})
          BY <1>4, <2>1
    <2>3. UNCHANGED <<session, applied, lines>>  BY <1>1 DEF UnitsAside
    <2>4. LinesStand(lines')  BY <1>2, <2>3
    <2> QED  BY <1>2, <1>5, <2>2, <2>3, <2>4 DEF Session
  <1>9. OrdersStand' /\ UnitsHold' /\ ~ amiss'  BY <1>1, <1>2, OrdersAside, HoldAside DEF UnitsAside
  <1> QED  BY <1>6, <1>7, <1>8, <1>9 DEF UnitsInv

LEMMA UnitsKept ==
    ASSUME DeskInv, LabelInv, LabelInv', UnitsInv, NEW h \in Handlers, Step(h)
    PROVE  UnitsInv'
  <1>1. CASE StockStep(h)
    <2>1. \A kinds : kinds \subseteq StockKinds /\ Concerns(h, kinds) => Concerns(h, StockKinds)
          BY DEF Concerns
    <2>2. Concerns(h, StockKinds)  BY <1>1, <2>1 DEF StockStep, StockKinds
    <2>3. \/ CatalogueStep(h) /\ UNCHANGED warehouse
          \/ WarehouseStep(h)
          \/ AlertsStep(h)
      <3>1. UNCHANGED <<warehouse, alerts>> => UNCHANGED warehouse  OBVIOUS
      <3> QED  BY <1>1, <3>1, Zenon DEF StockStep
    <2>4. StockRead  BY DEF LabelInv
    <2> QED  BY <2>2, <2>3, <2>4, CatalogueUnits, WarehouseUnits, AlertsStay
  <1>2. CASE StoodBy(StockKinds) /\ UNCHANGED stock  BY <1>2, UnitsBeside
  <1>3. CASE Crash(h) /\ UNCHANGED stock
    <2>1. UnitsAside  BY <1>3, AllAside DEF stock
    <2> QED  BY <1>3, <2>1, CrashTurn, UnitsStay
  <1> QED  BY <1>1, <1>2, <1>3, StockOrNot

LEMMA UnitsShow ==
    ASSUME UnitsInv
    PROVE  StockAddsUp
  <1>1. /\ ~ strayed => Promised(product, order)
        /\ ~ written => Recorded(product, ledger)
        BY DEF UnitsInv, UnitsHold
  <1>2. HeldUnits = Cardinality(HoldersIn(order))
    <2>1. {o \in Orders : Holds(o)} = HoldersIn(order)  BY DEF Holds, HoldersIn, HoldsIn
    <2> QED  BY <2>1 DEF HeldUnits
  <1>3. \A id : {o \in Orders : Holds(o) /\ order[o].variant = id} = HoldersOf(order, id)
        BY DEF Holds, HoldersOf, HoldersIn, HoldsIn
  <1>4. held = SumFunctionOnSet([o \in Orders |-> order[o].credit], Orders)
        BY DEF UnitsInv, OrdersStand
  <1>5. ASSUME ~ strayed
        PROVE  /\ (IF HasVariants(product) THEN SumOver(product, Reserved) ELSE product.reserved)
                     = HeldUnits
               /\ \A i \in Slots(product) :
                     product.variants[i].reserved >=
                       Cardinality({o \in Orders : Holds(o) /\ order[o].variant = product.variants[i].id})
        BY <1>1, <1>2, <1>3, <1>5 DEF Promised, Promises
  <1>6. PromisesKept  BY <1>1, <1>4, <1>5 DEF PromisesKept, Recorded
  <1>7. AppliedAsReviewed  BY DEF UnitsInv, Session, AppliedAsReviewed
  <1> QED  BY <1>6, <1>7 DEF StockAddsUp

(* However the requests of shoppers, payments, sweeps, the form, migrations    *)
(* and scanners interleave and stop midway, the units reserved are those of    *)
(* the orders that hold theirs, size by size, and the credit on hold is       *)
(* theirs, unless a reservation was lost or used twice (releasePendingOrder-   *)
(* Resources and createPendingOrderForStripe of order.service.js, inventory-   *)
(* reservation.js); what is on hand is what the ledger says, unless an edit    *)
(* wrote stock (product.service.js); and a session of the scanner is applied    *)
(* once, as it was reviewed (confirmDraft of inventory-scan-draft.service.js). *)
THEOREM StockStaysRight == Spec => []StockAddsUp
  <1>1. Init => DeskInv /\ LabelInv /\ UnitsInv  BY DeskBegins, LabelsBegin, UnitsBegin DEF Init
  <1>2. DeskInv /\ LabelInv /\ UnitsInv /\ [Next]_<<desk, everything>>
            => DeskInv' /\ LabelInv' /\ UnitsInv'
    <2>1. ASSUME DeskInv, LabelInv, UnitsInv, NEW h \in Handlers, Step(h)
          PROVE  LabelInv' /\ UnitsInv'
          BY <2>1, LabelsKept, UnitsKept
    <2>2. ASSUME DeskInv, LabelInv, UnitsInv, UNCHANGED <<desk, everything>>
          PROVE  LabelInv' /\ UnitsInv'
      <3>1. UNCHANGED desk /\ UNCHANGED stock  BY <2>2, Zenon DEF everything
      <3> QED  BY <2>2, <3>1, DeskStutters, LabelsBeside, UnitsBeside
    <2> QED  BY <2>1, <2>2, DeskIsKept, Zenon DEF Next
  <1>3. UnitsInv => StockAddsUp  BY UnitsShow
  <1> QED  BY <1>1, <1>2, <1>3, PTL DEF Spec


-----------------------------------------------------------------------------
(* Settlement: what its rows are,                                            *)
LotStatuses == Undecided \cup {"APPROVED", "REJECTED"}
LotRow ==
    [status : LotStatuses, received : Nat, accepted : Nat \cup {Null}, rejected : Nat,
     disp : {"none", "RESTOCK", "DISCARD"}, evidence : BOOLEAN, refund : Nat, shelved : BOOLEAN]
SoundRow(row) == row \in LotRow /\ (row.status = "APPROVED" => row.accepted # Null)
SettlementType ==
    /\ lot \in [Lots -> LotRow] /\ \A l \in Lots : SoundRow(lot[l])
    /\ money \in [Lots -> Nat] /\ returned \in [Lots -> Nat]

(* what its requests have read,                                              *)
Settling(h) == Busy(h) /\ req[h].kind \in SettlementKinds
DecisionRead(read) ==
    /\ read.line \in Lots /\ read.status \in LotStatuses /\ read.complete \in BOOLEAN
    /\ read.data \in [accepted : Nat, rejected : Nat, disp : {"RESTOCK", "DISCARD"}, evidence : BOOLEAN]
SettleRead(h) ==
    LET read == req[h].read
    IN  \/ req[h].kind = "inspect" /\ req[h].todo = <<"decide">> /\ DecisionRead(read)
        \/ /\ req[h].kind = "settle" /\ Stage(h) # "decide"
           /\ DOMAIN read.seen \subseteq Lots /\ \A l \in DOMAIN read.seen : SoundRow(read.seen[l])
           /\ Stage(h) # "take" => /\ {"seen", "line", "row"} \subseteq DOMAIN read
                                   /\ read.line \in DOMAIN read.seen /\ SoundRow(read.row)
           /\ Stage(h) = "approve" => read.row.accepted # Null
           /\ Stage(h) = "approved" => DecisionRead(read) /\ read.complete
SettlementRead == \A h \in Handlers : Settling(h) => SettleRead(h)

(* that Stripe has refunded what is recorded, or about to be shelved,        *)
MoneyFirst(h) ==
    LET read == req[h].read
    IN  req[h].kind = "settle" =>
            /\ \A l \in DOMAIN read.seen : read.seen[l].refund > 0 => money[l] > 0
            /\ Stage(h) # "take" /\ read.row.refund > 0 => money[read.line] > 0
            /\ Stage(h) \in {"record", "look", "shelve"} => money[read.line] > 0
SettlementPaid ==
    /\ \A l \in Lots : lot[l].refund > 0 \/ returned[l] > 0 => money[l] > 0
    /\ \A h \in Handlers : Settling(h) => MoneyFirst(h)

(* and that a batch alone at its lines knows them as they are.               *)
Alone == Apart("settle", "settle") /\ Apart("settle", "inspect")
LineInOrder(l) ==
    /\ returned[l] > 0 => lot[l].refund > 0
    /\ lot[l].refund > 0 => lot[l].accepted = lot[l].refund /\ money[l] = lot[l].refund
    /\ lot[l].shelved <=> returned[l] > 0
    /\ returned[l] > 0 => returned[l] = lot[l].refund /\ lot[l].disp = "RESTOCK"
    /\ l \in settled => lot[l].refund > 0 /\ lot[l].shelved
Agrees(row, l) ==
    /\ row.refund = lot[l].refund /\ row.accepted = lot[l].accepted /\ row.shelved = lot[l].shelved
LineKnown(stage, row, l) ==
    /\ stage = "pay" /\ row.refund > 0 => Agrees(row, l)
    /\ stage = "approved" => lot[l].refund = 0
    /\ stage = "record" => lot[l].refund = 0 /\ lot[l].accepted = money[l] /\ row.refund = money[l]
    /\ stage = "look" => lot[l].refund > 0
    /\ stage = "shelve" => lot[l].refund > 0 /\ Agrees(row, l)
KnowsLines(h) ==
    LET read == req[h].read
    IN  /\ req[h].kind = "inspect" => lot[read.line].refund = 0
        /\ req[h].kind = "settle" =>
              /\ \A k \in DOMAIN read.seen :
                    (Stage(h) = "take" \/ k # read.line) /\ read.seen[k].refund > 0 => Agrees(read.seen[k], k)
              /\ Stage(h) # "take" => LineKnown(Stage(h), read.row, read.line)
SettlementKnown ==
    Alone => /\ \A l \in Lots : LineInOrder(l)
             /\ \A h \in Handlers : Settling(h) => KnowsLines(h)

SettlementInv == SettlementType /\ SettlementRead /\ SettlementPaid /\ SettlementKnown

(* What the settlement sees of a step                                        *)
LEMMA SettlementOrNot ==
    ASSUME DeskInv, NEW h \in Handlers, Step(h)
    PROVE  \/ Concerns(h, SettlementKinds) /\ SettlementStep(h)
           \/ StoodBy(SettlementKinds) /\ UNCHANGED settling
           \/ Crash(h) /\ UNCHANGED settling
  <1> DEFINE others == StockKinds \cup RefurbishKinds \cup ContentKinds \cup QueueKinds
                       \cup ParcelKinds \cup MoneyKinds
  <1>1. SettlementKinds \cap others = {}
        BY DEF RefurbishKinds, StockKinds, ContentKinds, MoneyKinds, ProductKinds,
               ScannerKinds, ShopperKinds, ReviewKinds, ArticleKinds, CategoryKinds, HomePageKinds,
               PhoneKinds, QueueKinds, ParcelKinds, SettlementKinds, TransferKinds, WalletKinds,
               QuoteKinds
  <1>2. ASSUME DeskStep(h, others) PROVE StoodBy(SettlementKinds)  BY <1>1, <1>2, Beside
  <1>3. CASE StockStep(h) /\ UNCHANGED returnsdesk
    <2>1. DeskStep(h, others)  BY <1>3, StockDesk, OfMore
    <2> QED  BY <1>2, <1>3, <2>1 DEF returnsdesk
  <1>4. CASE Concerns(h, RefurbishKinds) /\ RefurbishStep(h) /\ UNCHANGED returnsdesk
    <2>1. DeskStep(h, others)  BY <1>4, RefurbishDesk, OfMore
    <2> QED  BY <1>2, <1>4, <2>1 DEF returnsdesk
  <1>5. CASE ContentStep(h) /\ UNCHANGED returnsdesk
    <2>1. DeskStep(h, others)  BY <1>5, ContentDesk, OfMore
    <2> QED  BY <1>2, <1>5, <2>1 DEF returnsdesk
  <1>6. CASE MoneyStep(h) /\ UNCHANGED returnsdesk
    <2>1. DeskStep(h, others)  BY <1>6, MoneyDesk, OfMore
    <2> QED  BY <1>2, <1>6, <2>1 DEF returnsdesk
  <1>7. CASE ReturnsStep(h)
    <2>1. CASE Concerns(h, QueueKinds) /\ TriageStep(h) /\ UNCHANGED settling
      <3>1. DeskStep(h, others)  BY <2>1, TriageDesk, OfMore
      <3> QED  BY <1>2, <2>1, <3>1
    <2>2. CASE Concerns(h, ParcelKinds) /\ ParcelsStep(h) /\ UNCHANGED settling
      <3>1. DeskStep(h, others)  BY <2>2, ParcelsDesk, OfMore
      <3> QED  BY <1>2, <2>2, <3>1
    <2> QED  BY <1>7, <2>1, <2>2, Zenon DEF ReturnsStep
  <1>8. CASE Crash(h) /\ UNCHANGED everything  BY <1>8, Zenon DEF everything, returnsdesk
  <1> QED  BY <1>3, <1>4, <1>5, <1>6, <1>7, <1>8, Zenon DEF Step

-----------------------------------------------------------------------------
(* A line is taken by one batch, and by no inspection beside it, or Alone is  *)
(* false.                                                                    *)
LEMMA SettleAlone ==
    ASSUME DeskInv, SettlementRead, Alone, NEW h \in Handlers, Settling(h), req[h].kind = "settle",
           NEW g \in Handlers, Settling(g)
    PROVE  g = h
  <1>1. req[g].kind \in {"settle", "inspect"}  BY DEF SettlementRead, SettleRead
  <1>2. g # h => {req[h].kind, req[g].kind} \in crossed  BY DEF DeskInv, Settling
  <1> QED  BY <1>1, <1>2 DEF Alone, Apart

LEMMA SettlingStays ==
    ASSUME NEW h \in Handlers, OthersStay(h), NEW g \in Handlers, g # h
    PROVE  req'[g] = req[g] /\ (Settling(g)' <=> Settling(g)) /\ Stage(g)' = Stage(g)
           /\ (SettleRead(g)' <=> SettleRead(g))
  <1>1. req'[g] = req[g]  BY DEF OthersStay
  <1>2. (Settling(g)' <=> Settling(g)) /\ Stage(g)' = Stage(g)  BY <1>1 DEF Settling, Busy, Stage
  <1>3. SettleRead(g)' <=> SettleRead(g)  BY <1>1 DEF SettleRead, Stage
  <1> QED  BY <1>1, <1>2, <1>3

(* What a step owes to the lines and to the requests on them.                *)
LEMMA SettlementGoes ==
    ASSUME SettlementInv, NEW h \in Handlers, OthersStay(h), crossed \subseteq crossed',
           SettlementType', \A l \in Lots : money[l] > 0 => money'[l] > 0,
           \A l \in Lots : lot'[l].refund > 0 \/ returned'[l] > 0 => money'[l] > 0,
           Settling(h)' => SettleRead(h)' /\ MoneyFirst(h)',
           Alone' => \A l \in Lots : LineInOrder(l)',
           Alone' /\ Settling(h)' => KnowsLines(h)',
           \A g \in Handlers \ {h} : Alone /\ Alone' /\ Settling(g) /\ KnowsLines(g) => KnowsLines(g)'
    PROVE  SettlementInv'
  <1>1. Alone' => Alone  BY DEF Alone, Apart
  <1>2. SettlementRead'  BY SettlingStays DEF SettlementInv, SettlementRead
  <1>3. ASSUME NEW g \in Handlers, g # h, Settling(g)' PROVE MoneyFirst(g)'
    <2>1. req'[g] = req[g] /\ Settling(g) /\ Stage(g)' = Stage(g)  BY <1>3, SettlingStays
    <2>2. MoneyFirst(g) /\ SettleRead(g)  BY <2>1 DEF SettlementInv, SettlementPaid, SettlementRead
    <2> QED  BY <2>1, <2>2 DEF MoneyFirst, SettleRead
  <1>4. SettlementPaid'  BY <1>3 DEF SettlementPaid
  <1>5. ASSUME Alone', NEW g \in Handlers, g # h, Settling(g)' PROVE KnowsLines(g)'
    <2>1. Settling(g)  BY <1>5, SettlingStays
    <2>2. KnowsLines(g)  BY <1>1, <1>5, <2>1 DEF SettlementInv, SettlementKnown
    <2> QED  BY <1>1, <1>5, <2>1, <2>2
  <1>6. SettlementKnown'  BY <1>5 DEF SettlementKnown
  <1> QED  BY <1>2, <1>4, <1>6 DEF SettlementInv

(* The lines stay as they are, or those that are known of.                   *)
SameLines == \A l \in Lots : /\ lot'[l].refund = lot[l].refund /\ lot'[l].accepted = lot[l].accepted
                             /\ lot'[l].shelved = lot[l].shelved /\ money'[l] = money[l]
LEMMA KnowsOn ==
    ASSUME SettlementRead, NEW h \in Handlers, OthersStay(h), NEW g \in Handlers \ {h}, SameLines,
           Settling(g), KnowsLines(g)
    PROVE  KnowsLines(g)'
  <1>1. req'[g] = req[g] /\ Stage(g)' = Stage(g) /\ SettleRead(g)
        BY SettlingStays DEF SettlementRead
  <1>2. req[g].read.line \in Lots \/ (req[g].kind = "settle" /\ Stage(g) = "take")
        BY <1>1 DEF SettleRead, DecisionRead
  <1>3. \A l \in DOMAIN req[g].read.seen : req[g].kind = "settle" => l \in Lots
        BY <1>1 DEF SettleRead, DecisionRead
  <1> QED  BY <1>1, <1>2, <1>3 DEF KnowsLines, LineKnown, SameLines, Agrees

-----------------------------------------------------------------------------
(* Where nothing is settled, or what settles has stopped                     *)
LEMMA SettlementLeft ==
    ASSUME SettlementInv, UNCHANGED settling, crossed \subseteq crossed',
           \A g \in Handlers : Settling(g)' => Settling(g) /\ req'[g] = req[g]
    PROVE  SettlementInv'
  <1>1. lot' = lot /\ money' = money /\ returned' = returned /\ settled' = settled  BY DEF settling
  <1>2. SettlementType'  BY <1>1 DEF SettlementInv, SettlementType
  <1>3. SettlementRead'  BY DEF SettlementInv, SettlementRead, SettleRead, Stage
  <1>4. SettlementPaid'  BY <1>1 DEF SettlementInv, SettlementPaid, MoneyFirst, Stage
  <1>5. Alone' => Alone  BY DEF Alone, Apart
  <1>6. ASSUME NEW g \in Handlers, Settling(g)', Alone' PROVE KnowsLines(g)'
    <2>1. Settling(g) /\ req'[g] = req[g] /\ KnowsLines(g)
          BY <1>5, <1>6 DEF SettlementInv, SettlementKnown
    <2> QED  BY <1>1, <2>1 DEF KnowsLines, LineKnown, Stage, Agrees
  <1>7. SettlementKnown'  BY <1>1, <1>5, <1>6 DEF SettlementInv, SettlementKnown, LineInOrder
  <1> QED  BY <1>2, <1>3, <1>4, <1>7 DEF SettlementInv

LEMMA SettlementBeside ==
    ASSUME SettlementInv, StoodBy(SettlementKinds), UNCHANGED settling
    PROVE  SettlementInv'
  BY SettlementLeft DEF StoodBy, Busy, Settling

LEMMA SettlementCrash ==
    ASSUME DeskInv, SettlementInv, NEW h \in Handlers, Crash(h), UNCHANGED settling
    PROVE  SettlementInv'
  <1>1. OthersStay(h) /\ ~ Busy(h)' /\ crossed' = crossed  BY AfterCrash
  <1> QED  BY <1>1, SettlementLeft DEF OthersStay, Settling

(* A decision keeps a row sound, and what was refunded or shelved of it.       *)
LEMMA DecisionIsSound ==
    ASSUME NEW row, SoundRow(row), NEW read, DecisionRead(read)
    PROVE  /\ SoundRow(Decided(row, read)) /\ Decided(row, read).refund = row.refund
           /\ Decided(row, read).shelved = row.shelved
           /\ Decided(row, read).accepted = read.data.accepted
  <1> DEFINE new == Decided(row, read)
  <1>1. row \in LotRow /\ DOMAIN row = {"status", "received", "accepted", "rejected", "disp",
                                        "evidence", "refund", "shelved"}
        BY DEF SoundRow, LotRow
  <1>2. DOMAIN read.data = {"accepted", "rejected", "disp", "evidence"}  BY DEF DecisionRead
  <1>3. /\ new.accepted = read.data.accepted /\ new.rejected = read.data.rejected
        /\ new.disp = read.data.disp /\ new.evidence = read.data.evidence
        /\ new.received = row.received /\ new.refund = row.refund /\ new.shelved = row.shelved
        BY <1>1, <1>2 DEF Decided
  <1>4. NextStatus(read) \in LotStatuses \cup {"as it is"}
        BY DEF NextStatus, LotStatuses, Undecided, DecisionRead
  <1>5. new.status \in LotStatuses
    <2>1. new.status = IF NextStatus(read) # "as it is" THEN NextStatus(read) ELSE row.status
          BY <1>1, <1>2 DEF Decided
    <2>2. row.status \in LotStatuses  BY <1>1 DEF LotRow
    <2> QED  BY <1>4, <2>1, <2>2
  <1>6. new = [status |-> new.status, received |-> new.received, accepted |-> new.accepted,
               rejected |-> new.rejected, disp |-> new.disp, evidence |-> new.evidence,
               refund |-> new.refund, shelved |-> new.shelved]
    <2>1. new = [f \in DOMAIN row |-> new[f]]  BY DEF Decided
    <2> HIDE DEF new
    <2> QED  BY <1>1, <2>1
  <1>7. read.data.accepted \in Nat /\ read.data.rejected \in Nat /\ read.data.evidence \in BOOLEAN
        /\ read.data.disp \in {"RESTOCK", "DISCARD"}
        BY DEF DecisionRead
  <1>8. row.received \in Nat /\ row.refund \in Nat /\ row.shelved \in BOOLEAN  BY <1>1 DEF LotRow
  <1> HIDE DEF new
  <1>9. new \in LotRow  BY <1>3, <1>5, <1>6, <1>7, <1>8 DEF LotRow
  <1> QED  BY <1>3, <1>7, <1>9 DEF SoundRow, new, Null

(* A line of which nothing is refunded is in order, whatever was decided.      *)
LEMMA UnpaidInOrder ==
    ASSUME SettlementType, NEW l \in Lots, LineInOrder(l), lot[l].refund = 0,
           lot'[l].refund = 0, lot'[l].shelved = lot[l].shelved,
           returned'[l] = returned[l], settled' \subseteq settled
    PROVE  LineInOrder(l)'
  <1>1. ~ (lot[l].refund > 0) /\ ~ (lot'[l].refund > 0)  OBVIOUS
  <1> QED  BY <1>1 DEF LineInOrder

LEMMA InspectKeeps ==
    ASSUME DeskInv, SettlementInv, NEW h \in Handlers, Inspect(h)
    PROVE  SettlementInv'
  <1>1. PICK l \in Lots, complete \in BOOLEAN, evidence \in BOOLEAN, disp \in {"RESTOCK", "DISCARD"} :
        \E some \in 0 .. lot[l].received :
              /\ MayInspect(lot[l], some, lot[l].received - some)
              /\ Begin(h, "inspect", <<"decide">>,
                       [line |-> l, status |-> lot[l].status, complete |-> complete,
                        data |-> [accepted |-> some, rejected |-> lot[l].received - some,
                                  disp |-> disp, evidence |-> evidence]])
              /\ UNCHANGED settling
        BY DEF Inspect
  <1>0. PICK good \in 0 .. lot[l].received :
              /\ MayInspect(lot[l], good, lot[l].received - good)
              /\ Begin(h, "inspect", <<"decide">>,
                       [line |-> l, status |-> lot[l].status, complete |-> complete,
                        data |-> [accepted |-> good, rejected |-> lot[l].received - good,
                                  disp |-> disp, evidence |-> evidence]])
              /\ UNCHANGED settling
        BY <1>1, Zenon
  <1> DEFINE read == [line |-> l, status |-> lot[l].status, complete |-> complete,
                      data |-> [accepted |-> good, rejected |-> lot[l].received - good,
                                disp |-> disp, evidence |-> evidence]]
  <1>2. Begin(h, "inspect", <<"decide">>, read)  BY <1>0
  <1>3. lot[l].refund = 0 /\ lot[l].received \in Nat /\ lot[l].status \in LotStatuses
        BY <1>0 DEF MayInspect, SettlementInv, SettlementType, SoundRow, LotRow
  <1>4. DecisionRead(read) /\ read.line = l  BY <1>3 DEF DecisionRead
  <1> HIDE DEF read
  <1>5. OthersStay(h) /\ crossed \subseteq crossed'  BY <1>2, AfterBegin
  <1>6. Busy(h)' => req'[h].kind = "inspect" /\ req'[h].todo = <<"decide">> /\ req'[h].read = read
        BY <1>2, AfterBegin
  <1>7. lot' = lot /\ money' = money /\ returned' = returned /\ settled' = settled
        BY <1>0 DEF settling
  <1>8. Settling(h)' => SettleRead(h)' /\ MoneyFirst(h)' /\ KnowsLines(h)'
        BY <1>3, <1>4, <1>6, <1>7 DEF Settling, SettleRead, MoneyFirst, KnowsLines
  <1>9. Alone' => Alone  BY <1>5 DEF Alone, Apart
  <1>10. SameLines  BY <1>7 DEF SameLines
  <1>11. \A g \in Handlers \ {h} : Settling(g) /\ KnowsLines(g) => KnowsLines(g)'
        BY <1>5, <1>10, KnowsOn DEF SettlementInv
  <1>12. SettlementType' /\ (Alone => \A k \in Lots : LineInOrder(k)')
        BY <1>7 DEF SettlementInv, SettlementType, SettlementKnown, LineInOrder
  <1>13. \A k \in Lots : lot'[k].refund > 0 \/ returned'[k] > 0 => money'[k] > 0
        BY <1>7 DEF SettlementInv, SettlementPaid
  <1> QED  BY <1>5, <1>7, <1>8, <1>9, <1>11, <1>12, <1>13, SettlementGoes

LEMMA ReceiveOneKeeps ==
    ASSUME DeskInv, SettlementInv, NEW h \in Handlers, ReceiveOne(h)
    PROVE  SettlementInv'
  <1>0. PICK l \in Lots :
              /\ lot[l].status \in Undecided /\ Begin(h, "parcel", <<>>, {})
              /\ lot' = [lot EXCEPT ![l].received = @ + 1,
                                    ![l].status = IF lot[l].received + 1 = PerLot /\ @ = "REQUESTED"
                                                  THEN "RECEIVED" ELSE @]
              /\ UNCHANGED <<money, returned, settled>>
        BY DEF ReceiveOne
  <1>1. PICK s :
              /\ lot[l].status \in Undecided /\ Begin(h, "parcel", <<>>, {})
              /\ lot' = [lot EXCEPT ![l].received = lot[l].received + 1, ![l].status = s]
              /\ s \in Undecided
              /\ UNCHANGED <<money, returned, settled>>
        BY <1>0 DEF Undecided
  <1>2. OthersStay(h) /\ crossed \subseteq crossed' /\ ~ Busy(h)'  BY <1>1, AfterBegin
  <1>3. lot \in [Lots -> LotRow] /\ \A k \in Lots : SoundRow(lot[k])
        BY DEF SettlementInv, SettlementType
  <1>4. lot' = [lot EXCEPT ![l] = [lot[l] EXCEPT !.received = lot[l].received + 1, !.status = s]]
        BY <1>1, <1>3 DEF LotRow
  <1> DEFINE new == [lot[l] EXCEPT !.received = lot[l].received + 1, !.status = s]
  <1>5. SoundRow(new) /\ new.refund = lot[l].refund /\ new.accepted = lot[l].accepted
        /\ new.shelved = lot[l].shelved /\ new.disp = lot[l].disp
    <2>1. PICK row : row = lot[l]  OBVIOUS
    <2>2. row \in LotRow /\ s \in LotStatuses /\ s # "APPROVED"
          BY <1>1, <1>3, <2>1 DEF LotStatuses, Undecided
    <2>3. PICK u : u = row.received + 1  OBVIOUS
    <2>4. u \in Nat  BY <2>2, <2>3 DEF LotRow
    <2>5. new = [row EXCEPT !.received = u, !.status = s]  BY <2>1, <2>3
    <2>6. PICK mid : mid = [row EXCEPT !.received = u]  OBVIOUS
    <2>7. new = [mid EXCEPT !.status = s]  BY <2>5, <2>6
    <2>8. mid \in LotRow /\ mid.refund = row.refund /\ mid.accepted = row.accepted
          /\ mid.shelved = row.shelved /\ mid.disp = row.disp
          BY <2>2, <2>4, <2>6 DEF LotRow
    <2>9. new \in LotRow /\ new.status = s /\ new.refund = mid.refund
          /\ new.accepted = mid.accepted /\ new.shelved = mid.shelved /\ new.disp = mid.disp
          BY <2>2, <2>7, <2>8 DEF LotRow
    <2> QED  BY <2>1, <2>2, <2>8, <2>9 DEF SoundRow
  <1> HIDE DEF new
  <1>6. \A k \in Lots : lot'[k] = IF k = l THEN new ELSE lot[k]  BY <1>3, <1>4 DEF new
  <1>7. lot' \in [Lots -> LotRow] /\ \A k \in Lots : SoundRow(lot'[k])
        BY <1>3, <1>4, <1>5, <1>6 DEF SoundRow, new
  <1>8. \A k \in Lots : /\ lot'[k].refund = lot[k].refund /\ lot'[k].accepted = lot[k].accepted
                        /\ lot'[k].shelved = lot[k].shelved /\ lot'[k].disp = lot[k].disp
        BY <1>5, <1>6
  <1>9. SettlementType' /\ SameLines
        BY <1>1, <1>7, <1>8 DEF SettlementInv, SettlementType, SameLines
  <1>10. Alone' => \A k \in Lots : LineInOrder(k)'
        BY <1>1, <1>2, <1>8 DEF SettlementInv, SettlementKnown, LineInOrder, Alone, Apart
  <1>11. \A g \in Handlers \ {h} : Settling(g) /\ KnowsLines(g) => KnowsLines(g)'
        BY <1>2, <1>9, KnowsOn DEF SettlementInv
  <1>12. \A k \in Lots : lot'[k].refund > 0 \/ returned'[k] > 0 => money'[k] > 0
        BY <1>1, <1>8 DEF SettlementInv, SettlementPaid
  <1> QED  BY <1>1, <1>2, <1>9, <1>10, <1>11, <1>12, SettlementGoes DEF Settling

(* What is decided of a line of which nothing is refunded                    *)
LEMMA DecidedKeeps ==
    ASSUME SettlementInv, NEW l \in Lots, NEW read, DecisionRead(read),
           lot' = [lot EXCEPT ![l] = Decided(lot[l], read)], UNCHANGED <<money, returned, settled>>
    PROVE  /\ SettlementType'
           /\ \A k \in Lots : lot'[k].refund > 0 \/ returned'[k] > 0 => money'[k] > 0
           /\ \A k \in Lots : lot'[k].refund = lot[k].refund /\ lot'[k].shelved = lot[k].shelved
           /\ Alone /\ lot[l].refund = 0 => \A k \in Lots : LineInOrder(k)'
  <1>1. lot \in [Lots -> LotRow] /\ \A k \in Lots : SoundRow(lot[k])
        BY DEF SettlementInv, SettlementType
  <1>2. PICK new : new = Decided(lot[l], read)  OBVIOUS
  <1>3. SoundRow(new) /\ new.refund = lot[l].refund /\ new.shelved = lot[l].shelved
        BY <1>1, <1>2, DecisionIsSound
  <1>4. \A k \in Lots : lot'[k] = IF k = l THEN new ELSE lot[k]  BY <1>1, <1>2
  <1>5. lot' \in [Lots -> LotRow] /\ \A k \in Lots : SoundRow(lot'[k])
        BY <1>1, <1>2, <1>3, <1>4 DEF SoundRow
  <1>6. SettlementType'  BY <1>5 DEF SettlementInv, SettlementType
  <1>7. \A k \in Lots : lot'[k].refund = lot[k].refund /\ lot'[k].shelved = lot[k].shelved
        BY <1>3, <1>4
  <1>8. ASSUME Alone, lot[l].refund = 0, NEW k \in Lots PROVE LineInOrder(k)'
    <2>1. LineInOrder(k) /\ SettlementType  BY <1>8 DEF SettlementInv, SettlementKnown
    <2>2. CASE k = l  BY <1>7, <1>8, <2>1, <2>2, UnpaidInOrder
    <2>3. CASE k # l  BY <1>4, <2>1, <2>3 DEF LineInOrder
    <2> QED  BY <2>2, <2>3
  <1> QED  BY <1>6, <1>7, <1>8 DEF SettlementInv, SettlementPaid

LEMMA DecideKeeps ==
    ASSUME DeskInv, SettlementInv, NEW h \in Handlers, Concerns(h, SettlementKinds), Decide(h)
    PROVE  SettlementInv'
  <1>1. At(h, "decide") /\ GoOn(h, Tail(req[h].todo), req[h].read)
        /\ lot' = [lot EXCEPT ![req[h].read.line] = Decided(lot[req[h].read.line], req[h].read)]
        /\ UNCHANGED <<money, returned, settled>>
        BY DEF Decide, Proceed
  <1>2. Settling(h) /\ SettleRead(h) /\ Stage(h) = "decide"
    <2>1. Settling(h) /\ Stage(h) = "decide"  BY <1>1 DEF At, Concerns, Settling, Stage
    <2>2. SettlementRead  BY DEF SettlementInv
    <2>3. SettleRead(h)  BY <2>1, <2>2, Zenon DEF SettlementRead
    <2> QED  BY <2>1, <2>3
  <1>3. req[h].kind = "inspect" /\ req[h].todo = <<"decide">> /\ DecisionRead(req[h].read)
        BY <1>2 DEF SettleRead
  <1>4. OthersStay(h) /\ crossed' = crossed /\ ~ Busy(h)'
    <2>1. Tail(req[h].todo) = <<>>  BY <1>3
    <2> QED  BY <1>1, <1>2, <2>1, AfterGoOn DEF Settling
  <1>5. PICK l : l = req[h].read.line  OBVIOUS
  <1>6. l \in Lots /\ lot' = [lot EXCEPT ![l] = Decided(lot[l], req[h].read)]
        BY <1>1, <1>3, <1>5 DEF DecisionRead
  <1>7. /\ SettlementType'
        /\ \A k \in Lots : lot'[k].refund > 0 \/ returned'[k] > 0 => money'[k] > 0
        /\ \A k \in Lots : lot'[k].refund = lot[k].refund /\ lot'[k].shelved = lot[k].shelved
        /\ Alone /\ lot[l].refund = 0 => \A k \in Lots : LineInOrder(k)'
        BY <1>1, <1>3, <1>6, DecidedKeeps
  <1>8. Alone' => Alone /\ lot[l].refund = 0
        BY <1>2, <1>3, <1>4, <1>5 DEF Alone, Apart, SettlementInv, SettlementKnown, KnowsLines
  <1>9. ASSUME NEW g \in Handlers \ {h}, Alone, Settling(g), KnowsLines(g) PROVE KnowsLines(g)'
    <2>1. req[g].kind # "settle"  BY <1>2, <1>3, <1>9, SettleAlone DEF SettlementInv
    <2>2. req'[g] = req[g] /\ req[g].kind = "inspect" /\ req[g].read.line \in Lots
          BY <1>4, <1>9, <2>1, SettlingStays DEF SettlementInv, SettlementRead, SettleRead, DecisionRead
    <2> QED  BY <1>7, <1>9, <2>2 DEF KnowsLines
  <1> QED  BY <1>1, <1>4, <1>7, <1>8, <1>9, SettlementGoes DEF Settling

LEMMA SettleKeeps ==
    ASSUME DeskInv, SettlementInv, NEW h \in Handlers, Settle(h)
    PROVE  SettlementInv'
  <1>1. PICK S \in SUBSET Lots \ {{}} :
              /\ Begin(h, "settle", <<"take">>, [seen |-> [l \in S |-> lot[l]]])
              /\ UNCHANGED settling
        BY DEF Settle
  <1> DEFINE read == [seen |-> [l \in S |-> lot[l]]]
  <1>2. Begin(h, "settle", <<"take">>, read)  BY <1>1
  <1>3. DOMAIN read.seen = S /\ S \subseteq Lots /\ \A l \in S : read.seen[l] = lot[l]  BY <1>1
  <1> HIDE DEF read
  <1>4. OthersStay(h) /\ crossed \subseteq crossed' /\ \A g \in Handlers : Busy(g) => {"settle", req[g].kind} \in crossed'
        BY <1>2, AfterBegin
  <1>5. Busy(h)' => req'[h].kind = "settle" /\ req'[h].todo = <<"take">> /\ req'[h].read = read
        BY <1>2, AfterBegin
  <1>6. Busy(h)' => Stage(h)' = "take"
    <2>1. Head(<<"take">>) = "take"  OBVIOUS
    <2> QED  BY <1>5, <2>1 DEF Stage
  <1>7. lot' = lot /\ money' = money /\ returned' = returned /\ settled' = settled
        BY <1>1 DEF settling
  <1>8. SettlementType /\ \A k \in Lots : lot[k].refund > 0 \/ returned[k] > 0 => money[k] > 0
        BY DEF SettlementInv, SettlementPaid
  <1>9. Settling(h)' => SettleRead(h)' /\ MoneyFirst(h)' /\ KnowsLines(h)'
        BY <1>3, <1>5, <1>6, <1>7, <1>8
           DEF Settling, SettleRead, MoneyFirst, KnowsLines, SettlementType, Agrees
  <1>10. Alone' => Alone  BY <1>4 DEF Alone, Apart
  <1>11. SameLines  BY <1>7 DEF SameLines
  <1>12. \A g \in Handlers \ {h} : Settling(g) /\ KnowsLines(g) => KnowsLines(g)'
        BY <1>4, <1>11, KnowsOn DEF SettlementInv
  <1>13. SettlementType' /\ (Alone => \A k \in Lots : LineInOrder(k)')
        BY <1>7, <1>8 DEF SettlementInv, SettlementType, SettlementKnown, LineInOrder
  <1> QED  BY <1>4, <1>7, <1>8, <1>9, <1>10, <1>12, <1>13, SettlementGoes

-----------------------------------------------------------------------------
(* A batch at one of its steps                                               *)
LEMMA AtLine ==
    ASSUME SettlementInv, NEW h \in Handlers, NEW s, At(h, s), s # "decide", Concerns(h, SettlementKinds)
    PROVE  Busy(h) /\ Settling(h) /\ SettleRead(h) /\ req[h].kind = "settle" /\ Stage(h) = s
  <1>1. Busy(h) /\ Settling(h) /\ Stage(h) = s  BY DEF At, Concerns, Settling, Stage
  <1>2. SettlementRead  BY DEF SettlementInv
  <1>3. SettleRead(h)  BY <1>1, <1>2, Zenon DEF SettlementRead
  <1>4. Head(<<"decide">>) = "decide"  OBVIOUS
  <1>5. req[h].todo # <<"decide">>  BY <1>1, <1>4 DEF Stage
  <1> QED  BY <1>1, <1>3, <1>5 DEF SettleRead

(* Others than the line at hand are as they were.                            *)
OtherLines(l) ==
    \A k \in Lots \ {l} : lot'[k] = lot[k] /\ money'[k] = money[k] /\ returned'[k] = returned[k]

(* It goes on with the line, knowing what the next step needs;                *)
LEMMA LineGoes ==
    ASSUME DeskInv, SettlementInv, NEW h \in Handlers, NEW s, At(h, s), s # "decide",
           Concerns(h, SettlementKinds), NEW next, next \notin {"take", "decide"},
           NEW new, GoOn(h, <<next>>, new), {"seen", "line", "row"} \subseteq DOMAIN new,
           new.seen = req[h].read.seen, NEW l \in DOMAIN new.seen, l = new.line,
           NEW row, row = new.row, SoundRow(row), s # "take" => l = req[h].read.line,
           next = "approve" => row.accepted # Null,
           next = "approved" => DecisionRead(new) /\ new.complete,
           OtherLines(l), settled' = settled, SettlementType', money[l] > 0 => money'[l] > 0,
           lot'[l].refund > 0 \/ returned'[l] > 0 => money'[l] > 0,
           row.refund > 0 \/ next \in {"record", "look", "shelve"} => money'[l] > 0,
           Alone => LineInOrder(l)' /\ LineKnown(next, row, l)'
    PROVE  SettlementInv'
  <1>1. /\ Busy(h) /\ Settling(h) /\ SettleRead(h) /\ req[h].kind = "settle" /\ Stage(h) = s
        BY AtLine
  <1>2. OthersStay(h) /\ crossed' = crossed  BY <1>1, AfterGoOn
  <1>3. Busy(h)' => req'[h].kind = "settle" /\ req'[h].todo = <<next>> /\ req'[h].read = new
        BY <1>1, AfterGoOn
  <1>4. Busy(h)' => Stage(h)' = next
    <2>1. Head(<<next>>) = next  OBVIOUS
    <2> QED  BY <1>3, <2>1 DEF Stage
  <1>5. \A k \in DOMAIN new.seen : k \in Lots /\ SoundRow(new.seen[k])  BY <1>1 DEF SettleRead
  <1>6. Settling(h)' => SettleRead(h)'  BY <1>3, <1>4, <1>5 DEF Settling, SettleRead
  <1>7. /\ \A k \in Lots : money[k] > 0 => money'[k] > 0
        /\ \A k \in Lots : lot'[k].refund > 0 \/ returned'[k] > 0 => money'[k] > 0
        BY DEF SettlementInv, SettlementPaid, OtherLines
  <1>8. \A k \in DOMAIN new.seen : new.seen[k].refund > 0 => money[k] > 0
        BY <1>1 DEF SettlementInv, SettlementPaid, MoneyFirst
  <1>9. Settling(h)' => MoneyFirst(h)'  BY <1>3, <1>4, <1>5, <1>7, <1>8 DEF Settling, MoneyFirst
  <1>10. Alone' <=> Alone  BY <1>2 DEF Alone, Apart
  <1>11. ASSUME Alone, NEW k \in Lots PROVE LineInOrder(k)'
        BY <1>11 DEF SettlementInv, SettlementKnown, LineInOrder, OtherLines
  <1>12. ASSUME Alone, NEW k \in DOMAIN new.seen, k # l, new.seen[k].refund > 0
         PROVE  Agrees(new.seen[k], k)'
    <2>1. KnowsLines(h)  BY <1>1, <1>12 DEF SettlementInv, SettlementKnown
    <2>2. Agrees(new.seen[k], k)  BY <1>1, <1>12, <2>1 DEF KnowsLines
    <2> QED  BY <1>5, <1>12, <2>2 DEF Agrees, OtherLines
  <1>13. Alone /\ Settling(h)' => KnowsLines(h)'  BY <1>3, <1>4, <1>12 DEF KnowsLines, Settling
  <1>14. \A g \in Handlers \ {h} : ~ (Alone /\ Settling(g))  BY <1>1, SettleAlone DEF SettlementInv
  <1> QED  BY <1>2, <1>6, <1>7, <1>9, <1>10, <1>11, <1>13, <1>14, SettlementGoes

(* or it is done with it, and reports.                                       *)
LEMMA ReportGoes ==
    ASSUME DeskInv, SettlementInv, NEW h \in Handlers, NEW s, At(h, s), s \notin {"decide", "take"},
           Concerns(h, SettlementKinds), NEW reported, \E ended \in BOOLEAN : ReportLine(h, reported, ended),
           NEW l, l = req[h].read.line, reported \subseteq {l}, OtherLines(l),
           SettlementType', money[l] > 0 => money'[l] > 0,
           lot'[l].refund > 0 \/ returned'[l] > 0 => money'[l] > 0,
           Alone => LineInOrder(l)'
    PROVE  SettlementInv'
  <1>1. /\ Busy(h) /\ Settling(h) /\ SettleRead(h) /\ req[h].kind = "settle" /\ Stage(h) = s
        BY AtLine
  <1>100. PICK ended \in BOOLEAN : ReportLine(h, reported, ended)  OBVIOUS
  <1>101. PICK seen : seen = req[h].read.seen  OBVIOUS
  <1>102. PICK rest : rest = IF ended THEN {} ELSE DOMAIN seen \ {l}  OBVIOUS
  <1> DEFINE plan == IF rest = {} THEN <<>> ELSE <<"take">>
             new == [seen |-> Restrict(seen, rest)]
  <1>2. GoOn(h, plan, new) /\ settled' = (settled \ (DOMAIN seen \ rest)) \cup reported
        BY <1>100, <1>101, <1>102 DEF ReportLine
  <1>3. DOMAIN new.seen = rest /\ \A k \in rest : new.seen[k] = seen[k]  BY DEF Restrict
  <1>4. rest \subseteq DOMAIN seen \ {l} /\ plan \in {<<>>, <<"take">>}  BY <1>102
  <1>5. \A k \in DOMAIN seen : k \in Lots /\ SoundRow(seen[k])  BY <1>101, <1>1 DEF SettleRead
  <1> HIDE DEF plan, new
  <1>6. OthersStay(h) /\ crossed' = crossed  BY <1>1, <1>2, AfterGoOn
  <1>7. Busy(h)' => req'[h].kind = "settle" /\ req'[h].todo = <<"take">> /\ req'[h].read = new
        BY <1>1, <1>2, <1>4, AfterGoOn
  <1>8. Busy(h)' => Stage(h)' = "take"
    <2>1. Head(<<"take">>) = "take"  OBVIOUS
    <2> QED  BY <1>7, <2>1 DEF Stage
  <1>9. Settling(h)' => SettleRead(h)'  BY <1>3, <1>4, <1>5, <1>7, <1>8 DEF Settling, SettleRead
  <1>10. /\ \A k \in Lots : money[k] > 0 => money'[k] > 0
         /\ \A k \in Lots : lot'[k].refund > 0 \/ returned'[k] > 0 => money'[k] > 0
        BY DEF SettlementInv, SettlementPaid, OtherLines
  <1>11. \A k \in DOMAIN seen : seen[k].refund > 0 => money[k] > 0
        BY <1>101, <1>1 DEF SettlementInv, SettlementPaid, MoneyFirst
  <1>12. Settling(h)' => MoneyFirst(h)'
        BY <1>3, <1>4, <1>5, <1>7, <1>8, <1>10, <1>11 DEF Settling, MoneyFirst
  <1>13. Alone' <=> Alone  BY <1>6 DEF Alone, Apart
  <1>14. ASSUME Alone, NEW k \in Lots PROVE LineInOrder(k)'
    <2>1. k # l => (k \in settled' => k \in settled)  BY <1>2
    <2> QED  BY <1>14, <2>1 DEF SettlementInv, SettlementKnown, LineInOrder, OtherLines
  <1>15. ASSUME Alone, NEW k \in rest, new.seen[k].refund > 0 PROVE Agrees(new.seen[k], k)'
    <2>1. KnowsLines(h)  BY <1>1, <1>15 DEF SettlementInv, SettlementKnown
    <2>2. k # l /\ k \in DOMAIN seen /\ new.seen[k] = seen[k] /\ seen[k].refund > 0
          BY <1>3, <1>4, <1>15
    <2>3. Agrees(seen[k], k)  BY <1>101, <1>1, <1>15, <2>1, <2>2 DEF KnowsLines
    <2>4. lot'[k] = lot[k]  BY <1>5, <2>2 DEF OtherLines
    <2> QED  BY <2>2, <2>3, <2>4 DEF Agrees
  <1>16. Alone /\ Settling(h)' => KnowsLines(h)'
        BY <1>3, <1>4, <1>7, <1>8, <1>15 DEF KnowsLines, Settling
  <1>17. \A g \in Handlers \ {h} : ~ (Alone /\ Settling(g))  BY <1>1, SettleAlone DEF SettlementInv
  <1> QED  BY <1>6, <1>9, <1>10, <1>12, <1>13, <1>14, <1>16, <1>17, SettlementGoes

(* What a batch reports without having changed anything                      *)
LEMMA FailedKeeps ==
    ASSUME DeskInv, SettlementInv, NEW h \in Handlers, NEW s, At(h, s), s \notin {"decide", "take"},
           Concerns(h, SettlementKinds), Failed(h), UNCHANGED <<lot, money, returned>>
    PROVE  SettlementInv'
  <1>1. SettleRead(h) /\ req[h].kind = "settle" /\ Stage(h) = s  BY AtLine
  <1>2. PICK l : l = req[h].read.line  OBVIOUS
  <1>3. l \in Lots  BY <1>1, <1>2 DEF SettleRead
  <1>11. FALSE \in BOOLEAN  OBVIOUS
  <1>4. ReportLine(h, {}, FALSE)  BY DEF Failed
  <1>13. \E ended \in BOOLEAN : ReportLine(h, {}, ended)  BY <1>4, <1>11, Zenon
  <1>5. settled' \subseteq settled  BY <1>4 DEF ReportLine
  <1>6. Alone => LineInOrder(l)'  BY <1>3, <1>5 DEF SettlementInv, SettlementKnown, LineInOrder
  <1>7. SettlementType'  BY DEF SettlementInv, SettlementType
  <1>10. OtherLines(l)  BY DEF OtherLines
  <1>8. lot'[l].refund > 0 \/ returned'[l] > 0 => money'[l] > 0
        BY <1>3 DEF SettlementInv, SettlementPaid
  <1>9. money[l] > 0 => money'[l] > 0  OBVIOUS
  <1>12. {} \subseteq {l}  OBVIOUS
  <1> QED  BY <1>2, <1>6, <1>7, <1>8, <1>9, <1>10, <1>12, <1>13, ReportGoes

-----------------------------------------------------------------------------
LEMMA RowAnew ==
    ASSUME NEW read, {"seen", "line", "row"} \subseteq DOMAIN read, NEW row,
           NEW new, new = [read EXCEPT !.row = row]
    PROVE  /\ {"seen", "line", "row"} \subseteq DOMAIN new /\ new.seen = read.seen
           /\ new.line = read.line /\ new.row = row
  OBVIOUS

(* A batch goes on with the line, with another row of it.                    *)
LEMMA WorkGoes ==
    ASSUME DeskInv, SettlementInv, NEW h \in Handlers, NEW s, At(h, s), s \notin {"decide", "take"},
           Concerns(h, SettlementKinds), NEW next, next \in {"pay", "record", "look", "shelve"},
           NEW row, SoundRow(row), Work(h, <<next>>, row), NEW l, l = req[h].read.line,
           OtherLines(l), settled' = settled, SettlementType', money[l] > 0 => money'[l] > 0,
           lot'[l].refund > 0 \/ returned'[l] > 0 => money'[l] > 0,
           row.refund > 0 \/ next \in {"record", "look", "shelve"} => money'[l] > 0,
           Alone => LineInOrder(l)' /\ LineKnown(next, row, l)'
    PROVE  SettlementInv'
  <1>1. SettleRead(h) /\ req[h].kind = "settle" /\ Stage(h) = s  BY AtLine
  <1>2. PICK new : new = [req[h].read EXCEPT !.row = row]  OBVIOUS
  <1>3. GoOn(h, <<next>>, new)  BY <1>2 DEF Work
  <1>4. {"seen", "line", "row"} \subseteq DOMAIN req[h].read  BY <1>1 DEF SettleRead
  <1>5. /\ {"seen", "line", "row"} \subseteq DOMAIN new /\ new.seen = req[h].read.seen
        /\ new.line = l /\ new.row = row
        BY <1>2, <1>4, RowAnew
  <1>6. l \in DOMAIN new.seen  BY <1>1, <1>5 DEF SettleRead
  <1>7. next \notin {"take", "decide"} /\ next # "approve" /\ next # "approved"  OBVIOUS
  <1> QED  BY <1>3, <1>5, <1>6, <1>7, LineGoes

(* The line at hand, as it stands                                            *)
LEMMA AtHand ==
    ASSUME SettlementInv, NEW h \in Handlers, NEW s, At(h, s), s \notin {"decide", "take"},
           Concerns(h, SettlementKinds)
    PROVE  LET read == req[h].read
               l == read.line
           IN  /\ l \in Lots /\ l \in DOMAIN read.seen /\ SoundRow(lot[l]) /\ SoundRow(read.row)
               /\ read.seen[l].refund > 0 \/ read.row.refund > 0 => money[l] > 0
               /\ s \in {"record", "look", "shelve"} => money[l] > 0
               /\ lot[l].refund > 0 \/ returned[l] > 0 => money[l] > 0
               /\ s = "approve" => read.row.accepted # Null
               /\ s = "approved" => DecisionRead(read)
               /\ Alone => LineInOrder(l) /\ LineKnown(s, read.row, l)
  <1>1. /\ Settling(h) /\ SettleRead(h) /\ req[h].kind = "settle" /\ Stage(h) = s  BY AtLine
  <1>2. MoneyFirst(h)  BY <1>1 DEF SettlementInv, SettlementPaid
  <1>3. Alone => KnowsLines(h)  BY <1>1 DEF SettlementInv, SettlementKnown
  <1>4. req[h].read.line \in Lots /\ req[h].read.line \in DOMAIN req[h].read.seen
        BY <1>1 DEF SettleRead
  <1>5. SoundRow(req[h].read.row) /\ (s = "approve" => req[h].read.row.accepted # Null)
        /\ (s = "approved" => DecisionRead(req[h].read))
        BY <1>1 DEF SettleRead
  <1>6. /\ SoundRow(lot[req[h].read.line])
        /\ (lot[req[h].read.line].refund > 0 \/ returned[req[h].read.line] > 0 => money[req[h].read.line] > 0)
        /\ (Alone => LineInOrder(req[h].read.line))
        BY <1>4 DEF SettlementInv, SettlementType, SettlementPaid, SettlementKnown
  <1>7. /\ (req[h].read.seen[req[h].read.line].refund > 0 \/ req[h].read.row.refund > 0 => money[req[h].read.line] > 0)
        /\ (s \in {"record", "look", "shelve"} => money[req[h].read.line] > 0)
        BY <1>1, <1>2, <1>4 DEF MoneyFirst
  <1>8. Alone => LineKnown(s, req[h].read.row, req[h].read.line)  BY <1>1, <1>3 DEF KnowsLines
  <1> QED  BY <1>4, <1>5, <1>6, <1>7, <1>8

LEMMA RefuseLineKeeps ==
    ASSUME DeskInv, SettlementInv, NEW h \in Handlers, Concerns(h, SettlementKinds), RefuseLine(h)
    PROVE  SettlementInv'
  <1>1. At(h, "refuse") /\ Failed(h) /\ UNCHANGED <<lot, money, returned>>  BY DEF RefuseLine
  <1>2. "refuse" \notin {"decide", "take"}  OBVIOUS
  <1> QED  BY <1>1, <1>2, FailedKeeps

(* Nothing changes but what a batch knows.                                   *)
LEMMA LooksOn ==
    ASSUME SettlementInv, UNCHANGED settling, NEW l \in Lots
    PROVE  /\ OtherLines(l) /\ settled' = settled /\ SettlementType'
           /\ money'[l] = money[l] /\ lot'[l] = lot[l] /\ returned'[l] = returned[l]
           /\ LineInOrder(l) => LineInOrder(l)'
           /\ \A next, row : LineKnown(next, row, l) => LineKnown(next, row, l)'
  BY DEF settling, OtherLines, SettlementInv, SettlementType, LineInOrder, LineKnown, Agrees

LEMMA LookAgainKeeps ==
    ASSUME DeskInv, SettlementInv, NEW h \in Handlers, Concerns(h, SettlementKinds), LookAgain(h)
    PROVE  SettlementInv'
  <1>1. PICK l, row : l = req[h].read.line /\ row = lot[l]  OBVIOUS
  <1>2. At(h, "look") /\ Work(h, <<"shelve">>, row) /\ UNCHANGED settling  BY <1>1 DEF LookAgain
  <1>3. "look" \notin {"decide", "take"} /\ "shelve" \in {"pay", "record", "look", "shelve"}
        OBVIOUS
  <1>4. l \in Lots /\ SoundRow(row) /\ money[l] > 0  BY <1>1, <1>2, <1>3, AtHand
  <1>5. Alone => LineInOrder(l) /\ LineKnown("look", req[h].read.row, l)
        BY <1>1, <1>2, <1>3, AtHand
  <1>6. Alone => LineKnown("shelve", row, l)  BY <1>1, <1>5 DEF LineKnown, Agrees
  <1>7. /\ OtherLines(l) /\ settled' = settled /\ SettlementType'
        /\ money'[l] = money[l] /\ lot'[l] = lot[l] /\ returned'[l] = returned[l]
        /\ LineInOrder(l) => LineInOrder(l)'
        /\ LineKnown("shelve", row, l) => LineKnown("shelve", row, l)'
        BY <1>2, <1>4, LooksOn
  <1> QED  BY <1>1, <1>2, <1>3, <1>4, <1>5, <1>6, <1>7, WorkGoes

LEMMA TakeLineKeeps ==
    ASSUME DeskInv, SettlementInv, NEW h \in Handlers, Concerns(h, SettlementKinds), TakeLine(h)
    PROVE  SettlementInv'
  <1>1. PICK l \in DOMAIN req[h].read.seen :
          GoOn(h, IF ~ SettleEligible(req[h].read.seen[l]) THEN <<"refuse">>
                  ELSE IF req[h].read.seen[l].status = "APPROVED" THEN <<"pay">> ELSE <<"approve">>,
               [seen |-> req[h].read.seen, line |-> l, row |-> req[h].read.seen[l]])
        BY DEF TakeLine
  <1>2. At(h, "take") /\ UNCHANGED settling  BY DEF TakeLine
  <1>3. PICK row : row = req[h].read.seen[l]  OBVIOUS
  <1>4. PICK new : new = [seen |-> req[h].read.seen, line |-> l, row |-> row]  OBVIOUS
  <1>5. PICK next : next = IF ~ SettleEligible(row) THEN "refuse"
                           ELSE IF row.status = "APPROVED" THEN "pay" ELSE "approve"
        OBVIOUS
  <1>6. GoOn(h, <<next>>, new)  BY <1>1, <1>3, <1>4, <1>5
  <1>7. "take" # "decide" /\ next \notin {"take", "decide"} /\ next \in {"refuse", "pay", "approve"}
        BY <1>5
  <1>8. Settling(h) /\ SettleRead(h) /\ req[h].kind = "settle" /\ Stage(h) = "take"  BY <1>2, AtLine
  <1>9. SoundRow(row) /\ l \in Lots  BY <1>3, <1>8 DEF SettleRead
  <1>10. next = "approve" => row.accepted # Null  BY <1>5, <1>9 DEF SettleEligible, AcceptedQty
  <1>11. row.refund > 0 => money[l] > 0  BY <1>3, <1>8 DEF SettlementInv, SettlementPaid, MoneyFirst
  <1>12. Alone => LineInOrder(l) /\ (row.refund > 0 => Agrees(row, l))
        BY <1>3, <1>8, <1>9 DEF SettlementInv, SettlementKnown, KnowsLines
  <1>13. Alone => LineKnown(next, row, l)  BY <1>7, <1>12 DEF LineKnown
  <1>14. /\ OtherLines(l) /\ settled' = settled /\ SettlementType'
         /\ money'[l] = money[l] /\ lot'[l] = lot[l] /\ returned'[l] = returned[l]
         /\ LineInOrder(l) => LineInOrder(l)'
         /\ LineKnown(next, row, l) => LineKnown(next, row, l)'
        BY <1>2, <1>9, LooksOn
  <1>15. {"seen", "line", "row"} \subseteq DOMAIN new /\ new.seen = req[h].read.seen
         /\ l = new.line /\ row = new.row
        BY <1>4
  <1>16. lot'[l].refund > 0 \/ returned'[l] > 0 => money'[l] > 0
        BY <1>9, <1>14 DEF SettlementInv, SettlementPaid
  <1>17. l \in DOMAIN new.seen /\ next # "approved"  BY <1>7, <1>15
  <1>18. row.refund > 0 \/ next \in {"record", "look", "shelve"} => money'[l] > 0
        BY <1>7, <1>11, <1>14
  <1>19. Alone => LineInOrder(l)' /\ LineKnown(next, row, l)'  BY <1>12, <1>13, <1>14
  <1> QED  BY <1>2, <1>6, <1>7, <1>9, <1>10, <1>14, <1>15, <1>16, <1>17, <1>18, <1>19, LineGoes

LEMMA ApproveLineKeeps ==
    ASSUME DeskInv, SettlementInv, NEW h \in Handlers, Concerns(h, SettlementKinds), ApproveLine(h)
    PROVE  SettlementInv'
  <1>1. PICK l, row : l = req[h].read.line /\ row = req[h].read.row  OBVIOUS
  <1>2. At(h, "approve") /\ "approve" \notin {"decide", "take"}  BY DEF ApproveLine
  <1>3. l \in Lots /\ SoundRow(lot[l]) /\ SoundRow(row) /\ row.accepted # Null
        BY <1>1, <1>2, AtHand
  <1>4. row.refund > 0 => money[l] > 0  BY <1>1, <1>2, AtHand
  <1>5. Alone => LineInOrder(l)  BY <1>1, <1>2, AtHand
  <1>6. l \in DOMAIN req[h].read.seen  BY <1>1, <1>2, AtHand
  <1>7. CASE Failed(h) /\ UNCHANGED <<lot, money, returned>>  BY <1>2, <1>7, FailedKeeps
  <1>8. ASSUME MayInspect(lot[l], row.accepted, row.rejected), UNCHANGED settling,
               NEW new, GoOn(h, <<"approved">>, new),
               new = [seen |-> req[h].read.seen, line |-> l, row |-> row,
                      status |-> lot[l].status, complete |-> TRUE,
                      data |-> [accepted |-> row.accepted, rejected |-> row.rejected,
                                disp |-> "RESTOCK", evidence |-> row.evidence]]
        PROVE  SettlementInv'
    <2>1. {"seen", "line", "row"} \subseteq DOMAIN new /\ new.seen = req[h].read.seen
          /\ l = new.line /\ row = new.row /\ new.complete = TRUE
          BY <1>8
    <2>2. row.accepted \in Nat /\ row.rejected \in Nat /\ row.evidence \in BOOLEAN
          BY <1>3 DEF SoundRow, LotRow
    <2>3. new.status \in LotStatuses  BY <1>3, <1>8 DEF SoundRow, LotRow
    <2>4. new.data \in [accepted : Nat, rejected : Nat, disp : {"RESTOCK", "DISCARD"}, evidence : BOOLEAN]
          BY <1>8, <2>2
    <2>5. DecisionRead(new) /\ new.complete  BY <1>3, <2>1, <2>3, <2>4 DEF DecisionRead
    <2>6. lot[l].refund = 0  BY <1>8 DEF MayInspect
    <2>7. LineKnown("approved", row, l)  BY <2>6 DEF LineKnown
    <2>8. /\ OtherLines(l) /\ settled' = settled /\ SettlementType'
          /\ money'[l] = money[l] /\ lot'[l] = lot[l] /\ returned'[l] = returned[l]
          /\ LineInOrder(l) => LineInOrder(l)'
          /\ LineKnown("approved", row, l) => LineKnown("approved", row, l)'
          BY <1>3, <1>8, LooksOn
    <2>9. lot'[l].refund > 0 \/ returned'[l] > 0 => money'[l] > 0
          BY <1>3, <2>8 DEF SettlementInv, SettlementPaid
    <2>10. "approved" \notin {"take", "decide"} /\ "approve" # "decide" /\ l \in DOMAIN new.seen
          BY <1>6, <2>1
    <2>11. "approved" = "approve" => row.accepted # Null  BY <1>3
    <2>12. Alone => LineInOrder(l)' /\ LineKnown("approved", row, l)'  BY <1>5, <2>7, <2>8
    <2>13. row.refund > 0 \/ "approved" \in {"record", "look", "shelve"} => money'[l] > 0
          BY <1>4, <2>8
    <2> QED  BY <1>1, <1>2, <1>3, <1>8, <2>1, <2>5, <2>8, <2>9, <2>10, <2>11, <2>12, <2>13, LineGoes
  <1>9. \/ Failed(h) /\ UNCHANGED <<lot, money, returned>>
        \/ /\ MayInspect(lot[l], row.accepted, row.rejected) /\ UNCHANGED settling
           /\ GoOn(h, <<"approved">>,
                   [seen |-> req[h].read.seen, line |-> l, row |-> row,
                    status |-> lot[l].status, complete |-> TRUE,
                    data |-> [accepted |-> row.accepted, rejected |-> row.rejected,
                              disp |-> "RESTOCK", evidence |-> row.evidence]])
        BY <1>1 DEF ApproveLine
  <1> QED  BY <1>7, <1>8, <1>9, Zenon

LEMMA WriteApprovalKeeps ==
    ASSUME DeskInv, SettlementInv, NEW h \in Handlers, Concerns(h, SettlementKinds), WriteApproval(h)
    PROVE  SettlementInv'
  <1>1. PICK l, read : l = req[h].read.line /\ read = req[h].read  OBVIOUS
  <1>2. /\ At(h, "approved") /\ GoOn(h, <<"reread">>, read)
        /\ lot' = [lot EXCEPT ![l] = Decided(lot[l], read)]
        /\ UNCHANGED <<money, returned, settled>>
        BY <1>1 DEF WriteApproval
  <1>3. "approved" \notin {"decide", "take"} /\ "approved" # "decide" /\ "reread" \notin {"take", "decide"}
        /\ "reread" # "approve" /\ "reread" # "approved"
        OBVIOUS
  <1>4. l \in Lots /\ l \in DOMAIN read.seen /\ SoundRow(read.row) /\ DecisionRead(read)
        BY <1>1, <1>2, <1>3, AtHand
  <1>5. (read.row.refund > 0 => money[l] > 0) /\ (Alone => LineKnown("approved", read.row, l))
        BY <1>1, <1>2, <1>3, AtHand
  <1>6. {"seen", "line", "row"} \subseteq DOMAIN read
    <2>1. SettleRead(h) /\ req[h].kind = "settle" /\ Stage(h) = "approved"  BY <1>2, <1>3, AtLine
    <2> QED  BY <1>1, <2>1 DEF SettleRead
  <1>7. /\ SettlementType'
        /\ \A k \in Lots : lot'[k].refund > 0 \/ returned'[k] > 0 => money'[k] > 0
        /\ Alone /\ lot[l].refund = 0 => \A k \in Lots : LineInOrder(k)'
        BY <1>2, <1>4, DecidedKeeps
  <1>8. OtherLines(l)  BY <1>2 DEF OtherLines, SettlementInv, SettlementType
  <1>9. Alone => LineInOrder(l)' /\ LineKnown("reread", read.row, l)'
        BY <1>4, <1>5, <1>7 DEF LineKnown
  <1>10. PICK row : row = read.row  OBVIOUS
  <1>11. money'[l] = money[l] /\ settled' = settled  BY <1>2
  <1>12. row.refund > 0 \/ "reread" \in {"record", "look", "shelve"} => money'[l] > 0
        BY <1>5, <1>10, <1>11
  <1>13. lot'[l].refund > 0 \/ returned'[l] > 0 => money'[l] > 0  BY <1>4, <1>7
  <1>14. Alone => LineInOrder(l)' /\ LineKnown("reread", row, l)'  BY <1>9, <1>10
  <1> QED  BY <1>1, <1>2, <1>3, <1>4, <1>6, <1>7, <1>8, <1>10, <1>11, <1>12, <1>13, <1>14, LineGoes

LEMMA RereadApprovedKeeps ==
    ASSUME DeskInv, SettlementInv, NEW h \in Handlers, Concerns(h, SettlementKinds), RereadApproved(h)
    PROVE  SettlementInv'
  <1>1. PICK l, row : l = req[h].read.line /\ row = lot[l]  OBVIOUS
  <1>2. At(h, "reread") /\ "reread" \notin {"decide", "take"}  BY DEF RereadApproved
  <1>3. CASE Failed(h) /\ UNCHANGED <<lot, money, returned>>  BY <1>2, <1>3, FailedKeeps
  <1>4. CASE Work(h, <<"pay">>, row) /\ UNCHANGED settling
    <2>1. l \in Lots /\ SoundRow(row) /\ (row.refund > 0 => money[l] > 0) /\ (Alone => LineInOrder(l))
          BY <1>1, <1>2, AtHand
    <2>2. LineKnown("pay", row, l)  BY <1>1 DEF LineKnown, Agrees
    <2>3. /\ OtherLines(l) /\ settled' = settled /\ SettlementType'
          /\ money'[l] = money[l] /\ lot'[l] = lot[l] /\ returned'[l] = returned[l]
          /\ LineInOrder(l) => LineInOrder(l)'
          /\ LineKnown("pay", row, l) => LineKnown("pay", row, l)'
          BY <1>4, <2>1, LooksOn
    <2>4. "pay" \in {"pay", "record", "look", "shelve"} /\ ~ ("pay" \in {"record", "look", "shelve"})
          OBVIOUS
    <2>5. lot'[l].refund > 0 \/ returned'[l] > 0 => money'[l] > 0
          BY <2>1, <2>3 DEF SettlementInv, SettlementPaid
    <2> QED  BY <1>1, <1>2, <1>4, <2>1, <2>2, <2>3, <2>4, <2>5, WorkGoes
  <1> QED  BY <1>1, <1>3, <1>4 DEF RereadApproved

LEMMA RecordRefundKeeps ==
    ASSUME DeskInv, SettlementInv, NEW h \in Handlers, Concerns(h, SettlementKinds), RecordRefund(h)
    PROVE  SettlementInv'
  <1>1. PICK l, row : l = req[h].read.line /\ row = req[h].read.row  OBVIOUS
  <1>2. At(h, "record") /\ "record" \notin {"decide", "take"}  BY DEF RecordRefund
  <1>3. CASE Failed(h) /\ UNCHANGED <<lot, money, returned>>  BY <1>2, <1>3, FailedKeeps
  <1>4. CASE /\ lot' = IF Owed(lot[l]) THEN [lot EXCEPT ![l].refund = row.refund] ELSE lot
             /\ Work(h, <<"look">>, row) /\ UNCHANGED <<money, returned, settled>>
    <2>1. l \in Lots /\ SoundRow(lot[l]) /\ SoundRow(row) /\ money[l] > 0  BY <1>1, <1>2, AtHand
    <2>2. Alone => LineInOrder(l) /\ LineKnown("record", row, l)  BY <1>1, <1>2, AtHand
    <2>3. PICK old, u : old = lot[l] /\ u = row.refund  OBVIOUS
    <2>4. u \in Nat /\ old \in LotRow /\ SoundRow(old)  BY <2>1, <2>3 DEF SoundRow, LotRow
    <2>5. PICK paid : paid = [old EXCEPT !.refund = u]  OBVIOUS
    <2>6. paid \in LotRow /\ paid.refund = u /\ paid.accepted = old.accepted /\ paid.status = old.status
          /\ paid.shelved = old.shelved /\ paid.disp = old.disp
          BY <2>4, <2>5 DEF LotRow
    <2>7. SoundRow(paid)  BY <2>4, <2>6 DEF SoundRow
    <2>8. lot \in [Lots -> LotRow] /\ \A k \in Lots : SoundRow(lot[k])
          BY DEF SettlementInv, SettlementType
    <2>9. lot' = IF Owed(old) THEN [lot EXCEPT ![l] = paid] ELSE lot  BY <1>4, <2>3, <2>5
    <2>10. lot'[l] = (IF Owed(old) THEN paid ELSE old) /\ \A k \in Lots \ {l} : lot'[k] = lot[k]
          BY <2>1, <2>3, <2>8, <2>9
    <2>11. lot' \in [Lots -> LotRow] /\ \A k \in Lots : SoundRow(lot'[k])
          BY <2>1, <2>4, <2>6, <2>7, <2>8, <2>9, <2>10
    <2>12. SettlementType' /\ OtherLines(l)
          BY <1>4, <2>10, <2>11 DEF SettlementInv, SettlementType, OtherLines
    <2>13. Alone => LineInOrder(l)' /\ LineKnown("look", row, l)'
      <3>1. SUFFICES ASSUME Alone PROVE LineInOrder(l)' /\ LineKnown("look", row, l)'  OBVIOUS
      <3>2. old.refund = 0 /\ old.accepted = money[l] /\ u = money[l]
            BY <2>2, <2>3, <3>1 DEF LineKnown
      <3>3. lot'[l] = paid /\ paid.refund = money[l] /\ paid.accepted = money[l]
            BY <2>6, <2>10, <3>2 DEF Owed
      <3>4. LineKnown("look", row, l)'  BY <2>1, <3>3 DEF LineKnown
      <3>6. ~ (returned[l] > 0) /\ (old.shelved <=> returned[l] > 0) /\ l \notin settled
            BY <2>2, <2>3, <3>1, <3>2 DEF LineInOrder
      <3>7. LineInOrder(l)'  BY <1>4, <2>6, <3>3, <3>6 DEF LineInOrder
      <3> QED  BY <3>4, <3>7
    <2>14. "look" \in {"pay", "record", "look", "shelve"}  OBVIOUS
    <2>15. money'[l] > 0 /\ settled' = settled  BY <1>4, <2>1
    <2> QED  BY <1>1, <1>2, <1>4, <2>1, <2>12, <2>13, <2>14, <2>15, WorkGoes
  <1> QED  BY <1>1, <1>3, <1>4 DEF RecordRefund

LEMMA PayLineKeeps ==
    ASSUME DeskInv, SettlementInv, NEW h \in Handlers, Concerns(h, SettlementKinds), PayLine(h)
    PROVE  SettlementInv'
  <1>1. PICK l, now, row, u : /\ l = req[h].read.line /\ now = lot[l] /\ row = req[h].read.row
                              /\ u = AcceptedQty(now)
        OBVIOUS
  <1>2. At(h, "pay") /\ "pay" \notin {"decide", "take"}  BY DEF PayLine
  <1>3. l \in Lots /\ SoundRow(now) /\ SoundRow(row) /\ (row.refund > 0 => money[l] > 0)
        BY <1>1, <1>2, AtHand
  <1>4. now.refund > 0 \/ returned[l] > 0 => money[l] > 0  BY <1>1, <1>2, AtHand
  <1>5. Alone => LineInOrder(l) /\ LineKnown("pay", row, l)  BY <1>1, <1>2, AtHand
  <1>6. row.refund \in Nat /\ now.refund \in Nat /\ u \in Nat /\ now \in LotRow
        BY <1>1, <1>3 DEF SoundRow, LotRow, AcceptedQty, SettlementAssumption, SettlementAssumption, Null
  <1>7. u > 0 => u = now.accepted  BY <1>1, <1>3 DEF SoundRow, AcceptedQty
  <1>8. CASE Failed(h) /\ UNCHANGED <<lot, money, returned>>  BY <1>2, <1>8, FailedKeeps
  <1>9. CASE ~ Owed(row) /\ Work(h, <<"shelve">>, row) /\ UNCHANGED settling
    <2>1. /\ OtherLines(l) /\ settled' = settled /\ SettlementType'
          /\ money'[l] = money[l] /\ lot'[l] = lot[l] /\ returned'[l] = returned[l]
          /\ LineInOrder(l) => LineInOrder(l)'
          /\ LineKnown("shelve", row, l) => LineKnown("shelve", row, l)'
          BY <1>3, <1>9, LooksOn
    <2>2. row.refund > 0  BY <1>6, <1>9 DEF Owed
    <2>3. Alone => LineKnown("shelve", row, l)  BY <1>5, <2>2 DEF LineKnown, Agrees
    <2>4. "shelve" \in {"pay", "record", "look", "shelve"}  OBVIOUS
    <2>5. lot'[l].refund > 0 \/ returned'[l] > 0 => money'[l] > 0  BY <1>1, <1>4, <2>1
    <2> QED  BY <1>1, <1>2, <1>3, <1>5, <1>9, <2>1, <2>2, <2>3, <2>4, <2>5, WorkGoes
  <1>10. CASE ~ Owed(now) /\ Work(h, <<"look">>, now) /\ UNCHANGED settling
    <2>1. /\ OtherLines(l) /\ settled' = settled /\ SettlementType'
          /\ money'[l] = money[l] /\ lot'[l] = lot[l] /\ returned'[l] = returned[l]
          /\ LineInOrder(l) => LineInOrder(l)'
          /\ LineKnown("look", now, l) => LineKnown("look", now, l)'
          BY <1>3, <1>10, LooksOn
    <2>2. now.refund > 0  BY <1>6, <1>10 DEF Owed
    <2>3. LineKnown("look", now, l)  BY <1>1, <2>2 DEF LineKnown
    <2>4. "look" \in {"pay", "record", "look", "shelve"}  OBVIOUS
    <2>5. lot'[l].refund > 0 \/ returned'[l] > 0 => money'[l] > 0  BY <1>1, <1>4, <2>1
    <2> QED  BY <1>1, <1>2, <1>3, <1>4, <1>5, <1>10, <2>1, <2>2, <2>3, <2>4, <2>5, WorkGoes
  <1>11. money \in [Lots -> Nat] /\ SettlementType  BY DEF SettlementInv, SettlementType
  <1>12. CASE /\ Owed(now) /\ u > 0 /\ money[l] \in {0, u} /\ money' = [money EXCEPT ![l] = u]
              /\ Work(h, <<"record">>, [now EXCEPT !.refund = u])
              /\ UNCHANGED <<lot, returned, settled>>
    <2>1. PICK paid : paid = [now EXCEPT !.refund = u]  OBVIOUS
    <2>2. paid \in LotRow /\ paid.refund = u /\ paid.accepted = now.accepted /\ paid.status = now.status
          BY <1>6, <2>1 DEF LotRow
    <2>3. SoundRow(paid) /\ Work(h, <<"record">>, paid)  BY <1>3, <1>12, <2>1, <2>2 DEF SoundRow
    <2>4. money'[l] = u /\ (\A k \in Lots \ {l} : money'[k] = money[k]) /\ money' \in [Lots -> Nat]
          BY <1>3, <1>6, <1>11, <1>12
    <2>5. SettlementType' /\ OtherLines(l)  BY <1>11, <1>12, <2>4 DEF SettlementType, OtherLines
    <2>6. now.refund = 0  BY <1>12 DEF Owed
    <2>7. Alone => LineInOrder(l)'  BY <1>1, <1>5, <1>12, <2>6 DEF LineInOrder
    <2>8. LineKnown("record", paid, l)'  BY <1>1, <1>7, <1>12, <2>2, <2>4, <2>6 DEF LineKnown
    <2>9. "record" \in {"pay", "record", "look", "shelve"} /\ settled' = settled /\ money'[l] > 0
          BY <1>12, <2>4
    <2> QED  BY <1>1, <1>2, <2>3, <2>5, <2>7, <2>8, <2>9, WorkGoes
  <1>13. CASE /\ Owed(now) /\ u > 0
              /\ money' \in {money, [money EXCEPT ![l] = IF money[l] = 0 THEN u ELSE money[l]]}
              /\ ReportLine(h, {}, TRUE) /\ UNCHANGED <<lot, returned>>
    <2>1. PICK v : v = money'[l]  OBVIOUS
    <2>2. v \in Nat /\ (money[l] > 0 => v > 0) /\ (\A k \in Lots \ {l} : money'[k] = money[k])
          /\ money' \in [Lots -> Nat]
          BY <1>3, <1>6, <1>11, <1>13, <2>1
    <2>3. SettlementType'  BY <1>11, <1>13, <2>2 DEF SettlementType
    <2>4. OtherLines(l)  BY <1>13, <2>2 DEF OtherLines
    <2>5. now.refund = 0  BY <1>13 DEF Owed
    <2>6. settled' \subseteq settled  BY <1>13 DEF ReportLine
    <2>7. Alone => LineInOrder(l)'  BY <1>1, <1>5, <1>13, <2>5, <2>6 DEF LineInOrder
    <2>8. lot'[l].refund > 0 \/ returned'[l] > 0 => money'[l] > 0  BY <1>1, <1>4, <1>13, <2>1, <2>2
    <2>9. {} \subseteq {l}  OBVIOUS
    <2>10. \E ended \in BOOLEAN : ReportLine(h, {}, ended)  BY <1>13, Zenon
    <2>11. money[l] > 0 => money'[l] > 0  BY <2>1, <2>2
    <2> QED  BY <1>1, <1>2, <2>3, <2>4, <2>7, <2>8, <2>9, <2>10, <2>11, ReportGoes
  <1> QED  BY <1>1, <1>8, <1>9, <1>10, <1>12, <1>13 DEF PayLine

LEMMA ShelveLineKeeps ==
    ASSUME DeskInv, SettlementInv, NEW h \in Handlers, Concerns(h, SettlementKinds), ShelveLine(h)
    PROVE  SettlementInv'
  <1>1. PICK l, old, row, u : /\ l = req[h].read.line /\ old = lot[l] /\ row = req[h].read.row
                              /\ u = AcceptedQty(row)
        OBVIOUS
  <1>2. At(h, "shelve") /\ "shelve" \notin {"decide", "take"}  BY DEF ShelveLine
  <1>3. l \in Lots /\ SoundRow(old) /\ SoundRow(row) /\ money[l] > 0  BY <1>1, <1>2, AtHand
  <1>4. Alone => LineInOrder(l) /\ old.refund > 0 /\ Agrees(row, l)
    <2>1. Alone => LineInOrder(l) /\ LineKnown("shelve", row, l)  BY <1>1, <1>2, AtHand
    <2> QED  BY <1>1, <2>1 DEF LineKnown
  <1>5. u \in Nat /\ old \in LotRow
        BY <1>1, <1>3 DEF SoundRow, LotRow, AcceptedQty, SettlementAssumption, Null
  <1>6. CASE Failed(h) /\ UNCHANGED <<lot, money, returned>>  BY <1>2, <1>6, FailedKeeps
  <1>7. \E ended \in BOOLEAN : ReportLine(h, {l}, ended) \/ Failed(h)
        BY <1>1, Zenon DEF ShelveLine, Done
  <1>8. Alone => old.accepted = money[l] /\ old.refund = money[l] /\ (old.shelved <=> returned[l] > 0)
                 /\ row.shelved = old.shelved /\ u = money[l]
    <2>1. SUFFICES ASSUME Alone
                   PROVE  old.accepted = money[l] /\ old.refund = money[l] /\ (old.shelved <=> returned[l] > 0)
                          /\ row.shelved = old.shelved /\ u = money[l]
          OBVIOUS
    <2>2. old.accepted = money[l] /\ old.refund = money[l] /\ (old.shelved <=> returned[l] > 0)
          BY <1>1, <1>4, <2>1 DEF LineInOrder
    <2>3. row.shelved = old.shelved /\ row.accepted = money[l]  BY <1>1, <1>4, <2>1, <2>2 DEF Agrees
    <2>4. row.accepted # Null  BY <1>3, <2>3 DEF Null
    <2> QED  BY <1>1, <2>2, <2>3, <2>4 DEF AcceptedQty
  <1>9. CASE /\ row.shelved \/ (MayShelve(row) /\ u = 0)
             /\ Done(h) /\ UNCHANGED <<lot, returned, money>>
    <2>1. ReportLine(h, {l}, FALSE) /\ {l} \subseteq {l}  BY <1>1, <1>9 DEF Done
    <2>2. \E ended \in BOOLEAN : ReportLine(h, {l}, ended)  BY <2>1, Zenon
    <2>3. OtherLines(l) /\ SettlementType'  BY <1>9 DEF OtherLines, SettlementInv, SettlementType
    <2>4. ASSUME Alone PROVE LineInOrder(l)'
      <3>1. old.shelved  BY <1>3, <1>8, <1>9, <2>4
      <3>2. LineInOrder(l) /\ old.refund > 0  BY <1>4, <2>4
      <3> QED  BY <1>1, <1>9, <3>1, <3>2 DEF LineInOrder
    <2>5. money'[l] > 0 /\ (money[l] > 0 => money'[l] > 0)  BY <1>3, <1>9
    <2> QED  BY <1>1, <1>2, <2>1, <2>2, <2>3, <2>4, <2>5, ReportGoes
  <1>10. CASE /\ ~ row.shelved /\ MayShelve(row) /\ u > 0
              /\ returned' = [returned EXCEPT ![l] = returned[l] + u]
              /\ lot' = [lot EXCEPT ![l].shelved = TRUE, ![l].disp = "RESTOCK"]
              /\ Done(h) /\ UNCHANGED money
    <2>1. ReportLine(h, {l}, FALSE) /\ {l} \subseteq {l}  BY <1>1, <1>10 DEF Done
    <2>2. \E ended \in BOOLEAN : ReportLine(h, {l}, ended)  BY <2>1, Zenon
    <2>3. PICK mid : mid = [old EXCEPT !.shelved = TRUE]  OBVIOUS
    <2>4. PICK new : new = [mid EXCEPT !.disp = "RESTOCK"]  OBVIOUS
    <2>5. mid \in LotRow /\ mid.shelved = TRUE /\ mid.refund = old.refund /\ mid.accepted = old.accepted
          /\ mid.status = old.status
          BY <1>5, <2>3 DEF LotRow
    <2>6. new \in LotRow /\ new.shelved = TRUE /\ new.disp = "RESTOCK" /\ new.refund = old.refund
          /\ new.accepted = old.accepted /\ new.status = old.status
          BY <2>4, <2>5 DEF LotRow
    <2>7. SoundRow(new)  BY <1>3, <2>6 DEF SoundRow
    <2>8. lot \in [Lots -> LotRow] /\ (\A k \in Lots : SoundRow(lot[k])) /\ returned \in [Lots -> Nat]
          BY DEF SettlementInv, SettlementType
    <2>9. lot' = [lot EXCEPT ![l] = new]  BY <1>1, <1>3, <1>10, <2>3, <2>4, <2>8
    <2>10. lot'[l] = new /\ \A k \in Lots \ {l} : lot'[k] = lot[k]  BY <1>3, <2>8, <2>9
    <2>11. returned'[l] = returned[l] + u /\ (\A k \in Lots \ {l} : returned'[k] = returned[k])
           /\ returned' \in [Lots -> Nat]
          BY <1>3, <1>5, <1>10, <2>8
    <2>12. lot' \in [Lots -> LotRow] /\ \A k \in Lots : SoundRow(lot'[k])
          BY <2>6, <2>7, <2>8, <2>9, <2>10
    <2>13. SettlementType' /\ OtherLines(l)
          BY <1>10, <2>10, <2>11, <2>12 DEF SettlementInv, SettlementType, OtherLines
    <2>14. ASSUME Alone PROVE LineInOrder(l)'
      <3>1. ~ old.shelved /\ old.accepted = money[l] /\ old.refund = money[l] /\ u = money[l]
            BY <1>8, <1>10, <2>14
      <3>2. ~ (returned[l] > 0) /\ returned[l] \in Nat  BY <1>3, <1>8, <2>8, <2>14, <3>1
      <3>3. returned'[l] = money[l] /\ money'[l] = money[l]  BY <1>5, <1>10, <2>11, <3>1, <3>2
      <3> QED  BY <1>3, <2>6, <2>10, <3>1, <3>3 DEF LineInOrder
    <2>15. money'[l] > 0 /\ (money[l] > 0 => money'[l] > 0)  BY <1>3, <1>10
    <2> QED  BY <1>1, <1>2, <2>1, <2>2, <2>13, <2>14, <2>15, ReportGoes
  <1>11. \/ Failed(h) /\ UNCHANGED <<lot, money, returned>>
         \/ /\ row.shelved \/ (MayShelve(row) /\ u = 0)
            /\ Done(h) /\ UNCHANGED <<lot, returned, money>>
         \/ /\ ~ row.shelved /\ MayShelve(row) /\ u > 0
            /\ returned' = [returned EXCEPT ![l] = returned[l] + u]
            /\ lot' = [lot EXCEPT ![l].shelved = TRUE, ![l].disp = "RESTOCK"]
            /\ Done(h) /\ UNCHANGED money
        BY <1>1, <1>5 DEF ShelveLine
  <1> QED  BY <1>6, <1>9, <1>10, <1>11

-----------------------------------------------------------------------------
LEMMA SettlementKept ==
    ASSUME DeskInv, SettlementInv, NEW h \in Handlers, Step(h)
    PROVE  SettlementInv'
  <1>1. CASE Concerns(h, SettlementKinds) /\ SettlementStep(h)
        BY <1>1, InspectKeeps, ReceiveOneKeeps, DecideKeeps, SettleKeeps, TakeLineKeeps, RefuseLineKeeps,
           ApproveLineKeeps, WriteApprovalKeeps, RereadApprovedKeeps, PayLineKeeps, RecordRefundKeeps,
           LookAgainKeeps, ShelveLineKeeps, Zenon DEF SettlementStep
  <1>2. CASE StoodBy(SettlementKinds) /\ UNCHANGED settling  BY <1>2, SettlementBeside
  <1>3. CASE Crash(h) /\ UNCHANGED settling  BY <1>3, SettlementCrash
  <1> QED  BY <1>1, <1>2, <1>3, SettlementOrNot

LEMMA SettlementBegins == Init => SettlementInv
  <1>1. SUFFICES ASSUME Init PROVE SettlementInv  OBVIOUS
  <1>2. /\ lot \in [Lots -> Stages] /\ money = [l \in Lots |-> 0] /\ returned = [l \in Lots |-> 0]
        /\ settled = {}
        BY <1>1 DEF Init, SettlementInit
  <1>3. \A h \in Handlers : ~ Busy(h)  BY <1>1 DEF Init, DeskInit, Idle, Busy
  <1>4. ASSUME NEW row \in Stages
        PROVE  SoundRow(row) /\ row.refund = 0 /\ row.shelved = FALSE
    <2>1. PerLot \in Nat /\ 1 \in Nat /\ PerLot - 1 \in Nat  BY SettlementAssumption
    <2> DEFINE Row(s, r, a, j, d, e) ==
                  [status |-> s, received |-> r, accepted |-> a, rejected |-> j, disp |-> d,
                   evidence |-> e, refund |-> 0, shelved |-> FALSE]
    <2>2. \/ row = Row("RECEIVED", PerLot, Null, 0, "none", FALSE)
          \/ row = Row("UNDER_INSPECTION", PerLot, PerLot, 0, "RESTOCK", FALSE)
          \/ row = Row("UNDER_INSPECTION", 1, 1, 0, "RESTOCK", FALSE)
          \/ row = Row("APPROVED", PerLot, 1, PerLot - 1, "RESTOCK", TRUE)
          BY <1>4 DEF Stages, Fresh
    <2>3. ASSUME NEW s \in LotStatuses, NEW r \in Nat, NEW a \in Nat \cup {Null}, NEW j \in Nat,
                 NEW d \in {"none", "RESTOCK", "DISCARD"}, NEW e \in BOOLEAN,
                 s = "APPROVED" => a # Null, row = Row(s, r, a, j, d, e)
          PROVE  SoundRow(row) /\ row.refund = 0 /\ row.shelved = FALSE
          BY <2>3 DEF SoundRow, LotRow
    <2>4. {"RECEIVED", "UNDER_INSPECTION", "APPROVED"} \subseteq LotStatuses /\ Null \in Nat \cup {Null}
          BY DEF LotStatuses, Undecided
    <2>5. FALSE \in BOOLEAN /\ TRUE \in BOOLEAN /\ 0 \in Nat /\ 1 # Null /\ 1 \in Nat \cup {Null}
          /\ PerLot \in Nat \cup {Null}
          BY <2>1 DEF Null
    <2> HIDE DEF Row
    <2> QED  BY <2>1, <2>2, <2>3, <2>4, <2>5
  <1>5. SettlementType  BY <1>2, <1>4 DEF SettlementType, SoundRow
  <1>6. \A l \in Lots : lot[l].refund = 0 /\ lot[l].shelved = FALSE /\ returned[l] = 0 /\ money[l] = 0
        BY <1>2, <1>4
  <1>7. SettlementRead /\ SettlementPaid  BY <1>3, <1>6 DEF SettlementRead, SettlementPaid, Settling
  <1>8. SettlementKnown  BY <1>2, <1>3, <1>6 DEF SettlementKnown, LineInOrder, Settling
  <1> QED  BY <1>5, <1>7, <1>8 DEF SettlementInv

LEMMA SettlementShows == SettlementInv => SettledInOrder
  <1>1. SUFFICES ASSUME SettlementInv PROVE SettledInOrder  OBVIOUS
  <1>2. \A l \in Lots : returned[l] \in Nat /\ money[l] \in Nat /\ lot[l].refund \in Nat
        BY <1>1 DEF SettlementInv, SettlementType, SoundRow, LotRow
  <1> QED  BY <1>1, <1>2 DEF SettlementInv, SettlementPaid, SettlementKnown, LineInOrder, Alone, SettledInOrder

(* However batches that settle a return, inspections, parcels, refunds without an *)
(* answer and crashes interleave, no unit of a line is back on the shelf before    *)
(* Stripe has refunded the line; and unless two batches overlapped, or one and an  *)
(* inspection, what is shelved is what was refunded and accepted, and a line       *)
(* reported settled is (returns.service.js approveAndSettle, inspectLine).         *)
THEOREM SettlementStaysInOrder == Spec => []SettledInOrder
  <1>1. DeskInv /\ SettlementInv /\ [Next]_<<desk, everything>> => SettlementInv'
    <2>1. ASSUME DeskInv, SettlementInv, NEW h \in Handlers, Step(h) PROVE SettlementInv'
          BY <2>1, SettlementKept
    <2>2. ASSUME SettlementInv, UNCHANGED <<desk, everything>> PROVE SettlementInv'
          BY <2>2, DeskStutters, SettlementBeside DEF everything, returnsdesk
    <2> QED  BY <2>1, <2>2, Zenon DEF Next
  <1>2. Init => DeskInv  BY DeskBegins
  <1> QED  BY <1>1, <1>2, SettlementBegins, DeskIsKept, SettlementShows, PTL DEF Spec

(* So all of the money adds up: the wallet, the prices quoted, the settlement of    *)
(* standard returns and the split of a charge.                               *)
THEOREM MoneyAlwaysAddsUp == Spec => []MoneyAddsUp
  <1>1. WalletAddsUp /\ QuotesAreKept /\ SettledInOrder /\ SplitsAddUp => MoneyAddsUp
        BY DEF MoneyAddsUp
  <1> QED  BY <1>1, WalletStaysTrue, QuotesStayTrue, SettlementStaysInOrder, SplitsStayTrue, PTL

-----------------------------------------------------------------------------
(* Alerts once more: a notifier                                               *)
(* reads the rows that wait, mails, and writes that it has: in its turn it is alone. *)
LEMMA NotifierWent ==
    ASSUME DeskInv, AlertsInv, NEW h \in Handlers, Busy(h), req[h].kind = "notify", NEW plan, NEW read,
           GoOn(h, plan, read), plan \in {<<"mail">>, <<"told">>, <<>>}, AlertsType',
           \A s \in subs : \E t \in subs' : RowKept(s, t),
           InTurn({"notify"}) =>
               /\ \A u \in Shoppers : mails'[u] + Cardinality(Unsent(u)') <= arms'[u]
               /\ Sending(h)' => QueueWaits(h)'
    PROVE  AlertsInv'
  <1>1. OthersStay(h) /\ crossed' = crossed /\ crashed' = crashed  BY AfterGoOn
  <1>2. Busy(h)' => req'[h].todo = plan /\ req'[h].kind = "notify"  BY AfterGoOn
  <1>3. Busy(h)' <=> plan # <<>>  BY AfterGoOn
  <1>4. ASSUME NEW n, NEW u, Stands(n, u) PROVE Stands(n, u)'  BY <1>4 DEF Stands, RowKept
  <1>5. AlertsRead'
    <2>1. ASSUME NEW g \in Handlers, g # h, Busy(g)'
          PROVE  /\ req'[g].kind = "ask" => Asking(g)'
                 /\ req'[g].kind = "notify" => Notifying(g)'
          BY <1>1, <1>4, <2>1 DEF OthersStay, AlertsInv, AlertsRead, Asking, Notifying
    <2>2. Busy(h)' => Notifying(h)' /\ req'[h].kind = "notify"  BY <1>2, <1>3 DEF Notifying
    <2> QED  BY <2>1, <2>2 DEF AlertsRead
  <1>6. MailsOwed'
    <2>1. SUFFICES ASSUME InTurn({"notify"})' PROVE MailsOwed'  BY DEF MailsOwed
    <2>2. InTurn({"notify"})  BY <1>1, <2>1, NotifiersWereInTurn
    <2>3. \A g \in Handlers \ {h} : ~ Sending(g)'
          BY <1>1, <2>2, OneNotifies DEF OthersStay, Sending
    <2> QED  BY <2>2, <2>3 DEF MailsOwed
  <1> QED  BY <1>5, <1>6 DEF AlertsInv

LEMMA NobodyElseTells ==
    ASSUME DeskInv, InTurn({"notify"}), NEW h \in Handlers, Busy(h), req[h].kind = "notify", OthersStay(h),
           NEW g \in Handlers, g # h
    PROVE  ~ Telling(g) /\ ~ Telling(g)'
  BY OneNotifies DEF OthersStay, Telling

LEMMA GatherKeeps ==
    ASSUME DeskInv, AlertsInv, NEW h \in Handlers, Concerns(h, ShopperKinds), Gather(h)
    PROVE  AlertsInv'
  <1> DEFINE rows == {s \in subs : ~ s.told /\ product.active /\ Back(s)}
  <1>1. Busy(h) /\ At(h, "gather")  BY DEF Gather, At
  <1>2. req[h].kind = "notify" /\ req[h].todo = <<"gather">>  BY <1>1, AlertAtHand
  <1>3. PICK queue : /\ queue = {[n |-> s.n, user |-> s.user, fair |-> Sellable(OwnSize(s))] : s \in rows}
                     /\ IF queue = {} THEN Stop(h) ELSE GoOn(h, <<"mail">>, [queue |-> queue])
        BY Zenon DEF Gather
  <1>4. subs' = subs /\ arms' = arms /\ mails' = mails  BY DEF Gather, alerts
  <1>5. PICK plan, read : /\ plan = IF queue = {} THEN <<>> ELSE <<"mail">>
                          /\ read = IF queue = {} THEN {} ELSE [queue |-> queue]
        OBVIOUS
  <1>6. GoOn(h, plan, read)  BY <1>3, <1>5, Zenon DEF Stop
  <1>7. plan \in {<<"mail">>, <<"told">>, <<>>}  BY <1>5
  <1>8. OthersStay(h)  BY <1>1, <1>6, AfterGoOn
  <1>9. Busy(h)' <=> plan # <<>>  BY <1>1, <1>6, AfterGoOn
  <1>10. Busy(h)' => req'[h].todo = plan /\ req'[h].kind = req[h].kind /\ req'[h].read = read
        BY <1>1, <1>6, AfterGoOn
  <1>11. Numbered(subs) /\ AlertsType'  BY <1>4 DEF AlertsInv, AlertsType
  <1>12. ASSUME InTurn({"notify"})
         PROVE  /\ \A u \in Shoppers : mails'[u] + Cardinality(Unsent(u)') <= arms'[u]
                /\ Sending(h)' => QueueWaits(h)'
    <2>1. ~ Telling(h) /\ ~ Telling(h)'  BY <1>2, <1>5, <1>9, <1>10, AlertPlans DEF Telling
    <2>2. \A g \in Handlers : ~ Telling(g) /\ ~ Telling(g)'
          BY <1>1, <1>2, <1>8, <1>12, <2>1, NobodyElseTells
    <2>3. \A u : Unsent(u)' = Unsent(u)  BY <1>4, <2>2 DEF Unsent
    <2>4. \A u \in Shoppers : mails[u] + Cardinality(Unsent(u)) <= arms[u]
          BY <1>12 DEF AlertsInv, MailsOwed
    <2>5. ASSUME Sending(h)' PROVE QueueWaits(h)'
      <3>1. req'[h].read.queue = queue  BY <1>5, <1>9, <1>10, <2>5 DEF Sending
      <3>2. \A q \in queue : \E s \in subs : q.n = s.n /\ q.user = s.user /\ ~ s.told
                                             /\ q = [n |-> s.n, user |-> s.user, fair |-> Sellable(OwnSize(s))]
            BY <1>3
      <3>3. \A q \in queue : Unsaid(q.n, q.user)'  BY <1>4, <3>2 DEF Unsaid
      <3>4. \A q, r \in queue : q.n = r.n => q = r  BY <1>11, <3>2 DEF Numbered
      <3> QED  BY <2>1, <3>1, <3>3, <3>4 DEF QueueWaits
    <2> QED  BY <1>4, <2>3, <2>4, <2>5
  <1> QED  BY <1>1, <1>2, <1>4, <1>6, <1>7, <1>11, <1>12, NotifierWent DEF RowKept

LEMMA MailKeeps ==
    ASSUME DeskInv, AlertsInv, NEW h \in Handlers, Concerns(h, ShopperKinds), At(h, "mail"), Mail(h)
    PROVE  AlertsInv'
  <1>1. Busy(h) /\ At(h, "mail")  BY DEF At
  <1>2. req[h].kind = "notify" /\ req[h].todo = <<"mail">>  BY <1>1, AlertAtHand
  <1>3. PICK queue : queue = req[h].read.queue  OBVIOUS
  <1>4. PICK s \in queue :
           \/ /\ mails' = [mails EXCEPT ![s.user] = @ + 1]
              /\ GoOn(h, <<"told">>, [queue |-> queue \ {s}, sent |-> s.n])
           \/ /\ GoOn(h, IF queue \ {s} = {} THEN <<>> ELSE <<"mail">>, [queue |-> queue \ {s}])
              /\ mails' = mails
        BY <1>3, Zenon DEF Mail
  <1>5. subs' = subs /\ arms' = arms  BY Zenon DEF Mail
  <1>6. Numbered(subs) /\ arms \in [Shoppers -> Int] /\ mails \in [Shoppers -> Nat]
        BY DEF AlertsInv, AlertsType
  <1>7. mails' \in [Shoppers -> Nat] /\ AlertsType'
    <2>1. PICK u : u = s.user  OBVIOUS
    <2>2. mails' = [mails EXCEPT ![u] = @ + 1] \/ mails' = mails  BY <1>4, <2>1
    <2>3. mails' \in [Shoppers -> Nat]  BY <1>6, <2>2
    <2> QED  BY <1>5, <1>6, <2>3 DEF AlertsType
  <1>8. ASSUME InTurn({"notify"})
        PROVE  /\ QueueWaits(h) /\ ~ Telling(h)
               /\ \A u \in Shoppers : mails[u] + Cardinality(Unsent(u)) <= arms[u]
        BY <1>1, <1>2, <1>8, AlertPlans DEF AlertsInv, MailsOwed, Sending, Telling
  <1>9. ASSUME mails' = [mails EXCEPT ![s.user] = @ + 1],
               GoOn(h, <<"told">>, [queue |-> queue \ {s}, sent |-> s.n])
        PROVE  AlertsInv'
    <2>1. PICK plan, read : plan = <<"told">> /\ read = [queue |-> queue \ {s}, sent |-> s.n]
          OBVIOUS
    <2>2. GoOn(h, plan, read)  BY <1>9, <2>1
    <2>3. OthersStay(h)  BY <1>1, <2>2, AfterGoOn
    <2>4. Busy(h)' <=> plan # <<>>  BY <1>1, <2>2, AfterGoOn
    <2>5. Busy(h)' => req'[h].todo = plan /\ req'[h].kind = req[h].kind /\ req'[h].read = read
          BY <1>1, <2>2, AfterGoOn
    <2>6. Telling(h)' /\ req'[h].read.sent = s.n /\ req'[h].read.queue = queue \ {s}
          BY <1>2, <2>1, <2>4, <2>5, AlertPlans DEF Telling
    <2>7. ASSUME InTurn({"notify"})
          PROVE  /\ \A u \in Shoppers : mails'[u] + Cardinality(Unsent(u)') <= arms'[u]
                 /\ QueueWaits(h)'
      <3>1. \A g \in Handlers \ {h} : ~ Telling(g) /\ ~ Telling(g)'
            BY <1>1, <1>2, <2>3, <2>7, NobodyElseTells
      <3>2. \A u : /\ Unsent(u) = {t \in subs : t.user = u /\ ~ t.told}
                   /\ Unsent(u)' = {t \in subs : t.user = u /\ ~ t.told /\ t.n # s.n}
            BY <1>5, <1>8, <2>6, <2>7, <3>1 DEF Unsent
      <3>3. PICK x \in subs : x.n = s.n /\ x.user = s.user /\ ~ x.told
            BY <1>3, <1>8, <2>7 DEF QueueWaits, Unsaid
      <3>4. \A t \in subs : t.n = s.n => t = x  BY <1>6, <3>3 DEF Numbered
      <3>5. \A u \in Shoppers : mails[u] + Cardinality(Unsent(u)) <= arms[u]  BY <1>8, <2>7
      <3>6. ASSUME NEW u \in Shoppers PROVE mails'[u] + Cardinality(Unsent(u)') <= arms'[u]
        <4>1. CASE u # s.user
          <5>1. Unsent(u)' = Unsent(u)  BY <3>2, <3>3, <3>4, <4>1
          <5>2. mails'[u] = mails[u] /\ arms'[u] = arms[u]  BY <1>5, <1>6, <1>9, <4>1
          <5> QED  BY <3>5, <5>1, <5>2
        <4>2. CASE u = s.user
          <5>1. Unsent(u)' = Unsent(u) \ {x} /\ x \in Unsent(u) /\ IsFiniteSet(Unsent(u))
            <6>1. IsFiniteSet(Unsent(u))  BY <1>6, <3>2, FS_Subset DEF Numbered
            <6> QED  BY <3>2, <3>3, <3>4, <4>2, <6>1
          <5>2. PICK c, d : c = Unsent(u) /\ d = Unsent(u)'  OBVIOUS
          <5>3. Cardinality(d) = Cardinality(c) - 1 /\ Cardinality(c) \in Nat
                BY <5>1, <5>2, FS_RemoveElement, FS_CardinalityType
          <5>4. mails'[u] = mails[u] + 1 /\ arms'[u] = arms[u] /\ mails[u] \in Nat /\ arms[u] \in Int
                BY <1>5, <1>6, <1>9, <4>2
          <5>5. mails[u] + Cardinality(c) <= arms[u]  BY <3>5, <5>2
          <5>6. mails'[u] + Cardinality(d) <= arms'[u]  BY <5>3, <5>4, <5>5
          <5> QED  BY <5>2, <5>6
        <4> QED  BY <4>1, <4>2
      <3>7. QueueWaits(h)'
        <4>1. \A q \in queue \ {s} : Unsaid(q.n, q.user)' /\ q.n # s.n
              BY <1>3, <1>5, <1>8, <2>7 DEF QueueWaits, Unsaid
        <4>2. \A q, r \in queue : q.n = r.n => q = r  BY <1>3, <1>8, <2>7 DEF QueueWaits
        <4> QED  BY <2>6, <4>1, <4>2 DEF QueueWaits
      <3> QED  BY <3>6, <3>7
    <2>8. plan \in {<<"mail">>, <<"told">>, <<>>}  BY <2>1
    <2> QED  BY <1>1, <1>2, <1>5, <1>7, <2>2, <2>7, <2>8, NotifierWent DEF RowKept
  <1>10. ASSUME mails' = mails,
                GoOn(h, IF queue \ {s} = {} THEN <<>> ELSE <<"mail">>, [queue |-> queue \ {s}])
         PROVE  AlertsInv'
    <2>1. PICK plan, read : /\ plan = IF queue \ {s} = {} THEN <<>> ELSE <<"mail">>
                            /\ read = [queue |-> queue \ {s}]
          OBVIOUS
    <2>2. GoOn(h, plan, read)  BY <1>10, <2>1
    <2>3. OthersStay(h)  BY <1>1, <2>2, AfterGoOn
    <2>4. Busy(h)' <=> plan # <<>>  BY <1>1, <2>2, AfterGoOn
    <2>5. Busy(h)' => req'[h].todo = plan /\ req'[h].kind = req[h].kind /\ req'[h].read = read
          BY <1>1, <2>2, AfterGoOn
    <2>6. ~ Telling(h)' /\ (Busy(h)' => req'[h].read.queue = queue \ {s})
          BY <2>1, <2>4, <2>5, AlertPlans DEF Telling
    <2>7. ASSUME InTurn({"notify"})
          PROVE  /\ \A u \in Shoppers : mails'[u] + Cardinality(Unsent(u)') <= arms'[u]
                 /\ Sending(h)' => QueueWaits(h)'
      <3>1. \A g \in Handlers : ~ Telling(g) /\ ~ Telling(g)'
            BY <1>1, <1>2, <1>8, <2>3, <2>6, <2>7, NobodyElseTells
      <3>2. \A u : Unsent(u)' = Unsent(u)  BY <1>5, <3>1 DEF Unsent
      <3>3. \A q \in queue \ {s} : Unsaid(q.n, q.user)'
            BY <1>3, <1>5, <1>8, <2>7 DEF QueueWaits, Unsaid
      <3>4. \A q, r \in queue : q.n = r.n => q = r  BY <1>3, <1>8, <2>7 DEF QueueWaits
      <3>5. Sending(h)' => QueueWaits(h)'  BY <2>6, <3>3, <3>4 DEF QueueWaits, Sending
      <3> QED  BY <1>5, <1>8, <1>10, <2>7, <3>2, <3>5
    <2>8. plan \in {<<"mail">>, <<"told">>, <<>>}  BY <2>1
    <2> QED  BY <1>1, <1>2, <1>5, <1>7, <2>2, <2>7, <2>8, NotifierWent DEF RowKept
  <1> QED  BY <1>4, <1>9, <1>10

LEMMA MarkKeeps ==
    ASSUME DeskInv, AlertsInv, NEW h \in Handlers, Concerns(h, ShopperKinds), Mark(h)
    PROVE  AlertsInv'
  <1>1. Busy(h) /\ At(h, "told")  BY DEF Mark, At
  <1>2. req[h].kind = "notify" /\ req[h].todo = <<"told">>  BY <1>1, AlertAtHand
  <1>3. PICK queue, sent : queue = req[h].read.queue /\ sent = req[h].read.sent  OBVIOUS
  <1>4. /\ GoOn(h, IF queue = {} THEN <<>> ELSE <<"mail">>, [queue |-> queue])
        /\ subs' = {IF s.n = sent THEN [s EXCEPT !.told = TRUE] ELSE s : s \in subs}
        /\ arms' = arms /\ mails' = mails
        BY <1>3, Zenon DEF Mark
  <1>5. PICK plan, read : plan = (IF queue = {} THEN <<>> ELSE <<"mail">>) /\ read = [queue |-> queue]
        OBVIOUS
  <1>6. GoOn(h, plan, read)  BY <1>4, <1>5
  <1>7. OthersStay(h)  BY <1>1, <1>6, AfterGoOn
  <1>8. Busy(h)' <=> plan # <<>>  BY <1>1, <1>6, AfterGoOn
  <1>9. Busy(h)' => req'[h].todo = plan /\ req'[h].kind = req[h].kind /\ req'[h].read = read
        BY <1>1, <1>6, AfterGoOn
  <1>10. ~ Telling(h)' /\ (Busy(h)' => req'[h].read.queue = queue)
        BY <1>5, <1>8, <1>9, AlertPlans DEF Telling
  <1>11. Numbered(subs) /\ arms \in [Shoppers -> Int] /\ mails \in [Shoppers -> Nat]
        BY DEF AlertsInv, AlertsType
  <1>12. /\ Numbered(subs')
         /\ \A s \in subs : \E t \in subs' : RowKept(s, t) /\ (s.n # sent => t = s)
         /\ \A t \in subs' : \E s \in subs : RowKept(s, t) /\ (s.n # sent => t = s) /\ (s.n = sent => t.told)
    <2>1. PICK b, new : b = TRUE /\ new = Retold(subs, sent, b)  OBVIOUS
    <2>2. b \in BOOLEAN  BY <2>1
    <2>3. subs' = new  BY <1>4, <2>1 DEF Retold
    <2>5. new = Retold(subs, sent, b)  BY <2>1
    <2>4. /\ Numbered(new)
          /\ \A s \in subs : \E t \in new :
                 RowKept(s, t) /\ (s.n # sent => t = s) /\ (s.n = sent => t.told = b)
                 /\ (s.told = b => t = s)
          /\ \A t \in new : \E s \in subs :
                 RowKept(s, t) /\ (s.n # sent => t = s) /\ (s.n = sent => t.told = b)
          BY <1>11, <2>2, <2>5, RowsRetold
    <2> QED  BY <2>1, <2>3, <2>4
  <1>13. AlertsType'  BY <1>4, <1>11, <1>12 DEF AlertsType
  <1>14. ASSUME InTurn({"notify"})
         PROVE  /\ \A u \in Shoppers : mails'[u] + Cardinality(Unsent(u)') <= arms'[u]
                /\ Sending(h)' => QueueWaits(h)'
    <2>1. \A g \in Handlers \ {h} : ~ Telling(g) /\ ~ Telling(g)'
          BY <1>1, <1>2, <1>7, <1>14, NobodyElseTells
    <2>2. Telling(h) /\ Sending(h)  BY <1>1, <1>2 DEF Telling, Sending
    <2>3. \A u : /\ Unsent(u) = {t \in subs : t.user = u /\ ~ t.told /\ t.n # sent}
                 /\ Unsent(u)' = {t \in subs' : t.user = u /\ ~ t.told}
          BY <1>3, <1>10, <2>1, <2>2 DEF Unsent
    <2>4. ASSUME NEW t PROVE t \in subs' /\ ~ t.told <=> t \in subs /\ ~ t.told /\ t.n # sent
          BY <1>12 DEF RowKept
    <2>5. \A u : Unsent(u)' = Unsent(u)  BY <2>3, <2>4
    <2>6. QueueWaits(h) /\ \A u \in Shoppers : mails[u] + Cardinality(Unsent(u)) <= arms[u]
          BY <1>14, <2>2 DEF AlertsInv, MailsOwed
    <2>7. \A q \in queue : Unsaid(q.n, q.user)'  BY <1>3, <2>2, <2>4, <2>6 DEF QueueWaits, Unsaid
    <2>8. \A q, r \in queue : q.n = r.n => q = r  BY <1>3, <2>6 DEF QueueWaits
    <2>9. Sending(h)' => QueueWaits(h)'  BY <1>10, <2>7, <2>8 DEF QueueWaits, Sending
    <2> QED  BY <1>4, <2>5, <2>6, <2>9
  <1>15. plan \in {<<"mail">>, <<"told">>, <<>>}  BY <1>5
  <1> QED  BY <1>1, <1>2, <1>6, <1>12, <1>13, <1>14, <1>15, NotifierWent

LEMMA AlertsInvKept ==
    ASSUME DeskInv, AlertsInv, NEW h \in Handlers, Step(h)
    PROVE  AlertsInv'
  <1>1. CASE Concerns(h, ShopperKinds) /\ AlertsStep(h)
    <2>1. CASE Hook(h)  BY <2>1, NotifyKeeps DEF Hook, alerts
    <2>2. CASE Job(h)  BY <2>2, NotifyKeeps DEF Job, alerts
    <2> QED  BY <1>1, <2>1, <2>2, SubscribeKeeps, ToggleKeeps, ArmKeeps, EnrolKeeps, GatherKeeps,
                MailKeeps, MarkKeeps, Zenon DEF AlertsStep
  <1>2. CASE StoodBy(ShopperKinds) /\ UNCHANGED alerts  BY <1>2, AlertsBeside
  <1>3. CASE Crash(h) /\ UNCHANGED alerts  BY <1>3, AlertsCrash
  <1> QED  BY <1>1, <1>2, <1>3, AlertsOrNot

LEMMA AlertsBegin ==
    ASSUME Init
    PROVE  AlertsInv
  <1>1. /\ subs = {} /\ arms = [u \in Shoppers |-> 0] /\ mails = [u \in Shoppers |-> 0]
        BY DEF Init, AlertsInit
  <1>2. \A h \in Handlers : ~ Busy(h)  BY DEF Init, DeskInit, Idle, Busy
  <1>3. \A u : Unsent(u) = {}  BY <1>1 DEF Unsent
  <1>4. Cardinality({}) = 0 /\ IsFiniteSet({})  BY FS_EmptySet
  <1>5. MailsOwed  BY <1>1, <1>2, <1>3, <1>4 DEF MailsOwed, Sending
  <1> QED  BY <1>1, <1>2, <1>4, <1>5 DEF AlertsInv, AlertsType, Numbered, AlertsRead

LEMMA MailsAreOwed ==
    ASSUME AlertsInv, InTurn({"notify"}), NEW u \in Shoppers
    PROVE  mails[u] <= arms[u]
  <1>1. mails[u] \in Nat /\ arms[u] \in Int /\ IsFiniteSet(Unsent(u))
        BY FS_Subset DEF AlertsInv, AlertsType, Numbered, Unsent
  <1>2. Cardinality(Unsent(u)) \in Nat  BY <1>1, FS_CardinalityType
  <1>3. mails[u] + Cardinality(Unsent(u)) <= arms[u]  BY DEF AlertsInv, MailsOwed
  <1> QED  BY <1>1, <1>2, <1>3

-----------------------------------------------------------------------------
(* What shoppers are told: each waits for the size of the row he asked for,   *)
(* as long as there is that row; and a size that could not be sold is told of  *)
(* only while a row waits whose own is gone.                                 *)
OfSize(s) ==
    /\ s.variant \in 0 .. lastId
    /\ \A i \in Slots(product) : product.variants[i].id = s.variant => product.variants[i].sku = s.sku
Outlived == \E s \in subs : Live(product, s.variant) # s.variant
SizesStand ==
    /\ \A s \in subs : OfSize(s)
    /\ misled => Outlived
    /\ \A h \in Handlers : Sending(h) => \A q \in req[h].read.queue : q.fair \/ Outlived
LEMMA OutlivedStays ==
    ASSUME RowsStand, SizesStand, RowsFollow, \A s \in subs : \E t \in subs' : RowKept(s, t), Outlived
    PROVE  Outlived'
  <1>1. PICK s \in subs : Live(product, s.variant) # s.variant  BY DEF Outlived
  <1>2. s.variant \in 0 .. lastId /\ s.variant # 0
        /\ \A i \in Slots(product) : product.variants[i].id # s.variant
        BY <1>1 DEF Live, SizesStand, OfSize
  <1>3. \A i \in Slots(product') : product'.variants[i].id # s.variant
    <2>1. ASSUME NEW i \in Slots(product') PROVE product'.variants[i].id # s.variant
      <3>1. lastId \in Nat  BY DEF RowsStand
      <3>2. CASE product'.variants[i].id > lastId  BY <1>2, <3>1, <3>2
      <3> QED  BY <1>2, <2>1, <3>2 DEF RowsFollow
    <2> QED  BY <2>1
  <1>4. PICK t \in subs' : t.variant = s.variant  BY DEF RowKept
  <1>5. Live(product', t.variant) = 0  BY <1>3, <1>4 DEF Live
  <1> QED  BY <1>2, <1>4, <1>5 DEF Outlived

(* What a row that is there asks for; the row that asks goes on, or is new.    *)
RowsAsked ==
    /\ \A s \in subs : \E t \in subs' : RowKept(s, t)
    /\ \A t \in subs' : \/ \E s \in subs : RowKept(s, t)
                        \/ /\ t.variant \in Ids(product) /\ t.sku = SkuAt(product, t.variant)
                           /\ product' = product /\ lastId' = lastId

LEMMA OfSizeAsked ==
    ASSUME RowsStand, NEW t, t.variant \in Ids(product), t.sku = SkuAt(product, t.variant)
    PROVE  OfSize(t)
  <1>1. /\ lastId \in Nat /\ \A i \in Slots(product) : product.variants[i].id \in 1 .. lastId
        /\ \A i, j \in Slots(product) : product.variants[i].id = product.variants[j].id => i = j
        BY DEF RowsStand
  <1>2. t.variant \in 0 .. lastId  BY <1>1 DEF Ids
  <1>3. ASSUME NEW i \in Slots(product), product.variants[i].id = t.variant
        PROVE  product.variants[i].sku = t.sku
    <2>1. t.variant # 0  BY <1>1, <1>3
    <2>2. Slot(product, t.variant) = i  BY <1>1, <1>3 DEF Slot
    <2> QED  BY <2>1, <2>2 DEF SkuAt, RowOf
  <1> QED  BY <1>2, <1>3 DEF OfSize

LEMMA OfSizeStays ==
    ASSUME RowsStand, RowsFollow, lastId' \in Nat, NEW s, NEW t, OfSize(s), RowKept(s, t)
    PROVE  OfSize(t)'
  <1>1. lastId \in Nat /\ lastId <= lastId' /\ s.variant \in 0 .. lastId
        /\ t.variant = s.variant /\ t.sku = s.sku
        BY DEF RowsStand, RowsFollow, OfSize, RowKept
  <1>2. ASSUME NEW i \in Slots(product'), product'.variants[i].id = t.variant
        PROVE  product'.variants[i].sku = t.sku
    <2>1. ~ (product'.variants[i].id > lastId)  BY <1>1, <1>2
    <2>2. PICK j \in Slots(product) : /\ product.variants[j].id = product'.variants[i].id
                                      /\ product.variants[j].sku = product'.variants[i].sku
          BY <2>1 DEF RowsFollow
    <2> QED  BY <1>1, <1>2, <2>2 DEF OfSize
  <1>3. t.variant \in 0 .. lastId'  BY <1>1
  <1> QED  BY <1>2, <1>3 DEF OfSize

(* A row that is back, of what its shopper asked for, could be sold.          *)
LEMMA BackIsFair ==
    ASSUME RowsStand, NEW s, OfSize(s), Back(s), Live(product, s.variant) = s.variant
    PROVE  Sellable(OwnSize(s))
  <1>1. /\ lastId \in Nat /\ \A i \in Slots(product) : product.variants[i].id \in 1 .. lastId
        /\ \A i, j \in Slots(product) :
              /\ product.variants[i].id = product.variants[j].id => i = j
              /\ product.variants[i].sku = product.variants[j].sku => i = j
        BY DEF RowsStand
  <1>2. Sellable(Asked(product, s.variant))  BY DEF Back
  <1>3. CASE s.variant = 0  BY <1>2, <1>3 DEF Asked, OwnSize
  <1>4. CASE s.variant # 0
    <2>1. PICK i \in Slots(product) : product.variants[i].id = s.variant  BY <1>4 DEF Live
    <2>2. product.variants[i].sku = s.sku  BY <2>1 DEF OfSize
    <2>3. Slot(product, s.variant) = i  BY <1>1, <2>1 DEF Slot
    <2>4. (CHOOSE j \in Slots(product) : product.variants[j].sku = s.sku) = i  BY <1>1, <2>2
    <2>5. Asked(product, s.variant) = Available(product.variants[i])  BY <1>4, <2>3 DEF Asked, RowOf
    <2>6. s.sku \in Skus(product)  BY <2>2 DEF Skus
    <2>7. OwnSize(s) = Available(product.variants[i])  BY <1>4, <2>4, <2>6 DEF OwnSize
    <2> QED  BY <1>2, <2>5, <2>7
  <1> QED  BY <1>3, <1>4

(* Mails are of a queue, and a queue of rows that are back.                    *)
MailsRead ==
    /\ \A g \in Handlers : Sending(g)' => \A q \in req'[g].read.queue :
          \/ Sending(g) /\ q \in req[g].read.queue
          \/ \E s \in subs : Back(s) /\ (Sellable(OwnSize(s)) => q.fair)
    /\ misled' => misled \/ \E g \in Handlers : Sending(g) /\ \E q \in req[g].read.queue : ~ q.fair

LEMMA SizesKept ==
    ASSUME RowsStand, lastId' \in Nat, SizesStand, RowsFollow, RowsAsked, MailsRead
    PROVE  SizesStand'
  <1>1. ASSUME NEW t \in subs' PROVE OfSize(t)'
    <2>1. CASE \E s \in subs : RowKept(s, t)  BY <2>1, OfSizeStays DEF SizesStand
    <2>2. CASE t.variant \in Ids(product) /\ t.sku = SkuAt(product, t.variant)
               /\ product' = product /\ lastId' = lastId
      <3>1. OfSize(t)  BY <2>2, OfSizeAsked
      <3> QED  BY <2>2, <3>1 DEF OfSize
    <2> QED  BY <1>1, <2>1, <2>2 DEF RowsAsked
  <1>2. Outlived => Outlived'  BY OutlivedStays DEF RowsAsked
  <1>3. misled' => Outlived'
    <2>1. ASSUME misled' PROVE Outlived  BY <2>1 DEF SizesStand, MailsRead
    <2> QED  BY <1>2, <2>1
  <1>4. ASSUME NEW g \in Handlers, Sending(g)', NEW q \in req'[g].read.queue
        PROVE  q.fair \/ Outlived'
    <2>1. CASE Sending(g) /\ q \in req[g].read.queue  BY <1>2, <2>1 DEF SizesStand
    <2>2. ASSUME NEW s \in subs, Back(s), Sellable(OwnSize(s)) => q.fair
          PROVE  q.fair \/ Outlived'
      <3>1. CASE Live(product, s.variant) # s.variant  BY <1>2, <3>1 DEF Outlived
      <3>2. CASE Live(product, s.variant) = s.variant  BY <2>2, <3>2, BackIsFair DEF SizesStand
      <3> QED  BY <3>1, <3>2
    <2> QED  BY <1>4, <2>1, <2>2 DEF MailsRead
  <1> QED  BY <1>1, <1>3, <1>4 DEF SizesStand


LEMMA NoMails == ASSUME SendersStay, misled' = misled PROVE MailsRead
  BY DEF SendersStay, MailsRead, Sending

LEMMA RowsAskStill == ASSUME subs' = subs PROVE RowsAsked
  BY DEF RowsAsked, RowKept

LEMMA RowsArmed ==
    ASSUME AlertsInv, NEW u, NEW id, NEW known, ArmFor(u, id, known),
           \A found \in known : Stands(found.n, u)
    PROVE  RowsAsked /\ misled' = misled
  <1>1. /\ IF known # {} \/ id \in Ids(product) THEN subs' \in Armed(subs, u, id, known) ELSE subs' = subs
        /\ product' = product /\ lastId' = lastId /\ misled' = misled
        BY DEF ArmFor, catalogue
  <1>2. CASE subs' = subs  BY <1>1, <1>2, RowsAskStill
  <1>3. CASE (known # {} \/ id \in Ids(product)) /\ subs' \in Armed(subs, u, id, known)
    <2>1. PICK new \in Armed(subs, u, id, known) : new = subs'  BY <1>3
    <2>2. Numbered(subs)  BY DEF AlertsInv, AlertsType
    <2>3. /\ \A s \in subs : \E t \in new : RowKept(s, t) /\ (~ s.told => t = s)
          /\ \A t \in new : \/ \E s \in subs : RowKept(s, t)
                            \/ known = {} /\ t.variant = id /\ t.sku = SkuAt(product, id)
          BY <2>2, ArmedGrows
    <2> QED  BY <1>1, <1>3, <2>1, <2>3 DEF RowsAsked
  <1> QED  BY <1>1, <1>2, <1>3

(* The mailing of a queue: what it reads is of the queue there was.           *)
LEMMA QueueRead ==
    ASSUME DeskInv, AlertsInv, NEW h \in Handlers, Busy(h), req[h].kind = "notify", NEW plan, NEW read,
           GoOn(h, plan, read),
           Sending(h)' => \A q \in read.queue :
              \/ Sending(h) /\ q \in req[h].read.queue
              \/ \E s \in subs : Back(s) /\ (Sellable(OwnSize(s)) => q.fair),
           misled' => misled \/ (Sending(h) /\ \E q \in req[h].read.queue : ~ q.fair)
    PROVE  MailsRead
  <1>1. OthersStay(h)  BY AfterGoOn
  <1>2. Busy(h)' => req'[h].read = read  BY AfterGoOn
  <1>3. \A g \in Handlers \ {h} : Sending(g)' => Sending(g) /\ req'[g] = req[g]
        BY <1>1 DEF OthersStay, Sending
  <1>4. Sending(h)' => req'[h].read = read  BY <1>2 DEF Sending
  <1> QED  BY <1>3, <1>4 DEF MailsRead

LEMMA GatherReads ==
    ASSUME DeskInv, AlertsInv, NEW h \in Handlers, Concerns(h, ShopperKinds), Gather(h)
    PROVE  RowsAsked /\ MailsRead
  <1> DEFINE rows == {s \in subs : ~ s.told /\ product.active /\ Back(s)}
  <1>1. Busy(h) /\ At(h, "gather")  BY DEF Gather, At
  <1>2. req[h].kind = "notify"  BY <1>1, AlertAtHand
  <1>3. PICK queue : /\ queue = {[n |-> s.n, user |-> s.user, fair |-> Sellable(OwnSize(s))] : s \in rows}
                     /\ IF queue = {} THEN Stop(h) ELSE GoOn(h, <<"mail">>, [queue |-> queue])
        BY Zenon DEF Gather
  <1>4. subs' = subs /\ misled' = misled  BY DEF Gather, alerts
  <1>5. CASE queue = {}
    <2>1. PICK plan, read : plan = <<>> /\ read = {}  OBVIOUS
    <2>2. GoOn(h, plan, read)  BY <1>3, <1>5, <2>1 DEF Stop
    <2>3. ~ Busy(h)'  BY <1>1, <2>1, <2>2, AfterGoOn
    <2> QED  BY <1>1, <1>2, <1>4, <2>2, <2>3, QueueRead, RowsAskStill DEF Sending
  <1>6. CASE queue # {}
    <2>1. PICK plan, read : plan = <<"mail">> /\ read = [queue |-> queue]  OBVIOUS
    <2>2. GoOn(h, plan, read)  BY <1>3, <1>6, <2>1
    <2>3. read.queue = queue  BY <2>1
    <2>4. \A q \in queue : \E s \in rows : q = [n |-> s.n, user |-> s.user, fair |-> Sellable(OwnSize(s))]
          BY <1>3
    <2>5. \A q \in queue : \E s \in subs : Back(s) /\ (Sellable(OwnSize(s)) => q.fair)  BY <2>4
    <2> QED  BY <1>1, <1>2, <1>4, <2>2, <2>3, <2>5, QueueRead, RowsAskStill
  <1> QED  BY <1>5, <1>6

LEMMA MailReads ==
    ASSUME DeskInv, AlertsInv, NEW h \in Handlers, Concerns(h, ShopperKinds), At(h, "mail"), Mail(h)
    PROVE  RowsAsked /\ MailsRead
  <1>1. Busy(h)  BY DEF At
  <1>2. req[h].kind = "notify" /\ req[h].todo = <<"mail">> /\ Sending(h)
        BY <1>1, AlertAtHand DEF Sending
  <1>3. PICK queue : queue = req[h].read.queue  OBVIOUS
  <1>4. PICK s \in queue :
           \/ misled' = (misled \/ ~ s.fair) /\ GoOn(h, <<"told">>, [queue |-> queue \ {s}, sent |-> s.n])
           \/ /\ misled' = misled
              /\ GoOn(h, IF queue \ {s} = {} THEN <<>> ELSE <<"mail">>, [queue |-> queue \ {s}])
        BY <1>3, Zenon DEF Mail
  <1>5. subs' = subs  BY Zenon DEF Mail
  <1>6. \E plan, read : GoOn(h, plan, read) /\ read.queue = queue \ {s}
    <2>1. PICK one, two : one = [queue |-> queue \ {s}, sent |-> s.n] /\ two = [queue |-> queue \ {s}]
          OBVIOUS
    <2>2. one.queue = queue \ {s} /\ two.queue = queue \ {s}  BY <2>1
    <2> QED  BY <1>4, <2>1, <2>2
  <1>7. PICK plan, read : GoOn(h, plan, read) /\ read.queue = queue \ {s}  BY <1>6
  <1>8. misled' => misled \/ ~ s.fair  BY <1>4
  <1> QED  BY <1>1, <1>2, <1>3, <1>5, <1>7, <1>8, QueueRead, RowsAskStill

LEMMA MarkReads ==
    ASSUME DeskInv, AlertsInv, NEW h \in Handlers, Concerns(h, ShopperKinds), Mark(h)
    PROVE  RowsAsked /\ MailsRead
  <1>1. Busy(h) /\ At(h, "told")  BY DEF Mark, At
  <1>2. req[h].kind = "notify" /\ req[h].todo = <<"told">> /\ Sending(h)
        BY <1>1, AlertAtHand DEF Sending
  <1>3. PICK queue, sent, b : queue = req[h].read.queue /\ sent = req[h].read.sent /\ b = TRUE
        OBVIOUS
  <1>4. /\ GoOn(h, IF queue = {} THEN <<>> ELSE <<"mail">>, [queue |-> queue])
        /\ subs' = {IF s.n = sent THEN [s EXCEPT !.told = TRUE] ELSE s : s \in subs}
        /\ misled' = misled
        BY <1>3, Zenon DEF Mark
  <1>5. PICK plan, read : plan = (IF queue = {} THEN <<>> ELSE <<"mail">>) /\ read = [queue |-> queue]
        OBVIOUS
  <1>6. GoOn(h, plan, read)  BY <1>4, <1>5
  <1>7. read.queue = queue  BY <1>5
  <1>8. RowsAsked
    <2>1. PICK new : new = Retold(subs, sent, b)  OBVIOUS
    <2>2. subs' = new  BY <1>3, <1>4, <2>1 DEF Retold
    <2>3. Numbered(subs)  BY DEF AlertsInv, AlertsType
    <2>4. b \in BOOLEAN  BY <1>3
    <2>5. /\ \A s \in subs : \E t \in new : RowKept(s, t)
          /\ \A t \in new : \E s \in subs : RowKept(s, t)
          BY <2>1, <2>3, <2>4, RowsRetold
    <2> QED  BY <2>2, <2>5 DEF RowsAsked
  <1> QED  BY <1>1, <1>2, <1>3, <1>4, <1>6, <1>7, <1>8, QueueRead

LEMMA SizesRead ==
    ASSUME DeskInv, AlertsInv, NEW h \in Handlers, Step(h)
    PROVE  RowsAsked /\ MailsRead
  <1>1. CASE Concerns(h, ShopperKinds) /\ AlertsStep(h)
    <2>1. CASE Subscribe(h)
      <3>1. SendersStay  BY <2>1, SubscribeKeeps
      <3> QED  BY <2>1, <3>1, NoMails, RowsAskStill DEF Subscribe, alerts
    <2>2. CASE Toggle(h)
      <3>1. SendersStay  BY <2>2, ToggleKeeps
      <3> QED  BY <2>2, <3>1, NoMails, RowsAskStill DEF Toggle
    <2>3. CASE Arm(h)
      <3>1. SendersStay  BY <1>1, <2>3, ArmKeeps
      <3>2. Asking(h)  BY <1>1, <2>3, AlertAtHand DEF Arm, At
      <3>3. PICK read : read = req[h].read  OBVIOUS
      <3>4. ArmFor(read.user, read.id, read.known) /\ \A found \in read.known : Stands(found.n, read.user)
            BY <2>3, <3>2, <3>3 DEF Arm, Asking
      <3> QED  BY <3>1, <3>4, RowsArmed, NoMails
    <2>4. CASE Hook(h) \/ Job(h)
      <3>1. \E hook : Notify(h, hook)  BY <2>4, Zenon DEF Hook, Job
      <3>2. UNCHANGED alerts  BY <2>4, Zenon DEF Hook, Job
      <3>3. subs' = subs /\ arms' = arms /\ mails' = mails /\ misled' = misled  BY <3>2 DEF alerts
      <3>4. SendersStay  BY <3>1, <3>3, NotifyKeeps
      <3> QED  BY <3>3, <3>4, NoMails, RowsAskStill
    <2>5. CASE At(h, "enrol") /\ Enrol(h)
      <3>1. SendersStay  BY <1>1, <2>5, EnrolKeeps
      <3>2. \E w \in req[h].read.left : ArmFor(w.user, w.id, Found(subs, w.user, w.id))
            BY <2>5, Zenon DEF Enrol
      <3>3. RowsAsked /\ misled' = misled  BY <3>2, FoundStand, RowsArmed
      <3> QED  BY <3>1, <3>3, NoMails
    <2> QED  BY <1>1, <2>1, <2>2, <2>3, <2>4, <2>5, GatherReads, MailReads, MarkReads, Zenon DEF AlertsStep
  <1>2. CASE (StoodBy(ShopperKinds) \/ Crash(h)) /\ UNCHANGED alerts
    <2>1. SendersStay  BY <1>2, AlertsBeside, AlertsCrash
    <2>2. subs' = subs /\ misled' = misled  BY <1>2 DEF alerts
    <2> QED  BY <2>1, <2>2, NoMails, RowsAskStill
  <1> QED  BY <1>1, <1>2, AlertsOrNot

(* However hooks, jobs and requests for alerts interleave with whatever else   *)
(* the back office does, and stop midway: a shopper is mailed at most once for  *)
(* each time he asked, unless two notifiers overlapped or one stopped between    *)
(* a mail and the row that says so (stock-alert.service.js                      *)
(* notifyProductBackInStock); and a mail about a size that could not be sold     *)
(* takes a row whose own size is gone, replaced by a save of the form             *)
(* (product.service.js).                                                        *)
THEOREM ShoppersToldOnce == Spec => []ToldOnce
  <1>1. Init => DeskInv /\ LabelInv /\ AlertsInv /\ SizesStand
    <2>1. ASSUME Init PROVE SizesStand
      <3>1. subs = {} /\ misled = FALSE /\ \A h \in Handlers : ~ Busy(h)
            BY <2>1 DEF Init, AlertsInit, DeskInit, Idle, Busy
      <3> QED  BY <3>1 DEF SizesStand, Sending
    <2> QED  BY <2>1, DeskBegins, LabelsBegin, AlertsBegin DEF Init
  <1>2. DeskInv /\ LabelInv /\ AlertsInv /\ SizesStand /\ [Next]_<<desk, everything>>
            => DeskInv' /\ LabelInv' /\ AlertsInv' /\ SizesStand'
    <2>1. ASSUME DeskInv, LabelInv, AlertsInv, SizesStand, NEW h \in Handlers, Step(h)
          PROVE  LabelInv' /\ AlertsInv' /\ SizesStand'
      <3>1. LabelInv' /\ RowsFollow  BY <2>1, LabelsKept
      <3>2. AlertsInv'  BY <2>1, AlertsInvKept
      <3>3. RowsAsked /\ MailsRead  BY <2>1, SizesRead
      <3>4. RowsStand /\ lastId' \in Nat  BY <2>1, <3>1 DEF LabelInv, RowsStand
      <3>5. SizesStand'  BY <2>1, <3>1, <3>3, <3>4, SizesKept
      <3> QED  BY <3>1, <3>2, <3>5
    <2>2. ASSUME DeskInv, LabelInv, AlertsInv, SizesStand, UNCHANGED <<desk, everything>>
          PROVE  LabelInv' /\ AlertsInv' /\ SizesStand'
      <3>1. UNCHANGED desk /\ UNCHANGED stock  BY <2>2, Zenon DEF everything
      <3>2. LabelInv'  BY <2>2, <3>1, DeskStutters, LabelsBeside
      <3>3. UNCHANGED catalogue /\ UNCHANGED alerts  BY <3>1, Zenon DEF stock
      <3>4. AlertsInv'  BY <2>2, <3>1, <3>3, DeskStutters, AlertsBeside
      <3>5. /\ product' = product /\ lastId' = lastId /\ subs' = subs /\ misled' = misled
            /\ req' = req
            BY <3>1, <3>3 DEF catalogue, alerts, desk
      <3>6. SizesStand'  BY <2>2, <3>5 DEF SizesStand, OfSize, Outlived, Sending, Busy
      <3> QED  BY <3>2, <3>4, <3>6
    <2> QED  BY <2>1, <2>2, DeskIsKept, Zenon DEF Next
  <1>3. AlertsInv /\ SizesStand => ToldOnce  BY MailsAreOwed DEF SizesStand, Outlived, ToldOnce
  <1> QED  BY <1>1, <1>2, <1>3, PTL DEF Spec
=============================================================================
