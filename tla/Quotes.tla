------------------------------- MODULE Quotes -------------------------------
(***************************************************************************)
(* What a shopper is shown and what he is charged: the cart, the quote, the    *)
(* checkout intent that is made or used again for it and the payment it is      *)
(* charged with (services/cart-validation.service.js, calculateCheckoutQuote     *)
(* of services/order.service.js, services/checkout-intent.service.js).  The      *)
(* amounts are computed twice, by the quote and by the checkout, from rows that   *)
(* may change between them; Checkout has the same intents without amounts, and    *)
(* the steps of their release.                                               *)
(***************************************************************************)
EXTENDS Desk, FiniteSetsExt

CONSTANTS
    Baskets,     \* checkout intents of one shopper
    Tags,        \* what a product may cost: [price, override, member, memberOverride]
    Wishes,      \* what the shopper may want: [n, joins, code, credit, tier]
    Units,       \* units of the product
    SellFrom,    \* minSellableUnits of its type
    Fare,        \* the cheapest rate of those who are no members
    Dues,        \* accessMembershipPriceUsd
    FreeFrom,    \* freeShippingThresholdUsd
    TaxPercent,  \* salesTaxRate
    MinCharge    \* the least Stripe charges

ASSUME QuotesAssumption ==
    /\ Tags \subseteq [price : Nat, override : Nat, member : Nat, memberOverride : Nat]
    /\ Wishes \subseteq [n : Nat, joins : BOOLEAN, code : BOOLEAN, credit : Nat,
                        tier : {"any", "ground", "express"}]
    /\ {Units, SellFrom, Fare, FreeFrom, TaxPercent} \subseteq Nat
    /\ {Dues, MinCharge} \subseteq Nat \ {0}

VARIABLES
    tag,      \* the product and its variant: what they cost, whether listed, units
    buyer,    \* the shopper: access, whether the shared code is good, wallet
    basket,   \* CheckoutIntent rows
    offer,    \* the quote on the shopper's page
    lastCharge,  \* history: the offer and the basket of the last charge
    epoch     \* history: changes of prices, access, codes and wallet so far

quotes == <<tag, buyer, basket, offer, lastCharge, epoch>>

NoPrice == 0    \* a price that is not set
AnyRate == [tier |-> "any", amount |-> 0]
NoOffer == [n |-> 0]
NoBasket == [state |-> "none"]
OpenBaskets == {b \in Baskets : basket[b].state = "PENDING"}

QuotesInit ==
    /\ \E t \in Tags : tag = [cost |-> t, listed |-> TRUE, units |-> Units, reserved |-> 0]
    /\ \E credit \in {w.credit : w \in Wishes} :
          buyer = [access |-> FALSE, code |-> TRUE, balance |-> credit, held |-> 0]
    /\ basket = [b \in Baskets |-> NoBasket]
    /\ offer = NoOffer /\ lastCharge = [row |-> NoBasket] /\ epoch = 0

-----------------------------------------------------------------------------
(* Prices: the variant's before the product's, and with access no more than   *)
(* the members' price.                                                       *)
OwnOr(p, q) == IF p # NoPrice THEN p ELSE q
UnitPrice(cost, access) ==
    LET retail == OwnOr(cost.override, cost.price)
        cap == OwnOr(cost.memberOverride, cost.member)
    IN  IF access /\ cap # NoPrice THEN Min({retail, cap}) ELSE retail

(* applyFreeShippingWaiver                                                   *)
Waived(subtotal, amount) == IF subtotal >= FreeFrom THEN 0 ELSE amount

(* What the carrier, or without it the demo, has on offer; ground costs demo    *)
(* members nothing.  The first is the cheapest, a rate is known by its service   *)
(* and its amount.                                                           *)
Carriers == {"ups", "demo"}
Rates(carrier, access) ==
    LET ground == IF carrier = "ups" THEN Fare + 1 ELSE IF access THEN 0 ELSE Fare
    IN  <<[tier |-> "ground", amount |-> ground], [tier |-> "express", amount |-> 2 * Fare + 1]>>
RateSet(rates) == {rates[i] : i \in DOMAIN rates}
(* resolveSelectedRate: a rate that is no longer offered is refused.           *)
Resolves(rates, rate) == rate = AnyRate \/ rate \in RateSet(rates)
Selected(rates, rate) == IF rate = AnyRate THEN rates[1] ELSE rate
(* matchRateByServiceTier                                                    *)
SameTier(rates, rate) == CHOOSE r \in RateSet(rates) : r.tier = rate.tier

Tax(subtotal, credit) == (Max({0, subtotal - credit}) * TaxPercent + 50) \div 100
(* computeCheckoutTotal                                                      *)
Payable(subtotal, shipping, dues, credit) ==
    Max({0, subtotal + shipping + dues - credit + Tax(subtotal, credit)})

-----------------------------------------------------------------------------
(* validateCartLines: a line that cannot be sold is removed, one of more units  *)
(* than there are is cut down.                                               *)
OnSale == tag.units - tag.reserved
InCart == tag.listed /\ OnSale >= SellFrom /\ OnSale > 0
Cut(n) == Min({n, OnSale})
(* assertNoMaterialCartChanges                                               *)
Unchanged(n) == InCart /\ Cut(n) = n

(* Who buys: a member, one who joins with this order, or one with a code        *)
Joins(w) == w.joins /\ ~ buyer.access
UsesCode(w) == w.code /\ ~ buyer.access /\ ~ Joins(w)
Entitled(w) == buyer.access \/ Joins(w) \/ UsesCode(w)
Allowed(w) == UsesCode(w) => buyer.code

(* accessSavings: what membership saves on this cart, or has saved             *)
SavedOn(w, n, source, rate) ==
    LET retail == n * UnitPrice(tag.cost, FALSE)
        member == n * UnitPrice(tag.cost, TRUE)
        applied == IF Entitled(w) THEN member ELSE retail
        compared == SameTier(Rates(source, ~ Joins(w)), rate)
        here == Waived(applied, rate.amount)
        there == Waived(applied, compared.amount)
    IN  IF buyer.access THEN 0
        ELSE Max({0, IF Joins(w) THEN retail - applied ELSE applied - member})
             + Max({0, IF Joins(w) THEN there - here ELSE here - there})

(* The quote's own sum, of goods with their tax, shipping and membership         *)
QuotedTotal(subtotal, shipping, dues, credit) ==
    LET taxed == Max({0, subtotal - credit}) * (100 + TaxPercent)
        beyond == Max({0, credit - subtotal})
    IN  Max({0, (taxed + 50) \div 100 + shipping + dues - beyond})

(* calculateCheckoutQuote                                                    *)
Quote(h) ==
    \E w \in Wishes, source \in Carriers :
        LET n == Cut(w.n)
            rates == Rates(source, Entitled(w))
            rate == IF w.tier = "any" THEN rates[1] ELSE SameTier(rates, w)
            subtotal == n * UnitPrice(tag.cost, Entitled(w))
            shipping == Waived(subtotal, rate.amount)
            dues == IF Joins(w) THEN Dues ELSE 0
            credit == Min({w.credit, buyer.balance, subtotal + shipping + dues})
        IN  /\ Begin(h, "quote", <<>>, {})
            /\ IF InCart /\ Allowed(w)
               THEN offer' = [n |-> n, wish |-> w, rate |-> rate, credit |-> credit, at |-> epoch,
                              total |-> QuotedTotal(subtotal, shipping, dues, credit),
                              saved |-> SavedOn(w, n, source, rate),
                              cost |-> tag.cost, source |-> source,
                              already |-> buyer.access \/ UsesCode(w)]
               ELSE UNCHANGED offer
            /\ UNCHANGED <<tag, buyer, basket, lastCharge, epoch>>

-----------------------------------------------------------------------------
(* createOrderPaymentIntent, for what the page shows                         *)
AskToPay(h) ==
    /\ offer # NoOffer
    /\ \E rate \in {AnyRate, offer.rate} :
          Begin(h, "checkout", IF Unchanged(offer.n) THEN <<"find">> ELSE <<>>,
                [offer |-> offer, rate |-> rate])
    /\ UNCHANGED quotes

(* buildCheckoutSignature of a request, and of a row                          *)
SignatureOf(read) ==
    [n |-> read.offer.n, rate |-> read.rate, credit |-> read.offer.wish.credit,
     joins |-> read.offer.wish.joins, code |-> read.offer.wish.code]
SignatureOfRow(b) ==
    [n |-> basket[b].n, rate |-> basket[b].rate, credit |-> basket[b].credit,
     joins |-> basket[b].dues > 0, code |-> basket[b].shared]

(* resolveCheckoutIntent                                                     *)
UseAgain(h) ==
    /\ At(h, "find")
    /\ \E b \in OpenBaskets :
          /\ SignatureOfRow(b) = SignatureOf(req[h].read)
          /\ GoOn(h, <<"oust", "charge">>, [offer |-> req[h].read.offer, basket |-> b])
    /\ UNCHANGED quotes

MakeAnew(h) ==
    LET w == req[h].read.offer.wish
    IN  /\ At(h, "find")
        /\ \A b \in OpenBaskets : SignatureOfRow(b) # SignatureOf(req[h].read)
        /\ IF Unchanged(req[h].read.offer.n) /\ Allowed(w)
           THEN GoOn(h, <<"book", "fare", "apply", "amount", "oust", "charge">>,
                     [offer |-> req[h].read.offer, rate |-> req[h].read.rate,
                      access |-> Entitled(w), shared |-> UsesCode(w), at |-> epoch,
                      dues |-> IF Joins(w) THEN Dues ELSE 0])
           ELSE Stop(h)
        /\ UNCHANGED quotes

(* createCheckoutIntent: its transaction, which prices and reserves.  Who buys   *)
(* was read before it: the two may be of different times.                      *)
Mixed == -1
Book(h) ==
    LET read == req[h].read
        n == read.offer.n
        subtotal == n * UnitPrice(tag.cost, read.access)
    IN  /\ At(h, "book")
        /\ IF ~ Unchanged(n) THEN Stop(h) /\ UNCHANGED <<tag, basket>>
           ELSE \E b \in Baskets :
                  /\ basket[b] = NoBasket
                  /\ tag' = [tag EXCEPT !.reserved = @ + n]
                  /\ basket' = [basket EXCEPT ![b] =
                        [state |-> "PENDING", n |-> n, rate |-> AnyRate, credit |-> 0,
                         subtotal |-> subtotal, shipping |-> 0, dues |-> read.dues,
                         total |-> subtotal + read.dues, shared |-> read.shared,
                         from |-> IF read.at = epoch THEN epoch ELSE Mixed,
                         done |-> FALSE, charge |-> 0]]
                  /\ GoOn(h, Tail(req[h].todo),
                          [offer |-> read.offer, rate |-> read.rate, access |-> read.access,
                           basket |-> b])
        /\ UNCHANGED <<buyer, offer, lastCharge, epoch>>

(* releaseIntentResources, and the row's end                                 *)
Given(b, state) ==
    /\ tag' = [tag EXCEPT !.reserved = @ - Min({@, basket[b].n})]
    /\ buyer' = [buyer EXCEPT !.held = @ - Min({@, basket[b].credit})]
    /\ basket' = [basket EXCEPT ![b].state = state]

(* The rates are asked for again; the one chosen may be gone.                 *)
AskRates(h) ==
    LET read == req[h].read
    IN  /\ At(h, "fare")
        /\ \E source \in Carriers :
              LET rates == Rates(source, read.access)
              IN  IF Resolves(rates, read.rate)
                  THEN /\ GoOn(h, Tail(req[h].todo),
                               [offer |-> read.offer, basket |-> read.basket, credit |-> 0,
                                rate |-> Selected(rates, read.rate)])
                       /\ UNCHANGED <<tag, buyer, basket>>
                  ELSE Stop(h) /\ Given(read.basket, "FAILED")
        /\ UNCHANGED <<offer, lastCharge, epoch>>

(* holdCredit: what was asked for, as far as it is free; the row learns of it    *)
(* with the amounts.                                                         *)
ApplyCredit(h) ==
    LET read == req[h].read
        asked == read.offer.wish.credit
        credit == Min({asked, Max({0, buyer.balance - buyer.held})})
    IN  /\ At(h, "apply")
        /\ IF asked > 0 /\ credit = 0 THEN Stop(h) /\ Given(read.basket, "FAILED")
           ELSE /\ buyer' = [buyer EXCEPT !.held = @ + credit]
                /\ GoOn(h, Tail(req[h].todo), [read EXCEPT !.credit = credit])
                /\ UNCHANGED <<tag, basket>>
        /\ UNCHANGED <<offer, lastCharge, epoch>>

WriteAmounts(h) ==
    LET read == req[h].read
        b == read.basket
        row == basket[b]
        shipping == Waived(row.subtotal, read.rate.amount)
    IN  /\ At(h, "amount") /\ Proceed(h)
        /\ basket' = [basket EXCEPT ![b] =
              [@ EXCEPT !.rate = read.rate, !.shipping = shipping, !.credit = read.credit,
                        !.done = TRUE,
                        !.total = Payable(row.subtotal, shipping, row.dues, read.credit)]]
        /\ UNCHANGED <<tag, buyer, offer, lastCharge, epoch>>

(* supersedeOtherIntents, one after another                                   *)
Oust(h) ==
    LET others == OpenBaskets \ {req[h].read.basket}
    IN  /\ At(h, "oust")
        /\ \/ others = {} /\ Proceed(h) /\ UNCHANGED quotes
           \/ /\ \E b \in others : Given(b, "FAILED")
              /\ UNCHANGED <<desk, offer, lastCharge, epoch>>

(* ensureCheckoutPaymentIntent: what the row now says, if it is enough         *)
Charge(h) ==
    LET b == req[h].read.basket
    IN  /\ At(h, "charge") /\ Stop(h)
        /\ IF basket[b].total < MinCharge THEN UNCHANGED <<basket, lastCharge>>
           ELSE /\ basket' = [basket EXCEPT ![b].charge = basket[b].total]
                /\ lastCharge' = [offer |-> req[h].read.offer, row |-> basket[b]]
        /\ UNCHANGED <<tag, buyer, offer, epoch>>

-----------------------------------------------------------------------------
(* The shopper pays: the order is made, units and credit are taken.            *)
BasketPaid(h) ==
    \E b \in OpenBaskets :
        LET taken == Min({buyer.held, basket[b].credit})
        IN  /\ basket[b].charge > 0
            /\ Begin(h, "paid", <<>>, {})
            /\ basket' = [basket EXCEPT ![b].state = "CONSUMED"]
            /\ tag' = [tag EXCEPT !.units = @ - basket[b].n, !.reserved = @ - basket[b].n]
            /\ buyer' = [buyer EXCEPT !.balance = @ - taken, !.held = @ - taken]
            /\ epoch' = IF taken > 0 THEN epoch + 1 ELSE epoch
            /\ UNCHANGED <<offer, lastCharge>>

(* Intents that nobody paid in time                                          *)
BasketLapses(h) ==
    \E b \in OpenBaskets :
        /\ \A g \in Doing({"checkout"}) : "basket" \in DOMAIN req[g].read => req[g].read.basket # b
        /\ Begin(h, "lapse", <<>>, {})
        /\ Given(b, "EXPIRED")
        /\ UNCHANGED <<offer, lastCharge, epoch>>

(* Staff change the price or the listing; a membership begins or ends; a code   *)
(* is revoked; credit is earned.                                             *)
ShopChanges(h) ==
    /\ Begin(h, "change", <<>>, {})
    /\ epoch' = epoch + 1
    /\ \/ /\ \E t \in Tags, listed \in BOOLEAN : tag' = [tag EXCEPT !.cost = t, !.listed = listed]
          /\ UNCHANGED buyer
       \/ /\ buyer' \in {[buyer EXCEPT !.access = ~ @], [buyer EXCEPT !.code = FALSE],
                         [buyer EXCEPT !.balance = @ + 1]}
          /\ UNCHANGED tag
    /\ UNCHANGED <<basket, offer, lastCharge>>

QuotesStep(h) ==
    \/ Quote(h) \/ AskToPay(h) \/ UseAgain(h) \/ MakeAnew(h) \/ Book(h) \/ AskRates(h)
    \/ ApplyCredit(h) \/ WriteAmounts(h) \/ Oust(h) \/ Charge(h)
    \/ BasketPaid(h) \/ BasketLapses(h) \/ ShopChanges(h)

-----------------------------------------------------------------------------
(* A shopper is charged what he was shown, to the cent, when the rate he chose   *)
(* was booked, nothing that prices depend on has changed since, nor while the     *)
(* checkout was made that is charged, and the credit he was shown could be held. *)
ChargedAsShown ==
    lastCharge.row # NoBasket =>
        LET row == lastCharge.row
            shown == lastCharge.offer
        IN  row.done /\ row.from = shown.at /\ row.rate = shown.rate /\ row.credit = shown.credit
            => row.total = shown.total

(* Money and credit together pay for what was bought, unless the payment was     *)
(* made by another request before the amounts were written, or they never were.  *)
PaidInFull ==
    \A b \in Baskets :
        LET row == basket[b]
        IN  row.state = "CONSUMED" /\ row.done /\ Apart("checkout", "checkout") =>
              row.charge + row.credit
                  = row.subtotal + row.shipping + row.dues + Tax(row.subtotal, row.credit)

(* One checkout at a time is open for the shopper ("One pending order per        *)
(* checkout fingerprint"), unless two requests made theirs at once, or one        *)
(* stopped midway.                                                           *)
OneOpen == InTurn({"checkout"}) /\ Quiet({"checkout"}) => Cardinality(OpenBaskets) <= 1

(* What membership is said to save is what it saves, unless free shipping begins  *)
(* between the two subtotals.                                                *)
SavesAsSaid ==
    offer # NoOffer /\ ~ offer.already =>
        LET retail == offer.n * UnitPrice(offer.cost, FALSE)
            member == offer.n * UnitPrice(offer.cost, TRUE)
            rate(access) == SameTier(Rates(offer.source, access), offer.rate)
            shipped(subtotal, access) == subtotal + Waived(subtotal, rate(access).amount)
        IN  (retail >= FreeFrom <=> member >= FreeFrom) =>
              offer.saved = shipped(retail, FALSE) - shipped(member, TRUE)

QuotesAreKept == ChargedAsShown /\ PaidInFull /\ OneOpen /\ SavesAsSaid
=============================================================================
