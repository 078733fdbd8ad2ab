------------------------------- MODULE Wallet -------------------------------
(***************************************************************************)
(* The store credit of one customer (services/wallet.service.js): credit is    *)
(* earned by a returned unit, held for a checkout, redeemed or released, and    *)
(* given back for a cancelled order.  What moves it takes the wallet's row       *)
(* lock, but a request looks for the row with its key before it has the lock.  *)
(* Checkout and Refunds have what their orders do with credit; here are the      *)
(* wallet's own rows.                                                        *)
(***************************************************************************)
EXTENDS Desk, FiniteSetsExt, Functions

CONSTANTS
    Sources,      \* sourceKeys: what earns credit, or gives it back
    Spendings,    \* the orders credit is held for
    Credits       \* amounts of credit

ASSUME WalletAssumption == IsFiniteSet(Spendings) /\ Credits \subseteq Nat \ {0}

VARIABLES
    wallet,     \* StoreCreditWallet: whether it is there, balance, heldBalance
    entry,      \* StoreCreditTransaction rows
    onHold      \* history: what each order has on hold

wallets == <<wallet, entry, onHold>>

NoKey == "none"
WalletInit ==
    /\ wallet = [there |-> FALSE, balance |-> 0, held |-> 0]
    /\ entry = <<>> /\ onHold = [o \in Spendings |-> 0]

AvailableCredit == Max({0, wallet.balance - wallet.held})
Entered(key) == \E i \in DOMAIN entry : entry[i].key = key
Enter(type, amount, key) == entry' = Append(entry, [type |-> type, amount |-> amount, key |-> key])
Moves(balance, held) ==
    wallet' = [there |-> TRUE, balance |-> wallet.balance + balance, held |-> wallet.held + held]

-----------------------------------------------------------------------------
(* getWallet makes the wallet at the first look; two first looks at once make   *)
(* one of them fail.                                                         *)
ViewWallet(h) ==
    /\ Begin(h, "view", IF wallet.there THEN <<>> ELSE <<"first">>, <<>>)
    /\ UNCHANGED wallets

MakeWallet(h) ==
    /\ At(h, "first") /\ Stop(h)
    /\ wallet' = [wallet EXCEPT !.there = TRUE]
    /\ UNCHANGED <<entry, onHold>>

(* awardEarnedCreditInTx and refundRedeemedCreditInTx: nothing for a key that   *)
(* has a row                                                                 *)
Award(h) ==
    \E key \in Sources, amount \in Credits, kind \in {"award", "restore"} :
        /\ Begin(h, kind, IF Entered(key) THEN <<>> ELSE <<"credit">>, [key |-> key, amount |-> amount])
        /\ UNCHANGED wallets

(* Fault: a row with the key does not fail the transaction.                   *)
TwiceCommits(key) == FALSE

(* The key of another row fails the statement, and with it the transaction;     *)
(* that the error is caught does not change that.                            *)
RolledBack(key) == Entered(key)

Credit(h, type) ==
    LET key == req[h].read.key
        amount == req[h].read.amount
    IN  IF RolledBack(key) THEN UNCHANGED <<wallet, entry>>
        ELSE /\ Moves(amount, 0)
             /\ IF Entered(key) THEN UNCHANGED entry ELSE Enter(type, amount, key)

CreditEarned(h) ==
    /\ At(h, "credit") /\ req[h].kind = "award" /\ Stop(h)
    /\ Credit(h, "EARNED") /\ UNCHANGED onHold

CreditRestored(h) ==
    /\ At(h, "credit") /\ req[h].kind = "restore" /\ Stop(h)
    /\ Credit(h, "ADJUSTED") /\ UNCHANGED onHold

(* holdCredit: as much as is asked for and there is                          *)
Hold(h) ==
    \E o \in Spendings, asked \in Credits :
        LET amount == Min({asked, AvailableCredit})
        IN  /\ onHold[o] = 0 /\ amount > 0
            /\ Begin(h, "hold", <<>>, {})
            /\ Moves(0, amount) /\ Enter("HOLD", -amount, NoKey)
            /\ onHold' = [onHold EXCEPT ![o] = amount]

(* An order that is paid, or given up, has its hold redeemed or released: its   *)
(* request has read the order, and takes what is still held.                  *)
EndHold(h) ==
    \E o \in Spendings, kind \in {"capture", "release"} :
        /\ onHold[o] > 0
        /\ Begin(h, kind, <<kind>>, [order |-> o, amount |-> onHold[o]])
        /\ UNCHANGED wallets

(* captureHoldInTx                                                           *)
CaptureHold(h) ==
    LET taken == Min({wallet.held, req[h].read.amount})
    IN  /\ At(h, "capture") /\ Stop(h)
        /\ IF taken > 0 THEN Moves(-taken, -taken) /\ Enter("REDEEMED", -taken, NoKey)
           ELSE UNCHANGED <<wallet, entry>>
        /\ onHold' = [onHold EXCEPT ![req[h].read.order] = 0]

(* releaseHoldInTx                                                           *)
ReleaseHold(h) ==
    LET freed == Min({wallet.held, req[h].read.amount})
    IN  /\ At(h, "release") /\ Stop(h)
        /\ IF freed > 0 THEN Moves(0, -freed) /\ Enter("RELEASE", freed, NoKey)
           ELSE UNCHANGED <<wallet, entry>>
        /\ onHold' = [onHold EXCEPT ![req[h].read.order] = 0]

WalletStep(h) ==
    \/ ViewWallet(h) \/ MakeWallet(h) \/ Award(h) \/ CreditEarned(h) \/ CreditRestored(h)
    \/ Hold(h) \/ EndHold(h) \/ CaptureHold(h) \/ ReleaseHold(h)

-----------------------------------------------------------------------------
(* The wallet is what its transactions add up to, however its requests overlap,  *)
(* no credit is held that is not there, and a key earns or gives back once.     *)
(* Unless a hold was ended by two requests at once, what is held is what the     *)
(* orders have on hold, all of it.                                           *)
OfTypes(types) == [i \in DOMAIN entry |-> IF entry[i].type \in types THEN entry[i].amount ELSE 0]
Total(types) == SumFunctionOnSet(OfTypes(types), DOMAIN entry)
WalletAddsUp ==
    /\ wallet.balance = Total({"EARNED", "ADJUSTED", "REDEEMED"})
    /\ wallet.held = Total({"REDEEMED"}) - Total({"HOLD", "RELEASE"})
    /\ 0 <= wallet.held /\ wallet.held <= wallet.balance
    /\ \A i, j \in DOMAIN entry : entry[i].key # NoKey /\ entry[i].key = entry[j].key => i = j
    /\ (\A k, l \in {"capture", "release"} : Apart(k, l)) =>
          wallet.held = SumFunctionOnSet(onHold, Spendings)
=============================================================================
