----------------------------- MODULE FeeLedger -----------------------------
(***************************************************************************)
(* One fee invoice: what the office, the guardian's reported payments and  *)
(* the payment gateway post to it, and what an event's credit and refunds  *)
(* take back.                                                              *)
(*                                                                         *)
(* The office, the reviews and the gateway hold the lock of the school;    *)
(* credits and refunds hold only the row of the invoice.  A payment reads  *)
(* the balance in the statement that waits for that row, so what it read   *)
(* may be older than the last credit: the triggers of the ledger tables    *)
(* look again.                                                             *)
(*                                                                         *)
(* Verification, webhooks and polling fetch a payment before any lock is   *)
(* taken and settle alike, late, repeatedly and in any order: each acts on *)
(* any status the payment has had.                                         *)
(*                                                                         *)
(* Each payment has its own reference.  Provider orders that were never    *)
(* saved are not here: nobody was given them to pay.                       *)
(***************************************************************************)
EXTENDS Naturals, FiniteSets

CONSTANTS
    Desk, Claim, Order,     \* keys of payments: office, reported, gateway
    Pay,                    \* payments at the provider
    Nobody,
    Amount                  \* amount_paise of the invoice

ASSUME KeyAssumption ==
    /\ Desk \intersect Claim = {} /\ Desk \intersect Order = {} /\ Claim \intersect Order = {}
    /\ Nobody \notin Desk \union Claim \union Order \union Pay
ASSUME AmountAssumption == Amount \in Nat \ {0}

VARIABLES
    money,      \* sums of fee_payments, fee_invoice_credits and fee_refunds
    posted,     \* idempotency keys of fee_payments
    claim,      \* fee_review_requests (kind payment) with their decision
    order,      \* fee_gateway_orders
    pay,        \* the provider: the order and status of each payment
    reader,     \* the transaction that holds the school lock and read a balance
    told        \* fee_payment_emails: <<payment, state>>

ledger == <<money, posted>>
fvars == <<ledger, claim, order, pay, reader, told>>

NoReader == [key |-> Nobody, by |-> Nobody, amount |-> 0, balance |-> 0]

FeeInit ==
    /\ money = [paid |-> 0, credited |-> 0, refunded |-> 0]
    /\ posted = {} /\ told = {}
    /\ claim = [c \in Claim |-> [state |-> "none", amount |-> 0]]
    /\ order = [o \in Order |-> [state |-> "none", amount |-> 0, pay |-> Nobody]]
    /\ pay = [p \in Pay |-> [order |-> Nobody, status |-> "none"]]
    /\ reader = NoReader

Less(a, b) == IF a > b THEN a - b ELSE 0
Balance == Less(Less(Amount, money.credited), Less(money.paid, money.refunded))
Unlocked == reader = NoReader
Part == 1..Amount
ReadsBalance(key, by, n) ==
    reader' = [key |-> key, by |-> by, amount |-> n, balance |-> Balance]

(* serialize_fee_payment_against_invoice *)
Fits(n) == money.paid + n + money.credited <= Amount + money.refunded
Posts(key, n) ==
    /\ money' = [money EXCEPT !.paid = @ + n]
    /\ posted' = posted \union {key}

(* What was read does not allow it, or the trigger, the provider or the    *)
(* process fails: the transaction is undone.                               *)
Undo ==
    /\ ~Unlocked
    /\ reader' = NoReader
    /\ UNCHANGED <<ledger, claim, order, pay, told>>

-----------------------------------------------------------------------------
(* The office and the guardian's reports.                                  *)

ReadForDesk(d, n) ==
    /\ Unlocked /\ d \notin posted
    /\ ReadsBalance(d, Nobody, n)
    /\ UNCHANGED <<ledger, claim, order, pay, told>>

(* Mutant: the balance that was read decides. *)
PostAtDeskAsRead ==
    /\ reader.key \in Desk /\ reader.amount <= reader.balance
    /\ Posts(reader.key, reader.amount)
    /\ reader' = NoReader
    /\ UNCHANGED <<claim, order, pay, told>>

PostAtDesk ==
    /\ reader.key \in Desk /\ reader.amount <= reader.balance
    /\ Fits(reader.amount)
    /\ Posts(reader.key, reader.amount)
    /\ reader' = NoReader
    /\ UNCHANGED <<claim, order, pay, told>>

ClaimOpen == \E c \in Claim : claim[c].state = "open"

SubmitClaim(c, n) ==
    /\ Unlocked /\ ~ClaimOpen
    /\ claim[c].state = "none" /\ n <= Balance
    /\ claim' = [claim EXCEPT ![c] = [state |-> "open", amount |-> n]]
    /\ UNCHANGED <<ledger, order, pay, reader, told>>

RejectClaim(c) ==
    /\ Unlocked /\ claim[c].state = "open"
    /\ claim' = [claim EXCEPT ![c].state = "rejected"]
    /\ UNCHANGED <<ledger, order, pay, reader, told>>

VerifyClaim(c) ==
    /\ Unlocked /\ claim[c].state = "open"
    /\ claim[c].amount <= Balance /\ Fits(claim[c].amount)
    /\ Posts(c, claim[c].amount)
    /\ claim' = [claim EXCEPT ![c].state = "verified"]
    /\ UNCHANGED <<order, pay, reader, told>>

-----------------------------------------------------------------------------
(* The gateway.                                                            *)

ReadForOrder(o, n) ==
    /\ Unlocked
    /\ order[o].state = "none"
    /\ ReadsBalance(o, Nobody, n)
    /\ UNCHANGED <<ledger, claim, order, pay, told>>

(* One order is open for the invoice, and none while a payment is under    *)
(* review.                                                                 *)
SaveOrder ==
    /\ reader.key \in Order /\ order[reader.key].state = "none"
    /\ reader.amount <= reader.balance /\ ~ClaimOpen
    /\ \A o \in Order : order[o].state \notin {"created", "review_required"}
    /\ order' = [order EXCEPT ![reader.key] =
                    [state |-> "created", amount |-> reader.amount, pay |-> Nobody]]
    /\ reader' = NoReader
    /\ UNCHANGED <<ledger, claim, pay, told>>

(* External: the provider takes and decides payments of saved orders. *)
ProviderMoves(p, o, status) ==
    /\ order[o].state # "none"
    /\ \/ pay[p].status = "none" /\ status = "authorized"
       \/ pay[p] = [order |-> o, status |-> "authorized"] /\ status \in {"captured", "failed"}
    /\ pay' = [pay EXCEPT ![p] = [order |-> o, status |-> status]]
    /\ UNCHANGED <<ledger, claim, order, reader, told>>

RecordAttempt(p, status) ==
    /\ status = pay[p].status \/ (status = "authorized" /\ pay[p].status # "none")
    /\ status # "captured" /\ status # "none"
    /\ Unlocked
    /\ order[pay[p].order].state = "created"
    /\ told' = told \union {<<p, status>>}
    /\ UNCHANGED <<ledger, claim, order, pay, reader>>

(* Mutant: the order is taken as it was when the payment was fetched. *)
ReadToSettleAnyState(p) ==
    LET o == pay[p].order IN
    /\ pay[p].status = "captured" /\ Unlocked
    /\ ReadsBalance(o, p, order[o].amount)
    /\ UNCHANGED <<ledger, claim, order, pay, told>>

(* settle: the order is read again under the lock. *)
ReadToSettle(p) ==
    LET o == pay[p].order IN
    /\ pay[p].status = "captured" /\ Unlocked
    /\ order[o].state = "created"
    /\ ReadsBalance(o, p, order[o].amount)
    /\ UNCHANGED <<ledger, claim, order, pay, told>>

(* A payment that fits the balance that was read and not the ledger undoes *)
(* the transaction; the order is tried again.                              *)
Settle ==
    LET state == IF reader.amount <= reader.balance THEN "captured" ELSE "review_required" IN
    /\ reader.by \in Pay
    /\ IF state = "captured"
       THEN Fits(reader.amount) /\ Posts(reader.key, reader.amount)
       ELSE UNCHANGED ledger
    /\ order' = [order EXCEPT ![reader.key] = [@ EXCEPT !.state = state, !.pay = reader.by]]
    /\ told' = told \union {<<reader.by, state>>}
    /\ reader' = NoReader
    /\ UNCHANGED <<claim, pay>>

-----------------------------------------------------------------------------
(* The event the invoice is for.                                           *)

(* The place is withdrawn or the event cancelled: once, for the whole      *)
(* amount.                                                                 *)
Credit ==
    /\ money.credited = 0
    /\ money' = [money EXCEPT !.credited = Amount]
    /\ UNCHANGED <<posted, claim, order, pay, reader, told>>

RefundDue == Less(Less(money.paid, Less(Amount, money.credited)), money.refunded)
Refund(n) ==
    /\ money.credited > 0
    /\ n <= RefundDue
    /\ money' = [money EXCEPT !.refunded = @ + n]
    /\ UNCHANGED <<posted, claim, order, pay, reader, told>>

-----------------------------------------------------------------------------

FeeNext ==
    \/ PostAtDesk \/ SaveOrder \/ Settle \/ Undo \/ Credit
    \/ \E n \in Part : Refund(n)
            \/ (\E d \in Desk : ReadForDesk(d, n)) \/ (\E o \in Order : ReadForOrder(o, n))
            \/ (\E c \in Claim : SubmitClaim(c, n))
    \/ \E c \in Claim : RejectClaim(c) \/ VerifyClaim(c)
    \/ \E p \in Pay : ReadToSettle(p)
            \/ (\E s \in {"authorized", "failed"} : RecordAttempt(p, s))
            \/ \E o \in Order, s \in {"authorized", "captured", "failed"} : ProviderMoves(p, o, s)

FeeSpec == FeeInit /\ [][FeeNext]_fvars

-----------------------------------------------------------------------------

(* Ledger, claims, orders and payments have their types. *)
FeeTypeOK ==
    /\ money \in [paid : Nat, credited : Nat, refunded : Nat]
    /\ posted \subseteq Desk \union Claim \union Order
    /\ claim \in [Claim -> [state : {"none", "open", "verified", "rejected"}, amount : Nat]]
    /\ order \in [Order -> [state : {"none", "created", "captured", "review_required"},
                            amount : Nat, pay : Pay \union {Nobody}]]
    /\ pay \in [Pay -> [order : Order \union {Nobody},
                        status : {"none", "authorized", "captured", "failed"}]]
    /\ \A p \in Pay : pay[p].status = "none" <=> pay[p].order = Nobody
    /\ reader \in [key : Desk \union Order \union {Nobody}, by : Pay \union {Nobody},
                   amount : Nat, balance : Nat]
    /\ told \subseteq Pay \X {"authorized", "failed", "captured", "review_required"}

(* The invoice never carries more than it is for: what was paid and kept,  *)
(* and what was returned, stay within what was credited and paid, whatever *)
(* payments, credits and refunds raced.                                    *)
LedgerBalances ==
    /\ money.refunded <= money.credited /\ money.refunded <= money.paid
    /\ money.credited <= Amount /\ money.paid <= Amount + money.refunded

(* No payment is taken for an obligation that is gone: at the moment it is *)
(* posted it fits what is still owed, though the balance it was checked    *)
(* against was read earlier.                                               *)
NothingIsOverpaid ==
    [][money'.paid > money.paid =>
            money'.paid + money'.credited <= Amount + money'.refunded]_fvars

(* An order is settled by one captured payment of its own; it is captured  *)
(* when the ledger has its receipt, and the guardian is told one outcome.  *)
SettledOnce ==
    /\ \A o \in Order :
        /\ order[o].state = "captured" <=> o \in posted
        /\ order[o].state \in {"captured", "review_required"} =>
                order[o].pay \in Pay /\ pay[order[o].pay] = [order |-> o, status |-> "captured"]
    /\ \A c \in Claim : claim[c].state = "verified" <=> c \in posted
    /\ \A t \in told : t[2] \in {"captured", "review_required"} =>
            LET o == pay[t[1]].order IN order[o].pay = t[1] /\ order[o].state = t[2]

(* The ledger balances, and what orders, claims and letters say of it is   *)
(* so.                                                                     *)
BooksAgree == LedgerBalances /\ SettledOnce
=============================================================================
