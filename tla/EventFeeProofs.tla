-------------------------- MODULE EventFeeProofs ---------------------------
(***************************************************************************)
(* Proofs about FeeLedger and CampusEvent, which meet at the bill of an    *)
(* event: the books of one invoice agree, whatever races; roster and bills *)
(* follow the answers, and the register of the session stays true.         *)
(***************************************************************************)
EXTENDS FeeLedger, CampusEvent, TLAPS

-----------------------------------------------------------------------------
(* The invoice.                                                            *)

(* A credit is for the whole amount, and no more than that is ever paid:   *)
(* before a credit there is no refund, after it no payment fits.           *)
CreditIsWhole == money.credited \in {0, Amount} /\ money.paid <= Amount

(* The transaction that settles a payment holds its order as it read it:   *)
(* a captured payment stays captured, and orders wait for the lock.        *)
ReaderKnows ==
    reader.by \in Pay =>
        /\ reader.key \in Order /\ order[reader.key].state = "created"
        /\ pay[reader.by] = [order |-> reader.key, status |-> "captured"]

(* Letters are about payments that were made. *)
LettersAreOfPayments == \A t \in told : pay[t[1]].order \in Order

FeeInv == FeeTypeOK /\ BooksAgree /\ CreditIsWhole /\ ReaderKnows /\ LettersAreOfPayments

(* The two halves of the invariant change in different steps. *)
Money == LedgerBalances /\ CreditIsWhole
Orders == SettledOnce /\ ReaderKnows /\ LettersAreOfPayments

LEMMA LessIsNat == \A a, b \in Nat : Less(a, b) \in Nat /\ Less(a, b) <= a
BY DEF Less

LEMMA FeeInitInv == FeeInit => FeeInv
BY KeyAssumption, AmountAssumption
   DEF FeeInit, FeeInv, FeeTypeOK, BooksAgree, LedgerBalances, SettledOnce, CreditIsWhole,
       ReaderKnows, LettersAreOfPayments, NoReader

(* Only payments, credits and refunds touch the money. *)
LEMMA MoneyStep == FeeInv /\ FeeNext => Money'
<1> SUFFICES ASSUME FeeInv, FeeNext PROVE Money'
  OBVIOUS
<1> USE AmountAssumption DEF FeeInv, FeeTypeOK, BooksAgree, Money, LedgerBalances, CreditIsWhole
<1>1. ASSUME NEW key, NEW n \in Nat, Fits(n), Posts(key, n) PROVE Money'
  BY <1>1 DEF Fits, Posts
<1>2. CASE PostAtDesk
  BY <1>1, <1>2 DEF PostAtDesk
<1>3. ASSUME NEW c \in Claim, VerifyClaim(c) PROVE Money'
  BY <1>1, <1>3 DEF VerifyClaim
<1>4. CASE Settle
  <2>1. CASE reader.amount <= reader.balance
    BY <1>1, <1>4, <2>1 DEF Settle
  <2>2. CASE ~(reader.amount <= reader.balance)
    BY <1>4, <2>2 DEF Settle, ledger
  <2> QED
    BY <2>1, <2>2
<1>5. CASE Credit
  BY <1>5 DEF Credit
<1>6. ASSUME NEW n \in Part, Refund(n) PROVE Money'
  BY <1>6 DEF Refund, RefundDue, Less, Part
<1>7. CASE UNCHANGED money
  BY <1>7
<1> QED
  BY <1>2, <1>3, <1>4, <1>5, <1>6, <1>7
     DEF FeeNext, SaveOrder, Undo, ReadForDesk, ReadForOrder, SubmitClaim, RejectClaim,
         ReadToSettle, RecordAttempt, ProviderMoves, ledger

LEMMA TypeStep == FeeInv /\ FeeNext => FeeTypeOK'
<1> SUFFICES ASSUME FeeInv, FeeNext PROVE FeeTypeOK'
  OBVIOUS
<1> USE AmountAssumption, KeyAssumption DEF FeeInv, FeeTypeOK, Part
<1>1. Balance \in Nat
  BY LessIsNat DEF Balance
<1>2. CASE PostAtDesk
  BY <1>2 DEF PostAtDesk, Posts, NoReader
<1>3. ASSUME NEW c \in Claim, VerifyClaim(c) \/ RejectClaim(c) PROVE FeeTypeOK'
  BY <1>3 DEF VerifyClaim, RejectClaim, Posts, ledger
<1>4. CASE Settle
  <2>1. reader.key \in Order
    BY <1>4 DEF Settle, ReaderKnows
  <2>2. reader' = NoReader /\ UNCHANGED <<claim, pay>>
    BY <1>4 DEF Settle
  <2>3. money' \in [paid : Nat, credited : Nat, refunded : Nat]
        /\ posted' \subseteq Desk \union Claim \union Order
    BY <1>4, <2>1 DEF Settle, Posts, ledger
  <2>4. order' \in [Order -> [state : {"none", "created", "captured", "review_required"},
                              amount : Nat, pay : Pay \union {Nobody}]]
    <3>1. PICK state \in {"captured", "review_required"} :
                order' = [order EXCEPT ![reader.key] =
                            [@ EXCEPT !.state = state, !.pay = reader.by]]
      BY <1>4 DEF Settle
    <3>2. reader.by \in Pay
      BY <1>4 DEF Settle
    <3>3. order'[reader.key] = [order[reader.key] EXCEPT !.state = state, !.pay = reader.by]
          /\ \A o \in Order \ {reader.key} : order'[o] = order[o]
          /\ DOMAIN order' = Order
      BY <2>1, <3>1
    <3>4. order'[reader.key] \in [state : {"none", "created", "captured", "review_required"},
                                  amount : Nat, pay : Pay \union {Nobody}]
      <4>1. order[reader.key] \in [state : {"none", "created", "captured", "review_required"},
                                   amount : Nat, pay : Pay \union {Nobody}]
        BY <2>1
      <4> QED
        BY <4>1, <3>2, <3>3
    <3> QED
      BY <2>1, <3>1, <3>3, <3>4
  <2>5. told' \subseteq Pay \X {"authorized", "failed", "captured", "review_required"}
    BY <1>4 DEF Settle
  <2> QED
    BY <2>2, <2>3, <2>4, <2>5 DEF NoReader
<1>5. ASSUME Credit \/ \E n \in Part : Refund(n) PROVE FeeTypeOK'
  BY <1>5 DEF Credit, Refund
<1>6. CASE SaveOrder
  BY <1>6 DEF SaveOrder, NoReader, ledger
<1>7. CASE Undo
  BY <1>7 DEF Undo, NoReader, ledger
<1>8. ASSUME NEW n \in Part, NEW d \in Desk, ReadForDesk(d, n) PROVE FeeTypeOK'
  BY <1>1, <1>8 DEF ReadForDesk, ReadsBalance, ledger
<1>9. ASSUME NEW n \in Part, NEW o \in Order, ReadForOrder(o, n) PROVE FeeTypeOK'
  BY <1>1, <1>9 DEF ReadForOrder, ReadsBalance, ledger
<1>10. ASSUME NEW n \in Part, NEW c \in Claim, SubmitClaim(c, n) PROVE FeeTypeOK'
  BY <1>10 DEF SubmitClaim, ledger
<1>11. ASSUME NEW p \in Pay, ReadToSettle(p) PROVE FeeTypeOK'
  BY <1>1, <1>11 DEF ReadToSettle, ReadsBalance, ledger
<1>12. ASSUME NEW p \in Pay, NEW s \in {"authorized", "failed"}, RecordAttempt(p, s)
       PROVE  FeeTypeOK'
  BY <1>12 DEF RecordAttempt, ledger
<1>13. ASSUME NEW p \in Pay, NEW o \in Order, NEW s \in {"authorized", "captured", "failed"},
              ProviderMoves(p, o, s)
       PROVE  FeeTypeOK'
  BY <1>13 DEF ProviderMoves, ledger
<1> QED
  BY <1>2, <1>3, <1>4, <1>5, <1>6, <1>7, <1>8, <1>9, <1>10, <1>11, <1>12, <1>13 DEF FeeNext

(* Settling writes the order, the receipt and the letter together.         *)
LEMMA OrdersStep == FeeInv /\ FeeNext => Orders'
<1> SUFFICES ASSUME FeeInv, FeeNext PROVE Orders'
  OBVIOUS
<1> USE AmountAssumption, KeyAssumption
    DEF FeeInv, FeeTypeOK, BooksAgree, Orders, SettledOnce, ReaderKnows, LettersAreOfPayments,
        Unlocked
<1>1. CASE PostAtDesk
  BY <1>1 DEF PostAtDesk, Posts, NoReader
<1>2. ASSUME NEW c \in Claim, VerifyClaim(c) \/ RejectClaim(c) PROVE Orders'
  BY <1>2 DEF VerifyClaim, RejectClaim, Posts, ledger, NoReader
<1>3. CASE Settle
  <2>1. /\ reader.by \in Pay /\ reader.key \in Order /\ order[reader.key].state = "created"
        /\ pay[reader.by] = [order |-> reader.key, status |-> "captured"]
    BY <1>3 DEF Settle
  <2>2. \A t \in told : t[2] \in {"captured", "review_required"} =>
            pay[t[1]].order # reader.key
    BY <2>1
  <2>3. ASSUME NEW state \in {"captured", "review_required"},
               IF state = "captured" THEN Posts(reader.key, reader.amount) ELSE UNCHANGED ledger,
               order' = [order EXCEPT ![reader.key] =
                                        [@ EXCEPT !.state = state, !.pay = reader.by]],
               told' = told \union {<<reader.by, state>>}, reader' = NoReader,
               UNCHANGED <<claim, pay>>
        PROVE  Orders'
    <3>0. /\ order'[reader.key].state = state /\ order'[reader.key].pay = reader.by
          /\ \A o \in Order \ {reader.key} : order'[o] = order[o]
      BY <2>1, <2>3
    <3>6. posted' = IF state = "captured" THEN posted \union {reader.key} ELSE posted
      BY <2>3 DEF Posts, ledger
    <3>1. \A o \in Order : order'[o].state = "captured" <=> o \in posted'
      <4>1. reader.key \notin posted
        BY <2>1
      <4>2. \A o \in Order \ {reader.key} : order'[o].state = "captured" <=> o \in posted'
        <5>1. ASSUME NEW o \in Order \ {reader.key} PROVE o \in posted' <=> o \in posted
          BY <3>6
        <5>2. \A o \in Order : order[o].state = "captured" <=> o \in posted
          BY DEF FeeInv
        <5> QED
          BY <3>0, <5>1, <5>2
      <4>3. order'[reader.key].state = "captured" <=> reader.key \in posted'
        <5>1. CASE state = "captured"
          BY <3>0, <3>6, <5>1
        <5>2. CASE state = "review_required"
          BY <3>0, <3>6, <4>1, <5>2
        <5> QED
          BY <5>1, <5>2
      <4> QED
        BY <4>2, <4>3
    <3>2. \A o \in Order : order'[o].state \in {"captured", "review_required"} =>
            order'[o].pay \in Pay
            /\ pay'[order'[o].pay] = [order |-> o, status |-> "captured"]
      BY <2>1, <2>3
    <3>3. \A c \in Claim : claim'[c].state = "verified" <=> c \in posted'
      BY <2>1, <2>3 DEF Posts, ledger
    <3>4. \A t \in told' : t[2] \in {"captured", "review_required"} =>
            LET o == pay'[t[1]].order IN order'[o].pay = t[1] /\ order'[o].state = t[2]
      BY <2>1, <2>2, <2>3
    <3>5. ReaderKnows' /\ LettersAreOfPayments'
      BY <2>1, <2>3 DEF NoReader
    <3> QED
      BY <3>1, <3>2, <3>3, <3>4, <3>5
  <2> QED
    BY <1>3, <2>3 DEF Settle
<1>4. ASSUME Credit \/ \E n \in Part : Refund(n) PROVE Orders'
  BY <1>4 DEF Credit, Refund
<1>5. CASE SaveOrder
  BY <1>5 DEF SaveOrder, NoReader, ledger
<1>6. CASE Undo
  BY <1>6 DEF Undo, NoReader, ledger
<1>7. ASSUME NEW n \in Part, NEW d \in Desk, ReadForDesk(d, n) PROVE Orders'
  BY <1>7 DEF ReadForDesk, ReadsBalance, ledger
<1>8. ASSUME NEW n \in Part, NEW o \in Order, ReadForOrder(o, n) PROVE Orders'
  BY <1>8 DEF ReadForOrder, ReadsBalance, ledger
<1>9. ASSUME NEW n \in Part, NEW c \in Claim, SubmitClaim(c, n) PROVE Orders'
  BY <1>9 DEF SubmitClaim, ledger, NoReader
<1>10. ASSUME NEW p \in Pay, ReadToSettle(p) PROVE Orders'
  BY <1>10 DEF ReadToSettle, ReadsBalance, ledger
<1>11. ASSUME NEW p \in Pay, NEW s \in {"authorized", "failed"}, RecordAttempt(p, s)
       PROVE  Orders'
  BY <1>11 DEF RecordAttempt, ledger, NoReader
<1>12. ASSUME NEW p \in Pay, NEW o \in Order, NEW s \in {"authorized", "captured", "failed"},
              ProviderMoves(p, o, s)
       PROVE  Orders'
  <2>1. pay[p].status # "captured" /\ order[o].state # "none"
    BY <1>12 DEF ProviderMoves
  <2>2. pay[p].status # "none" => pay[p].order = o
    BY <1>12 DEF ProviderMoves
  <2>3. pay' = [pay EXCEPT ![p] = [order |-> o, status |-> s]]
        /\ UNCHANGED <<money, posted, claim, order, reader, told>>
    BY <1>12 DEF ProviderMoves, ledger
  <2> QED
    BY <2>1, <2>2, <2>3
<1> HIDE DEF FeeInv, FeeTypeOK, BooksAgree, Orders, SettledOnce, ReaderKnows,
             LettersAreOfPayments, Unlocked
<1> QED
  BY <1>1, <1>2, <1>3, <1>4, <1>5, <1>6, <1>7, <1>8, <1>9, <1>10, <1>11, <1>12 DEF FeeNext

(* The inductive invariant: a credit is whole, so that payments and refunds *)
(* stay within it, and a payment settles the order it was read for.         *)
THEOREM FeeInvariant == FeeSpec => []FeeInv
<1>1. FeeInv /\ [FeeNext]_fvars => FeeInv'
  <2>1. FeeInv /\ FeeNext => FeeInv'
    BY MoneyStep, TypeStep, OrdersStep
       DEF FeeInv, BooksAgree, Money, Orders
  <2>2. FeeInv /\ UNCHANGED fvars => FeeInv'
    BY DEF FeeInv, fvars, ledger, FeeTypeOK, BooksAgree, LedgerBalances, SettledOnce,
           CreditIsWhole, ReaderKnows, LettersAreOfPayments
  <2> QED
    BY <2>1, <2>2
<1> QED
  BY FeeInitInv, <1>1, PTL DEF FeeSpec

(* Ledger, claims, orders and payments have their types. *)
THEOREM FeeTypes == FeeSpec => []FeeTypeOK
<1>1. FeeInv => FeeTypeOK
  BY DEF FeeInv
<1> QED
  BY <1>1, FeeInvariant, PTL

(* What was paid, credited and refunded balances, and every settled order, *)
(* verified claim and letter has its receipt and its one payment.          *)
THEOREM BooksAlwaysAgree == FeeSpec => []BooksAgree
<1>1. FeeInv => BooksAgree
  BY DEF FeeInv
<1> QED
  BY <1>1, FeeInvariant, PTL

(* Whoever posts a payment, it fits what is still owed at that moment.     *)
THEOREM PaymentsFit == FeeSpec => NothingIsOverpaid
<1> DEFINE Owed == money'.paid + money'.credited <= Amount + money'.refunded
<1>1. ASSUME FeeInv, FeeNext, money'.paid > money.paid PROVE Owed
  <2> USE <1>1, AmountAssumption DEF FeeInv, FeeTypeOK
  <2>1. ASSUME NEW key, NEW n \in Nat, Fits(n), Posts(key, n) PROVE Owed
    BY <2>1 DEF Fits, Posts
  <2>2. CASE PostAtDesk
    BY <2>1, <2>2 DEF PostAtDesk
  <2>3. ASSUME NEW c \in Claim, VerifyClaim(c) PROVE Owed
    BY <2>1, <2>3 DEF VerifyClaim
  <2>4. CASE Settle
    BY <2>1, <2>4 DEF Settle, ledger
  <2>5. CASE Credit \/ \E n \in Part : Refund(n)
    BY <2>5 DEF Credit, Refund
  <2>6. CASE UNCHANGED money
    BY <2>6
  <2> QED
    BY <2>2, <2>3, <2>4, <2>5, <2>6
       DEF FeeNext, SaveOrder, Undo, ReadForDesk, ReadForOrder, SubmitClaim, RejectClaim,
           ReadToSettle, RecordAttempt, ProviderMoves, ledger
<1>2. FeeInv /\ [FeeNext]_fvars => [money'.paid > money.paid => Owed]_fvars
  BY <1>1
<1> QED
  BY <1>2, FeeInvariant, PTL DEF FeeSpec, NothingIsOverpaid

-----------------------------------------------------------------------------
(* The event.                                                              *)

(* Nobody answers, owes or attends an event that is not published yet. *)
NothingBefore ==
    event.status \in {"none", "draft"} => \A s \in Student :
        rsvp[s] = "pending" /\ invoice[s] = "none" /\ mark[s] = "none"

(* A locked register is of an event that took place and is complete. *)
LockedIsComplete ==
    register = "locked" =>
        /\ phase = "ended" /\ (Is("published") \/ Is("completed"))
        /\ \A s \in roster : /\ mark[s] \notin {"none", "not_recorded"}
                             /\ event.terms.twoWay => mark[s] \notin Present
CompletedIsLocked == Is("completed") => register = "locked"

(* No-shows are put down when everything they depend on is over. *)
NoShowsAreLate == \A s \in Student : mark[s] = "no_show" => phase = "ended"

EventInv ==
    /\ EventTypeOK /\ PlacesAgree /\ RegisterIsTrue
    /\ NothingBefore /\ LockedIsComplete /\ CompletedIsLocked /\ NoShowsAreLate

LEMMA EventInitInv == EventInit => EventInv
BY TermsAssumption
   DEF EventInit, EventInv, EventTypeOK, PlacesAgree, RosterIsExpected, OwedIsExpected,
       RegisterIsTrue, CompletedIsComplete, NoShowWasReady, NothingBefore, LockedIsComplete,
       CompletedIsLocked, NoShowsAreLate, Is

USE TermsAssumption
USE DEF EventInv, EventTypeOK, PlacesAgree, RosterIsExpected, OwedIsExpected, RegisterIsTrue,
        CompletedIsComplete, NoShowWasReady, NothingBefore, LockedIsComplete,
        CompletedIsLocked, NoShowsAreLate, Is, Started, Answering, Expected, Ready, Present

(* The life of the event. *)
LEMMA LifeStep ==
    ASSUME EventInv,
           \/ \E t \in Terms : SaveDraft(t)
           \/ Discard \/ Publish \/ CancelEvent \/ Complete \/ EventClock
    PROVE  EventInv'
<1>1. ASSUME NEW t \in Terms, SaveDraft(t) PROVE EventInv'
  BY <1>1 DEF SaveDraft, family, ready
<1>2. CASE Discard
  BY <1>2 DEF Discard, family, ready
<1>3. CASE Publish
  BY <1>3 DEF Publish, ready
<1>4. CASE CancelEvent
  BY <1>4 DEF CancelEvent, Credited, ready
<1>5. CASE Complete
  BY <1>5 DEF Complete, family, ready
<1>6. CASE EventClock
  BY <1>6 DEF EventClock, family, ready
<1> QED
  BY <1>1, <1>2, <1>3, <1>4, <1>5, <1>6

(* The families answer before the event starts, when no register is locked *)
(* and nobody is a no-show.                                                *)
LEMMA FamilyStep ==
    ASSUME EventInv, NEW s \in Student,
           \/ Accept(s) \/ Decline(s) \/ Withdraw(s)
           \/ GrantConsentAuthority(s) \/ RevokeConsentAuthority(s)
           \/ \E d \in {"granted", "denied", "withdrawn"} : DecideConsent(s, d)
           \/ \E done \in BOOLEAN : CompleteChecklist(s, done)
    PROVE  EventInv'
<1>1. CASE Accept(s)
  BY <1>1 DEF Accept, ready
<1>2. CASE Decline(s)
  BY <1>2 DEF Decline, ready
<1>3. CASE Withdraw(s)
  BY <1>3 DEF Withdraw, ready
<1>4. CASE GrantConsentAuthority(s)
  BY <1>4 DEF GrantConsentAuthority, family
<1>5. CASE RevokeConsentAuthority(s)
  BY <1>5 DEF RevokeConsentAuthority, family
<1>6. ASSUME NEW d \in {"granted", "denied", "withdrawn"}, DecideConsent(s, d)
      PROVE  EventInv'
  BY <1>6 DEF DecideConsent, family
<1>7. ASSUME NEW done \in BOOLEAN, CompleteChecklist(s, done) PROVE EventInv'
  BY <1>7 DEF CompleteChecklist, family
<1> QED
  BY <1>1, <1>2, <1>3, <1>4, <1>5, <1>6, <1>7

LEMMA RegisterStep ==
    ASSUME EventInv,
           \/ LockRegister \/ ReopenRegister
           \/ \E s \in Student :
                \E m \in {"not_recorded", "present", "late", "excused", "no_show", "checked_out"} :
                    RecordMark(s, m)
    PROVE  EventInv'
<1>1. CASE LockRegister
  BY <1>1 DEF LockRegister, family, ready
<1>2. CASE ReopenRegister
  BY <1>2 DEF ReopenRegister, family, ready
<1>3. ASSUME NEW s \in Student,
             NEW m \in {"not_recorded", "present", "late", "excused", "no_show", "checked_out"},
             RecordMark(s, m)
      PROVE  EventInv'
  BY <1>3 DEF RecordMark, family, ready
<1> QED
  BY <1>1, <1>2, <1>3

(* The inductive invariant: until it is published an event has nothing     *)
(* that could be out of step, and once it is over nothing it depends on    *)
(* changes.                                                                *)
THEOREM EventInvariant == EventSpec => []EventInv
<1>1. EventInv /\ [EventNext]_evars => EventInv'
  <2> SUFFICES ASSUME EventInv, [EventNext]_evars PROVE EventInv'
    OBVIOUS
  <2>1. CASE EventNext
    BY <2>1, LifeStep, FamilyStep, RegisterStep DEF EventNext
  <2>2. CASE UNCHANGED evars
    BY <2>2 DEF evars, family, ready
  <2> QED
    BY <2>1, <2>2
<1> QED
  BY EventInitInv, <1>1, PTL DEF EventSpec

(* The rows of the event have their types. *)
THEOREM EventTypes == EventSpec => []EventTypeOK
<1>1. EventInv => EventTypeOK
  BY DEF EventInv
<1> QED
  BY <1>1, EventInvariant, PTL

(* The roster is who is expected and who is expected is who owes, whatever *)
(* the families answer and the office publishes or cancels.                *)
THEOREM PlacesAlwaysAgree == EventSpec => []PlacesAgree
<1>1. EventInv => PlacesAgree
  BY DEF EventInv
<1> QED
  BY <1>1, EventInvariant, PTL

(* A completed event has a decision for everyone, and a no-show was ready  *)
(* to come.                                                                *)
THEOREM RegisterStaysTrue == EventSpec => []RegisterIsTrue
<1>1. EventInv => RegisterIsTrue
  BY DEF EventInv
<1> QED
  BY <1>1, EventInvariant, PTL
=============================================================================
