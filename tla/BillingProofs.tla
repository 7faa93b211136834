--------------------------- MODULE BillingProofs ---------------------------
(***************************************************************************)
(* The ledger balances for any packages, invoices and rentals.  The keys   *)
(* are what is counted: a step writes at most one key, a key names one     *)
(* kind of change, and the wallet moves by exactly what the key stands     *)
(* for.                                                                    *)
(***************************************************************************)
EXTENDS Billing, FiniteSetTheorems, TLAPS

\* The numbers and the keys, without the posts.
WalletType ==
  /\ available \in Nat /\ total \in Nat /\ taken \in Nat
  /\ status \in {"none", "active", "cancelled"}
  /\ keys \subseteq Keys /\ IsFiniteSet(keys)

Ledger == WalletType /\ LedgerBalances /\ EventsCountOnce

RentalType == /\ posts \subseteq Grants \cup Revokes
              /\ rental \in [Rentals -> {"new", "held", "refunding", "ending", "over"}]
              /\ owned \in [Rentals -> BOOLEAN]

\* A key names one kind of change.
LEMMA KindsDiffer ==
  /\ \A e \in Grants : e \notin Revokes /\ e \notin Charges /\ e \notin Refunds
  /\ \A e \in Revokes : e \notin Grants /\ e \notin Charges /\ e \notin Refunds
  /\ \A e \in Charges : e \notin Grants /\ e \notin Refunds
  /\ \A e \in Refunds : e \notin Grants /\ e \notin Charges
<1> DEFINE Kind(e) == e.kind
<1>1. \A e \in Grants \cup Revokes : DOMAIN e = {"kind", "service", "invoice"}
  BY DEF Grants, Revokes, Orders, Bills, Event
<1>2. \A e \in Charges : DOMAIN e = {"activate"}
  BY DEF Charges, Charge
<1>3. \A e \in Refunds : DOMAIN e = {"terminate"}
  BY DEF Refunds, Refund
<1>4. \A e \in Grants : e.kind \in {"afterorderaccept", "invoicepaid"}
  BY DEF Grants, Orders, Bills, Event
<1>5. \A e \in Revokes : e.kind = "cancellationrequest"
  BY DEF Revokes, Event
<1>6. /\ {"kind", "service", "invoice"} # {"activate"}
      /\ {"kind", "service", "invoice"} # {"terminate"}
      /\ {"activate"} # {"terminate"}
  OBVIOUS
<1>7. \A e \in Grants : e \notin Revokes
  BY <1>4, <1>5
<1>8. \A e \in Grants \cup Revokes : e \notin Charges /\ e \notin Refunds
  BY <1>1, <1>2, <1>3, <1>6
<1>9. \A e \in Charges : e \notin Refunds
  BY <1>2, <1>3, <1>6
<1> QED
  BY <1>7, <1>8, <1>9

\* One more key counts once among those of its kind, and nowhere else.
LEMMA OneMoreKey ==
  ASSUME NEW K, IsFiniteSet(K), NEW x, x \notin K, NEW S
  PROVE  /\ IsFiniteSet(K \cup {x})
         /\ Cardinality(K \cap S) \in Nat
         /\ x \in S => Cardinality((K \cup {x}) \cap S) = Cardinality(K \cap S) + 1
         /\ x \notin S => Cardinality((K \cup {x}) \cap S) = Cardinality(K \cap S)
<1>1. IsFiniteSet(K \cap S) /\ Cardinality(K \cap S) \in Nat
  BY FS_Subset, FS_CardinalityType
<1>2. IsFiniteSet(K \cup {x})
  BY FS_AddElement
<1>3. CASE x \in S
  <2>1. (K \cup {x}) \cap S = (K \cap S) \cup {x}
    BY <1>3
  <2>2. x \notin K \cap S
    OBVIOUS
  <2> QED
    BY <1>1, <1>2, <1>3, <2>1, <2>2, FS_AddElement
<1>4. CASE x \notin S
  <2>1. (K \cup {x}) \cap S = K \cap S
    BY <1>4
  <2> QED
    BY <1>1, <1>2, <1>4, <2>1
<1> QED
  BY <1>3, <1>4

\* The three counts after a step that writes one key.
LEMMA CountsMove ==
  ASSUME Ledger, NEW x, x \notin keys, keys' = keys \cup {x}
  PROVE  /\ IsFiniteSet(keys')
         /\ Cardinality(keys \cap Grants) \in Nat
         /\ Cardinality(keys \cap Charges) \in Nat
         /\ Cardinality(keys \cap Refunds) \in Nat
         /\ Cardinality(keys' \cap Grants)
              = Cardinality(keys \cap Grants) + (IF x \in Grants THEN 1 ELSE 0)
         /\ Cardinality(keys' \cap Charges)
              = Cardinality(keys \cap Charges) + (IF x \in Charges THEN 1 ELSE 0)
         /\ Cardinality(keys' \cap Refunds)
              = Cardinality(keys \cap Refunds) + (IF x \in Refunds THEN 1 ELSE 0)
<1>1. IsFiniteSet(keys)
  BY DEF Ledger, WalletType
<1>2. ASSUME NEW S
      PROVE  /\ IsFiniteSet(keys')
             /\ Cardinality(keys \cap S) \in Nat
             /\ Cardinality(keys' \cap S)
                  = Cardinality(keys \cap S) + (IF x \in S THEN 1 ELSE 0)
  <2>1. /\ IsFiniteSet(keys \cup {x})
        /\ Cardinality(keys \cap S) \in Nat
        /\ x \in S => Cardinality((keys \cup {x}) \cap S) = Cardinality(keys \cap S) + 1
        /\ x \notin S => Cardinality((keys \cup {x}) \cap S) = Cardinality(keys \cap S)
    BY <1>1, OneMoreKey
  <2> QED
    BY <2>1
<1>3. /\ IsFiniteSet(keys') /\ Cardinality(keys \cap Grants) \in Nat
      /\ Cardinality(keys' \cap Grants)
           = Cardinality(keys \cap Grants) + (IF x \in Grants THEN 1 ELSE 0)
  BY <1>2
<1>4. /\ Cardinality(keys \cap Charges) \in Nat
      /\ Cardinality(keys' \cap Charges)
           = Cardinality(keys \cap Charges) + (IF x \in Charges THEN 1 ELSE 0)
  BY <1>2
<1>5. /\ Cardinality(keys \cap Refunds) \in Nat
      /\ Cardinality(keys' \cap Refunds)
           = Cardinality(keys \cap Refunds) + (IF x \in Refunds THEN 1 ELSE 0)
  BY <1>2
<1> QED
  BY <1>3, <1>4, <1>5

\* Each change of the wallet keeps the ledger.
LEMMA GrantKeeps ==
  ASSUME Ledger, NEW e \in Grants, e \notin keys, Grant(e)
  PROVE  Ledger'
<1>1. /\ e \in Keys /\ e \notin Charges /\ e \notin Refunds
  BY KindsDiffer DEF Keys
<1>2. keys' = keys \cup {e}
  BY DEF Grant, Seen
<1>3. /\ IsFiniteSet(keys')
      /\ Cardinality(keys' \cap Grants) = Cardinality(keys \cap Grants) + 1
      /\ Cardinality(keys' \cap Charges) = Cardinality(keys \cap Charges)
      /\ Cardinality(keys' \cap Refunds) = Cardinality(keys \cap Refunds)
      /\ Cardinality(keys \cap Charges) \in Nat /\ Cardinality(keys \cap Refunds) \in Nat
  BY <1>1, <1>2, CountsMove
<1>4. WalletType'
  BY <1>1, <1>2, <1>3 DEF Ledger, WalletType, Grant
<1>5. LedgerBalances' /\ EventsCountOnce'
  <2>1. /\ available' = available + 1 /\ total' = total + 1 /\ taken' = taken
        /\ available \in Nat /\ total \in Nat /\ taken \in Nat
    BY DEF Grant, Ledger, WalletType
  <2> QED
    BY <1>3, <2>1 DEF Ledger, LedgerBalances, EventsCountOnce
<1> QED
  BY <1>4, <1>5 DEF Ledger

\* A cancellation moves a credit from what is available to what was taken back.
LEMMA RevokeKeeps ==
  ASSUME Ledger, NEW e \in Revokes, e \notin keys, Revoke(e)
  PROVE  Ledger'
<1>1. /\ e \in Keys /\ e \notin Grants /\ e \notin Charges /\ e \notin Refunds
  BY KindsDiffer DEF Keys
<1>2. keys' = keys \cup {e}
  BY DEF Revoke, Seen
<1>3. /\ IsFiniteSet(keys')
      /\ Cardinality(keys' \cap Grants) = Cardinality(keys \cap Grants)
      /\ Cardinality(keys' \cap Charges) = Cardinality(keys \cap Charges)
      /\ Cardinality(keys' \cap Refunds) = Cardinality(keys \cap Refunds)
      /\ Cardinality(keys \cap Charges) \in Nat /\ Cardinality(keys \cap Refunds) \in Nat
  BY <1>1, <1>2, CountsMove
<1>4. /\ available' \in Nat /\ taken' \in Nat /\ total' = total
      /\ available' + taken' = available + taken
  BY DEF Revoke, Left, Ledger, WalletType
<1>5. WalletType'
  BY <1>1, <1>2, <1>3, <1>4 DEF Ledger, WalletType, Revoke
<1>6. LedgerBalances' /\ EventsCountOnce'
  BY <1>3, <1>4 DEF Ledger, WalletType, LedgerBalances, EventsCountOnce
<1> QED
  BY <1>5, <1>6 DEF Ledger

\* A charge moves a credit to its rental.
LEMMA DeductKeeps ==
  ASSUME Ledger, NEW r \in Rentals, Charge(r) \notin keys, Deduct(Charge(r))
  PROVE  Ledger'
<1> DEFINE e == Charge(r)
<1>1. /\ e \in Charges /\ e \in Keys /\ e \notin Grants /\ e \notin Refunds
  BY KindsDiffer DEF Keys, Charges
<1>2. keys' = keys \cup {e}
  BY DEF Deduct, Seen
<1>3. /\ IsFiniteSet(keys')
      /\ Cardinality(keys' \cap Grants) = Cardinality(keys \cap Grants)
      /\ Cardinality(keys' \cap Charges) = Cardinality(keys \cap Charges) + 1
      /\ Cardinality(keys' \cap Refunds) = Cardinality(keys \cap Refunds)
      /\ Cardinality(keys \cap Charges) \in Nat /\ Cardinality(keys \cap Refunds) \in Nat
  <2>1. e \notin keys
    OBVIOUS
  <2> HIDE DEF e
  <2> QED
    BY <1>1, <1>2, <2>1, CountsMove
<1>4. /\ available' = available - 1 /\ available > 0 /\ total' = total /\ taken' = taken
      /\ status' = "active"
  BY DEF Deduct
<1>5. WalletType'
  BY <1>1, <1>2, <1>3, <1>4 DEF Ledger, WalletType
<1>6. LedgerBalances' /\ EventsCountOnce'
  BY <1>3, <1>4 DEF Ledger, WalletType, LedgerBalances, EventsCountOnce
<1> QED
  BY <1>5, <1>6 DEF Ledger

\* A refund gives a credit back and counts its key.
LEMMA GiveBackKeeps ==
  ASSUME Ledger, NEW r \in Rentals, Refund(r) \notin keys, GiveBack(Refund(r))
  PROVE  Ledger'
<1> DEFINE e == Refund(r)
<1>1. /\ e \in Refunds /\ e \in Keys /\ e \notin Grants /\ e \notin Charges
  BY KindsDiffer DEF Keys, Refunds
<1>2. keys' = keys \cup {e}
  BY DEF GiveBack, Seen
<1>3. /\ IsFiniteSet(keys')
      /\ Cardinality(keys' \cap Grants) = Cardinality(keys \cap Grants)
      /\ Cardinality(keys' \cap Charges) = Cardinality(keys \cap Charges)
      /\ Cardinality(keys' \cap Refunds) = Cardinality(keys \cap Refunds) + 1
      /\ Cardinality(keys \cap Charges) \in Nat /\ Cardinality(keys \cap Refunds) \in Nat
  <2>1. e \notin keys
    OBVIOUS
  <2> HIDE DEF e
  <2> QED
    BY <1>1, <1>2, <2>1, CountsMove
<1>4. /\ available' = available + 1 /\ total' = total /\ taken' = taken
      /\ status' = "active"
  BY DEF GiveBack
<1>5. WalletType'
  BY <1>1, <1>2, <1>3, <1>4 DEF Ledger, WalletType
<1>6. LedgerBalances' /\ EventsCountOnce'
  BY <1>3, <1>4 DEF Ledger, WalletType, LedgerBalances, EventsCountOnce
<1> QED
  BY <1>5, <1>6 DEF Ledger

\* A change that is refused, or whose key was seen, leaves the wallet alone.
LEMMA RestKeeps ==
  ASSUME Ledger, UNCHANGED wallet
  PROVE  Ledger'
BY DEF Ledger, WalletType, LedgerBalances, EventsCountOnce, wallet

-----------------------------------------------------------------------------
(* The steps *)

BillingInv == Ledger /\ RentalType

\* In the beginning nothing is counted.
LEMMA BillingInitHolds == BillingInit => BillingInv
<1> SUFFICES ASSUME BillingInit
             PROVE  BillingInv
  OBVIOUS
<1>1. /\ available = 0 /\ total = 0 /\ status = "none" /\ keys = {} /\ posts = {} /\ taken = 0
      /\ rental = [r \in Rentals |-> "new"] /\ owned = [r \in Rentals |-> TRUE]
  BY DEF BillingInit
<1>2. /\ keys \cap Charges = {} /\ keys \cap Refunds = {} /\ keys \cap Grants = {}
  BY <1>1
<1>3. IsFiniteSet({}) /\ Cardinality({}) = 0
  BY FS_EmptySet
<1>4. Ledger
  BY <1>1, <1>2, <1>3 DEF Ledger, WalletType, LedgerBalances, EventsCountOnce
<1>5. RentalType
  BY <1>1 DEF RentalType
<1> QED
  BY <1>4, <1>5 DEF BillingInv

\* A hook adds a post and touches nothing else.
LEMMA RaiseKeeps ==
  ASSUME BillingInv, NEW e \in Grants \cup Revokes, Raise(e)
  PROVE  BillingInv'
<1>1. Ledger'
  BY RestKeeps DEF BillingInv, Raise
<1> QED
  BY <1>1 DEF BillingInv, RentalType, Raise

\* The webhook books an event once or not at all.
LEMMA HandleKeeps ==
  ASSUME BillingInv, NEW e \in posts, Handle(e) \/ Lose(e)
  PROVE  BillingInv'
<1>1. RentalType'
  BY DEF BillingInv, RentalType, Handle, Lose
<1>2. \/ UNCHANGED wallet
      \/ e \notin keys /\ ((e \in Grants /\ Grant(e)) \/ (e \in Revokes /\ Revoke(e)))
  <2>1. CASE Lose(e)
    BY <2>1 DEF Lose
  <2>2. CASE Handle(e)
    BY <2>2, Zenon DEF Handle, Once, Replayed
  <2> QED
    BY <2>1, <2>2
<1>3. Ledger'
  BY <1>2, RestKeeps, GrantKeeps, RevokeKeeps DEF BillingInv
<1> QED
  BY <1>1, <1>3 DEF BillingInv

\* A rental's request charges once, refunds once or leaves the wallet alone.
LEMMA RentalKeeps ==
  ASSUME BillingInv, NEW r \in Rentals,
         \/ AssignSlot(r) \/ DeductForActivation(r)
         \/ UnclaimTenant(r) \/ RefundForTermination(r)
  PROVE  BillingInv'
<1>1. CASE AssignSlot(r) \/ UnclaimTenant(r)
  <2>1. Ledger'
    BY <1>1, RestKeeps DEF BillingInv, AssignSlot, UnclaimTenant
  <2>2. RentalType'
    BY <1>1 DEF BillingInv, RentalType, AssignSlot, UnclaimTenant, Goes
  <2> QED
    BY <2>1, <2>2 DEF BillingInv
<1>2. CASE DeductForActivation(r)
  <2>1. UNCHANGED wallet \/ (Charge(r) \notin keys /\ Deduct(Charge(r)))
    BY <1>2 DEF DeductForActivation, Once, Replayed
  <2>2. Ledger'
    BY <2>1, RestKeeps, DeductKeeps DEF BillingInv
  <2>3. RentalType'
    BY <1>2 DEF BillingInv, RentalType, DeductForActivation, Goes, MayDisown
  <2> QED
    BY <2>2, <2>3 DEF BillingInv
<1>3. CASE RefundForTermination(r)
  <2>1. UNCHANGED wallet \/ (Refund(r) \notin keys /\ GiveBack(Refund(r)))
    BY <1>3 DEF RefundForTermination, Once, Replayed
  <2>2. Ledger'
    BY <2>1, RestKeeps, GiveBackKeeps DEF BillingInv
  <2>3. RentalType'
    BY <1>3 DEF BillingInv, RentalType, RefundForTermination, Goes
  <2> QED
    BY <2>2, <2>3 DEF BillingInv
<1> QED
  BY <1>1, <1>2, <1>3

\* Every step keeps the invariant.
LEMMA BillingNextKeeps == BillingInv /\ [BillingNext]_billing => BillingInv'
<1> SUFFICES ASSUME BillingInv, [BillingNext]_billing
             PROVE  BillingInv'
  OBVIOUS
<1>1. CASE AfterOrderAccept \/ InvoicePaid \/ CancellationRequest
  BY <1>1, RaiseKeeps DEF AfterOrderAccept, InvoicePaid, CancellationRequest, Grants
<1>2. CASE \E e \in posts : Handle(e) \/ Lose(e)
  BY <1>2, HandleKeeps
<1>3. CASE \E r \in Rentals : \/ AssignSlot(r) \/ DeductForActivation(r)
                             \/ UnclaimTenant(r) \/ RefundForTermination(r)
  BY <1>3, RentalKeeps
<1>4. CASE UNCHANGED billing
  <2>1. Ledger'
    BY <1>4, RestKeeps DEF BillingInv, billing
  <2> QED
    BY <1>4, <2>1 DEF BillingInv, RentalType, billing
<1> QED
  BY <1>1, <1>2, <1>3, <1>4 DEF BillingNext

-----------------------------------------------------------------------------
(* The theorems *)

\* The ledger balances and everything has its type in every reachable state.
THEOREM BooksStayInStep == BillingSpec => []BillingInv
<1>1. BillingInit => BillingInv
  BY BillingInitHolds
<1>2. BillingInv /\ [BillingNext]_billing => BillingInv'
  BY BillingNextKeeps
<1> QED
  BY <1>1, <1>2, PTL DEF BillingSpec

\* The state keeps its shape; no column is ever negative.
THEOREM BillingTypeCorrect == BillingSpec => []BillingTypeOK
<1>1. BillingInv => BillingTypeOK
  BY DEF BillingInv, Ledger, WalletType, RentalType, BillingTypeOK
<1> QED
  BY <1>1, BooksStayInStep, PTL

\* The ledger balances, for any number of packages, invoices, rentals and posts.
THEOREM LedgerAlwaysBalances == BillingSpec => []LedgerBalances
<1>1. BillingInv => LedgerBalances
  BY DEF BillingInv, Ledger
<1> QED
  BY <1>1, BooksStayInStep, PTL

\* Every order and every paid invoice counts once.
THEOREM EventsAlwaysCountOnce == BillingSpec => []EventsCountOnce
<1>1. BillingInv => EventsCountOnce
  BY DEF BillingInv, Ledger
<1> QED
  BY <1>1, BooksStayInStep, PTL

=============================================================================
