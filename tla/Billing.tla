------------------------------ MODULE Billing ------------------------------
(***************************************************************************)
(* The credits of one customer: the shop's hooks post an event for an      *)
(* accepted order, a paid invoice and a cancellation (whmcs/vps_sync.php), *)
(* the VPS turns each into a grant or a revocation, reserve_slot takes a   *)
(* credit and end_rental gives one back (application/                      *)
(* vps_farm_management_service.py, whmcs_billing_service.py,               *)
(* infrastructure/credit_wallet_store.py); assign_slot takes none.         *)
(*                                                                         *)
(* Every change carries an idempotency key, and a key that was seen leaves *)
(* the wallet alone.  A hook posts once, without a retry, and posts may    *)
(* overtake each other; a rental repeats a request whose answer was lost,  *)
(* an end that is repeated finds the tenant row without its owner.         *)
(***************************************************************************)
EXTENDS Integers, FiniteSets

CONSTANTS Services,         \* the packages of the customer in the shop
          Invoices,         \* the invoices for them
          ServiceOf,        \* ServiceOf[i]: the package that invoice i pays
          Rentals,
          NoInvoice,        \* the invoice number of an event without invoice
          MaxRaised         \* bound: how often a hook runs

ASSUME ServiceOfAssumption == ServiceOf \in [Invoices -> Services]

VARIABLES available, total, status,     \* the customer's row of user_credits
          keys,                         \* credit_wallet_events
          posts,                        \* events on their way to the VPS
          rental,                       \* rental[r]: where r is with its phone
          owned,                        \* owned[r]: its tenant row names the customer
          taken,                        \* history: what revocations took
          raised

wallet  == <<available, total, status, keys, taken>>
billing == <<wallet, posts, rental, owned, raised>>

\* The key of an event names the hook, the package and the invoice.
Event(kind, service, invoice) == [kind |-> kind, service |-> service, invoice |-> invoice]
Orders  == {Event("afterorderaccept", s, NoInvoice) : s \in Services}
Bills   == {Event("invoicepaid", ServiceOf[i], i) : i \in Invoices}
Grants  == Orders \cup Bills
Revokes == {Event("cancellationrequest", s, NoInvoice) : s \in Services}
Charge(r) == [activate |-> r]
Refund(r) == [terminate |-> r]
Charges == {Charge(r) : r \in Rentals}
Refunds == {Refund(r) : r \in Rentals}
Keys    == Grants \cup Revokes \cup Charges \cup Refunds

BillingInit ==
  /\ available = 0 /\ total = 0 /\ status = "none"
  /\ keys = {} /\ posts = {} /\ taken = 0
  /\ rental = [r \in Rentals |-> "new"] /\ owned = [r \in Rentals |-> TRUE]
  /\ raised = 0

-----------------------------------------------------------------------------
(* CreditWalletStore.apply; every package is worth one credit *)

\* Fault for BillingTypeOK: a revocation counts in full on an empty wallet
LeftUnbounded(n) == n - 1

Left(n) == IF n > 0 THEN n - 1 ELSE 0

\* Fault for EventsCountOnce: the key is looked up and never written down
NotSeen(key) == keys' = keys

Seen(key) == keys' = keys \cup {key}

Grant(key) ==
  /\ available' = available + 1 /\ total' = total + 1 /\ status' = "active"
  /\ Seen(key) /\ UNCHANGED taken

Revoke(key) ==
  /\ available' = Left(available) /\ status' = "cancelled"
  /\ taken' = taken + (IF available > 0 THEN 1 ELSE 0)
  /\ Seen(key) /\ UNCHANGED total

\* A rental's change sets the status to active, whatever it was.
Deduct(key) ==
  /\ available > 0
  /\ available' = available - 1 /\ status' = "active"
  /\ Seen(key) /\ UNCHANGED <<total, taken>>

\* Fault for LedgerBalances: a refund is booked like a grant
GiveBackAsGrant(key) == Grant(key)

GiveBack(key) ==
  /\ available' = available + 1 /\ status' = "active"
  /\ Seen(key) /\ UNCHANGED <<total, taken>>

Replayed(key) == key \in keys /\ UNCHANGED wallet
Once(key, change) == Replayed(key) \/ (key \notin keys /\ change)

-----------------------------------------------------------------------------
(* The hooks of the shop and the webhook of the VPS *)

\* A hook may run again for what it has reported: a cancellation that is taken
\* back and asked for again has the key of the first.
Raise(e) ==
  /\ raised < MaxRaised
  /\ raised' = raised + 1
  /\ posts' = posts \cup {e}
  /\ UNCHANGED <<wallet, rental, owned>>

AfterOrderAccept == \E e \in Orders : Raise(e)
InvoicePaid == \E e \in Bills : Raise(e)
CancellationRequest == \E e \in Revokes : Raise(e)

Handle(e) ==
  /\ e \in posts
  /\ posts' = posts \ {e}
  /\ \/ e \in Grants /\ Once(e, Grant(e))
     \/ e \in Revokes /\ Once(e, Revoke(e))
  /\ UNCHANGED <<rental, owned, raised>>

\* The VPS was down, the credits could not be written, or the answer took more
\* than the hook's fifteen seconds: nobody posts the event again.
Lose(e) ==
  /\ e \in posts
  /\ posts' = posts \ {e}
  /\ UNCHANGED <<wallet, rental, owned, raised>>

-----------------------------------------------------------------------------
(* What a rental's requests do; a request fails when an answer is lost *)

Goes(r, place) == rental' = [rental EXCEPT ![r] = place]
MayDisown(r) == owned' \in {owned, [owned EXCEPT ![r] = FALSE]}

\* assign_slot claims the row and the bay, and deducts nothing.
AssignSlot(r) ==
  /\ rental[r] = "new" /\ owned[r]
  /\ Goes(r, "held")
  /\ UNCHANGED <<wallet, posts, owned, raised>>

\* reserve_slot deducts between the two claims.  Without an answer, or with an
\* empty wallet, it takes the claim of the row back, which may fail in its turn;
\* the bay may be refused after the deduction.
DeductForActivation(r) ==
  /\ rental[r] = "new" /\ owned[r]
  /\ \/ /\ Once(Charge(r), Deduct(Charge(r)))
        /\ Goes(r, "held") /\ UNCHANGED owned
     \/ /\ Once(Charge(r), Deduct(Charge(r)))
        /\ MayDisown(r) /\ UNCHANGED rental
     \/ /\ MayDisown(r) /\ UNCHANGED <<wallet, rental>>
  /\ UNCHANGED <<posts, raised>>

\* end_rental reads the owner, then unclaims the row: a try whose answer is lost
\* leaves a row without an owner, and the next one owes nobody a refund.
UnclaimTenant(r) ==
  /\ rental[r] \in {"new", "held", "ending"}
  /\ owned' = [owned EXCEPT ![r] = FALSE]
  /\ Goes(r, IF owned[r] THEN "refunding" ELSE "over") \/ Goes(r, "ending")
  /\ UNCHANGED <<wallet, posts, raised>>

\* The refund does not ask whether a credit was taken.
RefundForTermination(r) ==
  /\ rental[r] = "refunding"
  /\ \/ /\ Once(Refund(r), GiveBack(Refund(r)))
        /\ Goes(r, "over") \/ Goes(r, "ending")
     \/ /\ Goes(r, "ending")
        /\ UNCHANGED wallet
  /\ UNCHANGED <<posts, owned, raised>>

BillingNext ==
  \/ AfterOrderAccept \/ InvoicePaid \/ CancellationRequest
  \/ \E e \in posts : Handle(e) \/ Lose(e)
  \/ \E r \in Rentals : \/ AssignSlot(r) \/ DeductForActivation(r)
                       \/ UnclaimTenant(r) \/ RefundForTermination(r)

BillingSpec == BillingInit /\ [][BillingNext]_billing

-----------------------------------------------------------------------------

\* The shape of the state; the columns are never negative.
BillingTypeOK ==
  /\ available \in Nat /\ total \in Nat /\ taken \in Nat
  /\ status \in {"none", "active", "cancelled"}
  /\ keys \subseteq Keys /\ posts \subseteq Grants \cup Revokes
  /\ rental \in [Rentals -> {"new", "held", "refunding", "ending", "over"}]
  /\ owned \in [Rentals -> BOOLEAN]

\* What was granted and refunded is what is left, what rentals took and what
\* cancellations took, whatever was posted twice, lost, overtaken or repeated.
LedgerBalances ==
  available + taken + Cardinality(keys \cap Charges)
    = total + Cardinality(keys \cap Refunds)

\* The lifetime total counts every order and every paid invoice once, however
\* often its hook ran.
EventsCountOnce == total = Cardinality(keys \cap Grants)

=============================================================================
