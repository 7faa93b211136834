------------------------------ MODULE BayOccupancy ------------------------------
(***************************************************************************)
(* Who has a bay: reserve_slot, assign_slot (up to its reservation; VpsJobs *)
(* has the rest), end_rental with its callers, the cleanup hold and the    *)
(* operator's calls of application/vps_farm_management_service.py, on the  *)
(* reservation and hold stores, the tenant rows and the credits.           *)
(*                                                                         *)
(* A store call is one step, as the stores lock one call each; a call of   *)
(* the tenant service, the credit service or the screen platform is one    *)
(* step too, and may fail before or after it took effect.  Checks that     *)
(* only refuse a request (input formats, farm status, active jobs, rate    *)
(* limits) and the commands to the phone, whose failure is only logged,    *)
(* are left out.                                                           *)
(***************************************************************************)
EXTENDS Integers, FiniteSets

CONSTANTS
    Handlers,    \* request threads
    Sweeper,     \* the heartbeat thread, which calls sweep_ended_rentals
    Bays,
    Rentals,
    Users,
    Buyer,       \* the customer of each rental
    Nobody, NoUser, NoBay,
    Ops,         \* the operations that are requested
    Credit,      \* credits of each customer at the start
    MaxFailures, \* bound: failed calls of an external service
    MaxCrashes   \* bound: restarts of the VPS process

Grants == {"reserve", "assign"}
Endings == {"end", "cancel"}
Operator == {"verify", "force", "disable", "enable"}

ASSUME BayAssumption ==
    /\ Sweeper \notin Handlers
    /\ Nobody \notin Rentals /\ NoUser \notin Users /\ NoBay \notin Bays
    /\ Buyer \in [Rentals -> Users]
    /\ Ops \subseteq Grants \cup Endings \cup Operator
    /\ Credit \in Nat /\ MaxFailures \in Nat /\ MaxCrashes \in Nat

Threads == Handlers \cup {Sweeper}

VARIABLES
    row,       \* tenant rows: bay -> slots.id, user_id, rental_id, ends_at passed
    sold,      \* rental ids the shop has given out
    reserved,  \* slot_reservations
    holds,     \* device_cleanup_holds
    disabled,  \* slot_rental_disabled
    wallet,    \* available_credits and the idempotency keys already seen
    thread,
    todo,      \* what the running sweep has still to visit
    last,      \* history: bay -> last rental since an operator cleared a hold
    via,       \* history: bay -> the operation that wrote its reservation
    failures,
    crashes

tenant == <<row, sold>>
stores == <<reserved, holds, disabled>>
history == <<last, via>>
bounds == <<failures, crashes>>
vars == <<tenant, stores, wallet, thread, todo, history, bounds>>

--------------------------------------------------------------------------------
NoRow == [id |-> Nobody, user |-> NoUser, rental |-> Nobody, over |-> FALSE]

Idle == [pc |-> "idle", op |-> "none", rental |-> Nobody, bay |-> NoBay,
         owner |-> NoUser]

Task(pc, op, rental, bay) ==
    [Idle EXCEPT !.pc = pc, !.op = op, !.rental = rental, !.bay = bay]

Init ==
    /\ row = [b \in Bays |-> NoRow]
    /\ sold = {}
    /\ reserved = [b \in Bays |-> Nobody]
    /\ holds = {} /\ disabled = {}
    /\ wallet = [left |-> [u \in Users |-> Credit], keys |-> {}]
    /\ thread = [t \in Threads |-> Idle]
    /\ todo = {}
    /\ last = [b \in Bays |-> Nobody]
    /\ via = [b \in Bays |-> "none"]
    /\ failures = 0 /\ crashes = 0

Goto(t, pc) == thread' = [thread EXCEPT ![t].pc = pc]
Stop(t) == thread' = [thread EXCEPT ![t] = Idle]
GotoIf(t, condition, pc) == IF condition THEN Goto(t, pc) ELSE Stop(t)

OnlyThread == UNCHANGED <<tenant, stores, wallet, todo, history, bounds>>

Fails == failures < MaxFailures /\ failures' = failures + 1

--------------------------------------------------------------------------------
(* The shop, the clock and the requests *)

\* list_available_slots
Available(b) == reserved[b] = Nobody /\ b \notin holds /\ b \notin disabled

\* The shop writes a row for a new rental of a bay that is listed and has no owner.
Rent(b, r) ==
    /\ r \notin sold
    /\ Available(b) /\ row[b].user = NoUser
    /\ row' = [row EXCEPT ![b] = [id |-> r, user |-> Buyer[r], rental |-> r, over |-> FALSE]]
    /\ sold' = sold \cup {r}
    /\ UNCHANGED <<stores, wallet, thread, todo, history, bounds>>

\* ends_at passes
Expire(b) ==
    /\ row[b].id # Nobody /\ ~row[b].over
    /\ row' = [row EXCEPT ![b].over = TRUE]
    /\ UNCHANGED <<sold, stores, wallet, thread, todo, history, bounds>>

StartGrant(h) ==
    /\ thread[h].pc = "idle"
    /\ \E op \in Ops \cap Grants, r \in sold, b \in Bays :
          thread' = [thread EXCEPT ![h] = Task("other", op, r, b)]
    /\ OnlyThread

StartEnding(h) ==
    /\ thread[h].pc = "idle"
    /\ \E op \in Ops \cap Endings, r \in sold :
          thread' = [thread EXCEPT ![h] =
              Task(IF op = "cancel" THEN "authorize" ELSE "find", op, r, NoBay)]
    /\ OnlyThread

StartOperator(h) ==
    /\ thread[h].pc = "idle"
    /\ \E op \in Ops \cap Operator, b \in Bays :
          thread' = [thread EXCEPT ![h] = Task(op, op, Nobody, b)]
    /\ OnlyThread

\* sweep_ended_rentals, run by the heartbeat thread after every poll
SweepStart ==
    /\ thread[Sweeper].pc = "idle" /\ todo = {}
    /\ todo' = {reserved[b] : b \in Bays} \ {Nobody}
    /\ UNCHANGED <<tenant, stores, wallet, thread, history, bounds>>

SweepNext(r) ==
    /\ thread[Sweeper].pc = "idle"
    /\ r \in todo
    /\ todo' = todo \ {r}
    /\ thread' = [thread EXCEPT ![Sweeper] = Task("find", "sweep", r, NoBay)]
    /\ UNCHANGED <<tenant, stores, wallet, history, bounds>>

Restart ==
    /\ crashes < MaxCrashes
    /\ crashes' = crashes + 1
    /\ thread' = [t \in Threads |-> Idle]
    /\ todo' = {}
    /\ UNCHANGED <<tenant, stores, wallet, history, failures>>

--------------------------------------------------------------------------------
(* The tenant and the credit service *)

RowsOf(r) == {b \in Bays : row[b].id = r}

\* POST /slots/by-bay/{bay}/claim: refused if another user owns the bay
CanClaim(b, u) == row[b].user \in {NoUser, u}
Claimed(b, u, r) == [row EXCEPT ![b] = [@ EXCEPT !.user = u, !.rental = r]]

\* POST /slots/by-bay/{bay}/unclaim: refused if a different rental owns the bay
CanUnclaim(b, r) ==
    row[b].user = NoUser \/ r = Nobody \/ row[b].rental = r
Unclaimed(b) == Claimed(b, NoUser, Nobody)

\* The ledger's answer to a key it has seen is the state it has
Charge(u, r) ==
    IF <<"activate", r>> \in wallet.keys THEN wallet
    ELSE [left |-> [wallet.left EXCEPT ![u] = @ - 1],
          keys |-> wallet.keys \cup {<<"activate", r>>}]
CanCharge(u, r) == <<"activate", r>> \in wallet.keys \/ wallet.left[u] >= 1
Refund(u, r) ==
    IF <<"terminate", r>> \in wallet.keys THEN wallet
    ELSE [left |-> [wallet.left EXCEPT ![u] = @ + 1],
          keys |-> wallet.keys \cup {<<"terminate", r>>}]

--------------------------------------------------------------------------------
(* reserve_slot and assign_slot *)

\* _slot_reserved_by_other
CheckOther(t) ==
    LET me == thread[t] IN
    /\ me.pc = "other"
    /\ GotoIf(t, reserved[me.bay] \in {Nobody, me.rental},
              IF me.op = "reserve" THEN "same" ELSE "hold")
    /\ OnlyThread

\* reserve_slot: reservations.get again, "reserved" if the rental has the bay
CheckSame(t) ==
    LET me == thread[t] IN
    /\ me.pc = "same"
    /\ GotoIf(t, reserved[me.bay] # me.rental, "hold")
    /\ OnlyThread

CheckHold(t) ==
    /\ thread[t].pc = "hold"
    /\ GotoIf(t, thread[t].bay \notin holds, "disabled")
    /\ OnlyThread

CheckDisabled(t) ==
    /\ thread[t].pc = "disabled"
    /\ GotoIf(t, thread[t].bay \notin disabled, "row")
    /\ OnlyThread

\* _resolve_reservation_owner, _resolve_authoritative_assignment: the row of the
\* rental must be that of the bay and have an owner
ResolveOwner(t) ==
    LET me == thread[t] IN
    /\ me.pc = "row"
    /\ IF row[me.bay].id = me.rental /\ row[me.bay].user # NoUser
       THEN thread' = [thread EXCEPT ![t].pc = "occupied", ![t].owner = row[me.bay].user]
       ELSE Stop(t)
    /\ OnlyThread

\* _reject_occupied_tenant_slot
RejectOccupied(t) ==
    LET me == thread[t] IN
    /\ me.pc = "occupied"
    /\ GotoIf(t, CanClaim(me.bay, me.owner), "claim")
    /\ OnlyThread

ClaimTenant(t) ==
    LET me == thread[t] IN
    /\ me.pc = "claim"
    /\ IF CanClaim(me.bay, me.owner)
       THEN /\ row' = Claimed(me.bay, me.owner, me.rental)
            /\ Goto(t, IF me.op = "reserve" THEN "deduct" ELSE "ensure")
       ELSE /\ Stop(t)
            /\ UNCHANGED row
    /\ UNCHANGED <<sold, stores, wallet, todo, history, bounds>>

\* Fault for RentedMeansCharged: a refused deduction is not looked at
DeductUnchecked(t) ==
    LET me == thread[t] IN
    /\ me.pc = "deduct"
    /\ Goto(t, "ensure")
    /\ wallet' = IF CanCharge(me.owner, me.rental) THEN Charge(me.owner, me.rental) ELSE wallet
    /\ UNCHANGED <<tenant, stores, todo, history, bounds>>

\* _deduct_activation_credit
Deduct(t) ==
    LET me == thread[t] IN
    /\ me.pc = "deduct"
    /\ IF CanCharge(me.owner, me.rental)
       THEN /\ Goto(t, "ensure")
            /\ wallet' = Charge(me.owner, me.rental)
       ELSE /\ Goto(t, "undo")
            /\ UNCHANGED wallet
    /\ UNCHANGED <<tenant, stores, todo, history, bounds>>

\* ... and the claim is taken back, whoever relies on it by now
UndoClaim(t) ==
    LET me == thread[t] IN
    /\ me.pc = "undo"
    /\ row' = IF CanUnclaim(me.bay, me.rental) THEN Unclaimed(me.bay) ELSE row
    /\ Stop(t)
    /\ UNCHANGED <<sold, stores, wallet, todo, history, bounds>>

\* _ensure_reservation: get ...
FindReservation(t) ==
    LET me == thread[t] IN
    /\ me.pc = "ensure"
    /\ GotoIf(t, reserved[me.bay] # me.rental, "insert")
    /\ OnlyThread

\* ... and claim.  A 409 here takes nothing back.
InsertReservation(t) ==
    LET me == thread[t] IN
    /\ me.pc = "insert"
    /\ Stop(t)
    /\ IF reserved[me.bay] = Nobody
       THEN /\ reserved' = [reserved EXCEPT ![me.bay] = me.rental]
            /\ last' = [last EXCEPT ![me.bay] = me.rental]
            /\ via' = [via EXCEPT ![me.bay] = me.op]
       ELSE UNCHANGED <<reserved, last, via>>
    /\ UNCHANGED <<tenant, holds, disabled, wallet, todo, bounds>>

Grant(t) ==
    \/ CheckOther(t) \/ CheckSame(t) \/ CheckHold(t) \/ CheckDisabled(t)
    \/ ResolveOwner(t) \/ RejectOccupied(t) \/ ClaimTenant(t) \/ Deduct(t)
    \/ UndoClaim(t) \/ FindReservation(t) \/ InsertReservation(t)

--------------------------------------------------------------------------------
(* end_rental and cancel_rental_for_customer *)

\* cancel_rental_for_customer: the caller must own the row
Authorize(t) ==
    LET r == thread[t].rental IN
    /\ thread[t].pc = "authorize"
    /\ GotoIf(t, \E b \in RowsOf(r) : row[b].user = Buyer[r], "find")
    /\ OnlyThread

\* reservations.get_by_rental
FindHeld(t) ==
    LET held == {b \in Bays : reserved[b] = thread[t].rental} IN
    /\ thread[t].pc = "find"
    /\ IF held = {} THEN Goto(t, "confirm")
       ELSE \E b \in held :
               thread' = [thread EXCEPT ![t].pc = "confirm", ![t].bay = b]
    /\ OnlyThread

\* Fault for OverIsReleased: a row without an owner ends nothing
EndedOwned(t, rows) ==
    thread[t].op # "sweep" \/ \A b \in rows : row[b].user # NoUser /\ row[b].over

\* _end_condition_confirmed on the row of the rental, if there is one
Ended(t, rows) ==
    \/ thread[t].op # "sweep"
    \/ \A b \in rows : row[b].user = NoUser \/ row[b].over

\* The row's bay if nothing is reserved, and the owner the refund will go to
ConfirmEnd(t) ==
    LET me == thread[t]
        rows == RowsOf(me.rental)
        bays == IF me.bay # NoBay THEN {me.bay} ELSE rows
    IN
    /\ me.pc = "confirm"
    /\ IF bays # {} /\ Ended(t, rows)
       THEN \E b \in bays :
               thread' = [thread EXCEPT ![t].pc = "gads", ![t].bay = b,
                   ![t].owner = IF rows = {} THEN NoUser ELSE row[CHOOSE x \in rows : TRUE].user]
       ELSE Stop(t)
    /\ OnlyThread

\* _release_gads
ReleaseGads(t) ==
    /\ thread[t].pc = "gads"
    /\ Goto(t, "mark")
    /\ OnlyThread

\* Fault for TypeOK: the arguments of mark_required are swapped
MarkRequiredSwapped(t) ==
    /\ thread[t].pc = "mark"
    /\ holds' = holds \cup {thread[t].rental}
    /\ Goto(t, "unclaim")
    /\ UNCHANGED <<tenant, reserved, disabled, wallet, todo, history, bounds>>

\* cleanup.mark_required
MarkRequired(t) ==
    /\ thread[t].pc = "mark"
    /\ holds' = holds \cup {thread[t].bay}
    /\ Goto(t, "unclaim")
    /\ UNCHANGED <<tenant, reserved, disabled, wallet, todo, history, bounds>>

\* _unclaim_tenant: unclaim ...
UnclaimTenant(t) ==
    LET me == thread[t] IN
    /\ me.pc = "unclaim"
    /\ IF CanUnclaim(me.bay, me.rental)
       THEN /\ row' = Unclaimed(me.bay)
            /\ Goto(t, "unowned")
       ELSE /\ Stop(t)
            /\ UNCHANGED row
    /\ UNCHANGED <<sold, stores, wallet, todo, history, bounds>>

\* ... and owner_of_slot
CheckUnowned(t) ==
    LET me == thread[t] IN
    /\ me.pc = "unowned"
    /\ GotoIf(t, row[me.bay].user = NoUser,
              IF me.owner = NoUser THEN "release" ELSE "refund")
    /\ OnlyThread

\* _refund_termination_credit
RefundCredit(t) ==
    LET me == thread[t] IN
    /\ me.pc = "refund"
    /\ wallet' = Refund(me.owner, me.rental)
    /\ Goto(t, "release")
    /\ UNCHANGED <<tenant, stores, todo, history, bounds>>

\* reservations.release; what is read after it only decides the answer
ReleaseReservation(t) ==
    LET me == thread[t] IN
    /\ me.pc = "release"
    /\ reserved' = [reserved EXCEPT ![me.bay] = IF @ = me.rental THEN Nobody ELSE @]
    /\ Stop(t)
    /\ UNCHANGED <<tenant, holds, disabled, wallet, todo, history, bounds>>

EndRental(t) ==
    \/ Authorize(t) \/ FindHeld(t) \/ ConfirmEnd(t) \/ ReleaseGads(t) \/ MarkRequired(t)
    \/ UnclaimTenant(t) \/ CheckUnowned(t) \/ RefundCredit(t) \/ ReleaseReservation(t)

--------------------------------------------------------------------------------
(* verify_cleanup, force_available, disable_rental, enable_rental *)

\* verify_cleanup: _bay_has_active_rental.  A bay that has one is wiped, no more.
ReadOccupied(t) ==
    /\ thread[t].pc = "verify"
    /\ GotoIf(t, reserved[thread[t].bay] = Nobody, "required")
    /\ OnlyThread

\* cleanup.is_required; the wipe of the phone follows
ReadRequired(t) ==
    /\ thread[t].pc = "required"
    /\ Goto(t, IF thread[t].bay \in holds THEN "clear" ELSE "enable")
    /\ OnlyThread

\* force_available: reservations.get ...
ForceRead(t) ==
    /\ thread[t].pc = "force"
    /\ thread' = [thread EXCEPT ![t].pc = "drop", ![t].rental = reserved[thread[t].bay]]
    /\ OnlyThread

\* ... and release of that rental, or force_release if there was none
ForceDrop(t) ==
    LET me == thread[t] IN
    /\ me.pc = "drop"
    /\ IF me.rental \in {Nobody, reserved[me.bay]}
       THEN reserved' = [reserved EXCEPT ![me.bay] = Nobody]
       ELSE UNCHANGED reserved
    /\ Goto(t, "clear")
    /\ UNCHANGED <<tenant, holds, disabled, wallet, todo, history, bounds>>

\* cleanup.clear, of verify_cleanup and force_available
ClearHold(t) ==
    LET me == thread[t] IN
    /\ me.pc = "clear"
    /\ holds' = holds \ {me.bay}
    /\ last' = [last EXCEPT ![me.bay] = Nobody]
    /\ Goto(t, "enable")
    /\ UNCHANGED <<tenant, reserved, disabled, wallet, todo, via, bounds>>

\* cleanup.clear_disabled, of these two and enable_rental
ClearDisabled(t) ==
    /\ thread[t].pc = "enable"
    /\ disabled' = disabled \ {thread[t].bay}
    /\ GotoIf(t, thread[t].op = "force", "free")
    /\ UNCHANGED <<tenant, reserved, holds, wallet, todo, history, bounds>>

\* force_available's unclaim, after a call to the phone
ForceUnclaim(t) ==
    LET me == thread[t] IN
    /\ me.pc = "free"
    /\ row' = IF CanUnclaim(me.bay, me.rental) THEN Unclaimed(me.bay) ELSE row
    /\ Stop(t)
    /\ UNCHANGED <<sold, stores, wallet, todo, history, bounds>>

MarkDisabled(t) ==
    /\ thread[t].pc = "disable"
    /\ disabled' = disabled \cup {thread[t].bay}
    /\ Stop(t)
    /\ UNCHANGED <<tenant, reserved, holds, wallet, todo, history, bounds>>

Operate(t) ==
    \/ ReadOccupied(t) \/ ReadRequired(t) \/ ForceRead(t) \/ ForceDrop(t)
    \/ ClearHold(t) \/ ClearDisabled(t) \/ ForceUnclaim(t) \/ MarkDisabled(t)

--------------------------------------------------------------------------------
(* Calls of other services that fail *)

Reads == {"row", "occupied", "authorize", "confirm", "gads", "unowned"}
Writes == {"claim", "deduct", "undo", "unclaim", "refund", "free"}

\* A failed deduction is undone, every other failure ends the request
AfterFailure(t) == GotoIf(t, thread[t].pc = "deduct", "undo")

\* The call did nothing
CallFails(t) ==
    /\ thread[t].pc \in Reads \cup Writes
    /\ Fails
    /\ AfterFailure(t)
    /\ UNCHANGED <<tenant, stores, wallet, todo, history, crashes>>

\* The call took effect and its answer was lost
AnswerLost(t) ==
    LET me == thread[t] IN
    /\ Fails
    /\ AfterFailure(t)
    /\ \/ /\ me.pc = "claim" /\ CanClaim(me.bay, me.owner)
          /\ row' = Claimed(me.bay, me.owner, me.rental)
          /\ UNCHANGED wallet
       \/ /\ me.pc = "unclaim" /\ CanUnclaim(me.bay, me.rental)
          /\ row' = Unclaimed(me.bay)
          /\ UNCHANGED wallet
       \/ /\ me.pc = "deduct" /\ CanCharge(me.owner, me.rental)
          /\ wallet' = Charge(me.owner, me.rental)
          /\ UNCHANGED row
       \/ /\ me.pc = "refund"
          /\ wallet' = Refund(me.owner, me.rental)
          /\ UNCHANGED row
    /\ UNCHANGED <<sold, stores, todo, history, crashes>>

Step(t) == Grant(t) \/ EndRental(t) \/ Operate(t)

Next ==
    \/ \E b \in Bays, r \in Rentals : Rent(b, r)
    \/ \E b \in Bays : Expire(b)
    \/ \E h \in Handlers : StartGrant(h) \/ StartEnding(h) \/ StartOperator(h)
    \/ SweepStart
    \/ \E r \in Rentals : SweepNext(r)
    \/ \E t \in Threads : Step(t) \/ CallFails(t) \/ AnswerLost(t)
    \/ Restart

Spec == Init /\ [][Next]_vars

\* Threads run and the heartbeat goes on; calls fail MaxFailures times at most.
Fairness ==
    /\ \A t \in Threads : WF_vars(Step(t))
    /\ WF_vars(SweepStart)
    /\ \A r \in Rentals : WF_vars(SweepNext(r))

FairSpec == Spec /\ Fairness

--------------------------------------------------------------------------------
(* Properties *)

Pcs == {"idle", "other", "same", "hold", "disabled", "insert", "ensure", "find",
        "mark", "release", "verify", "required", "force", "drop", "clear",
        "enable", "disable"} \cup Reads \cup Writes

Rows == [id : Rentals \cup {Nobody}, user : Users \cup {NoUser},
         rental : Rentals \cup {Nobody}, over : BOOLEAN]

Tasks == [pc : Pcs, op : {"none", "sweep"} \cup Ops, rental : Rentals \cup {Nobody},
          bay : Bays \cup {NoBay}, owner : Users \cup {NoUser}]

\* Every variable has its type; no customer's credits are ever negative.
TypeOK ==
    /\ row \in [Bays -> Rows]
    /\ sold \subseteq Rentals
    /\ reserved \in [Bays -> Rentals \cup {Nobody}]
    /\ holds \subseteq Bays /\ disabled \subseteq Bays
    /\ wallet \in [left : [Users -> Nat], keys : SUBSET ({"activate", "terminate"} \X Rentals)]
    /\ thread \in [Threads -> Tasks]
    /\ todo \subseteq Rentals
    /\ last \in [Bays -> Rentals \cup {Nobody}]
    /\ via \in [Bays -> {"none"} \cup Grants]
    /\ failures \in 0..MaxFailures /\ crashes \in 0..MaxCrashes

\* Between two rentals of a bay an operator clears a cleanup hold.  (Fails:
\* verify_cleanup decides on what it read before the wipe of the phone, so it
\* clears the hold that another thread set meanwhile, and assign_slot looks at
\* the hold long before it reserves.)
OperatorBetweenRentals ==
    [][\A b \in Bays :
          reserved[b] = Nobody /\ reserved'[b] # Nobody
              => last[b] \in {Nobody, reserved'[b]}]_vars

\* A reservation that reserve_slot wrote was paid for, whatever assigns, ends
\* and failing calls come in between.  (assign_slot charges nobody.)
RentedMeansCharged ==
    \A b \in Bays :
        reserved[b] # Nobody /\ via[b] = "reserve"
            => <<"activate", reserved[b]>> \in wallet.keys

\* A rental that has run out, or whose row the shop has given to another one,
\* loses its bay, though calls fail and the process restarts while it is ended.
OverIsReleased ==
    \A b \in Bays, r \in Rentals :
        (reserved[b] = r /\ (row[b].id # r \/ row[b].over)) ~> reserved[b] # r

================================================================================
