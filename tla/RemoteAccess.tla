------------------------------ MODULE RemoteAccess ------------------------------
(***************************************************************************)
(* application/remote_access_service.py over                               *)
(* infrastructure/remote_access_store.py and the screen platform (GADS):   *)
(* the remote session of each rental of one bay, from create to the end    *)
(* by the customer, the farm service, an administrator or the sweep.       *)
(*                                                                         *)
(* create and end run under the bay's lock.  The observation of the eSIM,  *)
(* complete_setup's VoidFix step and the prepare and reboot flows do not:  *)
(* each reads the session's row, spends seconds to minutes on the phone or *)
(* a moment in the store, and writes the whole row back.  The methods of   *)
(* the store are a get and an upsert, two critical sections; so is each    *)
(* update here.  A thread works on a copy, seen, of the row it read.       *)
(*                                                                         *)
(* Bays share nothing in this service but the stream queue, whose answer   *)
(* is arbitrary here: a queued create returns without a further step.      *)
(* A grant is known by its number, which stands for the account's          *)
(* password and for the session's expiry time.                             *)
(***************************************************************************)
EXTENDS Naturals, FiniteSets

CONSTANTS
    Rentals,      \* rental ids of the bay, one after the other
    Requests,     \* threads of the server, background flows included
    Sweeper,      \* the thread of the heartbeat poller
    Nobody,       \* no thread
    Endings,      \* how a rental ends: "gone", "past", "unowned"
    MaxEvents     \* bound on the requests and restarts of the server together

Threads == Requests \cup {Sweeper}

ASSUME RemoteAssumption ==
    /\ IsFiniteSet(Rentals) /\ Rentals # {}
    /\ Sweeper \notin Requests /\ Nobody \notin Threads
    /\ Endings \subseteq {"gone", "past", "unowned"}
    /\ MaxEvents \in Nat

VARIABLES
    tenant,    \* the shop's row of the rental: "coming", "ours" or one of Endings
    cached,    \* rentals with an entry in _ownership_cache
    session,   \* remote_access_sessions: the row of the rental
    account,   \* the platform: number of the grant whose account exists, or 0
    grants,    \* number of grants so far
    expired,   \* grants whose expires_at has passed
    slotLock,  \* holder of the bay's lock, or Nobody
    flowLock,  \* _flow_locks: holder of the rental's lock, or Nobody
    thread,    \* what each thread is doing
    left,      \* requests and restarts still to come
    lost       \* history: fields of the row that do not tell what was done last, for
               \* they were written from an outdated copy or not written at all

vars == <<tenant, cached, session, account, grants, expired, slotLock, flowLock,
          thread, left, lost>>

--------------------------------------------------------------------------------
\* closed: initialized, revoked or released, a row without a session.
\* open: preparing has not begun or has failed; busy: placing_qr, rebooting,
\* waiting_adb or waiting_platform.
Statuses == {"none", "closed", "active"}
Prepares == {"open", "busy", "ready"}
Grants == 0..(MaxEvents + 1)
Row == [status : Statuses, key : Grants, prepare : Prepares]
Ops == {"create", "end", "observe", "complete", "prepare", "reboot"}
Steps == {"idle", "create", "check", "store", "end", "revoke", "close",
          "observe", "farm", "note", "voidfix", "report", "prepare", "start",
          "flow", "reach"}

NoRow == [status |-> "none", key |-> 0, prepare |-> "open"]

\* The rental the bay is let to first; also the rental of an idle thread, where
\* it means nothing
Someone == CHOOSE r \in Rentals : TRUE
Idle == [at |-> "idle", op |-> "create", rental |-> Someone, seen |-> NoRow]

\* is_active and active_for_slot
IsActive(row) == row.status = "active" /\ row.key \notin expired
Active(r) == IsActive(session[r])

Busy(row) == row.prepare = "busy"

\* The fields in which two rows differ; a grant writes status and key together
Differ(one, two) ==
    (IF one.status # two.status \/ one.key # two.key THEN {"status"} ELSE {})
        \cup (IF one.prepare # two.prepare THEN {"prepare"} ELSE {})

\* Fault for TypeOK: the status that is shown, expired, is stored
UpsertVerbatim(t, row) ==
    LET r == thread[t].rental
    IN  /\ session' = [session EXCEPT ![r] = [row EXCEPT !.status = "expired"]]
        /\ lost' = lost

\* upsert: the row replaces whatever is there.  What the writer did not mean
\* to change and had not seen in its present form is lost.
Upsert(t, row) ==
    LET r == thread[t].rental
        meant == Differ(row, thread[t].seen)
    IN  /\ session' = [session EXCEPT ![r] = row]
        /\ lost' = [lost EXCEPT ![r] =
                        (@ \ meant) \cup (Differ(session[r], thread[t].seen) \ meant)]

\* A copy of the row is forgotten once it was written
Goto(t, step) == thread' = [thread EXCEPT ![t].at = step, ![t].seen = NoRow]
Reads(t, step) ==
    thread' = [thread EXCEPT ![t].at = step, ![t].seen = session[thread[t].rental]]
Done(t) == thread' = [thread EXCEPT ![t] = Idle]

At(t, step) == thread[t].at = step
Rental(t) == thread[t].rental
Seen(t) == thread[t].seen

\* The server starts while a rental of the bay has a session.
Init ==
    /\ tenant = [r \in Rentals |-> IF r = Someone THEN "ours" ELSE "coming"]
    /\ session = [r \in Rentals |-> IF r = Someone
                                    THEN [NoRow EXCEPT !.status = "active", !.key = 1]
                                    ELSE NoRow]
    /\ account = [r \in Rentals |-> IF r = Someone THEN 1 ELSE 0]
    /\ grants = 1
    /\ cached = {}
    /\ expired = {}
    /\ slotLock = Nobody
    /\ flowLock = [r \in Rentals |-> Nobody]
    /\ thread = [t \in Threads |-> Idle]
    /\ left = MaxEvents
    /\ lost = [r \in Rentals |-> {}]

platformVars == <<account, grants>>
worldVars == <<tenant, expired>>

--------------------------------------------------------------------------------
(* The shop and the clock *)

\* The bay is let to the next customer after its last rental is over
Let(r) ==
    /\ tenant[r] = "coming" /\ \A q \in Rentals : tenant[q] # "ours"
    /\ tenant' = [tenant EXCEPT ![r] = "ours"]
    /\ UNCHANGED <<cached, session, platformVars, expired, slotLock, flowLock,
                   thread, left, lost>>

\* The row goes away or to another owner, its end passes, or it stays with an
\* empty owner or an ended status; what stays may still go or pass.
Over(r) ==
    /\ tenant[r] \in {"ours", "unowned"}
    /\ \E ending \in Endings : tenant' = [tenant EXCEPT ![r] = ending]
    /\ UNCHANGED <<cached, session, platformVars, expired, slotLock, flowLock,
                   thread, left, lost>>

\* The clock passes expires_at: nothing is told to the platform
Expire(r) ==
    /\ Active(r)
    /\ expired' = expired \cup {session[r].key}
    /\ UNCHANGED <<tenant, cached, session, platformVars, slotLock, flowLock,
                   thread, left, lost>>

--------------------------------------------------------------------------------
(* Requests *)

\* _authorize: a cached entry outlives the row it came from: for a minute, and
\* when the row has no other owner for as long as nobody forgets it.  An end
\* that has passed is never overlooked.
Authorized(r) == tenant[r] = "ours" \/ (tenant[r] \in {"gone", "unowned"} /\ r \in cached)

\* A request gets a thread of its own; which of the idle ones makes no difference
Enter(t, r, op, step) ==
    /\ At(t, "idle") /\ t = CHOOSE u \in Requests : At(u, "idle")
    /\ left > 0 /\ left' = left - 1
    /\ thread' = [thread EXCEPT ![t] = [at |-> step, op |-> op, rental |-> r, seen |-> NoRow]]
    /\ UNCHANGED <<session, platformVars, worldVars, slotLock, flowLock, lost>>

\* A customer's request that passes _authorize and, where the operation asks
\* for it, the look at the session that comes before any lock
Accept(t, r) ==
    /\ Authorized(r)
    /\ cached' = cached \cup {r}
    /\ \/ Enter(t, r, "create", "create")
       \/ Enter(t, r, "end", "end")
       \/ Active(r) /\ ~Busy(session[r]) /\ Enter(t, r, "observe", "observe")
       \/ Active(r) /\ Enter(t, r, "complete", "observe")
       \/ session[r].status # "none" /\ ~Active(r) /\ Enter(t, r, "complete", "voidfix")
       \/ Active(r) /\ \E op \in {"prepare", "reboot"} : Enter(t, r, op, "prepare")

\* A request for a rental whose end has passed ends its session
Expel(t, r) ==
    /\ tenant[r] = "past" /\ session[r].status = "active"
    /\ cached' = cached \ {r}
    /\ Enter(t, r, "end", "end")

\* A request after the row got another owner, its entry being too old
Forget(r) ==
    /\ tenant[r] = "gone" /\ r \in cached
    /\ cached' = cached \ {r}
    /\ UNCHANGED <<session, platformVars, worldVars, slotLock, flowLock, thread, left, lost>>

\* release_device by the farm service; terminate_slot_sessions by an operator
\* does the same, for a running session only
EndBySystem(t, r) ==
    /\ Enter(t, r, "end", "end")
    /\ UNCHANGED cached

\* Fault for OverIsClosed: only rows whose end has passed are swept
StaleWhenPast(r) == Active(r) /\ tenant[r] = "past"

\* Stale sessions: the row is gone, has another owner, or its end has passed; a
\* row without an owner or with an ended status is not
Stale(r) == Active(r) /\ tenant[r] \in {"gone", "past"}

SweepStaleSessions(r) ==
    /\ At(Sweeper, "idle") /\ Stale(r)
    /\ thread' = [thread EXCEPT ![Sweeper] =
                     [at |-> "end", op |-> "end", rental |-> r, seen |-> NoRow]]
    /\ UNCHANGED <<cached, session, platformVars, worldVars, slotLock, flowLock, left, lost>>

--------------------------------------------------------------------------------
(* create_remote_access *)

\* Fault for OneSessionPerBay: the bay's other rentals are not looked at
FreeForAny(r) == TRUE

FreeFor(r) == \A q \in Rentals \ {r} : ~Active(q)

\* 409 remote_access_busy, or the running session is answered again
CreateAnswered(t) ==
    /\ At(t, "create") /\ slotLock = Nobody
    /\ ~FreeFor(Rental(t)) \/ Active(Rental(t))
    /\ Done(t)
    /\ UNCHANGED <<cached, session, platformVars, worldVars, slotLock, flowLock, left, lost>>

\* The first create of a rental makes its row
CreateLock(t) ==
    LET r == Rental(t)
        row == IF session[r].status = "none" THEN [NoRow EXCEPT !.status = "closed"]
               ELSE session[r]
    IN  /\ At(t, "create") /\ slotLock = Nobody
        /\ FreeFor(r) /\ ~Active(r)
        /\ slotLock' = t
        /\ session' = [session EXCEPT ![r] = row]
        /\ thread' = [thread EXCEPT ![t].at = "check", ![t].seen = row]
        /\ UNCHANGED <<cached, platformVars, worldVars, flowLock, left, lost>>

\* The phone is offline, or grant_access fails: before or after it deleted
\* the account of an earlier grant
CreateRefused(t) ==
    /\ At(t, "check")
    /\ UNCHANGED account \/ account' = [account EXCEPT ![Rental(t)] = 0]
    /\ slotLock' = Nobody
    /\ Done(t)
    /\ UNCHANGED <<cached, session, grants, worldVars, flowLock, left, lost>>

\* grant_access makes a new account with a new password
CreateGranted(t) ==
    /\ At(t, "check")
    /\ grants' = grants + 1
    /\ account' = [account EXCEPT ![Rental(t)] = grants']
    /\ thread' = [thread EXCEPT ![t].at = "store"]
    /\ UNCHANGED <<cached, session, worldVars, slotLock, flowLock, left, lost>>

\* The new row carries the prepare fields of the row read before the grant
CreateStore(t) ==
    /\ At(t, "store")
    /\ Upsert(t, [Seen(t) EXCEPT !.status = "active", !.key = account[Rental(t)]])
    /\ slotLock' = Nobody
    /\ Done(t)
    /\ UNCHANGED <<cached, platformVars, worldVars, flowLock, left>>

--------------------------------------------------------------------------------
(* _end_session *)

EndMissing(t) ==
    /\ At(t, "end") /\ slotLock = Nobody
    /\ session[Rental(t)].status = "none"
    /\ Done(t)
    /\ UNCHANGED <<cached, session, platformVars, worldVars, slotLock, flowLock, left, lost>>

\* Fault for LiveCredentials: the session is ended without the bay's lock
EndLockAnyway(t) ==
    /\ At(t, "end")
    /\ session[Rental(t)].status # "none"
    /\ slotLock' = t
    /\ IF session[Rental(t)].status = "active" THEN Goto(t, "revoke") ELSE Reads(t, "close")
    /\ UNCHANGED <<cached, session, platformVars, worldVars, flowLock, left, lost>>

EndLock(t) ==
    /\ At(t, "end") /\ slotLock = Nobody
    /\ session[Rental(t)].status # "none"
    /\ slotLock' = t
    /\ IF session[Rental(t)].status = "active" THEN Goto(t, "revoke") ELSE Reads(t, "close")
    /\ UNCHANGED <<cached, session, platformVars, worldVars, flowLock, left, lost>>

\* revoke_access deletes the account or fails; its failure is logged
EndRevoke(t) ==
    /\ At(t, "revoke")
    /\ UNCHANGED account \/ account' = [account EXCEPT ![Rental(t)] = 0]
    /\ Reads(t, "close")
    /\ UNCHANGED <<cached, session, grants, worldVars, slotLock, flowLock, left, lost>>

\* store.end drops the secret; then the queue's release and _forget_ownership
EndStore(t) ==
    /\ At(t, "close")
    /\ Upsert(t, [Seen(t) EXCEPT !.status = "closed", !.key = 0])
    /\ cached' = cached \ {Rental(t)}
    /\ slotLock' = Nobody
    /\ Done(t)
    /\ UNCHANGED <<platformVars, worldVars, flowLock, left>>

--------------------------------------------------------------------------------
(* _observe_activation and the rest of complete_setup *)

ObserveLock(t) ==
    /\ At(t, "observe") /\ flowLock[Rental(t)] = Nobody
    /\ flowLock' = [flowLock EXCEPT ![Rental(t)] = t]
    /\ Reads(t, "farm")
    /\ UNCHANGED <<cached, session, platformVars, worldVars, slotLock, left, lost>>

Unlocked(t) ==
    [r \in Rentals |-> IF flowLock[r] = t THEN Nobody ELSE flowLock[r]]

Observed(t) ==
    /\ flowLock' = Unlocked(t)
    /\ IF thread[t].op = "complete" THEN Goto(t, "voidfix") ELSE Done(t)

\* A recent answer is given again, the farm fails, or nothing is eligible
ObserveNothing(t) ==
    /\ At(t, "farm")
    /\ Observed(t)
    /\ UNCHANGED <<cached, session, platformVars, worldVars, slotLock, left, lost>>

\* set_activation_observed reads the row again
ObserveRead(t) ==
    /\ At(t, "farm")
    /\ Reads(t, "note")
    /\ UNCHANGED <<cached, session, platformVars, worldVars, slotLock, flowLock, left, lost>>

\* Evidence goes into the row just read, or, when the farm's answer holds no
\* verdict, into the one read before the farm was asked
ObserveStore(t) ==
    /\ thread[t].at \in {"farm", "note"}
    /\ Upsert(t, Seen(t))
    /\ Observed(t)
    /\ UNCHANGED <<cached, platformVars, worldVars, slotLock, left>>

\* Not confirmed: straight to the end of the session
VoidfixSkip(t) ==
    /\ At(t, "voidfix")
    /\ Goto(t, "end")
    /\ UNCHANGED <<cached, session, platformVars, worldVars, slotLock, flowLock, left, lost>>

\* _try_voidfix_complete and _mark_phone_ready each read the row and, after
\* the farm's work or at once, write it back; one of them stands for both
VoidfixRead(t) ==
    /\ At(t, "voidfix")
    /\ Reads(t, "report")
    /\ UNCHANGED <<cached, session, platformVars, worldVars, slotLock, flowLock, left, lost>>

VoidfixStore(t) ==
    /\ At(t, "report")
    /\ Upsert(t, Seen(t))
    /\ Goto(t, "end")
    /\ UNCHANGED <<cached, platformVars, worldVars, slotLock, flowLock, left>>

--------------------------------------------------------------------------------
(* prepare_esim, reboot_for_customer and the flow each starts *)

\* Ready, under way, or the QR code is there already
PrepareAnswered(t) ==
    /\ At(t, "prepare") /\ thread[t].op = "prepare" /\ flowLock[Rental(t)] = Nobody
    /\ Done(t)
    /\ UNCHANGED <<cached, session, platformVars, worldVars, slotLock, flowLock, left, lost>>

PrepareEsim(t) ==
    /\ At(t, "prepare") /\ thread[t].op = "prepare" /\ flowLock[Rental(t)] = Nobody
    /\ session[Rental(t)].prepare \notin {"busy", "ready"}
    /\ flowLock' = [flowLock EXCEPT ![Rental(t)] = t]
    /\ Reads(t, "start")
    /\ UNCHANGED <<cached, session, platformVars, worldVars, slotLock, left, lost>>

\* A reboot waits for no lock and asks for no state
RebootForCustomer(t) ==
    /\ At(t, "prepare") /\ thread[t].op = "reboot"
    /\ Reads(t, "start")
    /\ UNCHANGED <<cached, session, platformVars, worldVars, slotLock, flowLock, left, lost>>

\* The request is answered, the thread goes on as the flow
StartFlow(t) ==
    /\ At(t, "start")
    /\ Upsert(t, [Seen(t) EXCEPT !.prepare = "busy"])
    /\ flowLock' = Unlocked(t)
    /\ Goto(t, "flow")
    /\ UNCHANGED <<cached, platformVars, worldVars, slotLock, left>>

\* The farm answers, or a wait ends; set_prepare_state reads the row
FlowRead(t) ==
    /\ At(t, "flow")
    /\ Reads(t, "reach")
    /\ UNCHANGED <<cached, session, platformVars, worldVars, slotLock, flowLock, left, lost>>

\* The QR code is placed, the reboot begins; its waits are one state here
FlowReboots(t) ==
    /\ At(t, "reach") /\ thread[t].op = "prepare"
    /\ Upsert(t, [Seen(t) EXCEPT !.prepare = "busy"])
    /\ thread' = [thread EXCEPT ![t].at = "flow", ![t].op = "reboot", ![t].seen = NoRow]
    /\ UNCHANGED <<cached, platformVars, worldVars, slotLock, flowLock, left>>

\* Fault for BusyHasFlow: an exception of the farm call is not recorded
FlowEndsUnlessRaised(t) ==
    /\ At(t, "reach")
    /\ \/ UNCHANGED <<session, lost>>
       \/ thread[t].op = "reboot" /\ Upsert(t, [Seen(t) EXCEPT !.prepare = "ready"])
    /\ Done(t)
    /\ UNCHANGED <<cached, platformVars, worldVars, slotLock, flowLock, left>>

\* Anything that fails or takes too long ends in failed
FlowEnds(t) ==
    /\ At(t, "reach")
    /\ \/ Upsert(t, [Seen(t) EXCEPT !.prepare = "open"])
       \/ thread[t].op = "reboot" /\ Upsert(t, [Seen(t) EXCEPT !.prepare = "ready"])
    /\ Done(t)
    /\ UNCHANGED <<cached, platformVars, worldVars, slotLock, flowLock, left>>

--------------------------------------------------------------------------------
\* Threads and locks are gone, the cache is empty; the store's file and the
\* platform stay, and reconcile_interrupted_prepares corrects the rows
Restart ==
    /\ left > 0 /\ left' = left - 1
    /\ cached' = {}
    /\ thread' = [t \in Threads |-> Idle]
    /\ slotLock' = Nobody /\ flowLock' = [r \in Rentals |-> Nobody]
    /\ session' = [r \in Rentals |-> IF Busy(session[r])
                                     THEN [session[r] EXCEPT !.prepare = "open"]
                                     ELSE session[r]]
    /\ lost' = [r \in Rentals |->
                  IF slotLock # Nobody /\ At(slotLock, "close") /\ Rental(slotLock) = r
                  THEN lost[r] \cup {"status"} ELSE lost[r]]
    /\ UNCHANGED <<tenant, platformVars, expired>>

--------------------------------------------------------------------------------
\* What a thread does once it has begun, a lock being free if it needs one
Continue(t) ==
    \/ CreateAnswered(t) \/ CreateLock(t) \/ CreateRefused(t) \/ CreateGranted(t) \/ CreateStore(t)
    \/ EndMissing(t) \/ EndLock(t) \/ EndRevoke(t) \/ EndStore(t)
    \/ ObserveLock(t) \/ ObserveNothing(t) \/ ObserveRead(t) \/ ObserveStore(t)
    \/ VoidfixSkip(t) \/ VoidfixRead(t) \/ VoidfixStore(t)
    \/ PrepareAnswered(t) \/ PrepareEsim(t) \/ RebootForCustomer(t) \/ StartFlow(t)
    \/ FlowRead(t) \/ FlowReboots(t) \/ FlowEnds(t)

Next ==
    \/ \E r \in Rentals : Let(r) \/ Over(r) \/ Expire(r) \/ Forget(r) \/ SweepStaleSessions(r)
    \/ \E t \in Requests, r \in Rentals : Accept(t, r) \/ Expel(t, r) \/ EndBySystem(t, r)
    \/ \E t \in Threads : Continue(t)
    \/ Restart

Spec == Init /\ [][Next]_vars

\* Some thread that can go on does, calls return, and the poller sweeps after
\* every heartbeat.  That is enough: requests are finitely many (MaxEvents),
\* each has finitely many steps, and no order of the locks is assumed.  Time
\* passes, too, but it is counted on only for the sessions that no sweep ends.
Fairness ==
    /\ WF_vars(\E t \in Threads : Continue(t))
    /\ WF_vars(\E r \in Rentals : SweepStaleSessions(r))
    /\ WF_vars(\E r \in Rentals : tenant[r] = "unowned" /\ Expire(r))

FairSpec == Spec /\ Fairness

--------------------------------------------------------------------------------
(* Properties *)

\* Every variable has the type the code gives it.
TypeOK ==
    /\ tenant \in [Rentals -> {"coming", "ours", "gone", "past", "unowned"}]
    /\ cached \subseteq Rentals
    /\ session \in [Rentals -> Row]
    /\ account \in [Rentals -> Grants]
    /\ grants \in Grants /\ expired \subseteq Grants
    /\ slotLock \in Threads \cup {Nobody}
    /\ flowLock \in [Rentals -> Threads \cup {Nobody}]
    /\ thread \in [Threads -> [at : Steps, op : Ops, rental : Rentals, seen : Row]]
    /\ left \in 0..MaxEvents
    /\ lost \in [Rentals -> SUBSET {"status", "prepare"}]

\* Two rentals of a bay have no session at the same time, as long as no write
\* from outside the bay's lock has undone the end of one.
OneSessionPerBay ==
    \A r, q \in Rentals :
        r # q /\ Active(r) /\ Active(q) => "status" \in lost[r] \cup lost[q]

\* The secret of a running session opens the account the platform has: a new
\* grant, a failed grant or a half-finished end never leaves a session running
\* on a password that was replaced or deleted, unless a stale write brought
\* the session back or the server stopped between revoke_access and store.end.
LiveCredentials ==
    \A r \in Rentals :
        Active(r) /\ "status" \notin lost[r] =>
            \/ account[r] = session[r].key
            \/ slotLock # Nobody /\ Rental(slotLock) = r /\ At(slotLock, "close")

\* A prepare state that tells the customer to wait is never left behind: a flow
\* runs that will replace it, whatever fails and across a restart, unless a
\* write from an outdated row put it back.  prepare_esim starts nothing while
\* the state stands, so one left behind would stand until a restart.
BusyHasFlow ==
    \A r \in Rentals :
        Busy(session[r]) /\ "prepare" \notin lost[r] =>
            \E t \in Requests : Rental(t) = r /\ thread[t].at \in {"flow", "reach"}

\* What a customer's page relies on: one session per bay, and no waiting state
\* without somebody at work.
SessionsInv == TypeOK /\ OneSessionPerBay /\ BusyHasFlow

\* The session of a rental that is over is closed, whoever reopens it out of
\* the ownership cache or brings it back by a stale write: by the sweep when the
\* row is gone, has another owner or has passed its end, and by the session's
\* own time when the row is still there without an owner or with an ended status.
OverIsClosed ==
    \A r \in Rentals :
        Active(r) /\ tenant[r] # "ours" ~> ~Active(r)
================================================================================
