------------------------------ MODULE StreamQueue ------------------------------
(***************************************************************************)
(* application/customer_stream_queue.py: a fixed number of live-stream     *)
(* leases shared by the rentals, and the FIFO line of those that wait.     *)
(* Every method runs under the one lock of CustomerStreamQueue, so a       *)
(* method is one action.                                                   *)
(*                                                                         *)
(* Clock stamps are kept as ages: a lease's age is now - started_at, so    *)
(* expires_at <= now is age >= Ttl, and quiet is now - last_seen_at.  Both *)
(* saturate at the limit they are compared with.  customer_id and slot_id  *)
(* are determined by the rental.  A queue entry's needs_grant is always    *)
(* True (the constructor and every update set it), and enqueued_at and     *)
(* last_polled_at are written but never read, so an entry is its rental.   *)
(***************************************************************************)
EXTENDS Integers, Sequences, FiniteSets

CONSTANTS
    Rentals,        \* rental ids that call the service
    Bays,           \* slot ids an administrator may watch
    MaxConcurrent,  \* MOBI_MAX_CONCURRENT_STREAMS
    Ttl,            \* MOBI_STREAM_SLOT_TTL_SECONDS, in ticks
    Idle,           \* STREAM_IDLE_HEARTBEAT_TIMEOUT, in ticks
    MinWait,        \* _MIN_WAIT_SECONDS, in ticks
    NoLease         \* absence of a lease

ASSUME StreamAssumption ==
    /\ IsFiniteSet(Rentals)
    /\ MaxConcurrent \in Int
    /\ Ttl \in Nat /\ Idle \in Nat /\ MinWait \in Nat

VARIABLES
    lease,       \* active_leases: rental -> lease or NoLease
    waiting,     \* wait_queue, oldest first
    adminSlots,  \* _admin_slots
    busy,        \* _busy, the value last given to on_busy_change
    told         \* history: what the last "queued" answer told each rental

vars == <<lease, waiting, adminSlots, busy, told>>

--------------------------------------------------------------------------------
Lease == [age: 0..Ttl, quiet: 0..Idle, prepared: BOOLEAN, needsGrant: BOOLEAN]

ASSUME NoLeaseAssumption == NoLease \notin Lease

\* position is the place in line, left the promised seconds still to run.
NotTold == [position |-> 0, left |-> 0]

Cap == IF MaxConcurrent < 1 THEN 1 ELSE MaxConcurrent

Least(a, b) == IF a < b THEN a ELSE b
Most(a, b) == IF a > b THEN a ELSE b

Held(leases) == {r \in Rentals : leases[r] # NoLease}
Members(line) == {line[i] : i \in DOMAIN line}

\* Fault for TypeOK: expires_at computed as now - ttl
NewLeaseBackdated(grant) ==
    [age |-> 2 * Ttl + 1, quiet |-> 0, prepared |-> FALSE, needsGrant |-> grant]

NewLease(grant) ==
    [age |-> 0, quiet |-> 0, prepared |-> FALSE, needsGrant |-> grant]

\* Fault for WaiterServed: only idle leases are pruned, the TTL is not looked at
StaleIdleOnly(l) == l # NoLease /\ l.quiet >= Idle

Stale(l) == l # NoLease /\ (l.age >= Ttl \/ l.quiet >= Idle)

\* Fault for OnlyStaleLeasesAreTaken: prunes one tick early
DroppedEarly(leases) ==
    [r \in Rentals |-> IF leases[r] # NoLease /\ leases[r].age + 1 >= Ttl
                       THEN NoLease ELSE leases[r]]

\* _prune_locked before it promotes
Dropped(leases) ==
    [r \in Rentals |-> IF Stale(leases[r]) THEN NoLease ELSE leases[r]]

\* _promote_locked: as many as the free leases allow, from the head of the line
Promotions(leases, line) ==
    LET held == Cardinality(Held(leases))
    IN  IF held < Cap THEN Least(Cap - held, Len(line)) ELSE 0

Promoted(leases, line) == {line[i] : i \in 1..Promotions(leases, line)}

Granted(leases, line) ==
    LET promoted == Promoted(leases, line)
    IN  [r \in Rentals |-> IF r \in promoted THEN NewLease(TRUE) ELSE leases[r]]

Rest(leases, line) ==
    SubSeq(line, Promotions(leases, line) + 1, Len(line))

\* The leases and the line after _prune_locked
Kept == Granted(Dropped(lease), waiting)
Line == Rest(Dropped(lease), waiting)

--------------------------------------------------------------------------------
(* _queued_decision_locked *)

\* The n-th smallest remaining time: the times that fewer than n leases are
\* over by are exactly those below it
Remaining(leases, n) ==
    Cardinality({d \in 0..(Ttl - 1) :
        Cardinality({r \in Held(leases) : Ttl - leases[r].age <= d}) < n})

\* Fault for PromiseKept: everybody is quoted the lease that ends first
EstimatedWaitSoonest(leases, position) ==
    IF Held(leases) = {} THEN Ttl ELSE Most(MinWait, Least(Ttl, Remaining(leases, 1)))

EstimatedWait(leases, position) ==
    LET held == Cardinality(Held(leases))
        pick == IF held = 0 THEN Ttl ELSE Remaining(leases, Least(position, held))
    IN  Most(MinWait, Least(Ttl, pick))

PlaceOf(r, line) == CHOOSE i \in DOMAIN line : line[i] = r

\* A rental that is not in line any more has no promise to be kept.
Forget(promise, line) ==
    [r \in Rentals |-> IF r \in Members(line) THEN promise[r] ELSE NotTold]

\* The line without r, which stands in it at most once (OnePlace below)
Without(line, r) ==
    IF r \in Members(line)
    THEN [i \in 1..(Len(line) - 1) |-> IF i < PlaceOf(r, line) THEN line[i] ELSE line[i + 1]]
    ELSE line

Tell(r, leases, line) ==
    [Forget(told, line) EXCEPT ![r] =
        [position |-> PlaceOf(r, line),
         left |-> EstimatedWait(leases, PlaceOf(r, line))]]

--------------------------------------------------------------------------------
\* The new leases and line, and _publish_busy_locked after them
Store(leases, line) ==
    /\ lease' = leases
    /\ waiting' = line
    /\ busy' = (Held(leases) # {} \/ adminSlots # {})
    /\ UNCHANGED adminSlots

Init ==
    /\ lease = [r \in Rentals |-> NoLease]
    /\ waiting = <<>>
    /\ adminSlots = {}
    /\ busy = FALSE
    /\ told = [r \in Rentals |-> NotTold]

\* Fault for NoRenewalOverWaiters: a poll renews the whole lease
AdmitHolderRenewing(r) ==
    /\ Kept[r] # NoLease
    /\ Store([Kept EXCEPT ![r].quiet = 0, ![r].age = 0], Line)
    /\ told' = Forget(told, Line)

\* admit: the rental holds a lease (perhaps promoted by this very call)
AdmitHolder(r) ==
    /\ Kept[r] # NoLease
    /\ Store([Kept EXCEPT ![r].quiet = 0], Line)
    /\ told' = Forget(told, Line)

\* admit: the rental already waits and is told its place again
AdmitWaiter(r) ==
    /\ Kept[r] = NoLease
    /\ r \in Members(Line)
    /\ Store(Kept, Line)
    /\ told' = Tell(r, Kept, Line)

\* Fault for OnePlace: the line is not searched for the rental
NewcomerUnsearched(r) == Kept[r] = NoLease

Newcomer(r) == Kept[r] = NoLease /\ r \notin Members(Line)
\* Fault for LeaseCap: <= for <
HasRoomForOneMore == Cardinality(Held(Kept)) <= Cap

HasRoom == Cardinality(Held(Kept)) < Cap

\* admit(claim=False) with room: "active", tracked=False, and no lease
AdmitUntracked(r) ==
    /\ Newcomer(r)
    /\ HasRoom
    /\ Store(Kept, Line)
    /\ told' = Forget(told, Line)

\* Fault for NoOvertaking: a claim does not look at the number of leases
AdmitClaimAtOnce(r) ==
    /\ Newcomer(r)
    /\ Store([Kept EXCEPT ![r] = NewLease(FALSE)], Line)
    /\ told' = Forget(told, Line)

\* admit(claim=True) with room
AdmitClaim(r) ==
    /\ Newcomer(r)
    /\ HasRoom
    /\ Store([Kept EXCEPT ![r] = NewLease(FALSE)], Line)
    /\ told' = Forget(told, Line)

\* admit without room: a poll enqueues as a claim does
AdmitEnqueue(r) ==
    /\ Newcomer(r)
    /\ ~HasRoom
    /\ Store(Kept, Append(Line, r))
    /\ told' = Tell(r, Kept, Append(Line, r))

\* admit(claim=False): what every status poll of the rental does
Poll(r) == AdmitHolder(r) \/ AdmitWaiter(r) \/ AdmitUntracked(r) \/ AdmitEnqueue(r)

\* mark_prepared does not prune: a stale lease it finds is refreshed
MarkPrepared(r) ==
    /\ lease[r] # NoLease
    /\ lease' = [lease EXCEPT ![r].prepared = TRUE,
                              ![r].needsGrant = FALSE,
                              ![r].quiet = 0]
    /\ UNCHANGED <<waiting, adminSlots, busy, told>>

\* Fault for WorkConserving: the freed lease is not given on
ReleaseUnpromoted(r) ==
    /\ Store([lease EXCEPT ![r] = NoLease], Without(waiting, r))
    /\ told' = Forget(told, Without(waiting, r))

\* release promotes, but drops no stale lease of another rental
Release(r) ==
    LET kept == [lease EXCEPT ![r] = NoLease]
        line == Without(waiting, r)
    IN  /\ Store(Granted(kept, line), Rest(kept, line))
        /\ told' = Forget(told, Rest(kept, line))

\* Fault for BusyTruthful: the flag is not published
MarkAdminUnpublished(bay, active) ==
    /\ adminSlots' = IF active THEN adminSlots \cup {bay} ELSE adminSlots \ {bay}
    /\ UNCHANGED <<lease, waiting, busy, told>>

\* admit(admin=True) and mark_admin
MarkAdmin(bay, active) ==
    /\ adminSlots' = IF active THEN adminSlots \cup {bay} ELSE adminSlots \ {bay}
    /\ busy' = (Held(lease) # {} \/ adminSlots' # {})
    /\ UNCHANGED <<lease, waiting, told>>

\* has_busy_streams and active_count
Prune ==
    /\ Store(Kept, Line)
    /\ told' = Forget(told, Line)

\* One second of the clock
Tick ==
    /\ lease' = [r \in Rentals |->
                    IF lease[r] = NoLease THEN NoLease
                    ELSE [lease[r] EXCEPT !.age = Least(@ + 1, Ttl),
                                          !.quiet = Least(@ + 1, Idle)]]
    /\ told' = [r \in Rentals |-> [told[r] EXCEPT !.left = Most(@ - 1, 0)]]
    /\ UNCHANGED <<waiting, adminSlots, busy>>

Next ==
    \/ \E r \in Rentals : AdmitHolder(r)
    \/ \E r \in Rentals : AdmitWaiter(r)
    \/ \E r \in Rentals : AdmitUntracked(r)
    \/ \E r \in Rentals : AdmitClaim(r)
    \/ \E r \in Rentals : AdmitEnqueue(r)
    \/ \E r \in Rentals : MarkPrepared(r)
    \/ \E r \in Rentals : Release(r)
    \/ \E bay \in Bays, active \in BOOLEAN : MarkAdmin(bay, active)
    \/ Prune
    \/ Tick

Spec == Init /\ [][Next]_vars

\* The clock runs, and a customer that waits keeps polling.
Fairness ==
    /\ WF_vars(Tick)
    /\ \A r \in Rentals : WF_vars(Poll(r))

FairSpec == Spec /\ Fairness

--------------------------------------------------------------------------------
(* Properties *)

\* Every variable has the type the code gives it.
TypeOK ==
    /\ lease \in [Rentals -> Lease \cup {NoLease}]
    /\ waiting \in Seq(Rentals)
    /\ adminSlots \subseteq Bays
    /\ busy \in BOOLEAN
    /\ told \in [Rentals -> [position : Nat, left : Nat]]

\* Claims, promotions by a prune and promotions by a release together never
\* hand out more leases than max_concurrent.
LeaseCap == Cardinality(Held(lease)) <= Cap

\* A rental never holds a lease and a place in line, nor two places: a
\* promotion would then overwrite its running lease with a fresh one.
OnePlace ==
    /\ Held(lease) \cap Members(waiting) = {}
    /\ \A i, j \in DOMAIN waiting : waiting[i] = waiting[j] => i = j

\* Nobody waits while a lease is free: every method that may free a lease
\* promotes before it gives up the lock.
WorkConserving == waiting # <<>> => Cardinality(Held(lease)) = Cap

\* The flag given to stream_bandwidth (slow snapshots while someone watches)
\* is up exactly while a lease or an administrator's stream is registered.
BusyTruthful == busy = (Held(lease) # {} \/ adminSlots # {})

\* What a customer may rely on between any two calls of the queue: the cap, one
\* place each, no lease left over while somebody waits, and the flag.
QueueInv == LeaseCap /\ OnePlace /\ WorkConserving /\ BusyTruthful

\* estimated_wait_seconds is an upper bound for the rentals that were told a
\* place within the number of leases: once the promised time is over the next
\* call on the queue gives such a rental its lease.  (Further back it is not:
\* the code then quotes the last running lease, see README.)
PromiseKept ==
    \A r \in Members(waiting) :
        told[r].position \in 1..Cap /\ told[r].left = 0
            => r \in Promoted(Dropped(lease), waiting)

Ahead(q, r) ==
    /\ q \in Members(waiting)
    /\ r \in Members(waiting) => PlaceOf(q, waiting) < PlaceOf(r, waiting)

\* No rental gets a lease while one that was in line before it stays in line,
\* whether it comes from the line, claims with room, or promotes by a release.
NoOvertaking ==
    [][\A q, r \in Rentals :
          /\ lease[r] = NoLease /\ lease'[r] # NoLease
          /\ q # r /\ Ahead(q, r)
          => q \notin Members(waiting')]_vars

\* The TTL is a hard limit for a customer that others wait behind: its lease
\* starts over (by expiring and being claimed in one admit) only if the line
\* is empty afterwards.
NoRenewalOverWaiters ==
    [][\A r \in Rentals :
          /\ lease[r] # NoLease /\ lease'[r] # NoLease
          /\ lease'[r].age < lease[r].age
          => waiting' = <<>>]_vars

\* A lease that is neither expired nor idle is given up by its own rental's
\* release only, never by what another rental does to the queue.
OnlyStaleLeasesAreTaken ==
    [][\A r \in Rentals :
          lease[r] # NoLease /\ lease'[r] = NoLease
            => Stale(lease[r]) \/ Release(r)]_vars

\* A lease runs exactly its time: nobody's is cut short by others, and nobody's
\* is stretched while others wait.
LeasesRunTheirTime == NoRenewalOverWaiters /\ OnlyStaleLeasesAreTaken

\* A customer that keeps polling does not wait forever, even if every lease
\* holder polls for ever too: TTLs run out and the line advances.
WaiterServed ==
    \A r \in Rentals : r \in Members(waiting) ~> r \notin Members(waiting)
================================================================================
