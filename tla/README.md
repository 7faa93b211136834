# A verification project for mobi_rent_agent

`mobi_rent_agent` rents real phones ("bays", "slots") to customers over the
Internet. A VPS backend (`tools/vps_backend_server.py`) takes HTTP requests from
the shop and the customers, a Farm Agent (`tools/farm_agent_status_server.py`,
`main.py`) beside the phones executes tasks over adb, a screen platform (GADS)
streams the phones, and external services keep tenants and credits.

This directory holds TLA+ modules of that program, TLC configurations that check
them on small instances and proofs that TLAPS checks. Paths below are relative
to `src/mobi_rent_agent/`.

## 1. Inventory

| Part | State it keeps | Operations | What makes it hard, and what must hold | Module |
|---|---|---|---|---|
| Customer stream queue (`application/customer_stream_queue.py`) | leases, FIFO line, admin bays, busy flag | admit, mark_prepared, release, mark_admin, prunes | leases expire by TTL and idleness while others wait; cap, FIFO order, work conservation, honest waiting times | `StreamQueue` |
| VPS job queue (`application/vps_job_worker.py`, `infrastructure/vps_job_store.py`, `slot_assignment_store.py`, `farm_task_client.py`) | job table, assignment rows, worker threads | assign, actions, process, recover | a loop and a thread per job race; restarts, timeouts, late answers; no third send, no second run after an interruption, no lost record, no wiped newer assignment, every job ends while the loop lives | `VpsJobs` |
| Bay occupancy (`application/vps_farm_management_service.py`, reservation and cleanup stores) | reservations, cleanup holds, disabled bays | reserve, end, cancel, sweep, verify, force | several stores and services updated one after the other; partial failure and retry; a bay with a hold is not rented | `BayOccupancy` |
| Credits and billing (`infrastructure/credit_wallet_store.py`, `application/whmcs_billing_service.py`, `whmcs/includes/hooks/vps_sync.php`) | balances, idempotency keys | grant, revoke, deduct, refund | events lost, repeated and overtaken, answers lost; the ledger balances, every grant counts once, what reserve_slot holds was paid for | `Billing`, `BayOccupancy` |
| Remote access (`application/remote_access_service.py`, `infrastructure/remote_access_store.py`, `gads_remote_access.py`) | sessions, accounts of the platform, locks, flows | create, end, observe, prepare, reboot, sweep | whole rows written back after unlocked calls to the phone; one live session per bay, whose account exists | `RemoteAccess` |
| eSIM set-up of a rental (`application/remote_access_service.py`, `remote_access_farm_task.py`, `esim_setup_ui_state.py`) | evidence columns of the rental's row | upload_esim_qr, prepare_esim, observe | the phone may carry an earlier rental's eSIM; own eSIM confirmed, a leftover not | `EsimSetup` |
| Admin live access (`application/admin_live_access_service.py`, `stream_warmup.py`) | admin sessions, cache of primed streams | open, close, warm-up, take | overlapping warm-ups and viewers; no stream left open, none shown twice | `AdminLive` |
| Slot SMS (`application/vps_slot_sms_service.py`, `webhook_outbound_dispatcher.py`) and farm outbox (`application/sms_service.py`, `sms_outbox.py`) | messages, jobs, outbox rows | send, dispatch, retry, reserve, poll, resume | lost answers, retries, crashes on three sides; no second physical send beyond the two ways there are to one, no invented delivery | `SmsDelivery` |
| Farm daemon (`application/provisioning_service.py`, `slot_coordinator.py`, `health_service.py`, `proxy_service.py`) | job states, pending reports, slot locks | cycles, reports, repair, reboot | three services share one lock per phone; the approved transition table, final verdicts | `FarmDaemon` |
| Lockdown guard (`application/device_hardware_lockdown.py`) | processes on a phone | sweep, recover, ensure, redeploy | unordered threads kill and launch guards by `ps`, whose numbers begin again; a guard outlives older ones with smaller numbers, and always one is left in the end | `LockdownGuard` |
| Heartbeat, slot status, snapshot (`application/farm_heartbeat_poller.py`, `vps_slot_state.py`, `infrastructure/farm_status_snapshot.py`) | heartbeat rows, events, snapshot | poll, derive, refresh | outages, half-read rows, restarts; events alternate, a settled bay is shown as it is | `SlotStatus` |
| Android companion (`src/android_companion`) and its client (`infrastructure/adb_companion.py`) | results of jobs, state on show | provision, status | two timeouts of 180 s, late broadcasts, killed process; a verdict belongs to its job | `Companion` |
| Authentication and tenants (`application/auth_service.py`, `infrastructure/vps_auth_store.py`, tenant stores, `application/whmcs_sso.py`) | users, tokens, tenant rows | login, refresh, claim, unclaim | external stores; the claim is an input of the bay modules | - |
| Farm tasks (`application/farm_task_executor.py`, other `*_farm_task.py`, `device_*.py`) | phones | adb commands | effects outside the repository | - |
| Screen of a rented phone (the guard's loop, `application/session_restriction_policy.py`, `setup_activity_guard.py`, `setup_session_farm_task.py`, controls of `remote_access_service.py`) | screen, kick notice, control at work | record, kick, inspect, redirect, relaunch | two parties act on a foreground they read before; the customer leaves a screen that is not his, and the dashboard tells the one he is on | `PhoneScreen` |
| Allow-list of controls (`application/in_app_control_policy.py`) | none | decisions | names and formats | - |
| HTTP surface (`tools/vps_backend_server.py`, `infrastructure/vps_openapi_spec.py`) | none | routing | no state of its own | - |
| Prototype service, scripts, web client, sandbox | small or none | | | - |

Interactions: request threads of one `ThreadingHTTPServer` call the services
directly; services share SQLite stores, each behind a lock held for one call;
the job worker is a loop thread plus a thread per created job; the Farm Agent
and the tenant store are reached by HTTP, with timeouts and one resend. The
stream queue publishes its busy flag by a callback to `stream_bandwidth.py`.
The Farm Agent talks to the guard and the companion of a phone over adb.
`hazards` in `PROJECT.json` lists, per line, what tests hardly reach.

## 2. Plan

Done: `StreamQueue`, `VpsJobs`, `BayOccupancy`, `RemoteAccess`, `SmsPromise` and
`SmsDelivery`, `JobTable` and `FarmDaemon`, and the seven smaller services composed
in `MCServices` (`LockdownGuard`, `Billing`, `Companion`, `AdminLive`,
`EsimSetup`, `SlotStatus`, `PhoneScreen`); theorems for every safety invariant and
action property that the passing runs check, and for both refinements.

Left, in order of value:

1. `RemoteAccess` composed with `StreamQueue`: streams that outlive their lease.
2. An abstract bay (free, rented by one rental, or held for cleanup, in turn) that
   `BayOccupancy` implements while one request thread works at a time and nobody
   forces a bay free; with two threads it does not (`bay_interleaved`).
3. Switching profiles in the companion, beside downloads; pauses of the lockdown
   by overlapping requests.

## 3. The modules

### StreamQueue
`application/customer_stream_queue.py`. Every method holds the queue's lock from
beginning to end, so each is one action; `admit` is split by its outcome
(`AdmitHolder`, `AdmitWaiter`, `AdmitUntracked`, `AdmitClaim`, `AdmitEnqueue`).
`Kept` and `Line` are leases and line after `_prune_locked`, which every `admit`
runs first; `Store` writes them and publishes the flag. Clock stamps are ages
that saturate at the limit they are compared with. `told` is a history variable:
what the last "queued" answer promised each rental. Not in the model: the texts
of answers, `customer_body`, `queue_fields`, `peek` (they read only).

Properties: `QueueInv` (`LeaseCap`, `OnePlace`, `WorkConserving`,
`BusyTruthful`), `PromiseKept` (a rental told a place within the number of leases
gets one when the promised time is over; for places further back the code quotes
the last running lease, which is too early, so the claim is limited to those),
`NoOvertaking`, `LeasesRunTheirTime` (`NoRenewalOverWaiters`,
`OnlyStaleLeasesAreTaken`), `WaiterServed`.

Bounds: four rentals on two leases give a line of two, promotion of two at once,
and a third rental that arrives meanwhile; Ttl 4 and Idle 2 let both limits end
a lease, together and apart. Liveness uses one lease, Ttl 3, Idle 2. Fairness:
time passes, and a waiting customer keeps polling (the client polls while it
shows the queue). No fairness is asked of releases.

### VpsJobs
Handlers (`assign_slot`, `enqueue_action`), the job table with its partial unique
index, the loop (`SweepNext`, `Visit`), the thread per job, and the Farm Agent
with its cache. One action per store access, as the stores' locks cover one call.
The handlers' program counters are named for what they do next: `check`
(idempotent replay), `vacant`, `inactive`, `reserve`, `create`, `claim`, `spawn`;
`blocked` is a `create` that waits for its own lock. The threads': `read`, `mark`
(set running), `post`, `wait`, `recover`, `lookup`, `unknown`, `apply`, `update`,
`release`; `dead` is a thread ended by an IntegrityError. The farm's answers are
the constant `FarmAnswers`: at this commit `_run_assign` answers `failed` only
(automatic provisioning is switched off), the other answers are the contract the
worker and the cache are written for, and the runs use them all.

Left out: progress, events, log lines, the rate limiter and the checks that only
refuse a request (cleanup hold, farm status, tenant lookup); several bays; a VPS
without a farm client (jobs then fail at once); list limits of 20, far above the
bound on jobs. `EndRental` and `ForceAvailable` stand for all that other requests
do to the reservation and the assignment.

Properties: `SentTwiceAtMost` counts the sends of a job (`sent`, a history
variable): the loop and the job's own thread may both have read it as pending and
both send it (`vps_job_worker.py:84`), a third send never happens. `NeverRunAgain`:
a job that is settled is not sent again, where `Settled` means that it is not
pending and that no thread stands between having read it as pending and the end of
its request. `PendingJobKeepsItsBay`, `DoneIsRecorded`. `JobsFinish`: every job ends,
or the loop is `Wedged`. There are two ways to that, both in the code and in
the run: `create` waits for its own lock (`locked`), and a late update to "running"
beside a newer job of the same key violates the unique index and ends the loop's
thread (`dead`). A job that is left then ends only after the process restarts.

Bounds: two jobs with two handlers for the races of duplicates and retries, with
the loop at work and `JobsFinish` checked; one job with two restarts, a resend and
every answer for the recovery. Two handlers, two jobs and a restart together passed
`JobsFinish` in a single run of 602,000 states. Named bounds are `MaxJobs` and
`MaxCrashes`; `MaxAttempts` is 2 in the code, and 1 where the resend plays no part.
Fairness: threads run, the clock passes `running_stale_seconds`, and a request to
the farm ends by an answer or a timeout (`requests` has one). A restart starts the
loop again.

A run that fails, and why: `vps_jobs_duplicate` (create re-enters its lock), see
`findings`. Two more disagreements have no run. The bay is claimed after the job is
visible (`vps_farm_management_service.py:1503`): a job that fails at once releases
nothing, and the claim that follows stays, where `docs/VPS_FARM_MANAGEMENT_API.md:57`
says that a failure releases the bay claim. `_finish_unknown` closes a stale assign as
done without any answer of the farm, where the same line says done only when the farm
returns `ok: true`.

### BayOccupancy
`application/vps_farm_management_service.py` with the reservation store, the
cleanup store, the tenant rows and the credits. A request thread (`Handlers`)
runs one operation at a time: `StartGrant` begins reserve_slot or assign_slot,
`StartEnding` end_rental or cancel_rental_for_customer, `StartOperator` verify,
force, disable or enable. The heartbeat thread (`Sweeper`) runs
sweep_ended_rentals: `SweepStart` lists the reserved rentals, `SweepNext` begins
end_rental for one of them. Each later step is one call of a store or a service,
and a thread's `pc` names the call it makes next:

| Code | Steps |
|---|---|
| reserve_slot, assign_slot | `other`, `same`, `hold`, `disabled`, `row`, `occupied`, `claim`, `deduct` (reserve only), `undo`, `ensure`, `insert` |
| end_rental | `authorize` (cancel only), `find`, `confirm`, `gads`, `mark`, `unclaim`, `unowned`, `refund`, `release` |
| verify_cleanup | `verify`, `required`, `clear`, `enable` |
| force_available | `force`, `drop`, `clear`, `enable`, `free` |
| disable_rental, enable_rental | `disable`; `enable` |

`row` is the tenant service's table, which the repository reaches by HTTP only:
one row per bay whose `id` is the rental id. `Rent` is the shop's part: it gives
the row of a bay that list_available_slots lists and nobody owns a fresh rental
id. `Expire` passes `ends_at`. A call to another service fails without effect
(`CallFails`) or takes effect and loses its answer (`AnswerLost`). `Restart`
forgets every thread; stores and services keep their state. `last` and `via` are
history variables: which rental had the bay last since an operator cleared its hold,
and which operation wrote a reservation.

Left out: commands to the phone (their failure is logged and changes nothing),
active jobs and assignments (`VpsJobs`), refusals by format, farm status or rate
limit, and `release_reservation`, which nothing calls. `reserve_slot` has no
route in `tools/vps_backend_server.py`; it is modelled because it is the only
operation that deducts a credit, and runs that ask for it say so in `Ops`.

What holds: `OverIsReleased` (a rental that ran out, or whose row the shop has sold
again, loses its bay, though calls fail and the process restarts while it is ended)
and `RentedMeansCharged` (a reservation that reserve_slot wrote was paid for).
`bay_rentals` has one bay, two rentals in turn, one request thread beside the
sweeper, one failed call and one restart, so that every step of a first rental can
fail and be repeated before the second one comes. `bay_credits` has two request
threads, one customer with one credit and two rentals on one bay, forced releases
and a failed call, so that deductions race and one is refused. `Ops` limits a run to
the operations its question is about. Fairness: threads run and the heartbeat goes
on sweeping; the number of failures is finite, as nothing ends while a service is
down for ever.

`OverIsReleased` needs the single request thread, and needs that nobody forces the
bay free: a late reservation whose row the shop has given to somebody else by then
answers every end with 503 at the unclaim, and the bay stays reserved until an
operator forces it; a forced release brings the same about with one thread.

What fails:

- `bay_interleaved` (`OperatorBetweenRentals`, `docs/IN_APP_SETUP_SESSION.md:42`):
  verify_cleanup clears the hold on what it read before the wipe, and assign_slot
  reads the hold once, makes three calls of the tenant service and reserves without
  looking again. So the hold of an end beside them is lost, and the next rental
  comes with no clearing in between. With one request thread beside the sweeper and
  no forced release it holds at the bounds of `bay_rentals`.
- "Active rentals stay held" (the docstring of `sweep_ended_rentals`), seen to fail in
  the model with two request threads, without a run of its own: `force_available` on a
  bay it has read as free unclaims without naming a rental (line 1123), so a customer
  who was assigned the bay meanwhile loses the owner in his row, and the next sweep
  ends his rental. A second way, without force: reserve_slot takes its tenant claim
  back when the deduction fails, although another reserve of the same rental may have
  claimed, paid and reserved.
- "Deducts 1 `available_credits` on durable phone reservation"
  (`docs/WHMCS_WEBHOOK.md:92`), which needs no run: assign_slot, the routed way to a
  rental, deducts nothing.

One more disagreement has no run: an end whose call fails after the unclaim is
repeated by the sweep, which reads the owner from the row the first try has cleared
(`vps_farm_management_service.py:713`). The retry completes the end without the
refund that `docs/WHMCS_WEBHOOK.md:93` promises.

### RemoteAccess
`application/remote_access_service.py` over its store and the screen platform,
for the rentals of one bay. A thread's step is what it does next: `create`,
`check`, `store` are `create_remote_access` under the bay's lock; `end`,
`revoke`, `close` are `_end_session`; `observe`, `farm`, `note` are
`_observe_activation` under the rental's lock; `voidfix`, `report` the rest of
complete_setup; `prepare`, `start`, `flow`, `reach` are prepare_esim,
reboot_for_customer and the background thread each starts. The store's methods
are a get and an upsert of the whole row, two critical sections, so a thread
carries a copy (`seen`) of the row it read. A grant is a number: it stands for the
account's password and the session's expiry. `lost` is a history variable: which
fields of a row do not tell what was done last, because a writer with an outdated
copy wrote over them or a restart came before they were written.

Properties: `SessionsInv` (types, `OneSessionPerBay`, `BusyHasFlow`),
`LiveCredentials`, `OverIsClosed`. All but the last except rows whose field is `lost`:
such rows exist in the code, upsert replaces everything. A rental ends when its row
goes away or to another owner, when its end passes, or when the row stays with an
empty owner or an ended status (`Endings`). Of the last the sweep takes no notice
(`remote_access_service.py:1808`), and the ownership cache lets the former tenant
through (`:467`): such a session is ended by its own time only, so `OverIsClosed`
counts on the passing of time there, and the docstring at `:1797`, by which the sweep
ends sessions whose rental "has ended or changed owner", is not met. A failing
revoke_access is logged and never tried again, so the platform may keep an account
without a session; the next grant replaces it. The queue's answer to a create is
arbitrary here. Bounds: two rentals in turn, two request threads with any operation,
two requests or restarts, which is enough for an end to race a create and for a stale
observation to bring a session back. A request takes the first idle thread, which
makes no difference, as threads are alike. Fairness: some thread continues while one
can, the sweep runs with every heartbeat, and the end of a rental without an owner
passes.

### SmsPromise, SmsDelivery
`SmsPromise` is what is promised of a message: handed to the provider at most
once, only when asked for, its verdict final. `SmsDelivery` is the code: request
threads of the VPS that store a message and become its dispatcher, posts to the
Farm Agent (each a thread there, with a copy of the outbox row it works on), the
provider, the delivery poll and its resumption by `main.py`. It implements
`SmsPromise` under the mapping `Promise` (`AtMostOnce`). `DeliveryInv` is the types,
`OutboxRemembers` (what was submitted has a durable row) and `DeliveredIsTrue`;
`ReportComes` is the verdict of every message in flight.

A second submission has two ways in the code. Every post loads an outbox of its own
and `reserve` looks for the key in that copy (`sms_outbox.py:47`), so two posts of one
key may both find it free, when a client gives up waiting and posts again: the model
hands such a message over twice, though `docs/WEBHOOK_OUTBOUND_SMS.md:90` says that
"retries reuse the key so a second physical send is not issued". And with more
than one try (`MaxTries`; the default is 1, `domain/farm.py:151`) an error of the
connection is tried again (`:141`) though the provider may have taken the message.
`risked` is the history of both: messages of which two posts stood between look and
reservation, or whose submission was tried again. The refinement counts the
submissions of such a message as one, and `DeliveredIsTrue` leaves it out, as the
provider may know two; of all other messages both say that nothing else, no
restart, lost answer, late post or resumed poll, leads to a second submission or an
invented delivery.

Bounds: one message, two requests for it, two posts, one restart of VPS, Farm Agent or
`main.py`; without `ReportComes` two restarts passed in a single run (3.66 million
states), and so did two tries (4.54 million states). A post that its client has given
up may arrive at any later time. A job may end as `queued`, the status a duplicate's
answer carries, and "sent" may be shown of a message that a dry run never submitted
(`docs/VPS_SLOT_SMS_API.md:70`). Fairness: the dispatchers run, and waits end by an
answer or a timeout; of the Farm Agent nothing is asked. After a restart of the VPS a
message stays at sending for ever; `ReportComes` excepts that.

### JobTable, FarmDaemon
`JobTable` is `domain/provisioning_state.py`: the approved transitions as a
machine. `FarmDaemon` is `main.py`'s three services with the lock per slot: the
provisioning loop (`CycleStart`, `Flush`, `Fetch`, `PoolStart`, `CycleEnd`), its
workers (`Take` to `Report`), the proxy threads and the health loop. `pending` are
the reports that failed, `told` what the backend has, `latest` (history) the newest
result of each job. `FollowsTable` is the refinement of `JobTable`; `DaemonInv` is the
types, `OneOperationPerPhone` and `NewestReportKept`; `ConfirmedStands` and
`CycleEnds` are the action and liveness properties. `main.py` passes no
verification source, so the human path waits for its verification; the other path
provisions a job again that the backend lists again, and only its states are
modelled. Bounds: two jobs of one slot or one outside the allowlist, two cycles,
one restart. Fairness: threads run, calls return, and a thread that waits for a
slot's lock gets it if it is free again and again.

### MCServices
Seven smaller services share one run: `part` picks one of them in the initial state
and the others rest, so each is checked with all its interleavings and the run's
size is the sum. Liveness is stated as `Fairness of the service => property`: a
service that rests is not fair, and its formula holds. `ServicesInv` is the
conjunction of the types and the plainer invariants of all seven.

**LockdownGuard** (`application/device_hardware_lockdown.py`). A guard is a process of
the phone: `exec`, then two passes of `kill_siblings` (`list1`, `kill1`, `list2`,
`kill2`), then `watch`. The passes run in a subshell, which outlives a killed guard
(`orphan`) and kills itself at its own line (`Reached`). A thread of the agent is the
list of adb commands it still has to run: `Ensure` and `Redeploy` are those of
`ensure_lockdown_guard` and of the full deployment, and a command fails while the
cable is out. Timing enters at one place, `Settled`: within the half second between
the passes, every guard launched earlier is through `exec`. Guards are named by the
order of their launches; the numbers the phone gives its processes follow that order
until they begin again at the bottom, and `below` says which older guards have the
smaller number. A pass goes through `ps` in the order of the numbers, so it reaches
the smaller ones for certain and any larger one only perhaps. `NewestWins`: a guard
that watches has outlived every older guard with a smaller number, of which at most
the rest of a pass still runs. An older guard with a larger number may watch beside
it, when the stops before the launch missed it: that happens in the model, against the
comment at line 981 ("a missed `ps` sweep can never leave two guards polling the same
phone"). `GuardReturns`: a phone within reach is guarded in the end. It is assumed
that the numbers do not begin again between the launch of a guard and its passes, a
second later, and that a number somebody has listed is not given to another process
before the kill. Bounds: two guards at a time, one task thread, one task, one mishap;
three guards passed in single runs of the guard alone (`NewestWins` with one task,
1.65 million states, `GuardReturns` with the loop only, 183,000). Fairness: processes,
threads, sweep and polls run; nothing of cables and tasks. The access modes and pauses
of the lockdown are not modelled: two overlapping `pause_renter_lockdown` calls may
leave the mode flag of the other.

**Billing** (`whmcs_billing_service.py`, `credit_wallet_store.py`, the shop's
`vps_sync.php`). `keys` is the event table, one transaction per change (`Once`).
Hooks post once (`Lose`) and posts overtake each other. A rental comes by assign_slot,
which deducts nothing (`AssignSlot`), or by reserve_slot (`DeductForActivation`), whose
failures may take the claim of the row back. An end reads the owner, clears him
(`UnclaimTenant`) and refunds a credit to the owner it read (`RefundForTermination`);
a try without an answer is repeated, and the repetition finds a row without an owner
and refunds nothing. `LedgerBalances`, `EventsCountOnce`. So neither "a phone that is
held was paid for" nor "an ended rental was refunded" is claimed; `bay_credits` says
what is true of the first. Seen in the model: an ordered and paid
package is granted twice, once by each hook; a cancellation while the credit is in use
takes nothing, and the rental's refund then gives a credit back; deduct and refund set
the status to active after a cancellation; a second cancellation has the key of the
first and is ignored. Bounds: one package with two invoices, two rentals, three runs of
a hook.

**Companion** (`CommandRouter`, `EsimController`, `LocalStore`, `JsonLineServer`,
`infrastructure/adb_companion.py`). `stage` is what the server's thread does with
the first connection. `VerdictIsOwn` holds until a download outlives its wait: the
receiver looks at the action only, and a late broadcast then answers the next job,
which the variable `outlived` makes explicit. `AnswerStands`, `OncePerJob` (with one
more per killed process, since `apply()` writes later), `WaitEnds`. A reply to a
caller that gave up may end the server's thread, after which every call waits until
the service restarts; both sides time out at 180 s, so the caller may give up first.
Bounds: two jobs, three calls, one kill. Fairness: the server's thread and its
timer; the eUICC promises nothing.

**AdminLive** (`admin_live_access_service.py`, `stream_warmup.py`). The methods of
`MjpegPrimeCache` are one action each: what they do under the lock, then closing and
waking. `NoStreamLeaks`, `ViewerSees`, `OneSessionPerAdmin`, `WaitsEnd`. The last
excepts another viewer's take, which forgets the event others wait on, so that they
wait their full five seconds. Bounds: two request threads, one administrator, two
sessions, two warm-ups. Fairness: threads and warm-ups run; the five seconds are not
counted on.

**EsimSetup** (`upload_esim_qr`, `prepare_esim`, `_observe_activation`,
`esim_profile_is_new`). One rental's row, the phone's eSIM (`none`, `before`, `own`),
an upload and an observation with their copies of the row, readings that may fail.
`LeftoverIsNotNew`: an earlier rental's eSIM is not confirmed when a baseline was
recorded and every reading succeeded (`unsure` marks the rest). `ConfirmedInTheEnd`:
the customer's own eSIM is, unless a whole row was written back over an upload
(`lost`). What the exceptions stand for is in the code: prepare_esim throws away the
baseline its placement reads, so a leftover that is registered is confirmed after
prepare_esim alone, though `docs/IN_APP_SETUP_SESSION.md:14` says a leftover is not
Phone Ready; an upload publishes `qr_uploaded_at` before the baseline is stored; a
failed dumpsys gives a token that makes a leftover look new. Bounds: one upload
thread, one failed reading. Fairness: an upload that was begun ends, the dashboard
keeps asking.

**SlotStatus** (`farm_heartbeat_poller.py`, `vps_slot_state.py`, `get_slot_status`,
`farm_status_snapshot.py`). The poller's row and event, a refresh that reads
heartbeat, occupancy, the active job and the last assign one after the other, the
snapshot callers see. `EventsAlternate` (an event that a restart between row and event
swallows, `lostEvent`, is missing until the phone changes again),
`SettledIsShown`. While the farm is silent the snapshot keeps its last body, so a
bay is shown as available during an outage although `derive_slot_state` would answer
unknown. Bounds: three happenings (rentals, jobs, outages, stalls, restarts).
Fairness: poller and refresh threads run.

**PhoneScreen** (the loop of the guard's script, the restricted controls of
`remote_access_service.py`, the inspection of `setup_session_farm_task.py`). A screen
stands for every activity that script and policies treat alike (`Screens`). The guard
reads the focus (`GuardRead`), acts on what it read (`GuardAct`) and stops and sends
HOME later (`GuardKick`); `file` is its state file and `hold` says that the six
seconds of a kick notice still run. A control of the customer is carried out, looks at
the foreground (`Look`), the inspection may itself move the phone (`Meddle`), and the
VPS decides on the activity it was told (`Decide`), perhaps with an inspection more.
Home presses, popups, flips of the admin flag and restarts of the guard come at any
moment. `ScreenComesRight`: in client mode a screen that is not the customer's does
not stay, and the dashboard ends up telling the screen he is on. Seen in the model:
once the eSIM is confirmed every inspection presses HOME, so a tap that is looked at
throws the customer out of whatever he opened; the guard allows the gallery and an
inspection may kick it. Bounds: two taps, home presses, popups, flips or restarts in
all, enough for a kick to meet a screen that came after it was decided. One control is
at work at a time (they hold the rental's lock; a poll of the dashboard waits for
none). Fairness: the guard loops, a notice runs out, controls end.

## 4. Runs

| Run | Shows |
|---|---|
| `stream_queue_safety` | the stream queue's safety and action properties |
| `stream_queue_liveness` | waiting customers are served |
| `vps_jobs_assign` | duplicate and retried assigns: types, no third send, newer assignment kept, every job ends unless the loop is wedged |
| `vps_jobs_restart` | restarts and every answer: no settled job is run again, no record lost, every job ends |
| `vps_jobs_duplicate` | a disagreement of code and documents |
| `bay_rentals` | two rentals in turn: a rental that is over loses its bay |
| `bay_interleaved` | a disagreement: a rental follows another without an operator's clearing |
| `bay_credits` | concurrent reserves by a customer with one credit: what reserve_slot reserved was paid for |
| `sms_delivery` | the SMS path implements `SmsPromise` but for risked second submissions, and every message in flight gets a verdict |
| `farm_daemon` | the daemon implements `JobTable`; phones, reports and cycles under failures and a restart |
| `remote_access` | one session per bay, live credentials, no waiting state left behind, closed when over |
| `services` | the seven smaller services, one at a time |

Each property of a passing run has at least one mutant: an operator named "Fault
for ..." in the module, a plausible bug in the mapped definition that makes the run
fail. An invariant that is a conjunction of named parts has one for each part.
Deadlock is not asked about where the system may rest (`CHECK_DEADLOCK FALSE`): the
bounded requests, restarts and events run out.

## 5. Proofs

A theorem holds for every value of the constants that satisfies the named assumption
of its module: which special values are no members, which sets are finite, which
bounds are natural numbers. Further assumptions are in the statement of the theorem
and named below. `theorems` in `PROJECT.json` lists the results; the parts of an
invariant that are not a run's property were checked by TLC first.

`StreamQueueProofs` proves for all rentals, cap, TTL and idle limits:
`TypeCorrect`, `AtMostCapLeases`, `EveryRentalInOnePlace`,
`NobodyWaitsForAFreeLease`, `PublishedFlagTruthful`, and the four
together as `QueueStaysInOrder` (`QueueInv`). The inductive invariant is `IInv`: the
types, `Settled` (cap, one
place, and everybody out if somebody waits) and the flag. The cap alone is not
inductive: a promotion from a line with a rental twice, or one that holds a
lease, would count wrongly, and `OnePlace` needs the cap and the type of the line.
The argument: dropping leases from a settled state leaves a state the promotion
may start from (`Promotable`), and the promotion settles any such state
(`PromotionSettles`); each action is a change of that form.
On top of it:

- `PromisesAreKept` (`PromiseKept`). `PromiseKept` speaks of the end of the quoted
  time only; `PInv` says what is true until then: whoever stands at place i has at
  least i leases that end within what is left of its time. A tick ends as many as it
  takes away, a promotion moves everybody forward by as many as it hands out.
- `FirstComeFirstServed` (`NoOvertaking`) and `LeasesAreRespected`
  (`LeasesRunTheirTime`), action properties that follow from `IInv` and from what
  pruning and promoting do to a line without a rental twice.

`BayOccupancyProofs` proves, for all bays, rentals, customers, request threads,
operations, failures and restarts, `TypeCorrect` (which includes that no customer's
credits fall below zero however deductions interleave) and `ReservedWasPaid`
(`RentedMeansCharged`: of the reservations that reserve_slot wrote). `IInv` adds to the
types and the property what every thread has in hand at each step (`Sound`): its bay
and rental where it uses them, a granting operation at the steps of a grant, and at
the two steps that write the reservation of reserve_slot the credit's key among those
the ledger has seen. The last part is what makes the property inductive: a
reservation is written long after the deduction, and refunds and other deductions in
between add keys but remove none.

`VpsJobsProofs` proves, for all request threads, rentals, bays, keys, answers of
the farm, jobs and restarts, `TypeCorrect`, `NeverSentThrice`
(`SentTwiceAtMost`), `NoRecordLost` (`DoneIsRecorded`), `SettledForGood`
(`NeverRunAgain`) and `PendingJobsKeepTheirBay` (`PendingJobKeepsItsBay`). `IInv` adds
to the types and the invariants

- `Requests`: a request that has created a job is the only one that will start
  its thread, and that thread is idle until then; the requests that may still
  create a job have room for it under `MaxJobs`. Without it `Spawn` could
  overwrite a thread that is waiting for the farm.
- `Workers`: a thread at work has a job that exists, and at `update` the eSIM of
  its job has been recorded or refused. This carries `DoneIsRecorded` from the
  call of the tenant store to the later update of the job.
- `Calls`: whoever the farm will answer waits for that very job, so an answer
  never reaches a thread that has gone on to something else.

`NeverSentThrice` rests on one more invariant, `Sends`: what was sent of a job and what
threads at `mark` are about to send are two at most. Only the job's own thread and the
loop ever come to `mark` for it, each by reading it as pending, and once it was sent no
step makes it pending again. `SettledForGood` is an action property: a thread comes to
`mark`, `post` or `wait` only from reading its job as pending or from one of these three.
`PendingJobsKeepTheirBay` needs one more invariant, `Releasing`: the job of a worker
that is about to release its bay is not pending. A worker has ended its job before,
and only its creation makes a job pending.

`SmsDeliveryProofs` proves, for any messages, requests, posts, tries and restarts,
`DeliveryTypes`, `RemembersWhatWasTaken` (`OutboxRemembers`: what was submitted has a
durable outbox row), `DeliveryCorrect` (`DeliveryInv`) and `DeliveryKeepsPromise`, the
refinement of `SmsPromise` (`AtMostOnce`), without an assumption on when a post arrives
or how often a client tries. The outbox is read and reserved in two steps; unless
`risked` says that two posts stood between them, one post of a message finds no row and
is the only one that submits (`OneSubmits`). `Dispatchers` says that a message in flight
has one request, and `Asked` and `Told` carry the verdicts: what is shown as delivered
the provider has reported. The refinement then has one lemma per action: a submission
is `Submit` of the promise, the further ones of a risked message leave what is counted
alone, what changes a message's shown status is `Accept` or `Close`, and everything
else stutters.

`FarmDaemonProofs` proves, for any finite set of jobs, slots, cycles and restarts,
`DaemonCorrect` (`DaemonInv`: one operation per phone, the newest result of a job
reported or kept), the action property `ConfirmationStands` (`ConfirmedStands`) and
the refinement `DaemonFollowsTable` (`FollowsTable`): every step of the daemon is a
step of `JobTable` or leaves the states of the jobs alone. `IInv` adds `Assigned`
(threads of a cycle work on jobs of their own slot, so they share none), `Locks`
(whoever works on a phone holds its lock), `Places` (which state a job is in where its
thread is), `Actives` (only a confirmation makes a job active) and `Reports` (a
report on its way is the newest; an older one waits only for it).

`RemoteAccessProofs` proves, for any rentals, requests and outdated writes,
`SessionsCorrect` (`SessionsInv`) and `CredentialsLive` (`LiveCredentials`). `IInv` adds
`Held` (the bay's lock is held from the look at the row to its store), `GrantsAlone`
(while a session is granted the bay has none) and `GrantsSuffice` (a new grant has a
number no earlier one had, as every create is a request of its own). Rows are written
from copies, so each lemma about a write says which columns the copy may bring back;
`lost` names them, and the properties except what was lost.

`BillingProofs` proves, for any packages, invoices, rentals and posts,
`BooksStayInStep` (the invariant `BillingInv`), `BillingTypeCorrect`,
`LedgerAlwaysBalances` and `EventsAlwaysCountOnce`; finiteness follows because only
finitely many keys have been seen. The invariant ties the columns of the wallet to
the numbers of keys of each kind; a change adds exactly one key of its kind, and a
key that was seen changes nothing.

`ServicesProofs` proves `ServicesCorrect`: all invariants of the run `services` hold in
the composition, for all values of the constants. Each service has its own inductive
invariant, also proved for its own specification, and a step of one service leaves
the variables of the others alone.

- The guard (`GuardsStayTyped`, `NewestLaunchWins`; `GuardInv`):
  `Outlives` says what a guard in its second kill or at watch has behind it: an older
  sibling with a smaller number is gone, an orphan, or, before the second kill, in the
  list that is about to be killed. It rests on `Settled`, the half second
  of the script: an older guard still in `exec` at the second listing would be missed
  by it and go on to watch.
- The companion (`CompanionInvariant`, `VerdictsAreOwn`, `AnswersStand`; `CompInv`):
  while no download has outlived its wait the eUICC works on the awaited one only, no
  job was handed over more often than the process has lived, and "installed" is kept
  of a job whose profile is there, or of one whose verdict may be another's because a
  download has outlived its wait.
- Admin access (`NoStreamStaysOpen`; `AdminInv`): the bay's lock is held from the
  look at the sessions to the insertion, so what is inserted is a free row of an admin
  without a session; and the stream a warm-up speaks of is where its thread left it.
- The eSIM columns (`LeftoversStayOld`; `EsimInv`): the row and every copy a thread
  has of it are sound (`RowSound`), so a late upsert writes nothing unsound.
- Slot events (`EventsDoAlternate`; `SlotInv`), and the types of billing and screen.

Model-checked only: liveness (`WaiterServed`, `JobsFinish`, `OverIsReleased`,
`ReportComes`, `CycleEnds`, `OverIsClosed`, `FairGuardReturns`, `FairWaitsEnd`,
`FairConfirmed`, `FairSettledIsShown`), because fairness and ENABLED are outside the
prover. The runs of section 4 that show a disagreement refute their property, so there
is nothing to prove of it.

## 6. Not modelled

- Authentication, tokens and single sign-on: checks of signatures and rows of
  services outside the repository. What the services do with a customer's identity
  (ownership of a rental, the cached entry) is in `RemoteAccess` and `BayOccupancy`.
- HTTP routing, the OpenAPI description, texts and language of answers: no state.
- Commands to phones beyond those named above (inventory, wipes, wallpaper, volume,
  menus): their effect is the phone's. Their failure is a step of the models that
  use them.
- The lists of packages, markers and keys behind the classes of screens, the
  notification shade and the allow-list of controls: a model would be the lists again.
- Pauses of the lockdown (`pause_renter_lockdown`): which commands are in force
  is the phone's; overlapping pauses may leave the flag of the other.
- The prototype service, readiness scripts, web client and sandbox.
