------------------------------ MODULE FarmDaemon -------------------------------
(***************************************************************************)
(* main.py: the daemon beside the phones.  Three services run at once,     *)
(* each with a loop and a pool of threads, and share one lock per slot     *)
(* (application/slot_coordinator.py):                                      *)
(*   - provisioning_service.py claims activation jobs and takes each       *)
(*     through the states of JobTable, one thread per slot,                *)
(*   - proxy_service.py repairs the route of a slot,                       *)
(*   - health_service.py counts failed probes and reboots a phone.         *)
(* The backend that lists jobs and takes reports, and the phones, are      *)
(* outside; every call of theirs may fail.                                 *)
(***************************************************************************)
EXTENDS Naturals, Sequences, FiniteSets

CONSTANTS
    Jobs, Slots,
    Assignments,     \* which slot each job names, NoSlot outside the allowlist
    Threshold,       \* failure_threshold
    Recovery,        \* HEALTH_RECOVERY_ENABLED
    MaxCycles,       \* provisioning cycles
    MaxRestarts,
    NoJob, NoSlot

ASSUME DaemonAssumption ==
    /\ IsFiniteSet(Jobs) /\ Assignments \subseteq [Jobs -> Slots \cup {NoSlot}]
    /\ Threshold \in Nat \ {0} /\ Recovery \in BOOLEAN
    /\ MaxCycles \in Nat /\ MaxRestarts \in Nat
    /\ NoJob \notin Jobs /\ NoSlot \notin Slots

VARIABLES
    slotOf,    \* slot_id of the jobs
    human,     \* _is_human_path: the provisioner needs a person for Settings
    record,    \* _records: the job's state, "none" without a record
    result,    \* _results
    pending,   \* _pending_reports
    told,      \* the backend: the last report of a job it received
    latest,    \* history: the newest result of a job in this run of the daemon
    cycle,     \* the provisioning loop: step, jobs to flush, number
    todo,      \* jobs of a slot still to do in this cycle
    worker,    \* threads of the cycle, by slot; NoSlot is the loop itself
    lock,      \* SlotOperationCoordinator: who has the slot
    proxy,     \* proxy threads
    health,    \* the health loop: step and slot
    failures,  \* _failures
    restarts

vars == <<slotOf, human, record, result, pending, told, latest, cycle, todo, worker, lock,
          proxy, health, failures, restarts>>
config == <<slotOf, human>>
jobVars == <<config, record, result, pending, told, latest>>
healthVars == <<health, failures>>

--------------------------------------------------------------------------------
Verdicts == {"confirmed", "partial", "failed", "unknown",
             "human",         \* human Settings/LPA required
             "notRunnable"}   \* human job is not in a runnable state
JobStates == {"pending", "claimed", "preflight", "waiting_for_activation",
              "activation_submitted", "verification", "active", "retryable", "failed"}
Terminal == {"active", "failed"}
Workers == Slots \cup {NoSlot}
Resting == [pc |-> "idle", job |-> NoJob, verdict |-> "none"]

Init ==
    /\ slotOf \in Assignments /\ human \in BOOLEAN
    /\ record = [j \in Jobs |-> "none"]
    /\ result = [j \in Jobs |-> "none"]
    /\ pending = [j \in Jobs |-> "none"]
    /\ told = [j \in Jobs |-> "none"]
    /\ latest = [j \in Jobs |-> "none"]
    /\ cycle = [pc |-> "idle", flush |-> {}, number |-> 0]
    /\ todo = [s \in Workers |-> <<>>]
    /\ worker = [s \in Workers |-> Resting]
    /\ lock = [s \in Slots |-> "free"]
    /\ proxy = [s \in Slots |-> "idle"]
    /\ health = [pc |-> "idle", slot |-> NoSlot]
    /\ failures = [s \in Slots |-> 0]
    /\ restarts = 0

--------------------------------------------------------------------------------
(* Reports *)

Delivered(j, verdict) ==
    /\ told' = [told EXCEPT ![j] = verdict]
    /\ pending' = [pending EXCEPT ![j] = "none"]

\* Fault for NewestReportKept: a report that waits is not replaced
UndeliveredKeepsOld(j, verdict) ==
    /\ told' = told \/ told' = [told EXCEPT ![j] = verdict]
    /\ pending' = [pending EXCEPT ![j] = IF pending[j] = "none" THEN verdict ELSE pending[j]]

\* The exception comes with or without the backend having the report
Undelivered(j, verdict) ==
    /\ told' = told \/ told' = [told EXCEPT ![j] = verdict]
    /\ pending' = [pending EXCEPT ![j] = verdict]

\* _report_safely
ReportSafely(j, verdict) == Delivered(j, verdict) \/ Undelivered(j, verdict)

--------------------------------------------------------------------------------
(* run_once and _run_cycle *)

CycleStart ==
    /\ cycle.pc = "idle"
    /\ cycle.number < MaxCycles
    /\ cycle' = [pc |-> "flush", flush |-> {j \in Jobs : pending[j] # "none"},
                 number |-> cycle.number + 1]
    /\ UNCHANGED <<jobVars, todo, worker, lock, proxy, healthVars, restarts>>

\* _flush_pending_reports
Flush ==
    /\ cycle.pc = "flush"
    /\ \E j \in cycle.flush :
          /\ ReportSafely(j, pending[j])
          /\ cycle' = [cycle EXCEPT !.flush = @ \ {j}]
    /\ UNCHANGED <<config, record, result, latest, todo, worker, lock, proxy, healthVars, restarts>>

\* The orders in which the backend may list some of a slot's jobs
Listings(s) ==
    UNION {{f \in [1..n -> {j \in Jobs : slotOf[j] = s}] :
               \A i, k \in 1..n : f[i] = f[k] => i = k} : n \in 0..Cardinality(Jobs)}

\* fetch_pending lists jobs of any slots, or raises
Fetch ==
    /\ cycle.pc = "flush" /\ cycle.flush = {}
    /\ \E jobs \in [Workers -> UNION {Listings(s) : s \in Workers}] :
          /\ \A s \in Workers : jobs[s] \in Listings(s)
          /\ todo' = jobs
          /\ cycle' = [cycle EXCEPT !.pc =
                IF \A s \in Workers : jobs[s] = <<>> THEN "idle" ELSE "foreign"]
    /\ UNCHANGED <<jobVars, worker, lock, proxy, healthVars, restarts>>

--------------------------------------------------------------------------------
(* A worker of the cycle.  Every advance of a record is a step: other      *)
(* threads read job_state.                                                 *)

\* Fault for FollowsTable: a retryable job waits again at once
AdvanceLeniently(j, destination) ==
    record' = [record EXCEPT ![j] =
        IF destination = "preflight" /\ record[j] = "retryable"
        THEN "waiting_for_activation" ELSE destination]

Advance(j, destination) == record' = [record EXCEPT ![j] = destination]

Step(s, pc) == worker' = [worker EXCEPT ![s] = [@ EXCEPT !.pc = pc]]

\* The result is in hand and the slot is given back
Conclude(s, verdict) ==
    /\ worker' = [worker EXCEPT ![s] = [@ EXCEPT !.pc = "report", !.verdict = verdict]]
    /\ latest' = [latest EXCEPT ![worker[s].job] = verdict]
    /\ lock' = IF s \in Slots THEN [lock EXCEPT ![s] = "free"] ELSE lock

Keep(j, verdict) == result' = [result EXCEPT ![j] = verdict]

\* _ensure_record
Recorded(j) == IF record[j] = "none" THEN Advance(j, "pending") ELSE UNCHANGED record

\* The loop fails a job outside the allowlist: _fail_preflight
ForeignTake ==
    /\ cycle.pc = "foreign"
    /\ worker[NoSlot].pc = "idle"
    /\ todo[NoSlot] # <<>>
    /\ worker' = [worker EXCEPT ![NoSlot] =
                     [pc |-> "foreign", job |-> Head(todo[NoSlot]), verdict |-> "none"]]
    /\ todo' = [todo EXCEPT ![NoSlot] = Tail(@)]
    /\ Recorded(Head(todo[NoSlot]))
    /\ UNCHANGED <<config, result, pending, told, latest, cycle, lock, proxy, healthVars, restarts>>

ForeignFail ==
    LET j == worker[NoSlot].job
    IN  /\ worker[NoSlot].pc = "foreign"
        /\ CASE record[j] = "pending" -> Advance(j, "claimed") /\ UNCHANGED <<result, worker, latest, lock>>
             [] record[j] = "claimed" -> Advance(j, "preflight") /\ UNCHANGED <<result, worker, latest, lock>>
             [] OTHER ->
                  /\ IF record[j] \in Terminal THEN UNCHANGED record ELSE Advance(j, "failed")
                  /\ Keep(j, "failed")
                  /\ Conclude(NoSlot, "failed")
        /\ UNCHANGED <<config, pending, told, cycle, todo, proxy, healthVars, restarts>>

\* Every foreign job is reported before the pool starts
PoolStart ==
    /\ cycle.pc = "foreign"
    /\ worker[NoSlot].pc = "idle" /\ todo[NoSlot] = <<>>
    /\ cycle' = [cycle EXCEPT !.pc = "work"]
    /\ UNCHANGED <<jobVars, todo, worker, lock, proxy, healthVars, restarts>>

\* with self._coordinator.acquire(slot_id)
Take(s) ==
    /\ cycle.pc = "work"
    /\ worker[s].pc = "idle" /\ todo[s] # <<>>
    /\ lock[s] = "free"
    /\ lock' = [lock EXCEPT ![s] = "job"]
    /\ worker' = [worker EXCEPT ![s] =
                     [pc |-> "path", job |-> Head(todo[s]), verdict |-> "none"]]
    /\ todo' = [todo EXCEPT ![s] = Tail(@)]
    /\ UNCHANGED <<jobVars, cycle, proxy, healthVars, restarts>>

\* Without a person the provisioner does it all, without a record, or raises
Path(s) ==
    /\ worker[s].pc = "path"
    /\ \/ /\ human
          /\ Step(s, "run")
          /\ Recorded(worker[s].job)
          /\ UNCHANGED <<latest, lock>>
       \/ /\ ~human
          /\ \E verdict \in {"confirmed", "partial", "failed", "unknown"} : Conclude(s, verdict)
          /\ UNCHANGED record
       \/ /\ ~human
          /\ Step(s, "fault")
          /\ Recorded(worker[s].job)
          /\ UNCHANGED <<latest, lock>>
    /\ UNCHANGED <<config, result, pending, told, cycle, todo, proxy, healthVars, restarts>>

\* _advance_human_job from a state before the activation
Prepare(s) ==
    LET j == worker[s].job
    IN  /\ worker[s].pc = "run"
        /\ record[j] \in {"pending", "claimed", "retryable", "preflight"}
        /\ Advance(j, CASE record[j] = "pending"   -> "claimed"
                        [] record[j] = "preflight" -> "waiting_for_activation"
                        [] OTHER                   -> "preflight")
        /\ Step(s, IF record[j] = "preflight" THEN "submit" ELSE "run")
        /\ UNCHANGED <<config, result, pending, told, latest, cycle, todo, lock, proxy, healthVars, restarts>>

\* ... and from a later state: a waiting job is looked at again, a finished
\* one repeats its result
Resume(s) ==
    LET j == worker[s].job
    IN  /\ worker[s].pc = "run"
        /\ record[j] \in Terminal \cup {"waiting_for_activation"}
        /\ IF record[j] \in Terminal
           THEN Conclude(s, IF result[j] # "none" THEN result[j] ELSE "notRunnable")
           ELSE Step(s, "source") /\ UNCHANGED <<latest, lock>>
        /\ UNCHANGED <<config, record, result, pending, told, cycle, todo, proxy, healthVars, restarts>>

\* submit_activation
SubmitActivation(s) ==
    /\ worker[s].pc = "submit"
    /\ Step(s, "source") \/ Step(s, "fault")
    /\ UNCHANGED <<jobVars, cycle, todo, lock, proxy, healthVars, restarts>>

\* The verification source: a snapshot, none, or an exception
Source(s) ==
    LET j == worker[s].job
    IN  /\ worker[s].pc = "source"
        /\ \/ /\ Conclude(s, "human") /\ Keep(j, "human")
              /\ UNCHANGED record
           \/ /\ Step(s, "submitted") /\ Advance(j, "activation_submitted")
              /\ UNCHANGED <<result, latest, lock>>
           \/ /\ Step(s, "fault")
              /\ UNCHANGED <<record, result, latest, lock>>
        /\ UNCHANGED <<config, pending, told, cycle, todo, proxy, healthVars, restarts>>

Submitted(s) ==
    /\ worker[s].pc = "submitted"
    /\ Advance(worker[s].job, "verification")
    /\ Step(s, "verify")
    /\ UNCHANGED <<config, result, pending, told, latest, cycle, todo, lock, proxy, healthVars, restarts>>

\* Fault for TypeOK: a partial verdict becomes the state of the job
StateAfterVerbatim(verdict) ==
    CASE verdict = "confirmed" -> "active"
      [] verdict = "unknown"   -> "retryable"
      [] OTHER                 -> verdict

\* Where a verdict takes the job
StateAfter(verdict) ==
    CASE verdict = "confirmed" -> "active"
      [] verdict = "partial"   -> "waiting_for_activation"
      [] verdict = "unknown"   -> "retryable"
      [] OTHER                 -> "failed"

\* Fault for ConfirmedStands: the result of a finished job is not kept
VerifyForgetting(s) ==
    /\ worker[s].pc = "verify"
    /\ \E verdict \in {"confirmed", "partial", "failed", "unknown"} :
          /\ Advance(worker[s].job, StateAfter(verdict))
          /\ Conclude(s, verdict)
    /\ UNCHANGED <<config, result, pending, told, cycle, todo, proxy, healthVars, restarts>>

\* verify_profile
Verify(s) ==
    LET j == worker[s].job
    IN  /\ worker[s].pc = "verify"
        /\ \/ \E verdict \in {"confirmed", "partial", "failed", "unknown"} :
                 /\ Advance(j, StateAfter(verdict))
                 /\ Keep(j, verdict)
                 /\ Conclude(s, verdict)
           \/ /\ Step(s, "fault")
              /\ UNCHANGED <<record, result, latest, lock>>
        /\ UNCHANGED <<config, pending, told, cycle, todo, proxy, healthVars, restarts>>

\* _retryable_or_failed, which keeps no result
Fault(s) ==
    LET j == worker[s].job
    IN  /\ worker[s].pc = "fault"
        /\ CASE record[j] = "pending"  -> Advance(j, "claimed") /\ UNCHANGED <<worker, latest, lock>>
             [] record[j] = "preflight" -> Advance(j, "retryable") /\ Conclude(s, "unknown")
             [] OTHER ->
                  /\ IF record[j] \in Terminal THEN UNCHANGED record ELSE Advance(j, "failed")
                  /\ Conclude(s, "failed")
        /\ UNCHANGED <<config, result, pending, told, cycle, todo, proxy, healthVars, restarts>>

\* The report, outside the slot's lock; a slot stops at its first failure
Report(s) ==
    LET w == worker[s]
    IN  /\ w.pc = "report"
        /\ ReportSafely(w.job, w.verdict)
        /\ worker' = [worker EXCEPT ![s] = Resting]
        /\ todo' = IF s \in Slots /\ w.verdict # "confirmed"
                   THEN [todo EXCEPT ![s] = <<>>] ELSE todo
        /\ UNCHANGED <<config, record, result, latest, cycle, lock, proxy, healthVars, restarts>>

\* as_completed has seen every thread
CycleEnd ==
    /\ cycle.pc = "work"
    /\ \A s \in Workers : worker[s].pc = "idle" /\ todo[s] = <<>>
    /\ cycle' = [cycle EXCEPT !.pc = "idle"]
    /\ UNCHANGED <<jobVars, todo, worker, lock, proxy, healthVars, restarts>>

--------------------------------------------------------------------------------
(* proxy_service.py *)

\* Fault for OneOperationPerPhone: the result of acquire is not looked at
ProxyTakeAnyway(s) ==
    /\ proxy[s] = "idle"
    /\ proxy' = [proxy EXCEPT ![s] = "route"]
    /\ lock' = [lock EXCEPT ![s] = IF lock[s] = "free" THEN "proxy" ELSE lock[s]]
    /\ UNCHANGED <<jobVars, cycle, todo, worker, healthVars, restarts>>

\* acquire(blocking=False): a busy slot is skipped
ProxyTake(s) ==
    /\ proxy[s] = "idle"
    /\ lock[s] = "free"
    /\ lock' = [lock EXCEPT ![s] = "proxy"]
    /\ proxy' = [proxy EXCEPT ![s] = "route"]
    /\ UNCHANGED <<jobVars, cycle, todo, worker, healthVars, restarts>>

\* Fault for CycleEnds: an unhealthy route keeps the lock
ProxyReleaseOnSuccess(s) ==
    /\ proxy[s] = "route"
    /\ proxy' = [proxy EXCEPT ![s] = "idle"]
    /\ \E ok \in BOOLEAN : lock' = IF ok THEN [lock EXCEPT ![s] = "free"] ELSE lock
    /\ UNCHANGED <<jobVars, cycle, todo, worker, healthVars, restarts>>

\* ensure_route, whatever comes of it
ProxyRelease(s) ==
    /\ proxy[s] = "route"
    /\ proxy' = [proxy EXCEPT ![s] = "idle"]
    /\ lock' = [lock EXCEPT ![s] = "free"]
    /\ UNCHANGED <<jobVars, cycle, todo, worker, healthVars, restarts>>

--------------------------------------------------------------------------------
(* health_service.py *)

\* _handle_observation of a probe: the loop's thread handles one at a time.
\* At the threshold the cooldown since the last reboot is over or not.
Observe(s) ==
    LET count == IF failures[s] < Threshold THEN failures[s] + 1 ELSE Threshold
        due == count = Threshold
    IN  /\ health.pc = "idle"
        /\ \/ failures' = [failures EXCEPT ![s] = 0] /\ UNCHANGED health
           \/ failures' = [failures EXCEPT ![s] = count] /\ UNCHANGED health
           \/ /\ due /\ ~Recovery
              /\ failures' = [failures EXCEPT ![s] = 0]
              /\ UNCHANGED health
           \/ /\ due /\ Recovery
              /\ failures' = [failures EXCEPT ![s] = count]
              /\ health' = [pc |-> "try", slot |-> s]
        /\ UNCHANGED <<jobVars, cycle, todo, worker, lock, proxy, restarts>>

\* acquire(blocking=False), and the reboot gate, which only this thread takes
HealthTake ==
    LET s == health.slot
    IN  /\ health.pc = "try"
        /\ IF lock[s] = "free"
           THEN lock' = [lock EXCEPT ![s] = "health"] /\ health' = [health EXCEPT !.pc = "reboot"]
           ELSE UNCHANGED lock /\ health' = [pc |-> "idle", slot |-> NoSlot]
        /\ UNCHANGED <<jobVars, cycle, todo, worker, proxy, failures, restarts>>

\* A reboot that raises leaves the counters as they are
Reboot ==
    LET s == health.slot
    IN  /\ health.pc = "reboot"
        /\ failures' = [failures EXCEPT ![s] = 0] \/ UNCHANGED failures
        /\ lock' = [lock EXCEPT ![s] = "free"]
        /\ health' = [pc |-> "idle", slot |-> NoSlot]
        /\ UNCHANGED <<jobVars, cycle, todo, worker, proxy, restarts>>

\* Everything but the backend is in memory
Restart ==
    /\ restarts < MaxRestarts
    /\ restarts' = restarts + 1
    /\ record' = [j \in Jobs |-> "none"] /\ result' = [j \in Jobs |-> "none"]
    /\ pending' = [j \in Jobs |-> "none"] /\ latest' = [j \in Jobs |-> "none"]
    /\ cycle' = [cycle EXCEPT !.pc = "idle", !.flush = {}]
    /\ todo' = [s \in Workers |-> <<>>] /\ worker' = [s \in Workers |-> Resting]
    /\ lock' = [s \in Slots |-> "free"] /\ proxy' = [s \in Slots |-> "idle"]
    /\ health' = [pc |-> "idle", slot |-> NoSlot]
    /\ failures' = [s \in Slots |-> 0]
    /\ UNCHANGED <<config, told>>

--------------------------------------------------------------------------------
Loop == CycleStart \/ Flush \/ Fetch \/ ForeignTake \/ ForeignFail \/ PoolStart \/ CycleEnd
Run(s) == Path(s) \/ Prepare(s) \/ Resume(s) \/ SubmitActivation(s) \/ Source(s)
          \/ Submitted(s) \/ Verify(s) \/ Fault(s)

Next ==
    \/ Loop
    \/ \E s \in Slots : Take(s) \/ Run(s)
    \/ \E s \in Workers : Report(s)
    \/ \E s \in Slots : ProxyTake(s) \/ ProxyRelease(s) \/ Observe(s)
    \/ HealthTake \/ Reboot \/ Restart

Spec == Init /\ [][Next]_vars

\* Threads run, calls to phones and backend return, and a thread that waits for
\* a slot's lock gets it some time if it is free again and again.
Fairness ==
    /\ WF_vars(Loop)
    /\ \A s \in Slots : SF_vars(Take(s)) /\ WF_vars(Run(s)) /\ WF_vars(ProxyRelease(s))
    /\ \A s \in Workers : WF_vars(Report(s))
    /\ WF_vars(HealthTake) /\ WF_vars(Reboot)

FairSpec == Spec /\ Fairness

--------------------------------------------------------------------------------
(* Properties *)

\* Every variable has the type the code gives it.
TypeOK ==
    /\ slotOf \in Assignments /\ human \in BOOLEAN
    /\ record \in [Jobs -> JobStates \cup {"none"}]
    /\ {result, pending, told, latest} \subseteq [Jobs -> Verdicts \cup {"none"}]
    /\ cycle.pc \in {"idle", "flush", "foreign", "work"} /\ cycle.flush \subseteq Jobs
    /\ todo \in [Workers -> Seq(Jobs)]
    /\ worker \in [Workers -> [pc : {"idle", "foreign", "path", "run", "submit", "source",
                                     "submitted", "verify", "fault", "report"},
                               job : Jobs \cup {NoJob}, verdict : Verdicts \cup {"none"}]]
    /\ lock \in [Slots -> {"free", "job", "proxy", "health"}]
    /\ proxy \in [Slots -> {"idle", "route"}]
    /\ health \in [pc : {"idle", "try", "reboot"}, slot : Slots \cup {NoSlot}]
    /\ failures \in [Slots -> 0..Threshold]
    /\ restarts \in 0..MaxRestarts

\* A phone is provisioned, routed or rebooted, never two of them at once.
OneOperationPerPhone ==
    \A s \in Slots :
        LET jobRuns == worker[s].pc \notin {"idle", "report"}
            routed == proxy[s] = "route"
            rebooted == health.pc = "reboot" /\ health.slot = s
        IN  ~(jobRuns /\ routed) /\ ~(jobRuns /\ rebooted) /\ ~(routed /\ rebooted)

Table == INSTANCE JobTable
    WITH state <- [j \in Jobs |-> IF record[j] = "none" THEN "pending" ELSE record[j]]

\* Whatever fails in between, a job moves along the approved transitions only:
\* apply_transition never has one to refuse.
FollowsTable == Table!Spec

\* The newest result of a job has reached the backend, waits in the pending
\* reports, or is on its way: no older report replaces it, and no failed report
\* is dropped.
NewestReportKept ==
    \A j \in Jobs : latest[j] # "none" =>
        \/ told[j] = latest[j] \/ pending[j] = latest[j]
        \/ \E s \in Workers : worker[s].pc = "report" /\ worker[s].job = j

\* What holds of phones and reports at every moment of a cycle.
DaemonInv == TypeOK /\ OneOperationPerPhone /\ NewestReportKept

\* The verdict of an activation that was confirmed and shown to the backend is
\* never replaced, however often the job is listed again and whichever older
\* reports still wait: not until the daemon is restarted and forgets the job.
ConfirmedStands ==
    [][\A j \in Jobs :
          told[j] = "confirmed" /\ record[j] = "active" => told'[j] = "confirmed"]_vars

\* No combination of failures and locks keeps a provisioning cycle from ending.
CycleEnds == cycle.pc # "idle" ~> cycle.pc = "idle"
================================================================================
