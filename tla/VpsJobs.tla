-------------------------------- MODULE VpsJobs --------------------------------
(***************************************************************************)
(* The VPS job queue: the handlers that create assign and action jobs      *)
(* (application/vps_farm_management_service.py), the worker threads that   *)
(* run them (application/vps_job_worker.py), the job and assignment tables *)
(* they share (infrastructure/vps_job_store.py, slot_assignment_store.py), *)
(* and the Farm Agent with its result cache, reached over HTTP.            *)
(*                                                                         *)
(* Each access to a store is one step, as its lock covers one call only.   *)
(* A job is a number, in the order of created_at; uuid4 ids, progress,     *)
(* events and log lines are left out.  started_at is kept as the flag      *)
(* stale: running_stale_seconds have passed since.  The rate limiter, the  *)
(* cleanup hold and the tenant lookups only refuse requests, which is the  *)
(* same as not sending them.  The farm client is configured.               *)
(***************************************************************************)
EXTENDS Integers, Sequences, FiniteSets

CONSTANTS
    Handlers,    \* request threads of the HTTP server
    Rentals,     \* rentals that ask for an assign
    Bays,
    Actions,     \* job types other than "assign"
    Keys,        \* idempotency keys that clients send with an action
    NoKey,       \* an action without an idempotency key
    Nobody,      \* no reservation
    FarmAnswers, \* what an executed assign may answer
    MaxAttempts, \* 1 + CONNECTION_RETRIES of farm_task_client.py
    MaxJobs,     \* bound: jobs created
    MaxCrashes   \* bound: restarts of the VPS process

ASSUME JobsAssumption ==
    /\ MaxJobs \in Nat /\ MaxCrashes \in Nat
    /\ IsFiniteSet(Handlers)
    /\ MaxAttempts \in Nat \ {0}
    /\ "assign" \notin Actions
    /\ Nobody \notin Rentals
    /\ NoKey \notin Keys \cup Rentals
    /\ FarmAnswers \subseteq {"failed", "failedSent", "accepted", "verified", "unknown"}

JobIds == 1..MaxJobs
Loop == 0                    \* the thread vps-job-worker
Threads == {Loop} \cup JobIds  \* and one thread vps-job-<id> per job
NoThread == MaxJobs + 1      \* the caller of a task nobody waits for any more

VARIABLES
    jobs,      \* vps_jobs, a sequence
    locked,    \* the store's lock is held by a call that never returns
    assigned,  \* slot_assignments: bay -> job, 0 for no row
    reserved,  \* slot_reservations: bay -> rental or Nobody
    esim,      \* record_esim_upload per job: none, recorded or refused
    handler,   \* request threads
    thread,    \* worker threads
    sweep,     \* the loop's list of records still to visit, and its kind
    runs,      \* task executions in progress at the Farm Agent
    cache,     \* FarmJobResultCache: job -> last answer or "none"
    sent,      \* history: how often process_job set out to send the job
    crashes

vps == <<jobs, locked, assigned, reserved, esim>>
farm == <<runs, cache>>
vars == <<vps, handler, thread, sweep, farm, sent, crashes>>

--------------------------------------------------------------------------------
Types == {"assign"} \cup Actions
Active == {"pending", "running"}
Status == Active \cup {"done", "failed"}
Results == {"none", "failed", "accepted", "verified", "unknown", "ok"}

Job == [type : Types, bay : Bays, key : Keys \cup Rentals \cup {NoKey},
        status : Status, result : Results, stale : BOOLEAN]

\* Answers to a task, "none" for a timeout or an unreachable farm
Answers(type) == IF type = "assign" THEN FarmAnswers ELSE {"ok", "bad"}

Ids == DOMAIN jobs
WithKey(type, bay, key) ==
    {j \in Ids : jobs[j].type = type /\ jobs[j].bay = bay /\ jobs[j].key = key}
ActiveOn(bay) == {j \in Ids : jobs[j].bay = bay /\ jobs[j].status \in Active}

\* The partial unique index idx_vps_jobs_idempotency_active
Conflicts(type, bay, key) ==
    IF key = NoKey THEN {}
    ELSE {j \in WithKey(type, bay, key) : jobs[j].status \in Active}

\* Fault for TypeOK: the job's status is the farm's word for it
OutcomeRaw(type, answer) == [status |-> answer, result |-> "none"]

\* _apply_farm_response and _apply_action_response: status and result of an answer
Outcome(type, answer) ==
    CASE answer \in {"accepted", "verified"}  -> [status |-> "done", result |-> answer]
      [] answer \in {"unknown", "failedSent"} -> [status |-> "done", result |-> "unknown"]
      [] answer = "ok"                        -> [status |-> "done", result |-> "ok"]
      [] OTHER                                -> [status |-> "failed", result |-> "failed"]

Finished(j, outcome) ==
    [jobs EXCEPT ![j] = [@ EXCEPT !.status = outcome.status,
                                  !.result = outcome.result, !.stale = FALSE]]

Idle == [pc |-> "idle", job |-> 0, answer |-> "none", attempt |-> 0]
At(pc, j) == [pc |-> pc, job |-> j, answer |-> "none", attempt |-> 0]

NoRequest == [pc |-> "idle"]

Init ==
    /\ jobs = <<>>
    /\ locked = FALSE
    /\ assigned = [b \in Bays |-> 0]
    /\ reserved = [b \in Bays |-> Nobody]
    /\ esim = [j \in JobIds |-> "none"]
    /\ handler = [h \in Handlers |-> NoRequest]
    /\ thread = [t \in Threads |-> Idle]
    /\ sweep = [kind |-> "pending", todo |-> {}]
    /\ runs = {}
    /\ cache = [j \in JobIds |-> "none"]
    /\ sent = [j \in JobIds |-> 0]
    /\ crashes = 0

--------------------------------------------------------------------------------
(* Request handlers: assign_slot and enqueue_action *)

Goto(h, pc) == handler' = [handler EXCEPT ![h].pc = pc]
Answer(h) == handler' = [handler EXCEPT ![h] = NoRequest]
HandlerOnly == UNCHANGED <<vps, thread, sweep, farm, sent, crashes>>

\* Requests that may still create a job, for the bound MaxJobs
Creating == {h \in Handlers : handler[h].pc \notin {"idle", "claim", "spawn", "blocked"}}

Request(h) ==
    /\ handler[h].pc = "idle"
    /\ Len(jobs) + Cardinality(Creating) < MaxJobs
    /\ \E bay \in Bays :
          \/ \E rental \in Rentals :
                handler' = [handler EXCEPT ![h] =
                    [pc |-> "check", type |-> "assign", bay |-> bay, key |-> rental, job |-> 0]]
          \/ \E action \in Actions, key \in Keys \cup {NoKey} :
                handler' = [handler EXCEPT ![h] =
                    [pc |-> "check", type |-> action, bay |-> bay, key |-> key, job |-> 0]]
    /\ HandlerOnly

\* get_by_idempotency: a failed assign is not replayed, a failed action is
Replayable(r) ==
    IF r.key = NoKey THEN {}
    ELSE {j \in WithKey(r.type, r.bay, r.key) :
              r.type = "assign" => jobs[j].status # "failed"}

CheckReplay(h) ==
    LET r == handler[h] IN
    /\ r.pc = "check"
    /\ ~locked
    /\ CASE Replayable(r) # {} -> Answer(h)
         [] r.type = "assign"  -> Goto(h, "vacant")
         [] OTHER              -> Goto(h, "inactive")
    /\ HandlerOnly

\* _slot_reserved_by_other and is_assigned
CheckVacant(h) ==
    LET r == handler[h] IN
    /\ r.pc = "vacant"
    /\ IF reserved[r.bay] \in {Nobody, r.key} /\ assigned[r.bay] = 0
       THEN Goto(h, "inactive") ELSE Answer(h)
    /\ HandlerOnly

\* has_active_job_for_slot
CheckInactive(h) ==
    LET r == handler[h] IN
    /\ r.pc = "inactive"
    /\ ~locked
    /\ CASE ActiveOn(r.bay) # {} -> Answer(h)
         [] r.type = "assign"    -> Goto(h, "reserve")
         [] OTHER                -> Goto(h, "create")
    /\ HandlerOnly

\* _ensure_reservation, after the tenant claim that it repeats
Reserve(h) ==
    LET r == handler[h] IN
    /\ r.pc = "reserve"
    /\ IF reserved[r.bay] \in {Nobody, r.key}
       THEN /\ reserved' = [reserved EXCEPT ![r.bay] = r.key]
            /\ Goto(h, "create")
       ELSE /\ Answer(h)
            /\ UNCHANGED reserved
    /\ UNCHANGED <<jobs, locked, assigned, esim, thread, sweep, farm, sent, crashes>>

NewJob(r) == [type |-> r.type, bay |-> r.bay, key |-> r.key,
              status |-> "pending", result |-> "none", stale |-> FALSE]

\* jobs.create inserts the row ...
Create(h) ==
    LET r == handler[h] IN
    /\ r.pc = "create"
    /\ ~locked
    /\ Conflicts(r.type, r.bay, r.key) = {}
    /\ jobs' = Append(jobs, NewJob(r))
    /\ handler' = [handler EXCEPT ![h].job = Len(jobs) + 1,
                       ![h].pc = IF r.type = "assign" THEN "claim" ELSE "spawn"]
    /\ UNCHANGED <<locked, assigned, reserved, esim, thread, sweep, farm, sent, crashes>>

\* ... or violates the index, and then calls get_by_idempotency, which takes
\* the lock that create already holds and is not reentrant
CreateDuplicate(h) ==
    LET r == handler[h] IN
    /\ r.pc = "create"
    /\ ~locked
    /\ Conflicts(r.type, r.bay, r.key) # {}
    /\ locked' = TRUE
    /\ Goto(h, "blocked")
    /\ UNCHANGED <<jobs, assigned, reserved, esim, thread, sweep, farm, sent, crashes>>

\* assignments.claim; the job of a lost claim stays pending
Claim(h) ==
    LET r == handler[h] IN
    /\ r.pc = "claim"
    /\ IF assigned[r.bay] = 0
       THEN /\ assigned' = [assigned EXCEPT ![r.bay] = r.job]
            /\ Goto(h, "spawn")
       ELSE /\ Answer(h)
            /\ UNCHANGED assigned
    /\ UNCHANGED <<jobs, locked, reserved, esim, thread, sweep, farm, sent, crashes>>

\* enqueue_process
Spawn(h) ==
    /\ handler[h].pc = "spawn"
    /\ thread' = [thread EXCEPT ![handler[h].job] = At("read", handler[h].job)]
    /\ Answer(h)
    /\ UNCHANGED <<vps, sweep, farm, sent, crashes>>

--------------------------------------------------------------------------------
(* Worker threads *)

Become(t, state) == thread' = [thread EXCEPT ![t] = state]
Step(t, pc) == thread' = [thread EXCEPT ![t].pc = pc]
Done(t) == Become(t, Idle)
Got(t, answer) ==
    thread' = [thread EXCEPT ![t].pc = "apply", ![t].answer = answer, ![t].attempt = 0]
ThreadOnly == UNCHANGED <<vps, handler, sweep, farm, sent, crashes>>

\* The farm goes on with the task of a caller that has gone
Orphaned(callers) ==
    {[r EXCEPT !.by = IF @ \in callers THEN NoThread ELSE @] : r \in runs}

\* Fault for JobsFinish: the loop lists running jobs only
SweepRunning ==
    /\ thread[Loop] = Idle
    /\ sweep.todo = {}
    /\ ~locked
    /\ sweep' = [kind |-> "running", todo |-> {j \in Ids : jobs[j].status = "running"}]
    /\ UNCHANGED <<vps, handler, thread, farm, sent, crashes>>

\* Fault for JobsFinish: the loop lists pending jobs only
SweepPending ==
    /\ thread[Loop] = Idle
    /\ sweep.todo = {}
    /\ ~locked
    /\ sweep' = [kind |-> "pending", todo |-> {j \in Ids : jobs[j].status = "pending"}]
    /\ UNCHANGED <<vps, handler, thread, farm, sent, crashes>>

\* _loop: list_running, then list_pending, and a visit to each record
SweepNext ==
    LET kind == IF sweep.kind = "pending" THEN "running" ELSE "pending" IN
    /\ thread[Loop] = Idle
    /\ sweep.todo = {}
    /\ ~locked
    /\ sweep' = [kind |-> kind, todo |-> {j \in Ids : jobs[j].status = kind}]
    /\ UNCHANGED <<vps, handler, thread, farm, sent, crashes>>

Visit(j) ==
    /\ thread[Loop] = Idle
    /\ j \in sweep.todo
    /\ sweep' = [sweep EXCEPT !.todo = @ \ {j}]
    /\ Become(Loop, At(IF sweep.kind = "running" THEN "recover" ELSE "read", j))
    /\ UNCHANGED <<vps, handler, farm, sent, crashes>>

\* process_job reads the record
Read(t) ==
    LET status == jobs[thread[t].job].status IN
    /\ thread[t].pc = "read"
    /\ ~locked
    /\ CASE status = "pending" -> Step(t, "mark")
         [] status = "running" -> Step(t, "recover")
         [] OTHER              -> Done(t)
    /\ ThreadOnly

\* update(status="running", started_at=now) looks at no status: another thread
\* may have run the job meanwhile
Mark(t) ==
    LET j == thread[t].job
        others == Conflicts(jobs[j].type, jobs[j].bay, jobs[j].key) \ {j}
    IN
    /\ thread[t].pc = "mark"
    /\ ~locked
    /\ others = {}
    /\ jobs' = [jobs EXCEPT ![j] = [@ EXCEPT !.status = "running", !.stale = FALSE]]
    /\ thread' = [thread EXCEPT ![t].pc = "post", ![t].attempt = 1]
    /\ sent' = [sent EXCEPT ![j] = @ + 1]
    /\ UNCHANGED <<locked, assigned, reserved, esim, handler, sweep, farm, crashes>>

\* ... and if a newer job of the same key is active the unique index refuses
\* the update: IntegrityError ends the thread, for the loop until a restart
MarkRefused(t) ==
    LET j == thread[t].job IN
    /\ thread[t].pc = "mark"
    /\ ~locked
    /\ Conflicts(jobs[j].type, jobs[j].bay, jobs[j].key) \ {j} # {}
    /\ Step(t, "dead")
    /\ ThreadOnly

\* should_reuse_assign_result
Reusable(j) == jobs[j].type = "assign" /\ cache[j] \notin {"none", "failed"}

\* run_task reaches the Farm Agent, which answers from its cache or starts the task
PostReuse(t) ==
    /\ thread[t].pc = "post"
    /\ Reusable(thread[t].job)
    /\ Got(t, cache[thread[t].job])
    /\ ThreadOnly

Post(t) ==
    LET j == thread[t].job IN
    /\ thread[t].pc = "post"
    /\ ~Reusable(j)
    /\ runs' = runs \cup {[job |-> j, by |-> t]}
    /\ Step(t, "wait")
    /\ UNCHANGED <<vps, handler, sweep, cache, sent, crashes>>

\* requests.Timeout, of the connect too
Timeout(t) ==
    /\ thread[t].pc \in {"post", "wait"}
    /\ Got(t, "none")
    /\ runs' = Orphaned({t})
    /\ UNCHANGED <<vps, handler, sweep, cache, sent, crashes>>

\* Another RequestException: the request is sent again, MaxAttempts times in all
Disconnect(t) ==
    /\ thread[t].pc \in {"post", "wait"}
    /\ IF thread[t].attempt < MaxAttempts
       THEN thread' = [thread EXCEPT ![t].pc = "post", ![t].attempt = @ + 1]
       ELSE Got(t, "none")
    /\ runs' = Orphaned({t})
    /\ UNCHANGED <<vps, handler, sweep, cache, sent, crashes>>

\* The task ends at the farm, which caches the answer and returns it
FarmFinish(run, answer) ==
    /\ runs' = runs \ {run}
    /\ cache' = IF jobs[run.job].type = "assign"
                THEN [cache EXCEPT ![run.job] = answer] ELSE cache
    /\ IF run.by \in Threads THEN Got(run.by, answer) ELSE UNCHANGED thread
    /\ UNCHANGED <<vps, handler, sweep, sent, crashes>>

\* Fault for NeverRunAgain and SentTwiceAtMost: the recovery starts the job over
RecoverByRerun(t) ==
    LET job == jobs[thread[t].job] IN
    /\ thread[t].pc = "recover"
    /\ ~locked
    /\ IF job.status # "running" \/ ~job.stale THEN Done(t) ELSE Step(t, "mark")
    /\ ThreadOnly

\* recover_running_job reads the record
Recover(t) ==
    LET job == jobs[thread[t].job] IN
    /\ thread[t].pc = "recover"
    /\ ~locked
    /\ CASE job.status # "running" \/ ~job.stale -> Done(t)
         [] job.type = "assign" -> Step(t, "lookup")
         [] OTHER               -> Step(t, "unknown")
    /\ ThreadOnly

\* _lookup_farm_job; an unreachable farm is a miss
Lookup(t) ==
    /\ thread[t].pc = "lookup"
    /\ \/ /\ cache[thread[t].job] # "none"
          /\ Got(t, cache[thread[t].job])
       \/ Step(t, "unknown")
    /\ ThreadOnly

\* _finish_unknown
FinishUnknown(t) ==
    /\ thread[t].pc = "unknown"
    /\ ~locked
    /\ jobs' = Finished(thread[t].job, Outcome("assign", "unknown"))
    /\ Done(t)
    /\ UNCHANGED <<locked, assigned, reserved, esim, handler, sweep, farm, sent, crashes>>

\* _record_esim_if_needed comes before the update; the tenant store may refuse
RecordEsim(t) ==
    /\ thread[t].pc = "apply"
    /\ thread[t].answer \in {"accepted", "verified"}
    /\ \E outcome \in {"recorded", "refused"} :
          esim' = [esim EXCEPT ![thread[t].job] =
                      IF @ = "recorded" THEN @ ELSE outcome]
    /\ Step(t, "update")
    /\ UNCHANGED <<jobs, locked, assigned, reserved, handler, sweep, farm, sent, crashes>>

\* Fault for DoneIsRecorded: the job is updated before the eSIM is recorded
ApplyBeforeRecord(t) ==
    LET j == thread[t].job
        outcome == Outcome(jobs[j].type, thread[t].answer)
    IN
    /\ thread[t].pc \in {"apply", "update"}
    /\ ~locked
    /\ jobs' = Finished(j, outcome)
    /\ Step(t, "release")
    /\ UNCHANGED <<locked, assigned, reserved, esim, handler, sweep, farm, sent, crashes>>

\* The update of _apply_farm_response and _apply_action_response
Apply(t) ==
    LET j == thread[t].job
        outcome == Outcome(jobs[j].type, thread[t].answer)
    IN
    /\ \/ thread[t].pc = "apply" /\ thread[t].answer \notin {"accepted", "verified"}
       \/ thread[t].pc = "update"
    /\ ~locked
    /\ jobs' = Finished(j, outcome)
    /\ IF jobs[j].type = "assign" /\ outcome.result # "unknown"
       THEN Step(t, "release") ELSE Done(t)
    /\ UNCHANGED <<locked, assigned, reserved, esim, handler, sweep, farm, sent, crashes>>

\* Fault for PendingJobKeepsItsBay: released by the bay alone
UnassignBay(t) ==
    /\ thread[t].pc = "release"
    /\ assigned' = [assigned EXCEPT ![jobs[thread[t].job].bay] = 0]
    /\ Done(t)
    /\ UNCHANGED <<jobs, locked, reserved, esim, handler, sweep, farm, sent, crashes>>

\* assignments.release(bay, job_id)
Unassign(t) ==
    LET j == thread[t].job IN
    /\ thread[t].pc = "release"
    /\ assigned' = [b \in Bays |->
                       IF b = jobs[j].bay /\ assigned[b] = j THEN 0 ELSE assigned[b]]
    /\ Done(t)
    /\ UNCHANGED <<jobs, locked, reserved, esim, handler, sweep, farm, sent, crashes>>

--------------------------------------------------------------------------------
(* The clock, the operators and restarts *)

\* running_stale_seconds have passed since started_at
Age(j) ==
    /\ jobs[j].status = "running"
    /\ ~jobs[j].stale
    /\ jobs' = [jobs EXCEPT ![j] = [@ EXCEPT !.stale = TRUE]]
    /\ UNCHANGED <<locked, assigned, reserved, esim, handler, thread, sweep, farm, sent, crashes>>

\* end_rental gives up the reservation, whatever the jobs of the bay do
EndRental(bay) ==
    /\ reserved[bay] # Nobody
    /\ reserved' = [reserved EXCEPT ![bay] = Nobody]
    /\ UNCHANGED <<jobs, locked, assigned, esim, handler, thread, sweep, farm, sent, crashes>>

\* force_available clears both holds
ForceAvailable(bay) ==
    /\ reserved' = [reserved EXCEPT ![bay] = Nobody]
    /\ assigned' = [assigned EXCEPT ![bay] = 0]
    /\ UNCHANGED <<jobs, locked, esim, handler, thread, sweep, farm, sent, crashes>>

\* The process restarts: the tables are kept, the threads and the lock are not.
\* The Farm Agent goes on.
Crash ==
    /\ crashes < MaxCrashes
    /\ crashes' = crashes + 1
    /\ locked' = FALSE
    /\ handler' = [h \in Handlers |-> NoRequest]
    /\ thread' = [t \in Threads |-> Idle]
    /\ sweep' = [kind |-> "pending", todo |-> {}]
    /\ runs' = Orphaned(Threads)
    /\ UNCHANGED <<jobs, assigned, reserved, esim, cache, sent>>

Handle(h) ==
    \/ CheckReplay(h) \/ CheckVacant(h) \/ CheckInactive(h) \/ Reserve(h)
    \/ Create(h) \/ CreateDuplicate(h) \/ Claim(h) \/ Spawn(h)

Work(t) ==
    \/ Read(t) \/ Mark(t) \/ MarkRefused(t)
    \/ PostReuse(t) \/ Post(t) \/ Timeout(t) \/ Disconnect(t)
    \/ Recover(t) \/ Lookup(t) \/ FinishUnknown(t)
    \/ RecordEsim(t) \/ Apply(t) \/ Unassign(t)

Next ==
    \/ \E h \in Handlers : Request(h) \/ Handle(h)
    \/ SweepNext \/ \E j \in JobIds : Visit(j)
    \/ \E t \in Threads : Work(t)
    \/ \E run \in runs : \E answer \in Answers(jobs[run.job].type) : FarmFinish(run, answer)
    \/ \E j \in Ids : Age(j)
    \/ \E bay \in Bays : EndRental(bay) \/ ForceAvailable(bay)
    \/ Crash

Spec == Init /\ [][Next]_vars

\* Threads run, time passes for a running job, and a request to the farm ends
\* in an answer, a timeout or an error.
Fairness ==
    /\ WF_vars(SweepNext)
    /\ \A j \in JobIds : WF_vars(Visit(j)) /\ WF_vars(j \in Ids /\ Age(j))
    /\ \A t \in Threads : WF_vars(Work(t))
    /\ \A h \in Handlers : WF_vars(Handle(h))

FairSpec == Spec /\ Fairness

--------------------------------------------------------------------------------
(* Properties *)

Request_ == [pc : {"check", "vacant", "inactive", "reserve", "create", "claim", "spawn", "blocked"},
             type : Types, bay : Bays, key : Keys \cup Rentals \cup {NoKey},
             job : {0} \cup JobIds]

Pcs == {"idle", "read", "mark", "post", "wait", "recover", "lookup", "unknown",
        "apply", "update", "release", "dead"}
Task == [pc : Pcs, job : {0} \cup Ids,
         answer : {"none", "ok", "bad"} \cup FarmAnswers, attempt : 0..MaxAttempts]

\* Every variable has the type the code gives it.
TypeOK ==
    /\ jobs \in Seq(Job) /\ Len(jobs) <= MaxJobs
    /\ locked \in BOOLEAN
    /\ assigned \in [Bays -> {0} \cup Ids]
    /\ reserved \in [Bays -> Rentals \cup {Nobody}]
    /\ esim \in [JobIds -> {"none", "recorded", "refused"}]
    /\ handler \in [Handlers -> Request_ \cup {NoRequest}]
    /\ thread \in [Threads -> Task]
    /\ sweep \in [kind : {"pending", "running"}, todo : SUBSET Ids]
    /\ runs \subseteq [job : Ids, by : Threads \cup {NoThread}]
    /\ cache \in [JobIds -> {"none"} \cup FarmAnswers]
    /\ sent \in [JobIds -> Nat]
    /\ crashes \in 0..MaxCrashes

\* The job's own thread and the loop may both read a job as pending and both
\* send it, but nothing sends it a third time, however often the request, the
\* recovery or a restart brings the job up again.
SentTwiceAtMost == \A j \in Ids : sent[j] <= 2

\* A job whose farm accepted or verified the eSIM is not shown as done before
\* the tenant store was asked to record it, so no restart loses the record.
DoneIsRecorded ==
    \A j \in Ids :
        jobs[j].status = "done" /\ jobs[j].result \in {"accepted", "verified"}
            => esim[j] # "none"

\* Nobody will send the job to the farm any more: it is not pending, and no
\* thread is between reading it as pending and the end of its request.
Settled(j) ==
    /\ jobs[j].status # "pending"
    /\ \A t \in Threads :
          thread[t].job = j => thread[t].pc \notin {"mark", "post", "wait"}

\* A job that is settled, such as one a restart has interrupted after it was
\* marked running, is never sent to the farm again, by the recovery or by any
\* later sweep of the loop.
NeverRunAgain == [][\A j \in Ids : Settled(j) => Settled(j)']_vars

\* A worker that ends late gives up its own assignment only: the row of a newer
\* job that has not started stays, unless an operator clears the bay.
PendingJobKeepsItsBay ==
    [][\A bay \in Bays :
          /\ assigned[bay] # 0
          /\ jobs[assigned[bay]].status = "pending"
          => assigned'[bay] = assigned[bay] \/ ForceAvailable(bay)]_vars

\* What keeps the worker loop from its jobs until the process restarts: create
\* waits for its own lock, or the unique index has ended the loop's thread.
Wedged == locked \/ thread[Loop].pc = "dead"

\* Every job ends, if need be by the recovery after a restart, unless the loop
\* is wedged: from every state with the job, an end or a wedged loop follows.
JobsFinish ==
    \A j \in JobIds :
        (j \in Ids) ~> (Wedged \/ (j \in Ids /\ jobs[j].status \notin Active))

\* docs/VPS_FARM_MANAGEMENT_API.md, Idempotency: a duplicate assign is answered
\* with the job there is.  (Fails: create takes its own lock twice.)
DuplicateAnswered == \A h \in Handlers : handler[h].pc # "blocked"
================================================================================
