----------------------------- MODULE VpsJobsProofs -----------------------------
(* Theorems about VpsJobs, for any number of requests, jobs and restarts. *)
EXTENDS VpsJobs, FiniteSetTheorems, SequenceTheorems, TLAPS

Creates == {"check", "vacant", "inactive", "reserve", "create"}
Created == {"claim", "spawn"}

\* The tables and the farm's cache
Tables ==
    /\ jobs \in Seq(Job) /\ Len(jobs) <= MaxJobs
    /\ locked \in BOOLEAN
    /\ assigned \in [Bays -> {0} \cup Ids]
    /\ reserved \in [Bays -> Rentals \cup {Nobody}]
    /\ esim \in [JobIds -> {"none", "recorded", "refused"}]
    /\ sweep \in [kind : {"pending", "running"}, todo : SUBSET Ids]
    /\ cache \in [JobIds -> {"none"} \cup FarmAnswers]
    /\ sent \in [JobIds -> Nat]
    /\ crashes \in 0..MaxCrashes

\* Only an assign reserves, for the rental that is its key.
Asks(r) ==
    /\ r.pc = "reserve" => r.type = "assign"
    /\ r.pc # "idle" /\ r.type = "assign" => r.key \in Rentals

\* A request that has created a job is the only one that will start its thread,
\* and no thread runs for a job that is not created; the requests that may still
\* create one have room for it.
Requests ==
    /\ handler \in [Handlers -> Request_ \cup {NoRequest}]
    /\ \A h \in Handlers : Asks(handler[h])
    /\ \A h \in Handlers : handler[h].pc \in Created
           => handler[h].job \in Ids /\ thread[handler[h].job].pc = "idle"
    /\ \A h, k \in Handlers :
           /\ handler[h].pc \in Created /\ handler[k].pc \in Created
           /\ handler[h].job = handler[k].job
           => h = k
    /\ \A t \in JobIds \ Ids : thread[t].pc = "idle"
    /\ Len(jobs) + Cardinality(Creating) <= MaxJobs

AnyTask == [pc : Pcs, job : {0} \cup JobIds,
            answer : {"none", "ok", "bad"} \cup FarmAnswers, attempt : 0..MaxAttempts]

\* A thread at work has a job, and asks for the eSIM record before it says done.
Equipped(x, ids, records) ==
    /\ x \in AnyTask /\ x.job \in {0} \cup ids
    /\ x.pc # "idle" => x.job \in ids
    /\ x.pc = "update" => records[x.job] # "none"

Workers ==
    /\ thread \in [Threads -> AnyTask]
    /\ \A t \in Threads : Equipped(thread[t], Ids, esim)

\* The caller of a task waits for its own job.
Calls ==
    /\ runs \subseteq [job : Ids, by : Threads \cup {NoThread}]
    /\ \A r \in runs : r.by \in Threads => thread[r.by].pc = "wait" /\ thread[r.by].job = r.job

\* The inductive invariant
IInv == Tables /\ Requests /\ Workers /\ Calls /\ DoneIsRecorded

--------------------------------------------------------------------------------
(* Jobs *)

\* Job numbers are the threads other than the loop.
LEMMA IdsAre ==
  ASSUME Tables
  PROVE  /\ Ids = 1..Len(jobs) /\ Len(jobs) \in Nat
         /\ Ids \subseteq JobIds /\ JobIds \subseteq Threads
         /\ Loop \in Threads /\ Loop \notin JobIds /\ NoThread \notin Threads
  BY JobsAssumption DEF Tables, Ids, JobIds, Threads, Loop, NoThread

\* An update of one row keeps the table, its length and the other rows.
LEMMA RowUpdated ==
  ASSUME Tables, NEW j \in Ids, NEW x \in Job, jobs' = [jobs EXCEPT ![j] = x]
  PROVE  /\ jobs' \in Seq(Job) /\ Len(jobs') = Len(jobs) /\ Ids' = Ids
         /\ jobs'[j] = x
         /\ \A k \in Ids : k # j => jobs'[k] = jobs[k]
  BY DEF Tables, Ids

\* What an answer makes of a job
LEMMA OutcomeType ==
  ASSUME NEW type, NEW answer
  PROVE  /\ Outcome(type, answer).status \in {"done", "failed"}
         /\ Outcome(type, answer).result \in Results
         /\ Outcome(type, answer).result \in {"accepted", "verified"}
                => answer \in {"accepted", "verified"}
  BY DEF Outcome, Results

\* Writing a row; V stands for BOOLEAN.
LEMMA RowWritten ==
  ASSUME NEW V, NEW T, NEW B, NEW K, NEW S, NEW R,
         NEW x \in [type : T, bay : B, key : K, status : S, result : R, stale : V],
         NEW s \in S, NEW r \in R, NEW v \in V
  PROVE  LET y == [x EXCEPT !.status = s, !.result = r, !.stale = v] IN
         /\ y \in [type : T, bay : B, key : K, status : S, result : R, stale : V]
         /\ y.type = x.type /\ y.bay = x.bay /\ y.key = x.key
         /\ y.status = s /\ y.result = r /\ y.stale = v
  OBVIOUS

\* An update to a terminal status
LEMMA FinishedJobs ==
  ASSUME Tables, NEW j \in Ids, NEW outcome, jobs' = Finished(j, outcome),
         outcome.status \in {"done", "failed"}, outcome.result \in Results
  PROVE  /\ jobs' \in Seq(Job) /\ Len(jobs') = Len(jobs) /\ Ids' = Ids
         /\ jobs'[j].status = outcome.status /\ jobs'[j].result = outcome.result
         /\ jobs'[j].type = jobs[j].type
         /\ \A k \in Ids : k # j => jobs'[k] = jobs[k]
<1> DEFINE x == [jobs[j] EXCEPT !.status = outcome.status,
                                !.result = outcome.result, !.stale = FALSE]
<1>1. jobs[j] \in Job
  BY DEF Tables, Ids
<1>2. outcome.status \in Status
  BY DEF Status
<1>3. FALSE \in BOOLEAN
  OBVIOUS
<1>4. /\ x \in Job /\ x.status = outcome.status /\ x.result = outcome.result
      /\ x.type = jobs[j].type
  BY <1>1, <1>2, <1>3, RowWritten DEF Job
<1>5. jobs' = [jobs EXCEPT ![j] = x]
  BY DEF Finished
<1> HIDE DEF x
<1> QED
  BY <1>4, <1>5, RowUpdated

--------------------------------------------------------------------------------
(* Requests *)

\* The requests that may still create a job can be counted.
LEMMA CreatingFinite ==
  /\ IsFiniteSet(Creating) /\ Cardinality(Creating) \in Nat
  /\ IsFiniteSet(Creating') /\ Cardinality(Creating') \in Nat
<1>1. Creating \subseteq Handlers /\ Creating' \subseteq Handlers
  BY DEF Creating
<1> QED
  BY <1>1, FS_Subset, FS_CardinalityType, JobsAssumption

\* Without a new job or request there is room as before.
LEMMA RoomStays ==
  ASSUME Len(jobs) \in Nat, Len(jobs') = Len(jobs), Creating' \subseteq Creating,
         Len(jobs) + Cardinality(Creating) <= MaxJobs
  PROVE  Len(jobs') + Cardinality(Creating') <= MaxJobs
<1>1. Cardinality(Creating') <= Cardinality(Creating)
  BY CreatingFinite, FS_Subset
<1> QED
  BY <1>1, CreatingFinite, JobsAssumption

\* A request is at work on a bay.
LEMMA RequestAtWork ==
  ASSUME Requests, NEW h \in Handlers, handler[h].pc # "idle"
  PROVE  handler[h] \in Request_
  BY DEF Requests, NoRequest

\* A request goes on, or is answered, and creates no job.
LEMMA RequestMoves ==
  ASSUME Requests, Tables, NEW h \in Handlers, NEW r \in Request_ \cup {NoRequest},
         handler' = [handler EXCEPT ![h] = r],
         r.pc \in Created => handler[h].pc \in Created /\ r.job = handler[h].job,
         r.pc \in Creates => handler[h].pc \in Creates,
         Asks(r), jobs' = jobs, thread' = thread
  PROVE  Requests'
<1>1. handler' \in [Handlers -> Request_ \cup {NoRequest}]
  BY DEF Requests
<1>2. \A k \in Handlers : handler'[k].pc \in Created
          => handler[k].pc \in Created /\ handler'[k].job = handler[k].job
  BY DEF Requests
<1>3. \A k \in Handlers : handler'[k] = IF k = h THEN r ELSE handler[k]
  BY DEF Requests
<1>7. \A k \in Handlers : Asks(handler'[k])
  BY <1>3 DEF Requests
<1>4. Creating' \subseteq Creating
  <2>1. r.pc \in Creates \cup Created \cup {"idle", "blocked"}
    BY DEF Request_, NoRequest, Creates, Created
  <2> QED
    BY <1>3, <2>1 DEF Creating, Creates, Created
<1>5. Len(jobs) \in Nat
  BY IdsAre
<1>6. Len(jobs') + Cardinality(Creating') <= MaxJobs
  BY <1>4, <1>5, RoomStays DEF Requests
<1> QED
  BY <1>1, <1>2, <1>6, <1>7 DEF Requests, Ids

\* A request that is answered needs no room for a job.
LEMMA RequestAnswered ==
  ASSUME Requests, Tables, NEW h \in Handlers, Answer(h), jobs' = jobs, thread' = thread
  PROVE  Requests'
<1>1. NoRequest.pc \notin Creates \cup Created /\ Asks(NoRequest)
  BY DEF NoRequest, Creates, Created, Asks
<1> QED
  BY <1>1, RequestMoves DEF Answer

\* A request that goes on keeps its type and its room.
LEMMA RequestGoesOn ==
  ASSUME Requests, Tables, NEW h \in Handlers,
         NEW pc \in Creates \cup Created \cup {"blocked"}, Goto(h, pc),
         handler[h].pc # "idle",
         pc \in Creates => handler[h].pc \in Creates,
         pc \in Created => handler[h].pc \in Created,
         pc = "reserve" => handler[h].type = "assign",
         jobs' = jobs, thread' = thread
  PROVE  Requests'
<1> DEFINE r == [handler[h] EXCEPT !.pc = pc]
<1>1. handler[h] \in Request_
  BY RequestAtWork
<1>2. pc \in {"check", "vacant", "inactive", "reserve", "create", "claim", "spawn", "blocked"}
  BY DEF Creates, Created
<1>3. r \in Request_ /\ r.pc = pc /\ r.job = handler[h].job
  BY <1>1, <1>2 DEF Request_
<1>4. handler' = [handler EXCEPT ![h] = r]
  BY DEF Goto
<1>5. /\ r.pc \in Created => handler[h].pc \in Created
      /\ r.pc \in Creates => handler[h].pc \in Creates
  BY <1>3
<1>6. Asks(r)
  BY <1>1, <1>3 DEF Requests, Asks, Request_
<1> HIDE DEF r
<1> QED
  BY <1>3, <1>4, <1>5, <1>6, RequestMoves

\* The same, between two checks
LEMMA RequestChecks ==
  ASSUME Requests, Tables, NEW h \in Handlers, NEW pc \in Creates, Goto(h, pc) \/ Answer(h),
         handler[h].pc \in Creates, pc = "reserve" => handler[h].type = "assign",
         jobs' = jobs, thread' = thread
  PROVE  Requests'
<1>1. CASE Goto(h, pc)
  <2>1. handler[h].pc # "idle" /\ pc \notin Created
    BY DEF Creates, Created
  <2> QED
    BY <1>1, <2>1, RequestGoesOn
<1>2. CASE Answer(h)
  BY <1>2, RequestAnswered
<1> QED
  BY <1>1, <1>2

\* Requests stay as they are while the threads of started jobs work.
LEMMA RequestsStay ==
  ASSUME Requests, Tables, handler' = handler, Len(jobs') = Len(jobs), Ids' = Ids,
         \A t \in JobIds : thread[t].pc = "idle" => thread'[t].pc = "idle"
  PROVE  Requests'
<1>1. Creating' = Creating
  BY DEF Creating
<1>2. Len(jobs') + Cardinality(Creating') <= MaxJobs
  BY <1>1 DEF Requests
<1>3. Ids \subseteq JobIds
  BY IdsAre
<1> QED
  BY <1>2, <1>3 DEF Requests

--------------------------------------------------------------------------------
(* Workers *)

\* No table loses what a thread relies on.
Kept == Ids \subseteq Ids' /\ \A j \in Ids : esim[j] # "none" => esim'[j] # "none"

\* More jobs and more eSIM records leave a thread equipped.
LEMMA EquippedStays ==
  ASSUME NEW x, Equipped(x, Ids, esim), Kept
  PROVE  Equipped(x, Ids', esim')
  BY DEF Equipped, Kept

\* One thread moves to a task it is equipped for.
LEMMA WorkerMoves ==
  ASSUME Workers, Kept, NEW t \in Threads, NEW x, Equipped(x, Ids', esim'),
         thread' = [thread EXCEPT ![t] = x]
  PROVE  Workers'
<1>1. x \in AnyTask
  BY DEF Equipped
<1>2. thread' \in [Threads -> AnyTask]
  BY <1>1 DEF Workers
<1>3. ASSUME NEW s \in Threads PROVE Equipped(thread'[s], Ids', esim')
  <2>1. CASE s = t
    BY <2>1 DEF Workers
  <2>2. CASE s # t
    <3>1. thread'[s] = thread[s]
      BY <2>2 DEF Workers
    <3> QED
      BY <3>1, EquippedStays DEF Workers
  <2> QED
    BY <2>1, <2>2
<1> QED
  BY <1>2, <1>3 DEF Workers

\* Threads that do not move stay equipped.
LEMMA WorkersStay ==
  ASSUME Workers, Kept, thread' = thread
  PROVE  Workers'
<1>1. \A t \in Threads : Equipped(thread'[t], Ids', esim')
  BY EquippedStays DEF Workers
<1> QED
  BY <1>1 DEF Workers

\* A thread without work is equipped.
LEMMA IdleEquipped ==
  ASSUME NEW ids, NEW records
  PROVE  Idle \in AnyTask /\ Equipped(Idle, ids, records)
  BY JobsAssumption DEF Idle, AnyTask, Equipped, Pcs

\* So is one that starts on a job.
LEMMA AtEquipped ==
  ASSUME NEW ids, NEW records, NEW j \in ids, ids \subseteq JobIds,
         NEW pc \in Pcs \ {"update"}
  PROVE  Equipped(At(pc, j), ids, records)
  BY JobsAssumption DEF At, AnyTask, Equipped

\* A worker with a job
LEMMA WorkerHasJob ==
  ASSUME Workers, NEW t \in Threads, thread[t].pc # "idle"
  PROVE  thread[t].job \in Ids /\ thread[t] \in AnyTask
  BY DEF Workers, Equipped

\* The ways of a thread through its job: it is done, ...
LEMMA WorkerDone ==
  ASSUME Workers, Kept, NEW t \in Threads, Done(t)
  PROVE  Workers'
  BY IdleEquipped, WorkerMoves DEF Done, Become

\* ... it goes to the next step, ...
LEMMA WorkerStep ==
  ASSUME Workers, Kept, NEW t \in Threads, NEW pc \in Pcs, Step(t, pc),
         thread[t].pc # "idle", pc = "update" => esim'[thread[t].job] # "none"
  PROVE  Workers'
<1> DEFINE x == [thread[t] EXCEPT !.pc = pc]
<1>1. thread[t].job \in Ids' /\ thread[t] \in AnyTask
  BY WorkerHasJob DEF Kept
<1>2. x \in AnyTask /\ x.pc = pc /\ x.job = thread[t].job
  BY <1>1 DEF AnyTask
<1>3. thread' = [thread EXCEPT ![t] = x]
  BY DEF Step
<1>4. Equipped(x, Ids', esim')
  BY <1>1, <1>2 DEF Equipped
<1> HIDE DEF x
<1> QED
  BY <1>3, <1>4, WorkerMoves

\* ... or it has got an answer.
LEMMA WorkerGot ==
  ASSUME Workers, Kept, NEW t \in Threads, NEW answer \in {"none", "ok", "bad"} \cup FarmAnswers,
         thread[t].pc # "idle", Got(t, answer)
  PROVE  Workers'
<1> DEFINE x == [thread[t] EXCEPT !.pc = "apply", !.answer = answer, !.attempt = 0]
<1>1. thread[t].job \in Ids' /\ thread[t] \in AnyTask
  BY WorkerHasJob DEF Kept
<1>2. "apply" \in Pcs /\ 0 \in 0..MaxAttempts
  BY JobsAssumption DEF Pcs
<1>3. x \in AnyTask /\ x.pc = "apply" /\ x.job = thread[t].job
  BY <1>1, <1>2 DEF AnyTask
<1>4. thread' = [thread EXCEPT ![t] = x]
  BY DEF Got
<1>5. Equipped(x, Ids', esim')
  BY <1>1, <1>3 DEF Equipped
<1> HIDE DEF x
<1> QED
  BY <1>4, <1>5, WorkerMoves

--------------------------------------------------------------------------------
(* Calls of the farm *)

\* A call goes on while its caller waits.
LEMMA CallsStay ==
  ASSUME Calls, Ids \subseteq Ids', runs' = runs,
         \A t \in Threads : thread[t].pc = "wait" => thread'[t] = thread[t]
  PROVE  Calls'
  BY DEF Calls

\* A caller that has gone
LEMMA CallsOrphaned ==
  ASSUME Calls, Ids' = Ids, NEW callers, NoThread \notin Threads, runs' = Orphaned(callers),
         \A t \in Threads \ callers : thread[t].pc = "wait" => thread'[t] = thread[t]
  PROVE  Calls'
<1>1. ASSUME NEW r \in runs'
      PROVE  /\ r \in [job : Ids, by : Threads \cup {NoThread}]
             /\ r.by \in Threads => thread'[r.by].pc = "wait" /\ thread'[r.by].job = r.job
  <2>1. PICK q \in runs : r = [q EXCEPT !.by = IF @ \in callers THEN NoThread ELSE @]
    BY DEF Orphaned
  <2>2. /\ q \in [job : Ids, by : Threads \cup {NoThread}]
        /\ q.by \in Threads => thread[q.by].pc = "wait" /\ thread[q.by].job = q.job
    BY DEF Calls
  <2>3. CASE q.by \in callers
    <3>1. r = [q EXCEPT !.by = NoThread]
      BY <2>1, <2>3
    <3> QED
      BY <2>2, <3>1
  <2>4. CASE q.by \notin callers
    <3>1. r = q
      BY <2>1, <2>2, <2>4
    <3> QED
      BY <2>2, <2>4, <3>1
  <2> QED
    BY <2>3, <2>4
<1> QED
  BY <1>1 DEF Calls
--------------------------------------------------------------------------------
(* Steps of requests *)

\* The job table stays, and no record is lost.
LEMMA SameJobs ==
  ASSUME DoneIsRecorded, jobs' = jobs,
         \A j \in Ids : esim[j] # "none" => esim'[j] # "none"
  PROVE  DoneIsRecorded'
  BY DEF DoneIsRecorded, Ids

\* A step of a request that writes no table
LEMMA HandlerOnlyKeeps ==
  ASSUME IInv, HandlerOnly, Requests'
  PROVE  IInv'
<1> USE DEF IInv
<1>1. Tables'
  BY DEF HandlerOnly, Tables, vps, farm, Ids
<1>2. Kept /\ thread' = thread /\ runs' = runs /\ jobs' = jobs /\ esim' = esim
  BY DEF HandlerOnly, Kept, vps, farm, Ids
<1>3. Ids \subseteq Ids'
  BY <1>2 DEF Kept
<1> QED
  BY <1>1, <1>2, <1>3, WorkersStay, CallsStay, SameJobs

\* A new request finds room for its job.
LEMMA RequestKeeps ==
  ASSUME IInv, NEW h \in Handlers, Request(h)
  PROVE  IInv'
<1> USE DEF IInv
<1>1. PICK r \in Request_ :
          handler' = [handler EXCEPT ![h] = r] /\ r.pc = "check" /\ Asks(r)
  <2>1. ASSUME NEW bay \in Bays, NEW rental \in Rentals
        PROVE  LET r == [pc |-> "check", type |-> "assign", bay |-> bay, key |-> rental, job |-> 0]
               IN  r \in Request_ /\ r.pc = "check" /\ Asks(r)
    BY DEF Request_, Types, Asks
  <2>2. ASSUME NEW bay \in Bays, NEW action \in Actions, NEW key \in Keys \cup {NoKey}
        PROVE  LET r == [pc |-> "check", type |-> action, bay |-> bay, key |-> key, job |-> 0]
               IN  r \in Request_ /\ r.pc = "check" /\ Asks(r)
    BY JobsAssumption DEF Request_, Types, Asks
  <2> QED
    BY <2>1, <2>2 DEF Request
<1>2. /\ handler' \in [Handlers -> Request_ \cup {NoRequest}]
      /\ \A k \in Handlers : handler'[k] = IF k = h THEN r ELSE handler[k]
  BY <1>1 DEF Requests
<1>3. jobs' = jobs /\ thread' = thread /\ HandlerOnly
  BY DEF Request, HandlerOnly, vps
<1>4. Creating' = Creating \cup {h} /\ h \notin Creating
  BY <1>1, <1>2 DEF Request, Creating
<1>5. Cardinality(Creating') = Cardinality(Creating) + 1
  BY <1>4, CreatingFinite, FS_AddElement
<1>6. Len(jobs') + Cardinality(Creating') <= MaxJobs
  <2>1. Len(jobs) \in Nat /\ Cardinality(Creating) \in Nat /\ MaxJobs \in Nat
    BY IdsAre, CreatingFinite, JobsAssumption
  <2>2. Len(jobs) + Cardinality(Creating) < MaxJobs
    BY DEF Request
  <2> QED
    BY <1>3, <1>5, <2>1, <2>2
<1>7. Requests'
  BY <1>1, <1>2, <1>3, <1>6 DEF Requests, Ids, Created
<1> QED
  BY <1>3, <1>7, HandlerOnlyKeeps

\* jobs.create of a job that nobody else has
LEMMA CreateKeeps ==
  ASSUME IInv, NEW h \in Handlers, Create(h)
  PROVE  IInv'
<1> USE DEF IInv
<1> DEFINE r == handler[h]
           n == Len(jobs) + 1
           new == NewJob(r)
<1>1. r \in Request_ /\ r.pc = "create"
  BY RequestAtWork DEF Create
<1>2. /\ new \in Job /\ new.type = r.type /\ new.bay = r.bay /\ new.key = r.key
      /\ new.status = "pending"
  <2>1. r.type \in Types /\ r.bay \in Bays /\ r.key \in Keys \cup Rentals \cup {NoKey}
    BY <1>1 DEF Request_
  <2>2. "pending" \in Status /\ "none" \in Results /\ FALSE \in BOOLEAN
    BY DEF Status, Active, Results
  <2>3. new \in Job
    BY <2>1, <2>2, Zenon DEF NewJob, Job
  <2> QED
    BY <2>3 DEF NewJob
<1>3. Ids = 1..Len(jobs) /\ Len(jobs) \in Nat /\ Ids \subseteq JobIds /\ jobs \in Seq(Job)
  BY IdsAre DEF Tables
<1>4. jobs' = Append(jobs, new)
  BY DEF Create
<1> HIDE DEF new
<1>5. /\ jobs' \in Seq(Job) /\ Len(jobs') = n /\ Ids' = Ids \cup {n} /\ n \notin Ids
      /\ jobs'[n] = new /\ \A k \in Ids : jobs'[k] = jobs[k]
  BY <1>2, <1>3, <1>4 DEF Ids
<1>6. h \in Creating
  BY <1>1 DEF Creating
<1>7. n + Cardinality(Creating \ {h}) <= MaxJobs /\ n <= MaxJobs
  <2>1. /\ Cardinality(Creating) \in Nat /\ Cardinality(Creating \ {h}) \in Nat
        /\ Cardinality(Creating \ {h}) = Cardinality(Creating) - 1
    BY <1>6, CreatingFinite, FS_RemoveElement, FS_CardinalityType
  <2>2. Len(jobs) + Cardinality(Creating) <= MaxJobs /\ MaxJobs \in Nat
    BY JobsAssumption DEF Requests
  <2> QED
    BY <1>3, <2>1, <2>2
<1>8. n \in JobIds /\ n \notin Ids
  BY <1>3, <1>5, <1>7 DEF JobIds
<1>9. Tables'
  BY <1>5, <1>7 DEF Create, Tables, farm
<1>10. Kept /\ thread' = thread /\ runs' = runs /\ esim' = esim
  BY <1>5 DEF Create, Kept, farm
<1>11. Workers' /\ Calls'
  BY <1>10, WorkersStay, CallsStay DEF Kept
<1>12. Requests'
  <2> DEFINE s == [r EXCEPT !.job = n, !.pc = IF r.type = "assign" THEN "claim" ELSE "spawn"]
  <2>1. s \in Request_ /\ s.pc \in Created /\ s.job = n /\ Asks(s)
    BY <1>1, <1>8 DEF Request_, Created, Asks, Requests
  <2>2. handler' = [handler EXCEPT ![h] = s]
    BY DEF Create
  <2> HIDE DEF s
  <2>3. /\ handler' \in [Handlers -> Request_ \cup {NoRequest}]
        /\ \A k \in Handlers : handler'[k] = IF k = h THEN s ELSE handler[k]
    BY <2>1, <2>2 DEF Requests
  <2>10. \A k \in Handlers : Asks(handler'[k])
    BY <2>1, <2>3 DEF Requests
  <2>4. Creating' = Creating \ {h}
    BY <2>1, <2>3 DEF Creating, Created
  <2>5. Len(jobs') + Cardinality(Creating') <= MaxJobs
    BY <1>5, <1>7, <2>4
  <2>6. thread'[n].pc = "idle"
    BY <1>8, <1>10 DEF Requests
  <2>7. \A k \in Handlers : handler'[k].pc \in Created
            => handler'[k].job \in Ids' /\ thread'[handler'[k].job].pc = "idle"
    BY <1>5, <1>10, <2>1, <2>3, <2>6 DEF Requests
  <2>8. \A k, l \in Handlers :
            /\ handler'[k].pc \in Created /\ handler'[l].pc \in Created
            /\ handler'[k].job = handler'[l].job
            => k = l
    BY <1>5, <2>1, <2>3 DEF Requests
  <2>9. \A t \in JobIds \ Ids' : thread'[t].pc = "idle"
    BY <1>5, <1>10 DEF Requests
  <2> QED
    BY <2>3, <2>5, <2>7, <2>8, <2>9, <2>10 DEF Requests
<1>13. DoneIsRecorded'
  BY <1>2, <1>5, <1>10 DEF DoneIsRecorded
<1> QED
  BY <1>9, <1>11, <1>12, <1>13

\* The rest of assign_slot and enqueue_action
LEMMA HandleKeeps ==
  ASSUME IInv, NEW h \in Handlers, Handle(h)
  PROVE  IInv'
<1> USE DEF IInv
<1> DEFINE r == handler[h]
<1>0. ASSUME r.pc # "idle" PROVE r \in Request_
  BY <1>0, RequestAtWork
<1>1. ASSUME CheckReplay(h) PROVE IInv'
  <2>1. /\ r.pc \in Creates /\ "vacant" \in Creates /\ "inactive" \in Creates
        /\ jobs' = jobs /\ thread' = thread
    BY <1>1 DEF CheckReplay, HandlerOnly, vps, Creates
  <2>2. Goto(h, "vacant") \/ Goto(h, "inactive") \/ Answer(h)
    BY <1>1 DEF CheckReplay
  <2>3. Requests'
    BY <2>1, <2>2, RequestChecks
  <2> QED
    BY <1>1, <2>3, HandlerOnlyKeeps DEF CheckReplay
<1>2. ASSUME CheckVacant(h) PROVE IInv'
  <2>1. r.pc \in Creates /\ "inactive" \in Creates /\ jobs' = jobs /\ thread' = thread
    BY <1>2 DEF CheckVacant, HandlerOnly, vps, Creates
  <2>2. Goto(h, "inactive") \/ Answer(h)
    BY <1>2 DEF CheckVacant
  <2>3. Requests'
    BY <2>1, <2>2, RequestChecks
  <2> QED
    BY <1>2, <2>3, HandlerOnlyKeeps DEF CheckVacant
<1>3. ASSUME CheckInactive(h) PROVE IInv'
  <2>1. /\ r.pc \in Creates /\ "reserve" \in Creates /\ "create" \in Creates
        /\ jobs' = jobs /\ thread' = thread
    BY <1>3 DEF CheckInactive, HandlerOnly, vps, Creates
  <2>2. (Goto(h, "reserve") /\ r.type = "assign") \/ Goto(h, "create") \/ Answer(h)
    BY <1>3 DEF CheckInactive
  <2>3. Requests'
    BY <2>1, <2>2, RequestChecks
  <2> QED
    BY <1>3, <2>3, HandlerOnlyKeeps DEF CheckInactive
<1>4. ASSUME Reserve(h) PROVE IInv'
  <2>1. /\ r.pc \in Creates /\ "create" \in Creates /\ jobs' = jobs /\ thread' = thread
        /\ esim' = esim /\ runs' = runs /\ Ids' = Ids
    BY <1>4 DEF Reserve, Creates, farm, Ids
  <2>2. Goto(h, "create") \/ Answer(h)
    BY <1>4 DEF Reserve
  <2>3. Requests'
    BY <2>1, <2>2, RequestChecks
  <2>4. r.key \in Rentals
    BY <1>4 DEF Reserve, Requests, Asks
  <2>5. reserved' \in [Bays -> Rentals \cup {Nobody}]
    BY <1>4, <2>4 DEF Reserve, Tables
  <2>6. Tables'
    BY <1>4, <2>1, <2>5 DEF Reserve, Tables, farm
  <2> QED
    BY <2>1, <2>3, <2>6, WorkersStay, CallsStay, SameJobs DEF Kept
<1>5. ASSUME CreateDuplicate(h) PROVE IInv'
  <2>1. /\ r.pc \in Creates /\ jobs' = jobs /\ thread' = thread
        /\ esim' = esim /\ runs' = runs /\ Ids' = Ids /\ Goto(h, "blocked")
        /\ "blocked" \notin Creates \cup Created /\ r.pc # "idle"
    BY <1>5 DEF CreateDuplicate, Creates, Created, farm, Ids
  <2>2. Requests'
    BY <2>1, RequestGoesOn
  <2>3. Tables'
    BY <1>5, <2>1 DEF CreateDuplicate, Tables, farm
  <2> QED
    BY <2>1, <2>2, <2>3, WorkersStay, CallsStay, SameJobs DEF Kept
<1>6. ASSUME Claim(h) PROVE IInv'
  <2>1. /\ r.pc \in Created /\ "spawn" \in Created /\ jobs' = jobs /\ thread' = thread
        /\ esim' = esim /\ runs' = runs /\ Ids' = Ids
        /\ "spawn" \notin Creates /\ r.pc # "idle"
    BY <1>6 DEF Claim, Creates, Created, farm, Ids
  <2>2. Goto(h, "spawn") \/ Answer(h)
    BY <1>6 DEF Claim
  <2>3. Requests'
    BY <2>1, <2>2, RequestGoesOn, RequestAnswered
  <2>4. r.job \in Ids
    BY <2>1 DEF Requests
  <2>5. assigned' \in [Bays -> {0} \cup Ids]
    BY <1>6, <2>4 DEF Claim, Tables
  <2>6. Tables'
    BY <1>6, <2>1, <2>5 DEF Claim, Tables, farm
  <2> QED
    BY <2>1, <2>3, <2>6, WorkersStay, CallsStay, SameJobs DEF Kept
<1>7. ASSUME Spawn(h) PROVE IInv'
  <2>1. /\ r.pc \in Created /\ jobs' = jobs /\ esim' = esim /\ runs' = runs /\ Ids' = Ids
    BY <1>7 DEF Spawn, Created, farm, vps, Ids
  <2>2. r.job \in Ids /\ r.job \in JobIds /\ thread[r.job].pc = "idle" /\ Ids \subseteq JobIds
    BY <2>1, IdsAre DEF Requests
  <2>3. r.job \in Threads
    BY <2>2, IdsAre
  <2>4. thread' = [thread EXCEPT ![r.job] = At("read", r.job)]
    BY <1>7 DEF Spawn
  <2>5. Equipped(At("read", r.job), Ids', esim')
    BY <2>1, <2>2, AtEquipped DEF Pcs
  <2>6. Workers'
    BY <2>1, <2>3, <2>4, <2>5, WorkerMoves DEF Kept
  <2>7. \A t \in Threads : t # r.job => thread'[t] = thread[t]
    BY <2>4 DEF Workers
  <2>8. Calls'
    BY <2>1, <2>2, <2>7, CallsStay
  <2>9. handler' = [handler EXCEPT ![h] = NoRequest]
    BY <1>7 DEF Spawn, Answer
  <2>10. Requests'
    <3>1. /\ handler' \in [Handlers -> Request_ \cup {NoRequest}]
          /\ \A k \in Handlers : handler'[k] = IF k = h THEN NoRequest ELSE handler[k]
      BY <2>9 DEF Requests
    <3>2. NoRequest.pc \notin Creates \cup Created /\ Asks(NoRequest)
      BY DEF NoRequest, Creates, Created, Asks
    <3>3. Creating' \subseteq Creating
      BY <3>1, <3>2 DEF Creating, NoRequest
    <3>4. Len(jobs') + Cardinality(Creating') <= MaxJobs
      BY <2>1, <3>3, IdsAre, RoomStays DEF Requests
    <3>5. ASSUME NEW k \in Handlers, handler'[k].pc \in Created
          PROVE  handler'[k].job \in Ids' /\ thread'[handler'[k].job].pc = "idle"
      <4>1. k # h /\ handler'[k] = handler[k]
        BY <3>1, <3>2, <3>5
      <4>2. handler[k].job \in Ids /\ handler[k].job # r.job /\ thread[handler[k].job].pc = "idle"
        BY <2>1, <3>5, <4>1 DEF Requests
      <4>3. handler[k].job \in Threads
        BY <4>2, IdsAre
      <4> QED
        BY <2>1, <2>7, <4>1, <4>2, <4>3
    <3>6. \A t \in JobIds \ Ids' : thread'[t].pc = "idle"
      <4>1. \A t \in JobIds \ Ids : t \in Threads /\ t # r.job
        BY <2>2, IdsAre
      <4> QED
        BY <2>1, <2>7, <4>1 DEF Requests
    <3> QED
      BY <3>1, <3>2, <3>4, <3>5, <3>6 DEF Requests
  <2>11. Tables'
    BY <1>7, <2>1 DEF Spawn, Tables, farm, vps
  <2> QED
    BY <2>1, <2>6, <2>8, <2>10, <2>11, SameJobs
<1> QED
  BY <1>1, <1>2, <1>3, <1>4, <1>5, <1>6, <1>7, CreateKeeps DEF Handle

--------------------------------------------------------------------------------
(* Steps of worker threads *)

\* The thread that moves is at work, and the others stay.
Alone(t) ==
    /\ thread[t].pc # "idle"
    /\ \A s \in Threads : s # t => thread'[s] = thread[s]

\* A step of a thread moves no other thread.
LEMMA StepAlone ==
  ASSUME Workers, NEW t \in Threads, NEW pc, NEW answer,
         Step(t, pc) \/ Got(t, answer) \/ Done(t), thread[t].pc # "idle"
  PROVE  Alone(t)
  BY DEF Workers, Step, Got, Done, Become, Alone

\* What a thread does to the others and to the requests
LEMMA AloneKeeps ==
  ASSUME IInv, NEW t \in Threads, Alone(t), handler' = handler,
         Len(jobs') = Len(jobs), Ids' = Ids
  PROVE  /\ Requests'
         /\ thread[t].pc # "wait" /\ runs' = runs => Calls'
         /\ runs' = Orphaned({t}) => Calls'
<1> USE DEF IInv
<1>1. \A s \in JobIds : thread[s].pc = "idle" => thread'[s].pc = "idle"
  BY IdsAre DEF Alone
<1>2. Requests'
  BY <1>1, RequestsStay
<1>3. ASSUME thread[t].pc # "wait", runs' = runs PROVE Calls'
  BY <1>3, CallsStay DEF Alone
<1>4. ASSUME runs' = Orphaned({t}) PROVE Calls'
  BY <1>4, CallsOrphaned, IdsAre DEF Alone
<1> QED
  BY <1>2, <1>3, <1>4

\* A step of a thread that writes nothing
LEMMA ThreadOnlyKeeps ==
  ASSUME IInv, NEW t \in Threads, ThreadOnly, Alone(t), thread[t].pc # "wait", Workers'
  PROVE  IInv'
<1> USE DEF IInv
<1>1. jobs' = jobs /\ esim' = esim /\ handler' = handler /\ runs' = runs /\ Ids' = Ids
  BY DEF ThreadOnly, vps, farm, Ids
<1>2. Tables'
  BY DEF ThreadOnly, Tables, vps, farm, Ids
<1> QED
  BY <1>1, <1>2, AloneKeeps, SameJobs

\* A step of a thread that updates the table of jobs
LEMMA UpdateKeeps ==
  ASSUME IInv, NEW t \in Threads, Alone(t), thread[t].pc # "wait", Workers',
         jobs' \in Seq(Job), Len(jobs') = Len(jobs), Ids' = Ids,
         UNCHANGED <<locked, assigned, reserved, esim, handler, sweep, farm, crashes>>,
         sent' \in [JobIds -> Nat], DoneIsRecorded'
  PROVE  IInv'
<1> USE DEF IInv
<1>1. Tables'
  BY DEF Tables, farm
<1> QED
  BY <1>1, AloneKeeps DEF farm

\* Jobs and records that stay as they are
LEMMA NothingLost ==
  ASSUME Ids' = Ids, esim' = esim
  PROVE  Kept
  BY DEF Kept

\* Writing status and stale of a row; V stands for BOOLEAN.
LEMMA RowMarked ==
  ASSUME NEW V, NEW T, NEW B, NEW K, NEW S, NEW R,
         NEW x \in [type : T, bay : B, key : K, status : S, result : R, stale : V],
         NEW s \in S, NEW v \in V
  PROVE  LET y == [x EXCEPT !.status = s, !.stale = v] IN
         /\ y \in [type : T, bay : B, key : K, status : S, result : R, stale : V]
         /\ y.type = x.type /\ y.bay = x.bay /\ y.key = x.key
         /\ y.status = s /\ y.result = x.result
  OBVIOUS

\* update(status="running")
LEMMA MarkKeeps ==
  ASSUME IInv, NEW t \in Threads, Mark(t)
  PROVE  IInv'
<1> USE DEF IInv
<1> DEFINE j == thread[t].job
           x == [jobs[j] EXCEPT !.status = "running", !.stale = FALSE]
           y == [thread[t] EXCEPT !.pc = "post", !.attempt = 1]
<1>1. thread[t].pc # "idle" /\ thread[t].pc # "wait"
  BY DEF Mark
<1>2. j \in Ids /\ thread[t] \in AnyTask
  BY <1>1, WorkerHasJob
<1>3. jobs[j] \in Job
  BY <1>2 DEF Tables, Ids
<1>4. /\ x \in Job /\ x.status = "running"
      /\ x.type = jobs[j].type /\ x.bay = jobs[j].bay /\ x.key = jobs[j].key
  <2>1. "running" \in Status /\ FALSE \in BOOLEAN
    BY DEF Status, Active
  <2> QED
    BY <1>3, <2>1, RowMarked DEF Job
<1>5. jobs' = [jobs EXCEPT ![j] = x]
  BY DEF Mark
<1> HIDE DEF x
<1>6. /\ jobs' \in Seq(Job) /\ Len(jobs') = Len(jobs) /\ Ids' = Ids
      /\ jobs'[j] = x /\ \A k \in Ids : k # j => jobs'[k] = jobs[k]
  BY <1>2, <1>4, <1>5, RowUpdated
<1>7. Kept
  BY <1>6, NothingLost DEF Mark
<1>8. Workers' /\ Alone(t)
  <2>1. "post" \in Pcs /\ 1 \in 0..MaxAttempts
    BY JobsAssumption DEF Pcs
  <2>2. y \in AnyTask /\ y.pc = "post" /\ y.job = j
    BY <1>2, <2>1 DEF AnyTask
  <2>3. thread' = [thread EXCEPT ![t] = y]
    BY DEF Mark, Workers
  <2> HIDE DEF y
  <2>4. Equipped(y, Ids', esim')
    BY <1>2, <1>6, <2>2 DEF Equipped
  <2>5. Workers'
    BY <1>7, <2>3, <2>4, WorkerMoves
  <2> QED
    BY <1>1, <2>3, <2>5 DEF Workers, Alone
<1>9. sent' \in [JobIds -> Nat]
  <2>1. sent \in [JobIds -> Nat] /\ sent' = [sent EXCEPT ![j] = @ + 1] /\ j \in JobIds
    BY <1>2, IdsAre DEF Mark, Tables
  <2>2. sent[j] + 1 \in Nat
    BY <2>1
  <2> QED
    BY <2>1, <2>2
<1>10. DoneIsRecorded'
  BY <1>4, <1>6 DEF DoneIsRecorded, Mark
<1> QED
  BY <1>1, <1>6, <1>8, <1>9, <1>10, UpdateKeeps DEF Mark

\* The updates to a terminal status: _finish_unknown and _apply_farm_response
LEMMA FinishKeeps ==
  ASSUME IInv, NEW t \in Threads, FinishUnknown(t) \/ Apply(t)
  PROVE  IInv'
<1> USE DEF IInv
<1> DEFINE j == thread[t].job
<1>1. thread[t].pc # "idle" /\ thread[t].pc # "wait"
  BY DEF FinishUnknown, Apply
<1>2. j \in Ids
  BY <1>1, WorkerHasJob
<1>3. PICK outcome :
          /\ outcome.status \in {"done", "failed"} /\ outcome.result \in Results
          /\ jobs' = Finished(j, outcome)
          /\ outcome.result \in {"accepted", "verified"} => thread[t].pc = "update"
  <2>1. CASE FinishUnknown(t)
    <3>1. Outcome("assign", "unknown").result = "unknown"
      BY DEF Outcome
    <3> QED
      BY <2>1, <3>1, OutcomeType DEF FinishUnknown
  <2>2. CASE Apply(t)
    BY <2>2, OutcomeType DEF Apply
  <2> QED
    BY <2>1, <2>2
<1>4. UNCHANGED <<locked, assigned, reserved, esim, handler, sweep, farm, sent, crashes>>
  BY DEF FinishUnknown, Apply
<1>5. /\ jobs' \in Seq(Job) /\ Len(jobs') = Len(jobs) /\ Ids' = Ids
      /\ jobs'[j].status = outcome.status /\ jobs'[j].result = outcome.result
      /\ \A k \in Ids : k # j => jobs'[k] = jobs[k]
  BY <1>2, <1>3, FinishedJobs
<1>6. sent' \in [JobIds -> Nat]
  BY <1>4 DEF Tables
<1>7. DoneIsRecorded'
  <2>1. thread[t].pc = "update" => esim[j] # "none"
    BY DEF Workers, Equipped
  <2> QED
    BY <1>3, <1>4, <1>5, <2>1 DEF DoneIsRecorded
<1>8. Workers' /\ Alone(t)
  <2>1. Kept
    BY <1>4, <1>5, NothingLost
  <2>2. Done(t) \/ Step(t, "release")
    BY DEF FinishUnknown, Apply
  <2>3. "release" \in Pcs /\ "release" # "update"
    BY DEF Pcs
  <2> QED
    BY <1>1, <2>1, <2>2, <2>3, WorkerDone, WorkerStep, StepAlone
<1> QED
  BY <1>1, <1>4, <1>5, <1>6, <1>7, <1>8, UpdateKeeps

\* Every other step of process_job and recover_running_job
LEMMA WorkKeeps ==
  ASSUME IInv, NEW t \in Threads, Work(t)
  PROVE  IInv'
<1> USE DEF IInv
<1> DEFINE j == thread[t].job
<1>0. ASSUME thread[t].pc # "idle"
      PROVE  j \in Ids /\ thread[t] \in AnyTask /\ Ids \subseteq JobIds
  BY <1>0, WorkerHasJob, IdsAre
<1>1. ASSUME ThreadOnly PROVE Kept
  BY <1>1, NothingLost DEF ThreadOnly, vps, Ids
<1>2. ASSUME Read(t) PROVE IInv'
  <2>1. Step(t, "mark") \/ Step(t, "recover") \/ Done(t)
    BY <1>2 DEF Read
  <2>2. /\ "mark" \in Pcs /\ "recover" \in Pcs
        /\ thread[t].pc # "idle" /\ thread[t].pc # "wait" /\ ThreadOnly
    BY <1>2 DEF Read, Pcs
  <2>3. Workers' /\ Alone(t)
    BY <1>1, <2>1, <2>2, WorkerStep, WorkerDone, StepAlone
  <2> QED
    BY <2>2, <2>3, ThreadOnlyKeeps
<1>3. ASSUME MarkRefused(t) PROVE IInv'
  <2>1. /\ Step(t, "dead") /\ "dead" \in Pcs
        /\ thread[t].pc # "idle" /\ thread[t].pc # "wait" /\ ThreadOnly
    BY <1>3 DEF MarkRefused, Pcs
  <2>2. Workers' /\ Alone(t)
    BY <1>1, <2>1, WorkerStep, StepAlone
  <2> QED
    BY <2>1, <2>2, ThreadOnlyKeeps
<1>4. ASSUME PostReuse(t) PROVE IInv'
  <2>1. Got(t, cache[j]) /\ thread[t].pc # "idle" /\ thread[t].pc # "wait" /\ ThreadOnly
    BY <1>4 DEF PostReuse
  <2>2. cache[j] \in {"none", "ok", "bad"} \cup FarmAnswers
    BY <1>0, <2>1 DEF Tables
  <2>3. Workers' /\ Alone(t)
    BY <1>1, <2>1, <2>2, WorkerGot, StepAlone
  <2> QED
    BY <2>1, <2>3, ThreadOnlyKeeps
<1>5. ASSUME Post(t) PROVE IInv'
  <2>1. /\ Step(t, "wait") /\ "wait" \in Pcs /\ thread[t].pc = "post"
        /\ runs' = runs \cup {[job |-> j, by |-> t]}
        /\ UNCHANGED <<vps, handler, sweep, cache, sent, crashes>>
    BY <1>5 DEF Post, Pcs
  <2>2. jobs' = jobs /\ esim' = esim /\ Ids' = Ids /\ handler' = handler
    BY <2>1 DEF vps, Ids
  <2>3. Workers' /\ Alone(t)
    BY <2>1, <2>2, NothingLost, WorkerStep, StepAlone
  <2>4. thread'[t].pc = "wait" /\ thread'[t].job = j
    BY <1>0, <2>1 DEF Step, Workers, AnyTask
  <2>5. Calls'
    <3>1. [job |-> j, by |-> t] \in [job : Ids, by : Threads \cup {NoThread}]
      BY <1>0, <2>1
    <3>2. runs' \subseteq [job : Ids', by : Threads \cup {NoThread}]
      BY <2>1, <2>2, <3>1 DEF Calls
    <3>3. ASSUME NEW r \in runs', r.by \in Threads
          PROVE  thread'[r.by].pc = "wait" /\ thread'[r.by].job = r.job
      <4>1. CASE r \in runs
        BY <2>1, <2>3, <3>3, <4>1 DEF Calls, Alone
      <4>2. CASE r = [job |-> j, by |-> t]
        BY <2>4, <4>2
      <4> QED
        BY <2>1, <4>1, <4>2
    <3> QED
      BY <3>2, <3>3 DEF Calls
  <2>6. Tables'
    BY <2>1, <2>2 DEF Tables, vps
  <2> QED
    BY <2>2, <2>3, <2>5, <2>6, AloneKeeps, SameJobs
<1>6. ASSUME Timeout(t) \/ Disconnect(t) PROVE IInv'
  <2>1. /\ thread[t].pc # "idle" /\ runs' = Orphaned({t})
        /\ UNCHANGED <<vps, handler, sweep, cache, sent, crashes>>
    BY <1>6 DEF Timeout, Disconnect
  <2>2. jobs' = jobs /\ esim' = esim /\ Ids' = Ids /\ handler' = handler /\ Kept
    BY <2>1, NothingLost DEF vps, Ids
  <2>3. Workers' /\ Alone(t)
    <3>1. CASE Got(t, "none")
      BY <2>1, <2>2, <3>1, WorkerGot, StepAlone
    <3>2. CASE /\ thread[t].attempt < MaxAttempts
               /\ thread' = [thread EXCEPT ![t].pc = "post", ![t].attempt = @ + 1]
      <4> DEFINE x == [thread[t] EXCEPT !.pc = "post", !.attempt = @ + 1]
      <4>1. thread[t] \in AnyTask /\ j \in Ids
        BY <1>0, <2>1
      <4>2. thread[t].attempt + 1 \in 0..MaxAttempts
        BY <3>2, <4>1, JobsAssumption DEF AnyTask
      <4>3. x \in AnyTask /\ x.pc = "post" /\ x.job = j
        BY <4>1, <4>2 DEF AnyTask, Pcs
      <4>4. thread' = [thread EXCEPT ![t] = x]
        BY <3>2 DEF Workers
      <4> HIDE DEF x
      <4>5. Equipped(x, Ids', esim')
        BY <2>2, <4>1, <4>3 DEF Equipped
      <4>6. Workers'
        BY <2>2, <4>4, <4>5, WorkerMoves
      <4> QED
        BY <2>1, <4>4, <4>6 DEF Workers, Alone
    <3> QED
      BY <1>6, <3>1, <3>2 DEF Timeout, Disconnect
  <2>4. Tables'
    BY <2>1, <2>2 DEF Tables, vps
  <2> QED
    BY <2>1, <2>2, <2>3, <2>4, AloneKeeps, SameJobs
<1>7. ASSUME Recover(t) PROVE IInv'
  <2>1. Step(t, "lookup") \/ Step(t, "unknown") \/ Done(t)
    BY <1>7 DEF Recover
  <2>2. /\ "lookup" \in Pcs /\ "unknown" \in Pcs
        /\ thread[t].pc # "idle" /\ thread[t].pc # "wait" /\ ThreadOnly
    BY <1>7 DEF Recover, Pcs
  <2>3. Workers' /\ Alone(t)
    BY <1>1, <2>1, <2>2, WorkerStep, WorkerDone, StepAlone
  <2> QED
    BY <2>2, <2>3, ThreadOnlyKeeps
<1>8. ASSUME Lookup(t) PROVE IInv'
  <2>1. Got(t, cache[j]) \/ Step(t, "unknown")
    BY <1>8 DEF Lookup
  <2>2. "unknown" \in Pcs /\ thread[t].pc # "idle" /\ thread[t].pc # "wait" /\ ThreadOnly
    BY <1>8 DEF Lookup, Pcs
  <2>3. cache[j] \in {"none", "ok", "bad"} \cup FarmAnswers
    BY <1>0, <2>2 DEF Tables
  <2>4. Workers' /\ Alone(t)
    BY <1>1, <2>1, <2>2, <2>3, WorkerStep, WorkerGot, StepAlone
  <2> QED
    BY <2>2, <2>4, ThreadOnlyKeeps
<1>9. ASSUME RecordEsim(t) PROVE IInv'
  <2>1. PICK o \in {"recorded", "refused"} :
            esim' = [esim EXCEPT ![j] = IF @ = "recorded" THEN @ ELSE o]
    BY <1>9 DEF RecordEsim
  <2>2. /\ thread[t].pc # "idle" /\ thread[t].pc # "wait" /\ "update" \in Pcs
        /\ Step(t, "update") /\ jobs' = jobs /\ Ids' = Ids /\ handler' = handler
        /\ runs' = runs
    BY <1>9 DEF RecordEsim, Pcs, farm, Ids
  <2>3. /\ esim' \in [JobIds -> {"none", "recorded", "refused"}]
        /\ esim'[j] # "none"
        /\ \A k \in Ids : esim[k] # "none" => esim'[k] # "none"
    BY <1>0, <2>1, <2>2 DEF Tables
  <2>4. Workers' /\ Alone(t)
    BY <2>2, <2>3, WorkerStep, StepAlone DEF Kept
  <2>5. Tables'
    BY <1>9, <2>2, <2>3 DEF RecordEsim, Tables, farm
  <2> QED
    BY <2>2, <2>3, <2>4, <2>5, AloneKeeps, SameJobs
<1>10. ASSUME Unassign(t) PROVE IInv'
  <2>1. /\ thread[t].pc # "idle" /\ thread[t].pc # "wait" /\ Done(t)
        /\ jobs' = jobs /\ Ids' = Ids /\ esim' = esim /\ handler' = handler /\ runs' = runs
    BY <1>10 DEF Unassign, farm, Ids
  <2>2. assigned' \in [Bays -> {0} \cup Ids]
    BY <1>10 DEF Unassign, Tables
  <2>3. Workers' /\ Alone(t)
    BY <2>1, NothingLost, WorkerDone, StepAlone
  <2>4. Tables'
    BY <1>10, <2>1, <2>2 DEF Unassign, Tables, farm
  <2> QED
    BY <2>1, <2>3, <2>4, AloneKeeps, SameJobs
<1> QED
  BY <1>2, <1>3, <1>4, <1>5, <1>6, <1>7, <1>8, <1>9, <1>10, MarkKeeps, FinishKeeps DEF Work

--------------------------------------------------------------------------------
(* The loop, the farm, the clock, the operators and restarts *)

\* The loop lists records and visits them.
LEMMA SweepKeeps ==
  ASSUME IInv, SweepNext \/ \E j \in JobIds : Visit(j)
  PROVE  IInv'
<1> USE DEF IInv
<1>1. ASSUME SweepNext PROVE IInv'
  <2>1. jobs' = jobs /\ thread' = thread /\ runs' = runs /\ esim' = esim
        /\ handler' = handler /\ Ids' = Ids
    BY <1>1 DEF SweepNext, vps, farm, Ids
  <2>2. sweep' \in [kind : {"pending", "running"}, todo : SUBSET Ids]
    BY <1>1 DEF SweepNext
  <2>3. Tables'
    BY <1>1, <2>1, <2>2 DEF SweepNext, Tables, vps, farm
  <2> QED
    BY <2>1, <2>3, RequestsStay, WorkersStay, CallsStay, SameJobs, NothingLost
<1>2. ASSUME NEW j \in JobIds, Visit(j) PROVE IInv'
  <2>1. /\ jobs' = jobs /\ runs' = runs /\ esim' = esim /\ handler' = handler /\ Ids' = Ids
        /\ thread[Loop].pc = "idle" /\ j \in Ids
    BY <1>2 DEF Visit, vps, farm, Ids, Idle, Tables
  <2>2. PICK pc \in {"recover", "read"} : thread' = [thread EXCEPT ![Loop] = At(pc, j)]
    BY <1>2 DEF Visit, Become
  <2>3. Ids \subseteq JobIds /\ JobIds \subseteq Threads /\ Loop \in Threads /\ Loop \notin JobIds
    BY IdsAre
  <2>4. Equipped(At(pc, j), Ids', esim')
    BY <2>1, <2>3, AtEquipped DEF Pcs
  <2>5. Workers'
    BY <2>1, <2>2, <2>3, <2>4, WorkerMoves, NothingLost
  <2>6. \A s \in Threads : s # Loop => thread'[s] = thread[s]
    BY <2>2 DEF Workers
  <2>7. Requests'
    BY <2>1, <2>3, <2>6, RequestsStay
  <2>8. Calls'
    BY <2>1, <2>6, CallsStay
  <2>9. sweep' \in [kind : {"pending", "running"}, todo : SUBSET Ids]
    BY <1>2 DEF Visit, Tables
  <2>10. Tables'
    BY <1>2, <2>1, <2>9 DEF Visit, Tables, vps, farm
  <2> QED
    BY <2>1, <2>5, <2>7, <2>8, <2>10, SameJobs
<1> QED
  BY <1>1, <1>2

\* The answer goes to the caller that waits, if there is one.
LEMMA FarmKeeps ==
  ASSUME IInv, NEW run \in runs, NEW answer \in Answers(jobs[run.job].type),
         FarmFinish(run, answer)
  PROVE  IInv'
<1> USE DEF IInv
<1>1. /\ jobs' = jobs /\ esim' = esim /\ handler' = handler /\ Ids' = Ids
      /\ runs' = runs \ {run} /\ Kept
  BY NothingLost DEF FarmFinish, vps, Ids
<1>2. /\ run \in [job : Ids, by : Threads \cup {NoThread}]
      /\ run.job \in JobIds /\ Ids \subseteq JobIds
  BY IdsAre DEF Calls
<1>3. answer \in {"none", "ok", "bad"} \cup FarmAnswers
  BY DEF Answers
<1>4. Tables'
  <2>1. jobs[run.job].type = "assign" => answer \in FarmAnswers
    BY DEF Answers
  <2>2. cache' \in [JobIds -> {"none"} \cup FarmAnswers]
    BY <1>2, <2>1 DEF FarmFinish, Tables
  <2> QED
    BY <1>1, <2>2 DEF FarmFinish, Tables, vps
<1>5. CASE run.by \in Threads
  <2> DEFINE t == run.by
  <2>1. thread[t].pc = "wait" /\ thread[t].job = run.job
    BY <1>5 DEF Calls
  <2>2. Got(t, answer)
    BY <1>5 DEF FarmFinish
  <2>3. Workers' /\ Alone(t)
    BY <1>1, <1>3, <1>5, <2>1, <2>2, WorkerGot, StepAlone
  <2>4. Requests'
    BY <1>1, <1>5, <2>3, AloneKeeps
  <2>5. Calls'
    <3>1. ASSUME NEW r \in runs', r.by \in Threads
          PROVE  thread'[r.by].pc = "wait" /\ thread'[r.by].job = r.job
      <4>1. r \in runs /\ r # run /\ r \in [job : Ids, by : Threads \cup {NoThread}]
        BY <1>1 DEF Calls
      <4>2. r.by # t
        <5>1. ASSUME r.by = t PROVE FALSE
          <6>1. r.job = run.job
            BY <1>5, <2>1, <4>1, <5>1 DEF Calls
          <6>2. r = run
            BY <1>2, <4>1, <5>1, <6>1
          <6> QED
            BY <4>1, <6>2
        <5> QED
          BY <5>1
      <4> QED
        BY <2>3, <3>1, <4>1, <4>2 DEF Calls, Alone
    <3> QED
      BY <1>1, <3>1 DEF Calls
  <2> QED
    BY <1>1, <1>4, <2>3, <2>4, <2>5, SameJobs
<1>6. CASE run.by \notin Threads
  <2>1. thread' = thread
    BY <1>6 DEF FarmFinish
  <2>2. Calls'
    BY <1>1, <2>1 DEF Calls
  <2> QED
    BY <1>1, <1>4, <2>1, <2>2, RequestsStay, WorkersStay, SameJobs
<1> QED
  BY <1>5, <1>6

\* A job gets stale.
LEMMA AgeKeeps ==
  ASSUME IInv, NEW j \in Ids, Age(j)
  PROVE  IInv'
<1> USE DEF IInv
<1> DEFINE x == [jobs[j] EXCEPT !.stale = TRUE]
<1>1. jobs[j] \in Job
  BY DEF Tables, Ids
<1>2. x \in Job
  BY <1>1, Zenon DEF Job
<1>3. /\ x.status = jobs[j].status /\ x.result = jobs[j].result
      /\ x.type = jobs[j].type /\ x.bay = jobs[j].bay /\ x.key = jobs[j].key
  BY <1>1 DEF Job
<1>4. jobs' = [jobs EXCEPT ![j] = x]
  BY DEF Age
<1> HIDE DEF x
<1>5. /\ jobs' \in Seq(Job) /\ Len(jobs') = Len(jobs) /\ Ids' = Ids
      /\ jobs'[j] = x /\ \A k \in Ids : k # j => jobs'[k] = jobs[k]
  BY <1>2, <1>4, RowUpdated
<1>6. /\ esim' = esim /\ handler' = handler /\ thread' = thread /\ runs' = runs
  BY DEF Age, farm
<1>7. Tables'
  BY <1>5 DEF Age, Tables, farm
<1>8. DoneIsRecorded'
  BY <1>3, <1>5, <1>6 DEF DoneIsRecorded
<1> QED
  BY <1>5, <1>6, <1>7, <1>8, RequestsStay, WorkersStay, CallsStay, NothingLost

\* end_rental and force_available
LEMMA OperatorKeeps ==
  ASSUME IInv, NEW bay \in Bays, EndRental(bay) \/ ForceAvailable(bay)
  PROVE  IInv'
<1> USE DEF IInv
<1>1. /\ jobs' = jobs /\ esim' = esim /\ handler' = handler /\ thread' = thread
      /\ runs' = runs /\ Ids' = Ids
  BY DEF EndRental, ForceAvailable, farm, Ids
<1>2. Tables'
  BY <1>1 DEF EndRental, ForceAvailable, Tables, farm
<1> QED
  BY <1>1, <1>2, RequestsStay, WorkersStay, CallsStay, SameJobs, NothingLost

\* The sweep a process starts with
LEMMA EmptySweep ==
  ASSUME NEW ids
  PROVE  [kind |-> "pending", todo |-> {}] \in [kind : {"pending", "running"}, todo : SUBSET ids]
  OBVIOUS

\* A restart forgets threads and requests.
LEMMA CrashKeeps ==
  ASSUME IInv, Crash
  PROVE  IInv'
<1> USE DEF IInv
<1>1. jobs' = jobs /\ esim' = esim /\ runs' = Orphaned(Threads) /\ Ids' = Ids
  BY DEF Crash, Ids
<1>2. Tables'
  <2>1. locked' \in BOOLEAN
    BY DEF Crash
  <2>2. sweep' \in [kind : {"pending", "running"}, todo : SUBSET Ids']
    BY EmptySweep DEF Crash
  <2>3. crashes' \in 0..MaxCrashes
    BY JobsAssumption DEF Crash, Tables
  <2>4. assigned' = assigned /\ reserved' = reserved /\ cache' = cache /\ sent' = sent
    BY DEF Crash
  <2> QED
    BY <1>1, <2>1, <2>2, <2>3, <2>4 DEF Tables
<1>3. \A t \in Threads : thread'[t] = Idle
  BY DEF Crash
<1>4. Workers'
  <2>1. thread' \in [Threads -> AnyTask]
    BY IdleEquipped DEF Crash
  <2> QED
    BY <1>3, <2>1, IdleEquipped DEF Workers
<1>5. Calls'
  BY <1>1, CallsOrphaned, IdsAre
<1>6. Requests'
  <2>1. \A h \in Handlers : handler'[h] = NoRequest
    BY DEF Crash
  <2>2. handler' \in [Handlers -> Request_ \cup {NoRequest}]
    BY DEF Crash
  <2>3. NoRequest.pc = "idle" /\ "idle" \notin Created /\ Asks(NoRequest)
    BY DEF NoRequest, Created, Asks
  <2>4. Creating' \subseteq Creating
    BY <2>1, <2>3 DEF Creating
  <2>5. Len(jobs') + Cardinality(Creating') <= MaxJobs
    BY <1>1, <2>4, IdsAre, RoomStays DEF Requests
  <2>6. \A t \in JobIds \ Ids' : thread'[t].pc = "idle"
    BY <1>3, IdsAre DEF Idle
  <2> QED
    BY <2>1, <2>2, <2>3, <2>5, <2>6 DEF Requests
<1> QED
  BY <1>1, <1>2, <1>4, <1>5, <1>6, SameJobs

--------------------------------------------------------------------------------
(* A settled job stays settled *)

Sending == {"mark", "post", "wait"}

\* A thread that moves does not turn to job j.
TurnsAway(t, j) == thread'[t].job = j => thread'[t].pc \notin Sending

\* Nobody turns to a settled job.
LEMMA StaysSettled ==
  ASSUME NEW j, Settled(j), jobs'[j].status # "pending",
         \A t \in Threads : thread'[t] = thread[t] \/ TurnsAway(t, j)
  PROVE  Settled(j)'
  BY DEF Settled, TurnsAway, Sending

\* The steps of one thread; jobs do not return to pending.
LEMMA OneThreadSettled ==
  ASSUME NEW t \in Threads, NEW j, Settled(j), jobs'[j].status # "pending",
         Alone(t), TurnsAway(t, j)
  PROVE  Settled(j)'
<1>1. \A s \in Threads : thread'[s] = thread[s] \/ TurnsAway(s, j)
  BY DEF Alone
<1> QED
  BY <1>1, StaysSettled

\* Where a thread goes
LEMMA TurnedAway ==
  ASSUME Workers, NEW t \in Threads, thread[t].pc # "idle", NEW j, NEW pc, NEW answer,
         \/ Done(t)
         \/ Got(t, answer)
         \/ Step(t, pc) /\ (pc \in Sending => thread[t].job # j)
  PROVE  TurnsAway(t, j)
<1>1. thread[t] \in AnyTask
  BY WorkerHasJob
<1>2. CASE Done(t)
  BY <1>2 DEF Done, Become, Idle, TurnsAway, Sending, Workers
<1>3. CASE Got(t, answer)
  BY <1>1, <1>3 DEF Got, TurnsAway, Sending, Workers, AnyTask
<1>4. CASE Step(t, pc) /\ (pc \in Sending => thread[t].job # j)
  BY <1>1, <1>4 DEF Step, TurnsAway, Workers, AnyTask
<1> QED
  BY <1>2, <1>3, <1>4

\* A worker that may send a job has read it as pending.
LEMMA WorkSettled ==
  ASSUME IInv, NEW t \in Threads, Work(t), NEW j \in Ids, Settled(j)
  PROVE  Settled(j)'
<1> USE DEF IInv
<1> DEFINE k == thread[t].job
<1>1. thread[t].pc # "idle"
  BY DEF Work, Read, Mark, MarkRefused, PostReuse, Post, Timeout, Disconnect,
     Recover, Lookup, FinishUnknown, RecordEsim, Apply, Unassign
<1>2. jobs[j].status # "pending" /\ (k = j => thread[t].pc \notin Sending)
  BY DEF Settled, Sending
<1>3. k \in Ids /\ thread[t] \in AnyTask
  BY <1>1, WorkerHasJob
<1>4. CASE Read(t)
  <2>1. jobs' = jobs
    BY <1>4 DEF Read, ThreadOnly, vps
  <2>2. \/ Done(t) \/ Step(t, "recover")
        \/ Step(t, "mark") /\ jobs[k].status = "pending"
    BY <1>4 DEF Read
  <2>3. "recover" \notin Sending
    BY DEF Sending
  <2>4. TurnsAway(t, j) /\ Alone(t)
    BY <1>1, <1>2, <2>2, <2>3, TurnedAway, StepAlone
  <2> QED
    BY <1>2, <2>1, <2>4, OneThreadSettled
<1>5. CASE Mark(t)
  <2>1. k # j /\ jobs' = [jobs EXCEPT ![k] = [@ EXCEPT !.status = "running", !.stale = FALSE]]
        /\ thread' = [thread EXCEPT ![t].pc = "post", ![t].attempt = 1]
    BY <1>2, <1>5 DEF Mark, Sending
  <2>2. jobs'[j] = jobs[j]
    BY <2>1 DEF Ids, Tables
  <2>3. TurnsAway(t, j)
    BY <1>3, <2>1 DEF TurnsAway, Workers, AnyTask
  <2>4. Alone(t)
    BY <1>1, <2>1 DEF Alone, Workers
  <2> QED
    BY <1>2, <2>2, <2>3, <2>4, OneThreadSettled
<1>6. CASE FinishUnknown(t) \/ Apply(t)
  <2>1. Done(t) \/ Step(t, "release")
    BY <1>6 DEF FinishUnknown, Apply
  <2>2. PICK outcome : /\ outcome.status \in {"done", "failed"} /\ outcome.result \in Results
                       /\ jobs' = Finished(k, outcome)
    BY <1>6, OutcomeType DEF FinishUnknown, Apply
  <2>3. jobs'[j].status # "pending"
    BY <1>2, <1>3, <2>2, FinishedJobs
  <2>4. "release" \notin Sending
    BY DEF Sending
  <2>5. TurnsAway(t, j) /\ Alone(t)
    BY <1>1, <2>1, <2>4, TurnedAway, StepAlone
  <2> QED
    BY <2>3, <2>5, OneThreadSettled
<1>7. CASE Disconnect(t) \/ Timeout(t) \/ Post(t) \/ PostReuse(t)
  <2>1. jobs' = jobs
    BY <1>7 DEF Disconnect, Timeout, Post, PostReuse, ThreadOnly, vps
  <2>2. k # j
    BY <1>2, <1>7 DEF Disconnect, Timeout, Post, PostReuse, Sending
  <2>3. CASE Got(t, "none") \/ Got(t, cache[k]) \/ Step(t, "wait")
    <3>1. TurnsAway(t, j) /\ Alone(t)
      BY <1>1, <2>2, <2>3, TurnedAway, StepAlone
    <3> QED
      BY <1>2, <2>1, <3>1, OneThreadSettled
  <2>4. CASE thread' = [thread EXCEPT ![t].pc = "post", ![t].attempt = @ + 1]
    <3>1. TurnsAway(t, j)
      BY <1>3, <2>2, <2>4 DEF TurnsAway, Workers, AnyTask
    <3>2. Alone(t)
      BY <1>1, <2>4 DEF Alone, Workers
    <3> QED
      BY <1>2, <2>1, <3>1, <3>2, OneThreadSettled
  <2> QED
    BY <1>7, <2>3, <2>4 DEF Disconnect, Timeout, Post, PostReuse
<1>8. CASE MarkRefused(t) \/ Recover(t) \/ Lookup(t) \/ RecordEsim(t) \/ Unassign(t)
  <2>1. jobs' = jobs
    BY <1>8 DEF MarkRefused, Recover, Lookup, RecordEsim, Unassign, ThreadOnly, vps
  <2>2. \/ Done(t) \/ Got(t, cache[k])
        \/ \E pc \in {"dead", "lookup", "unknown", "update"} : Step(t, pc)
    BY <1>8 DEF MarkRefused, Recover, Lookup, RecordEsim, Unassign
  <2>3. TurnsAway(t, j) /\ Alone(t)
    BY <1>1, <2>2, TurnedAway, StepAlone DEF Sending
  <2> QED
    BY <1>2, <2>1, <2>3, OneThreadSettled
<1> QED
  BY <1>4, <1>5, <1>6, <1>7, <1>8 DEF Work

\* A request starts a thread that reads its job first.
LEMMA HandleSettled ==
  ASSUME IInv, NEW h \in Handlers, Request(h) \/ Handle(h), NEW j \in Ids, Settled(j)
  PROVE  Settled(j)'
<1> USE DEF IInv
<1>1. jobs[j].status # "pending"
  BY DEF Settled
<1>2. CASE Spawn(h)
  <2>1. jobs' = jobs /\ thread' = [thread EXCEPT ![handler[h].job] = At("read", handler[h].job)]
    BY <1>2 DEF Spawn, vps
  <2>2. \A t \in Threads : thread'[t] = thread[t] \/ TurnsAway(t, j)
    BY <2>1 DEF At, TurnsAway, Sending, Workers
  <2> QED
    BY <1>1, <2>1, <2>2, StaysSettled
<1>3. CASE Create(h)
  <2>1. jobs' = Append(jobs, NewJob(handler[h])) /\ thread' = thread
    BY <1>3 DEF Create
  <2> HIDE DEF IInv
  <2>2. jobs \in Seq(Job) /\ j \in 1..Len(jobs)
    BY IdsAre DEF IInv, Tables
  <2>3. jobs'[j] = jobs[j]
    BY <2>1, <2>2
  <2> QED
    BY <1>1, <2>1, <2>3, StaysSettled
<1>4. CASE jobs' = jobs /\ thread' = thread
  BY <1>1, <1>4, StaysSettled
<1> QED
  BY <1>2, <1>3, <1>4 DEF Request, Handle, CheckReplay, CheckVacant, CheckInactive, Reserve,
     CreateDuplicate, Claim, HandlerOnly, vps

\* Every step leaves a settled job settled.
LEMMA NextSettled ==
  ASSUME IInv, [Next]_vars, NEW j \in Ids, Settled(j)
  PROVE  Settled(j)'
<1> USE DEF IInv
<1>1. jobs[j].status # "pending"
  BY DEF Settled
<1>2. CASE jobs' = jobs /\ thread' = thread
  BY <1>1, <1>2, StaysSettled
<1>3. ASSUME NEW k \in JobIds, Visit(k) PROVE Settled(j)'
  <2>1. PICK pc \in {"recover", "read"} : thread' = [thread EXCEPT ![Loop] = At(pc, k)]
    BY <1>3 DEF Visit, Become
  <2>2. \A t \in Threads : thread'[t] = thread[t] \/ TurnsAway(t, j)
    BY <2>1 DEF At, TurnsAway, Sending, Workers
  <2>3. jobs' = jobs
    BY <1>3 DEF Visit, vps
  <2> QED
    BY <1>1, <2>2, <2>3, StaysSettled
<1>4. ASSUME NEW run \in runs, NEW answer, FarmFinish(run, answer) PROVE Settled(j)'
  <2>1. jobs' = jobs
    BY <1>4 DEF FarmFinish, vps
  <2>2. CASE run.by \in Threads /\ Got(run.by, answer)
    <3>1. thread[run.by].pc # "idle"
      BY <1>4, <2>2 DEF Calls
    <3>2. TurnsAway(run.by, j) /\ Alone(run.by)
      BY <2>2, <3>1, TurnedAway, StepAlone
    <3> QED
      BY <1>1, <2>1, <2>2, <3>2, OneThreadSettled
  <2> QED
    BY <1>2, <1>4, <2>1, <2>2 DEF FarmFinish
<1>5. ASSUME NEW k \in Ids, Age(k) PROVE Settled(j)'
  <2>1. jobs[k].status = "running" /\ jobs' = [jobs EXCEPT ![k] = [@ EXCEPT !.stale = TRUE]]
        /\ thread' = thread
    BY <1>5 DEF Age
  <2>2. jobs[k] \in Job /\ jobs[j] \in Job
    BY DEF Tables, Ids
  <2>3. jobs'[j].status = jobs[j].status
    BY <2>1, <2>2 DEF Tables, Ids, Job
  <2> QED
    BY <1>1, <2>1, <2>3, StaysSettled
<1>6. CASE Crash
  <2>1. \A t \in Threads : TurnsAway(t, j)
    BY <1>6 DEF Crash, Idle, TurnsAway, Sending
  <2>2. jobs' = jobs
    BY <1>6 DEF Crash
  <2> QED
    BY <1>1, <2>1, <2>2, StaysSettled
<1>7. ASSUME NEW bay \in Bays, EndRental(bay) \/ ForceAvailable(bay) PROVE Settled(j)'
  BY <1>2, <1>7 DEF EndRental, ForceAvailable
<1>8. CASE SweepNext \/ UNCHANGED vars
  BY <1>2, <1>8 DEF SweepNext, vars, vps
<1> QED
  BY <1>3, <1>4, <1>5, <1>6, <1>7, <1>8, HandleSettled, WorkSettled DEF Next

--------------------------------------------------------------------------------
(* A pending job keeps its bay *)

\* A worker gives up the assignment of a job that has run.
Releasing ==
    \A t \in Threads : thread[t].pc = "release" => jobs[thread[t].job].status # "pending"

\* Nobody comes to give up the assignment of a job that is pending.
LEMMA ReleasingStays ==
  ASSUME Workers, Releasing,
         \A j \in Ids : jobs[j].status # "pending" => jobs'[j].status # "pending",
         \A t \in Threads : \/ thread'[t] = thread[t]
                            \/ thread'[t].pc # "release"
                            \/ jobs'[thread'[t].job].status # "pending"
  PROVE  Releasing'
<1> SUFFICES ASSUME NEW t \in Threads, thread'[t].pc = "release",
                    thread'[t] = thread[t]
             PROVE  jobs'[thread'[t].job].status # "pending"
  BY DEF Releasing
<1>1. thread[t].pc = "release" /\ thread[t].pc # "idle"
  OBVIOUS
<1>2. thread[t].job \in Ids /\ jobs[thread[t].job].status # "pending"
  BY <1>1, WorkerHasJob DEF Releasing
<1> QED
  BY <1>2

\* The steps of one thread
LEMMA OneThreadReleasing ==
  ASSUME Workers, Releasing, NEW t \in Threads, Alone(t),
         \A j \in Ids : jobs[j].status # "pending" => jobs'[j].status # "pending",
         thread'[t].pc # "release" \/ jobs'[thread'[t].job].status # "pending"
  PROVE  Releasing'
<1>1. \A s \in Threads : \/ thread'[s] = thread[s]
                         \/ thread'[s].pc # "release"
                         \/ jobs'[thread'[s].job].status # "pending"
  BY DEF Alone
<1> QED
  BY <1>1, ReleasingStays

\* A step or an answer takes a thread where it says.
LEMMA WhereItGoes ==
  ASSUME Workers, NEW t \in Threads, thread[t].pc # "idle", NEW pc, NEW answer,
         \/ Done(t) \/ Got(t, answer)
         \/ Step(t, pc)
  PROVE  thread'[t].pc \in {"idle", "apply", pc}
         /\ (Step(t, pc) => thread'[t].job = thread[t].job)
<1>1. thread[t] \in AnyTask
  BY WorkerHasJob
<1>2. CASE Done(t)
  <2>1. thread'[t].pc = "idle"
    BY <1>2 DEF Done, Become, Idle, Workers
  <2>2. Step(t, pc) => thread'[t].job = thread[t].job
    BY <1>1 DEF Step, Workers, AnyTask
  <2> QED
    BY <2>1, <2>2
<1>3. CASE Got(t, answer)
  <2>1. thread'[t].pc = "apply"
    BY <1>1, <1>3 DEF Got, Workers, AnyTask
  <2>2. Step(t, pc) => thread'[t].job = thread[t].job
    BY <1>1 DEF Step, Workers, AnyTask
  <2> QED
    BY <2>1, <2>2
<1>4. CASE Step(t, pc)
  BY <1>1, <1>4 DEF Step, Workers, AnyTask
<1> QED
  BY <1>2, <1>3, <1>4

\* A worker comes to the release from the update that ended its job.
LEMMA WorkReleasing ==
  ASSUME IInv, Releasing, NEW t \in Threads, Work(t)
  PROVE  Releasing'
<1> DEFINE k == thread[t].job
<1>1. thread[t].pc # "idle" /\ Workers /\ Tables
  BY DEF IInv, Work, Read, Mark, MarkRefused, PostReuse, Post, Timeout, Disconnect,
     Recover, Lookup, FinishUnknown, RecordEsim, Apply, Unassign
<1>2. k \in Ids /\ thread[t] \in AnyTask
  BY <1>1, WorkerHasJob
<1>3. CASE Mark(t)
  <2>1. /\ jobs' = [jobs EXCEPT ![k] = [@ EXCEPT !.status = "running", !.stale = FALSE]]
        /\ thread' = [thread EXCEPT ![t].pc = "post", ![t].attempt = 1]
    BY <1>3 DEF Mark
  <2>2. \A j \in Ids : jobs[j].status # "pending" => jobs'[j].status # "pending"
    <3>1. jobs[k] \in Job
      BY <1>1, <1>2 DEF Tables, Ids
    <3>2. jobs'[k].status = "running" /\ \A j \in Ids : j # k => jobs'[j] = jobs[j]
      BY <1>1, <1>2, <2>1, <3>1 DEF Tables, Ids, Job
    <3> QED
      BY <3>2
  <2>3. thread'[t].pc = "post" /\ Alone(t)
    BY <1>1, <1>2, <2>1 DEF Workers, AnyTask, Alone
  <2> QED
    BY <1>1, <2>2, <2>3, OneThreadReleasing
<1>4. CASE FinishUnknown(t) \/ Apply(t)
  <2>1. Done(t) \/ Step(t, "release")
    BY <1>4 DEF FinishUnknown, Apply
  <2>2. PICK outcome : /\ outcome.status \in {"done", "failed"} /\ outcome.result \in Results
                       /\ jobs' = Finished(k, outcome)
    BY <1>4, OutcomeType DEF FinishUnknown, Apply
  <2>3. jobs'[k].status \in {"done", "failed"} /\ \A j \in Ids : j # k => jobs'[j] = jobs[j]
    BY <1>1, <1>2, <2>2, FinishedJobs
  <2>4. Alone(t)
    BY <1>1, <2>1, StepAlone
  <2>5. thread'[t].pc # "release" \/ thread'[t].job = k
    BY <1>1, <2>1, WhereItGoes
  <2> QED
    BY <1>1, <2>3, <2>4, <2>5, OneThreadReleasing
<1>5. CASE Disconnect(t) \/ Timeout(t) \/ Post(t) \/ PostReuse(t)
  <2>1. jobs' = jobs
    BY <1>5 DEF Disconnect, Timeout, Post, PostReuse, ThreadOnly, vps
  <2>2. CASE Got(t, "none") \/ Got(t, cache[k]) \/ Step(t, "wait")
    <3>1. thread'[t].pc # "release" /\ Alone(t)
      BY <1>1, <2>2, WhereItGoes, StepAlone
    <3> QED
      BY <1>1, <2>1, <3>1, OneThreadReleasing
  <2>3. CASE thread' = [thread EXCEPT ![t].pc = "post", ![t].attempt = @ + 1]
    <3>1. thread'[t].pc = "post" /\ Alone(t)
      BY <1>1, <1>2, <2>3 DEF Workers, AnyTask, Alone
    <3> QED
      BY <1>1, <2>1, <3>1, OneThreadReleasing
  <2> QED
    BY <1>5, <2>2, <2>3 DEF Disconnect, Timeout, Post, PostReuse
<1>6. CASE \/ Read(t) \/ MarkRefused(t) \/ Recover(t) \/ Lookup(t) \/ RecordEsim(t)
           \/ Unassign(t)
  <2>1. jobs' = jobs
    BY <1>6 DEF Read, MarkRefused, Recover, Lookup, RecordEsim, Unassign, ThreadOnly, vps
  <2>2. \/ Done(t) \/ Got(t, cache[k])
        \/ \E pc \in {"mark", "recover", "dead", "lookup", "unknown", "update"} : Step(t, pc)
    BY <1>6 DEF Read, MarkRefused, Recover, Lookup, RecordEsim, Unassign
  <2>3. thread'[t].pc # "release" /\ Alone(t)
    BY <1>1, <2>2, WhereItGoes, StepAlone
  <2> QED
    BY <1>1, <2>1, <2>3, OneThreadReleasing
<1> QED
  BY <1>3, <1>4, <1>5, <1>6 DEF Work

\* Every step keeps it.
LEMMA NextReleasing == IInv /\ Releasing /\ [Next]_vars => Releasing'
<1> SUFFICES ASSUME IInv, Releasing, [Next]_vars PROVE Releasing'
  OBVIOUS
<1>1. Workers /\ Tables /\ Calls
  BY DEF IInv
<1>2. CASE jobs' = jobs /\ thread' = thread
  BY <1>2 DEF Releasing
<1>3. ASSUME NEW h \in Handlers, Spawn(h) PROVE Releasing'
  <2>1. jobs' = jobs /\ thread' = [thread EXCEPT ![handler[h].job] = At("read", handler[h].job)]
    BY <1>3 DEF Spawn, vps
  <2>2. \A t \in Threads : thread'[t] = thread[t] \/ thread'[t].pc # "release"
    BY <1>1, <2>1 DEF At, Workers
  <2> QED
    BY <1>1, <2>1, <2>2, ReleasingStays
<1>4. ASSUME NEW h \in Handlers, Create(h) PROVE Releasing'
  <2>1. jobs' = Append(jobs, NewJob(handler[h])) /\ thread' = thread
    BY <1>4 DEF Create
  <2>2. jobs \in Seq(Job) /\ Ids = 1..Len(jobs)
    BY <1>1, IdsAre DEF Tables
  <2>3. \A j \in Ids : jobs'[j] = jobs[j]
    BY <2>1, <2>2
  <2> QED
    BY <1>1, <2>1, <2>3, ReleasingStays
<1>5. ASSUME NEW k \in JobIds, Visit(k) PROVE Releasing'
  <2>1. PICK pc \in {"recover", "read"} : thread' = [thread EXCEPT ![Loop] = At(pc, k)]
    BY <1>5 DEF Visit, Become
  <2>2. \A t \in Threads : thread'[t] = thread[t] \/ thread'[t].pc # "release"
    BY <1>1, <2>1 DEF At, Workers
  <2>3. jobs' = jobs
    BY <1>5 DEF Visit, vps
  <2> QED
    BY <1>1, <2>2, <2>3, ReleasingStays
<1>6. ASSUME NEW run \in runs, NEW answer, FarmFinish(run, answer) PROVE Releasing'
  <2>1. jobs' = jobs
    BY <1>6 DEF FarmFinish, vps
  <2>2. CASE run.by \in Threads /\ Got(run.by, answer)
    <3>1. thread[run.by].pc # "idle"
      BY <1>1, <1>6, <2>2 DEF Calls
    <3>2. thread'[run.by].pc # "release" /\ Alone(run.by)
      BY <1>1, <2>2, <3>1, WhereItGoes, StepAlone
    <3> QED
      BY <1>1, <2>1, <2>2, <3>2, OneThreadReleasing
  <2> QED
    BY <1>2, <1>6, <2>1, <2>2 DEF FarmFinish
<1>7. ASSUME NEW k \in Ids, Age(k) PROVE Releasing'
  <2>1. jobs[k].status = "running" /\ jobs' = [jobs EXCEPT ![k] = [@ EXCEPT !.stale = TRUE]]
        /\ thread' = thread
    BY <1>7 DEF Age
  <2>2. jobs[k] \in Job
    BY <1>1 DEF Tables, Ids
  <2>3. jobs'[k].status = jobs[k].status /\ \A j \in Ids : j # k => jobs'[j] = jobs[j]
    BY <1>1, <2>1, <2>2 DEF Tables, Ids, Job
  <2> QED
    BY <1>1, <2>1, <2>3, ReleasingStays
<1>8. CASE Crash
  BY <1>8 DEF Crash, Idle, Releasing
<1>9. ASSUME NEW bay \in Bays, EndRental(bay) \/ ForceAvailable(bay) PROVE Releasing'
  BY <1>2, <1>9 DEF EndRental, ForceAvailable
<1>10. CASE SweepNext \/ UNCHANGED vars
  BY <1>2, <1>10 DEF SweepNext, vars, vps
<1>11. ASSUME NEW h \in Handlers, Request(h) \/ Handle(h) PROVE Releasing'
  BY <1>2, <1>3, <1>4, <1>11 DEF Request, Handle, CheckReplay, CheckVacant, CheckInactive,
     Reserve, CreateDuplicate, Claim, HandlerOnly, vps
<1> QED
  BY <1>5, <1>6, <1>7, <1>8, <1>9, <1>10, <1>11, WorkReleasing DEF Next

\* Whoever takes the row of a bay away ran its job, or is an operator.
LEMMA RowStays ==
  ASSUME IInv, Releasing, [Next]_vars, NEW bay \in Bays,
         assigned[bay] # 0, jobs[assigned[bay]].status = "pending"
  PROVE  assigned'[bay] = assigned[bay] \/ ForceAvailable(bay)
<1>1. assigned \in [Bays -> {0} \cup Ids]
  BY DEF IInv, Tables
<1>2. CASE assigned' = assigned
  BY <1>2
<1>3. ASSUME NEW h \in Handlers, Claim(h) PROVE assigned'[bay] = assigned[bay]
  BY <1>1, <1>3 DEF Claim
<1>4. ASSUME NEW t \in Threads, Unassign(t) PROVE assigned'[bay] = assigned[bay]
  <2>1. jobs[thread[t].job].status # "pending"
    BY <1>4 DEF Unassign, Releasing
  <2> QED
    BY <1>4, <2>1 DEF Unassign
<1>5. ASSUME NEW b \in Bays, ForceAvailable(b)
      PROVE  assigned'[bay] = assigned[bay] \/ ForceAvailable(bay)
  <2>1. CASE b = bay
    BY <1>5, <2>1
  <2>2. CASE b # bay
    BY <1>1, <1>5, <2>2 DEF ForceAvailable
  <2> QED
    BY <2>1, <2>2
<1>6. ASSUME NEW h \in Handlers, Request(h) \/ Handle(h)
      PROVE  assigned'[bay] = assigned[bay]
  BY <1>2, <1>3, <1>6 DEF Request, Handle, CheckReplay, CheckVacant, CheckInactive, Reserve,
     Create, CreateDuplicate, Spawn, HandlerOnly, vps
<1>7. ASSUME NEW t \in Threads, Work(t) PROVE assigned'[bay] = assigned[bay]
  BY <1>2, <1>4, <1>7 DEF Work, Read, Mark, MarkRefused, PostReuse, Post, Timeout, Disconnect,
     Recover, Lookup, FinishUnknown, RecordEsim, Apply, ThreadOnly, vps
<1>8. CASE SweepNext \/ (\E j \in JobIds : Visit(j)) \/ (\E j \in Ids : Age(j)) \/ Crash
  BY <1>2, <1>8 DEF SweepNext, Visit, Age, Crash, vps
<1>9. ASSUME NEW run \in runs, NEW answer, FarmFinish(run, answer)
      PROVE  assigned'[bay] = assigned[bay]
  BY <1>2, <1>9 DEF FarmFinish, vps
<1>10. ASSUME NEW b \in Bays, EndRental(b) PROVE assigned'[bay] = assigned[bay]
  BY <1>2, <1>10 DEF EndRental
<1>11. CASE UNCHANGED vars
  BY <1>2, <1>11 DEF vars, vps
<1> QED
  BY <1>5, <1>6, <1>7, <1>8, <1>9, <1>10, <1>11 DEF Next

--------------------------------------------------------------------------------
(* Nothing sends a job a third time *)

\* Whether thread t is about to send job j
Marks(t, j) == IF thread[t].pc = "mark" /\ thread[t].job = j THEN 1 ELSE 0

\* A job's own thread looks at no other job, a pending job was not sent, and
\* what was sent and what is about to be sent are two at most.
Sends ==
    /\ \A t \in JobIds : thread[t].pc = "idle" \/ thread[t].job = t
    /\ \A j \in JobIds : j \notin Ids \/ jobs[j].status = "pending" => sent[j] = 0
    /\ \A j \in JobIds : sent[j] + Marks(j, j) + Marks(Loop, j) <= 2

\* Nobody comes to send a job, and no job returns to pending.
LEMMA SendsStay ==
  ASSUME Tables, Sends, sent' = sent, Ids \subseteq Ids',
         \A j \in Ids : jobs'[j].status = "pending" => jobs[j].status = "pending",
         \A t \in Threads : thread'[t] = thread[t] \/ thread'[t].pc # "mark",
         \A t \in JobIds : thread'[t].pc = "idle" \/ thread'[t].job = t
  PROVE  Sends'
<1>1. JobIds \subseteq Threads /\ Loop \in Threads
  BY IdsAre
<1>2. \A t \in Threads, j \in JobIds :
          /\ Marks(t, j) \in {0, 1} /\ Marks(t, j)' \in {0, 1}
          /\ Marks(t, j)' <= Marks(t, j)
  BY DEF Marks
<1>3. ASSUME NEW j \in JobIds PROVE (sent[j] + Marks(j, j) + Marks(Loop, j) <= 2)'
  <2>1. /\ Marks(j, j)' <= Marks(j, j) /\ Marks(Loop, j)' <= Marks(Loop, j)
        /\ {Marks(j, j), Marks(j, j)', Marks(Loop, j), Marks(Loop, j)'} \subseteq {0, 1}
    BY <1>1, <1>2
  <2>2. sent[j] + Marks(j, j) + Marks(Loop, j) <= 2 /\ sent[j] \in Nat /\ sent'[j] = sent[j]
    BY DEF Sends, Tables
  <2> QED
    BY <2>1, <2>2
<1>4. \A j \in JobIds : (j \notin Ids \/ jobs[j].status = "pending" => sent[j] = 0)'
  BY DEF Sends
<1> QED
  BY <1>3, <1>4 DEF Sends

\* The steps of one thread
LEMMA OneThreadSends ==
  ASSUME Tables, Workers, Sends, sent' = sent, Ids' = Ids, NEW t \in Threads, Alone(t),
         \A j \in Ids : jobs'[j].status = "pending" => jobs[j].status = "pending",
         thread'[t].pc # "mark", thread'[t].pc = "idle" \/ thread'[t].job = thread[t].job
  PROVE  Sends'
<1>1. \A s \in JobIds : s \in Threads
  BY IdsAre
<1>2. \A s \in JobIds : thread'[s].pc = "idle" \/ thread'[s].job = s
  BY <1>1 DEF Alone, Sends
<1>3. \A s \in Threads : thread'[s] = thread[s] \/ thread'[s].pc # "mark"
  BY DEF Alone
<1> QED
  BY <1>2, <1>3, SendsStay

\* An answer keeps the thread with its job.
LEMMA SameJobOrIdle ==
  ASSUME Workers, NEW t \in Threads, thread[t].pc # "idle", NEW pc, NEW answer,
         Done(t) \/ Got(t, answer) \/ Step(t, pc)
  PROVE  thread'[t].pc = "idle" \/ thread'[t].job = thread[t].job
<1>1. thread[t] \in AnyTask
  BY WorkerHasJob
<1> QED
  BY <1>1 DEF Done, Become, Idle, Got, Step, Workers, AnyTask

\* process_job reads a job as pending before it sends it.
LEMMA ReadSends ==
  ASSUME IInv, Sends, NEW t \in Threads, Read(t)
  PROVE  Sends'
<1> DEFINE k == thread[t].job
<1>1. Workers /\ Tables /\ thread[t].pc # "idle" /\ sent' = sent /\ jobs' = jobs /\ Ids' = Ids
  BY DEF IInv, Read, ThreadOnly, vps, Ids
<1>2. k \in Ids /\ thread[t] \in AnyTask /\ Ids \subseteq JobIds /\ JobIds \subseteq Threads
      /\ Loop \in Threads /\ Loop \notin JobIds
  BY <1>1, WorkerHasJob, IdsAre
<1>3. CASE Step(t, "recover") \/ Done(t)
  <2>1. thread'[t].pc # "mark" /\ Alone(t)
    BY <1>1, <1>3, WhereItGoes, StepAlone
  <2>2. thread'[t].pc = "idle" \/ thread'[t].job = thread[t].job
    BY <1>1, <1>3, SameJobOrIdle
  <2> QED
    BY <1>1, <2>1, <2>2, OneThreadSends
<1>4. CASE Step(t, "mark") /\ jobs[k].status = "pending"
  <2>1. sent[k] = 0
    BY <1>2, <1>4 DEF Sends
  <2>2. thread'[t].job = k /\ \A s \in Threads : s # t => thread'[s] = thread[s]
    BY <1>1, <1>2, <1>4 DEF Step, Workers, AnyTask
  <2>3. \A s \in JobIds : thread'[s].pc = "idle" \/ thread'[s].job = s
    BY <1>1, <1>2, <2>2 DEF Sends
  <2>4. ASSUME NEW j \in JobIds PROVE (sent[j] + Marks(j, j) + Marks(Loop, j) <= 2)'
    <3>1. Marks(j, j)' \in {0, 1} /\ Marks(Loop, j)' \in {0, 1}
      BY DEF Marks
    <3>2. CASE j = k
      BY <1>1, <2>1, <3>1, <3>2
    <3>3. CASE j # k
      <4>1. \A s \in Threads : Marks(s, j)' \in {0, 1} /\ Marks(s, j) \in {0, 1}
                               /\ Marks(s, j)' <= Marks(s, j)
        BY <2>2, <3>3 DEF Marks
      <4>2. sent[j] + Marks(j, j) + Marks(Loop, j) <= 2 /\ sent[j] \in Nat
        BY <1>1 DEF Sends, Tables
      <4>3. /\ Marks(j, j)' <= Marks(j, j) /\ Marks(Loop, j)' <= Marks(Loop, j)
            /\ {Marks(j, j), Marks(j, j)', Marks(Loop, j), Marks(Loop, j)'} \subseteq {0, 1}
        BY <1>2, <4>1
      <4> QED
        BY <1>1, <4>2, <4>3
    <3> QED
      BY <3>2, <3>3
  <2>5. \A j \in JobIds : (j \notin Ids \/ jobs[j].status = "pending" => sent[j] = 0)'
    BY <1>1 DEF Sends
  <2> QED
    BY <2>3, <2>4, <2>5 DEF Sends
<1> QED
  BY <1>3, <1>4 DEF Read

\* update(status="running") is what makes the job one sent more often.
LEMMA MarkSends ==
  ASSUME IInv, Sends, NEW t \in Threads, Mark(t)
  PROVE  Sends'
<1> DEFINE k == thread[t].job
<1>1. Workers /\ Tables /\ thread[t].pc = "mark" /\ sent' = [sent EXCEPT ![k] = @ + 1]
  BY DEF IInv, Mark
<1>2. k \in Ids /\ thread[t] \in AnyTask /\ Ids \subseteq JobIds /\ JobIds \subseteq Threads
      /\ Loop \in Threads /\ Loop \notin JobIds /\ Threads = JobIds \cup {Loop}
  BY <1>1, WorkerHasJob, IdsAre DEF Threads
<1>3. /\ jobs' = [jobs EXCEPT ![k] = [@ EXCEPT !.status = "running", !.stale = FALSE]]
      /\ thread' = [thread EXCEPT ![t].pc = "post", ![t].attempt = 1]
  BY DEF Mark
<1>4. Ids' = Ids /\ jobs'[k].status = "running" /\ \A j \in Ids : j # k => jobs'[j] = jobs[j]
  <2>1. jobs[k] \in Job
    BY <1>1, <1>2 DEF Tables, Ids
  <2> QED
    BY <1>1, <1>2, <1>3, <2>1 DEF Tables, Ids, Job
<1>5. /\ thread'[t].pc = "post" /\ thread'[t].job = k
      /\ \A s \in Threads : s # t => thread'[s] = thread[s]
  BY <1>1, <1>2, <1>3 DEF Workers, AnyTask
<1>6. t = Loop \/ t = k
  BY <1>1, <1>2 DEF Sends
<1>7. /\ sent \in [JobIds -> Nat] /\ sent'[k] = sent[k] + 1
      /\ \A j \in JobIds : j # k => sent'[j] = sent[j]
  BY <1>1, <1>2 DEF Tables
<1>8. \A s \in Threads, j \in JobIds :
          /\ Marks(s, j) \in {0, 1} /\ Marks(s, j)' \in {0, 1}
          /\ Marks(s, j)' <= Marks(s, j)
  BY <1>5 DEF Marks
<1>9. ASSUME NEW j \in JobIds PROVE (sent[j] + Marks(j, j) + Marks(Loop, j) <= 2)'
  <2>1. /\ Marks(j, j)' <= Marks(j, j) /\ Marks(Loop, j)' <= Marks(Loop, j)
        /\ {Marks(j, j), Marks(j, j)', Marks(Loop, j), Marks(Loop, j)'} \subseteq {0, 1}
    BY <1>2, <1>8
  <2>2. sent[j] + Marks(j, j) + Marks(Loop, j) <= 2 /\ sent[j] \in Nat
    BY <1>7 DEF Sends
  <2>3. CASE j # k
    BY <1>7, <2>1, <2>2, <2>3
  <2>4. CASE j = k
    <3>1. \/ Marks(j, j) = 1 /\ Marks(j, j)' = 0
          \/ Marks(Loop, j) = 1 /\ Marks(Loop, j)' = 0
      <4>1. CASE t = Loop
        BY <1>1, <1>5, <2>4, <4>1 DEF Marks
      <4>2. CASE t = k
        BY <1>1, <1>5, <2>4, <4>2 DEF Marks
      <4> QED
        BY <1>6, <4>1, <4>2
    <3> QED
      BY <1>7, <2>1, <2>2, <2>4, <3>1
  <2> QED
    BY <2>3, <2>4
<1>10. \A j \in JobIds : (j \notin Ids \/ jobs[j].status = "pending" => sent[j] = 0)'
  BY <1>2, <1>4, <1>7 DEF Sends
<1>11. \A s \in JobIds : thread'[s].pc = "idle" \/ thread'[s].job = s
  BY <1>2, <1>5, <1>6 DEF Sends
<1> QED
  BY <1>9, <1>10, <1>11 DEF Sends

\* The other steps of a worker come to no job that it would send.
LEMMA WorkSends ==
  ASSUME IInv, Sends, NEW t \in Threads, Work(t)
  PROVE  Sends'
<1> DEFINE k == thread[t].job
<1>1. thread[t].pc # "idle" /\ Workers /\ Tables
  BY DEF IInv, Work, Read, Mark, MarkRefused, PostReuse, Post, Timeout, Disconnect,
     Recover, Lookup, FinishUnknown, RecordEsim, Apply, Unassign
<1>2. k \in Ids /\ thread[t] \in AnyTask
  BY <1>1, WorkerHasJob
<1>3. CASE FinishUnknown(t) \/ Apply(t)
  <2>1. (Done(t) \/ Step(t, "release")) /\ sent' = sent
    BY <1>3 DEF FinishUnknown, Apply
  <2>2. PICK outcome : /\ outcome.status \in {"done", "failed"} /\ outcome.result \in Results
                       /\ jobs' = Finished(k, outcome)
    BY <1>3, OutcomeType DEF FinishUnknown, Apply
  <2>3. /\ jobs'[k].status \in {"done", "failed"} /\ Ids' = Ids
        /\ \A j \in Ids : j # k => jobs'[j] = jobs[j]
    BY <1>1, <1>2, <2>2, FinishedJobs
  <2>4. \A j \in Ids : jobs'[j].status = "pending" => jobs[j].status = "pending"
    BY <2>3
  <2>5. Alone(t) /\ thread'[t].pc # "mark"
    BY <1>1, <2>1, StepAlone, WhereItGoes
  <2>6. thread'[t].pc = "idle" \/ thread'[t].job = thread[t].job
    BY <1>1, <2>1, SameJobOrIdle
  <2> QED
    BY <1>1, <2>1, <2>3, <2>4, <2>5, <2>6, OneThreadSends
<1>4. CASE Disconnect(t) \/ Timeout(t) \/ Post(t) \/ PostReuse(t)
  <2>1. jobs' = jobs /\ sent' = sent /\ Ids' = Ids
    BY <1>4 DEF Disconnect, Timeout, Post, PostReuse, ThreadOnly, vps, Ids
  <2>2. CASE Got(t, "none") \/ Got(t, cache[k]) \/ Step(t, "wait")
    <3>1. thread'[t].pc # "mark" /\ Alone(t)
      BY <1>1, <2>2, WhereItGoes, StepAlone
    <3>2. thread'[t].pc = "idle" \/ thread'[t].job = thread[t].job
      BY <1>1, <2>2, SameJobOrIdle
    <3> QED
      BY <1>1, <2>1, <3>1, <3>2, OneThreadSends
  <2>3. CASE thread' = [thread EXCEPT ![t].pc = "post", ![t].attempt = @ + 1]
    <3>1. thread'[t].pc = "post" /\ thread'[t].job = k /\ Alone(t)
      BY <1>1, <1>2, <2>3 DEF Workers, AnyTask, Alone
    <3> QED
      BY <1>1, <2>1, <3>1, OneThreadSends
  <2> QED
    BY <1>4, <2>2, <2>3 DEF Disconnect, Timeout, Post, PostReuse
<1>5. CASE MarkRefused(t) \/ Recover(t) \/ Lookup(t) \/ RecordEsim(t) \/ Unassign(t)
  <2>1. jobs' = jobs /\ sent' = sent /\ Ids' = Ids
    BY <1>5 DEF MarkRefused, Recover, Lookup, RecordEsim, Unassign, ThreadOnly, vps, Ids
  <2>2. \/ Done(t) \/ Got(t, cache[k])
        \/ \E pc \in {"dead", "lookup", "unknown", "update"} : Step(t, pc)
    BY <1>5 DEF MarkRefused, Recover, Lookup, RecordEsim, Unassign
  <2>3. thread'[t].pc # "mark" /\ Alone(t)
    BY <1>1, <2>2, WhereItGoes, StepAlone
  <2>4. thread'[t].pc = "idle" \/ thread'[t].job = thread[t].job
    BY <1>1, <2>2, SameJobOrIdle
  <2> QED
    BY <1>1, <2>1, <2>3, <2>4, OneThreadSends
<1> QED
  BY <1>3, <1>4, <1>5, ReadSends, MarkSends DEF Work

\* Every step keeps it.
LEMMA NextSends == IInv /\ Sends /\ [Next]_vars => Sends'
<1> SUFFICES ASSUME IInv, Sends, [Next]_vars PROVE Sends'
  OBVIOUS
<1>1. Workers /\ Tables /\ Calls /\ Requests
  BY DEF IInv
<1>2. CASE jobs' = jobs /\ thread' = thread /\ sent' = sent
  BY <1>2 DEF Sends, Marks, Ids
<1>3. ASSUME NEW h \in Handlers, Spawn(h) PROVE Sends'
  <2>1. /\ jobs' = jobs /\ sent' = sent /\ Ids' = Ids
        /\ thread' = [thread EXCEPT ![handler[h].job] = At("read", handler[h].job)]
    BY <1>3 DEF Spawn, vps, Ids
  <2>2. \A t \in Threads : thread'[t] = thread[t] \/ thread'[t].pc # "mark"
    BY <1>1, <2>1 DEF At, Workers
  <2>3. \A t \in JobIds : thread'[t].pc = "idle" \/ thread'[t].job = t
    BY <1>1, <2>1, IdsAre DEF At, Workers, Sends
  <2> QED
    BY <1>1, <2>1, <2>2, <2>3, SendsStay
<1>4. ASSUME NEW h \in Handlers, Create(h) PROVE Sends'
  <2>1. jobs' = Append(jobs, NewJob(handler[h])) /\ thread' = thread /\ sent' = sent
    BY <1>4 DEF Create
  <2>2. jobs \in Seq(Job) /\ Ids = 1..Len(jobs)
    BY <1>1, IdsAre DEF Tables
  <2>3. Ids \subseteq Ids' /\ \A j \in Ids : jobs'[j] = jobs[j]
    BY <2>1, <2>2 DEF Ids
  <2>4. \A t \in JobIds : thread'[t].pc = "idle" \/ thread'[t].job = t
    BY <2>1 DEF Sends
  <2> QED
    BY <1>1, <2>1, <2>3, <2>4, SendsStay
<1>5. ASSUME NEW k \in JobIds, Visit(k) PROVE Sends'
  <2>1. PICK pc \in {"recover", "read"} : thread' = [thread EXCEPT ![Loop] = At(pc, k)]
    BY <1>5 DEF Visit, Become
  <2>2. \A t \in Threads : thread'[t] = thread[t] \/ thread'[t].pc # "mark"
    BY <1>1, <2>1 DEF At, Workers
  <2>3. jobs' = jobs /\ sent' = sent /\ Ids' = Ids
    BY <1>5 DEF Visit, vps, Ids
  <2>4. \A t \in JobIds : thread'[t].pc = "idle" \/ thread'[t].job = t
    BY <1>1, <2>1, IdsAre DEF Workers, Sends
  <2> QED
    BY <1>1, <2>2, <2>3, <2>4, SendsStay
<1>6. ASSUME NEW run \in runs, NEW answer, FarmFinish(run, answer) PROVE Sends'
  <2>1. jobs' = jobs /\ sent' = sent /\ Ids' = Ids
    BY <1>6 DEF FarmFinish, vps, Ids
  <2>2. CASE run.by \in Threads /\ Got(run.by, answer)
    <3>1. thread[run.by].pc # "idle"
      BY <1>1, <1>6, <2>2 DEF Calls
    <3>2. thread'[run.by].pc # "mark" /\ Alone(run.by)
      BY <1>1, <2>2, <3>1, WhereItGoes, StepAlone
    <3>3. thread'[run.by].pc = "idle" \/ thread'[run.by].job = thread[run.by].job
      BY <1>1, <2>2, <3>1, SameJobOrIdle
    <3> QED
      BY <1>1, <2>1, <2>2, <3>2, <3>3, OneThreadSends
  <2> QED
    BY <1>2, <1>6, <2>1, <2>2 DEF FarmFinish
<1>7. ASSUME NEW k \in Ids, Age(k) PROVE Sends'
  <2>1. jobs[k].status = "running" /\ jobs' = [jobs EXCEPT ![k] = [@ EXCEPT !.stale = TRUE]]
        /\ thread' = thread /\ sent' = sent
    BY <1>7 DEF Age
  <2>2. jobs[k] \in Job
    BY <1>1 DEF Tables, Ids
  <2>3. Ids' = Ids /\ jobs'[k].status = jobs[k].status
        /\ \A j \in Ids : j # k => jobs'[j] = jobs[j]
    BY <1>1, <2>1, <2>2 DEF Tables, Ids, Job
  <2>4. \A t \in JobIds : thread'[t].pc = "idle" \/ thread'[t].job = t
    BY <2>1 DEF Sends
  <2> QED
    BY <1>1, <2>1, <2>3, <2>4, SendsStay
<1>8. CASE Crash
  <2>1. jobs' = jobs /\ sent' = sent /\ Ids' = Ids /\ \A t \in Threads : thread'[t].pc = "idle"
    BY <1>8 DEF Crash, Idle, Ids
  <2> QED
    BY <1>1, <2>1, IdsAre, SendsStay
<1>9. ASSUME NEW bay \in Bays, EndRental(bay) \/ ForceAvailable(bay) PROVE Sends'
  BY <1>2, <1>9 DEF EndRental, ForceAvailable
<1>10. CASE SweepNext \/ UNCHANGED vars
  BY <1>2, <1>10 DEF SweepNext, vars, vps
<1>11. ASSUME NEW h \in Handlers, Request(h) \/ Handle(h) PROVE Sends'
  BY <1>2, <1>3, <1>4, <1>11 DEF Request, Handle, CheckReplay, CheckVacant, CheckInactive,
     Reserve, CreateDuplicate, Claim, HandlerOnly, vps
<1> QED
  BY <1>5, <1>6, <1>7, <1>8, <1>9, <1>10, <1>11, WorkSends DEF Next

--------------------------------------------------------------------------------
(* Theorems *)

\* The invariant holds at the start.
LEMMA InitIInv ==
  ASSUME Init
  PROVE  IInv
<1>1. jobs = <<>> /\ jobs \in Seq(Job) /\ Len(jobs) = 0 /\ Ids = {}
  BY DEF Init, Ids
<1>2. Tables
  <2>1. locked \in BOOLEAN
    BY DEF Init
  <2>2. sweep \in [kind : {"pending", "running"}, todo : SUBSET Ids]
    BY EmptySweep DEF Init
  <2>3. crashes \in 0..MaxCrashes /\ Len(jobs) <= MaxJobs
    BY <1>1, JobsAssumption DEF Init
  <2>4. /\ assigned \in [Bays -> {0} \cup Ids]
        /\ reserved \in [Bays -> Rentals \cup {Nobody}]
    BY DEF Init
  <2>5. /\ esim \in [JobIds -> {"none", "recorded", "refused"}]
        /\ cache \in [JobIds -> {"none"} \cup FarmAnswers]
        /\ sent \in [JobIds -> Nat]
    BY DEF Init
  <2> QED
    BY <1>1, <2>1, <2>2, <2>3, <2>4, <2>5 DEF Tables
<1>3. Workers
  BY IdleEquipped DEF Init, Workers
<1>4. Calls /\ DoneIsRecorded
  BY <1>1 DEF Init, Calls, DoneIsRecorded
<1>5. Requests
  <2>1. \A h \in Handlers : handler[h] = NoRequest
    BY DEF Init
  <2>2. NoRequest.pc = "idle" /\ "idle" \notin Created /\ Asks(NoRequest)
    BY DEF NoRequest, Created, Asks
  <2>3. Creating = {}
    BY <2>1, <2>2 DEF Creating
  <2>4. Len(jobs) + Cardinality(Creating) <= MaxJobs
    BY <1>1, <2>3, FS_EmptySet, JobsAssumption
  <2>5. \A t \in JobIds : thread[t].pc = "idle"
    BY DEF Init, Idle, Threads
  <2> QED
    BY <2>1, <2>2, <2>4, <2>5 DEF Init, Requests
<1> QED
  BY <1>2, <1>3, <1>4, <1>5 DEF IInv

\* Every step keeps the invariant.
LEMMA NextIInv ==
  ASSUME IInv, [Next]_vars
  PROVE  IInv'
<1>1. CASE UNCHANGED vars
  <2>1. HandlerOnly /\ jobs' = jobs /\ thread' = thread /\ handler' = handler /\ Ids' = Ids
    BY <1>1 DEF vars, HandlerOnly, vps, Ids
  <2>2. Requests'
    BY <2>1, RequestsStay DEF IInv
  <2> QED
    BY <2>1, <2>2, HandlerOnlyKeeps
<1>2. CASE Next
  BY <1>2, RequestKeeps, HandleKeeps, SweepKeeps, WorkKeeps, FarmKeeps, AgeKeeps,
     OperatorKeeps, CrashKeeps DEF Next
<1> QED
  BY <1>1, <1>2

\* Every reachable state satisfies the invariant.
THEOREM Invariance == Spec => []IInv
<1> QED
  BY InitIInv, NextIInv, PTL DEF Spec

\* Jobs, requests, threads and calls always have their types.
THEOREM TypeCorrect == Spec => []TypeOK
<1>1. ASSUME IInv PROVE TypeOK
  <2>1. thread \in [Threads -> Task]
    <3>1. \A t \in Threads : thread[t] \in Task
      BY <1>1 DEF IInv, Workers, Equipped, AnyTask, Task
    <3> QED
      BY <1>1, <3>1 DEF IInv, Workers
  <2> QED
    BY <1>1, <2>1 DEF IInv, Tables, Requests, Calls, TypeOK
<1> QED
  BY <1>1, Invariance, PTL

\* A job shown as done with an eSIM has asked for its record before, so no
\* restart, late answer or second thread loses it.
THEOREM NoRecordLost == Spec => []DoneIsRecorded
<1>1. IInv => DoneIsRecorded
  BY DEF IInv
<1> QED
  BY <1>1, Invariance, PTL

\* A job is sent twice at most, for any number of requests, jobs and restarts:
\* by its own thread and by the loop, if both have read it as pending.
THEOREM NeverSentThrice == Spec => []SentTwiceAtMost
<1>1. Init => Sends
  <2> SUFFICES ASSUME Init PROVE Sends
    OBVIOUS
  <2>1. JobIds \subseteq Threads /\ Loop \in Threads
    BY DEF Threads
  <2>2. /\ \A t \in Threads : thread[t].pc = "idle"
        /\ \A j \in JobIds : sent[j] = 0
    BY DEF Init, Idle
  <2>3. \A t \in Threads, j \in JobIds : Marks(t, j) = 0
    BY <2>2 DEF Marks
  <2>4. \A j \in JobIds : sent[j] + Marks(j, j) + Marks(Loop, j) <= 2
    BY <2>1, <2>2, <2>3
  <2> QED
    BY <2>1, <2>2, <2>4 DEF Sends
<1>2. IInv /\ Sends /\ [Next]_vars => Sends'
  BY NextSends
<1>3. IInv /\ Sends => SentTwiceAtMost
  <2> SUFFICES ASSUME IInv, Sends, NEW j \in Ids PROVE sent[j] <= 2
    BY DEF SentTwiceAtMost
  <2>1. Ids \subseteq JobIds /\ sent \in [JobIds -> Nat]
    BY IdsAre DEF IInv, Tables
  <2>2. sent[j] + Marks(j, j) + Marks(Loop, j) <= 2 /\ sent[j] \in Nat
    BY <2>1 DEF Sends
  <2>3. Marks(j, j) \in {0, 1} /\ Marks(Loop, j) \in {0, 1}
    BY DEF Marks
  <2> QED
    BY <2>2, <2>3
<1> QED
  BY <1>1, <1>2, <1>3, Invariance, PTL DEF Spec

\* Once a job is not pending and no thread stands between having read it as
\* pending and the end of its request, it is never sent to the farm again.  (A
\* second thread that has read the job as pending keeps it from being settled.)
THEOREM SettledForGood == Spec => NeverRunAgain
<1>1. IInv /\ [Next]_vars => [\A j \in Ids : Settled(j) => Settled(j)']_vars
  BY NextSettled
<1> QED
  BY <1>1, Invariance, PTL DEF Spec, NeverRunAgain

\* The assignment of a job that has not started is given up by an operator only,
\* however late other workers end.
THEOREM PendingJobsKeepTheirBay == Spec => PendingJobKeepsItsBay
<1>1. Init => Releasing
  BY DEF Init, Releasing, Idle
<1>2. IInv /\ Releasing /\ [Next]_vars => Releasing'
  BY NextReleasing
<1>3. IInv /\ Releasing /\ [Next]_vars =>
        [\A bay \in Bays :
            /\ assigned[bay] # 0
            /\ jobs[assigned[bay]].status = "pending"
            => assigned'[bay] = assigned[bay] \/ ForceAvailable(bay)]_vars
  BY RowStays
<1> QED
  BY <1>1, <1>2, <1>3, Invariance, PTL DEF Spec, PendingJobKeepsItsBay
================================================================================
