---------------------------- MODULE FarmDaemonProofs ---------------------------
(* Theorems about FarmDaemon, for any jobs, slots, cycles and restarts. *)
EXTENDS FarmDaemon, FiniteSetTheorems, TLAPS

JobsOf(s) == {j \in Jobs : slotOf[j] = s}

\* What a thread of the cycle holds
Thread == [pc : {"idle", "foreign", "path", "run", "submit", "source",
                 "submitted", "verify", "fault", "report"},
           job : Jobs \cup {NoJob}, verdict : Verdicts \cup {"none"}]

Types ==
    /\ TypeOK
    /\ cycle \in [pc : {"idle", "flush", "foreign", "work"}, flush : SUBSET Jobs, number : Nat]

\* A thread works on jobs of its own slot, so no two share one; between the
\* cycles and while reports are flushed none works.
Assigned ==
    /\ \A s \in Workers : todo[s] \in Seq(JobsOf(s))
    /\ \A s \in Workers : worker[s].pc # "idle" => worker[s].job \in JobsOf(s)
    /\ worker[NoSlot].pc \in {"idle", "foreign", "report"}
    /\ \A s \in Slots : worker[s].pc # "foreign"
    /\ cycle.pc \in {"idle", "flush"} => \A s \in Workers : worker[s].pc = "idle"

\* Whoever works on a phone holds its lock.
Locks ==
    /\ \A s \in Slots : worker[s].pc \notin {"idle", "report"} => lock[s] = "job"
    /\ \A s \in Slots : proxy[s] = "route" => lock[s] = "proxy"
    /\ health.pc = "reboot" => lock[health.slot] = "health"
    /\ health.pc # "idle" => health.slot \in Slots

\* Which state a job is in where its thread is
Fits(pc, state) ==
    /\ pc \in {"run", "fault", "foreign"} => state # "none"
    /\ pc \in {"submit", "source"} => state = "waiting_for_activation"
    /\ pc = "submitted" => state = "activation_submitted"
    /\ pc = "verify" => state = "verification"
    /\ pc \in {"run", "submit", "source", "submitted", "verify"} => human
    /\ pc = "fault" /\ human => state \in {"waiting_for_activation", "verification"}

Places == \A s \in Workers : Fits(worker[s].pc, record[worker[s].job])

\* A job becomes active only by a confirmation, which then is its result.
Actives ==
    \A j \in Jobs : record[j] = "active" =>
        /\ human /\ slotOf[j] \in Slots
        /\ result[j] = "confirmed" /\ latest[j] = "confirmed"

Reporting(j) == \E s \in Workers : worker[s].pc = "report" /\ worker[s].job = j

\* A thread reports the newest result; an older report waits only until then.
Reports ==
    /\ \A s \in Workers : worker[s].pc = "report"
           => worker[s].verdict = latest[worker[s].job] /\ worker[s].verdict # "none"
    /\ \A j \in Jobs : pending[j] # "none" => pending[j] = latest[j] \/ Reporting(j)
    /\ \A j \in cycle.flush : pending[j] # "none"
    /\ cycle.pc \notin {"flush"} => cycle.flush = {}

\* The inductive invariant
IInv == Types /\ Assigned /\ Locks /\ Places /\ Actives /\ Reports /\ NewestReportKept

--------------------------------------------------------------------------------
(* Threads, locks and transitions *)

\* The loop is not a slot.
LEMMA WorkersAre ==
  /\ Slots \subseteq Workers /\ NoSlot \in Workers /\ NoSlot \notin Slots
  /\ \A s \in Workers : s \notin Slots => s = NoSlot
  BY DaemonAssumption DEF Workers

\* A thread at work has a job of its slot.
LEMMA ThreadOf ==
  ASSUME Types, Assigned, NEW s \in Workers
  PROVE  /\ worker[s] \in Thread
         /\ worker[s].pc # "idle" => worker[s].job \in Jobs /\ slotOf[worker[s].job] = s
         /\ \A j \in Jobs : /\ record[j] \in JobStates \cup {"none"}
                            /\ result[j] \in Verdicts \cup {"none"}
                            /\ latest[j] \in Verdicts \cup {"none"}
                            /\ pending[j] \in Verdicts \cup {"none"}
  BY DEF Types, TypeOK, Assigned, Thread, JobsOf

\* What moves the record of a job
Moves(old, new) ==
    \/ old = new
    \/ old = "none" /\ new = "pending"
    \/ old # "none" /\ <<old, new>> \in Table!Allowed

\* The step of s leaves its thread as w and its job's record, result and newest
\* result as `state`, `kept` and `last`; a thread that has its result gives its
\* slot back.
Worked(s, w, state, kept, last) ==
    LET j == worker[s].job
    IN  /\ worker[s].pc \notin {"idle", "report"}
        /\ w \in Thread /\ w.job = j /\ w.pc # "idle"
        /\ w.pc = "foreign" => worker[s].pc = "foreign"
        /\ s = NoSlot => w.pc \in {"foreign", "report"}
        /\ worker' = [worker EXCEPT ![s] = w]
        /\ state \in JobStates \cup {"none"} /\ record' = [record EXCEPT ![j] = state]
        /\ Moves(record[j], state) /\ Fits(w.pc, state)
        /\ kept \in Verdicts \cup {"none"} /\ result' = [result EXCEPT ![j] = kept]
        /\ last \in Verdicts \cup {"none"} /\ latest' = [latest EXCEPT ![j] = last]
        /\ IF w.pc = "report" THEN last # "none" /\ w.verdict = last ELSE last = latest[j]
        /\ lock' = IF w.pc = "report" /\ s \in Slots THEN [lock EXCEPT ![s] = "free"] ELSE lock
        /\ state = "active" => /\ human /\ slotOf[j] \in Slots
                               /\ kept = "confirmed" /\ last = "confirmed"
        /\ UNCHANGED <<slotOf, human, pending, told, cycle, todo, proxy, health,
                       failures, restarts>>

\* No job left to do
LEMMA NothingToDo ==
  ASSUME NEW S
  PROVE  <<>> \in Seq(S)
  OBVIOUS

\* What a step of a thread leaves alone
LEMMA JobKept ==
  ASSUME Types
  PROVE  /\ \A j \in Jobs : /\ record = [record EXCEPT ![j] = record[j]]
                            /\ result = [result EXCEPT ![j] = result[j]]
                            /\ latest = [latest EXCEPT ![j] = latest[j]]
  BY DEF Types, TypeOK

\* A thread goes on.
LEMMA StepIs ==
  ASSUME NEW s, NEW pc \in {"idle", "foreign", "path", "run", "submit", "source",
                 "submitted", "verify", "fault", "report"},
         worker[s] \in Thread, Step(s, pc)
  PROVE  \E w \in Thread :
            /\ worker' = [worker EXCEPT ![s] = w]
            /\ w.pc = pc /\ w.job = worker[s].job
<1> DEFINE w == [worker[s] EXCEPT !.pc = pc]
<1>1. w \in Thread /\ w.pc = pc /\ w.job = worker[s].job
  BY DEF Thread
<1> QED
  BY <1>1 DEF Step

\* A thread has its result.
LEMMA ConcludeIs ==
  ASSUME NEW s, NEW verdict \in Verdicts, worker[s] \in Thread, Conclude(s, verdict)
  PROVE  \E w \in Thread :
            /\ worker' = [worker EXCEPT ![s] = w]
            /\ w.pc = "report" /\ w.job = worker[s].job /\ w.verdict = verdict
            /\ latest' = [latest EXCEPT ![worker[s].job] = verdict]
            /\ lock' = IF s \in Slots THEN [lock EXCEPT ![s] = "free"] ELSE lock
<1> DEFINE w == [worker[s] EXCEPT !.pc = "report", !.verdict = verdict]
<1>1. w \in Thread /\ w.pc = "report" /\ w.job = worker[s].job /\ w.verdict = verdict
  BY DEF Thread
<1> QED
  BY <1>1 DEF Conclude

\* _ensure_record
LEMMA RecordedIs ==
  ASSUME Types, NEW j \in Jobs, Recorded(j)
  PROVE  LET state == IF record[j] = "none" THEN "pending" ELSE record[j]
         IN  /\ record' = [record EXCEPT ![j] = state] /\ state # "none"
             /\ state \in JobStates /\ Moves(record[j], state)
<1>1. record[j] \in JobStates \cup {"none"} /\ record = [record EXCEPT ![j] = record[j]]
      /\ "pending" \in JobStates
  BY DEF Types, TypeOK, JobStates
<1> QED
  BY <1>1 DEF Recorded, Advance, Moves

\* What StateAfter may lead to, and the verdicts
LEMMA VerdictsAre ==
  /\ \A v \in Verdicts : StateAfter(v) \in {"active", "waiting_for_activation", "retryable", "failed"}
  /\ \A v \in Verdicts : StateAfter(v) = "active" => v = "confirmed"
  /\ {"confirmed", "partial", "failed", "unknown", "human", "notRunnable"} \subseteq Verdicts
  /\ "none" \notin Verdicts
  BY DEF StateAfter, Verdicts

--------------------------------------------------------------------------------
(* The steps of a thread *)

\* _fail_preflight
LEMMA ForeignFailWorked ==
  ASSUME IInv, ForeignFail
  PROVE  \E w, state, kept, last : Worked(NoSlot, w, state, kept, last)
<1> DEFINE j == worker[NoSlot].job
<1>1. /\ worker[NoSlot].pc = "foreign" /\ worker[NoSlot] \in Thread
      /\ j \in Jobs /\ slotOf[j] = NoSlot /\ NoSlot \notin Slots
      /\ record[j] \in JobStates /\ latest[j] \in Verdicts \cup {"none"}
      /\ record[j] # "active" /\ Types /\ result[j] \in Verdicts \cup {"none"}
      /\ worker = [worker EXCEPT ![NoSlot] = worker[NoSlot]]
      /\ record = [record EXCEPT ![j] = record[j]]
      /\ result = [result EXCEPT ![j] = result[j]]
      /\ latest = [latest EXCEPT ![j] = latest[j]]
  BY ThreadOf, WorkersAre, JobKept
     DEF IInv, ForeignFail, Places, Fits, Actives, Types, TypeOK
<1>2. UNCHANGED <<slotOf, human, pending, told, cycle, todo, proxy, health,
                  failures, restarts>>
  BY DEF ForeignFail, config, healthVars
<1>3. CASE record[j] \in {"pending", "claimed"}
  <2> DEFINE state == IF record[j] = "pending" THEN "claimed" ELSE "preflight"
  <2>1. /\ record' = [record EXCEPT ![j] = state]
        /\ UNCHANGED <<result, worker, latest, lock>>
    BY <1>3 DEF ForeignFail, Advance
  <2>2. Moves(record[j], state) /\ Fits("foreign", state) /\ state \in JobStates
    BY <1>3 DEF Moves, Fits, Table!Allowed, JobStates
  <2>3. Worked(NoSlot, worker[NoSlot], state, result[j], latest[j])
    BY <1>1, <1>2, <2>1, <2>2 DEF Worked
  <2> QED
    BY <2>3
<1>4. CASE record[j] \notin {"pending", "claimed"}
  <2> DEFINE state == IF record[j] \in Terminal THEN record[j] ELSE "failed"
  <2>1. /\ record' = [record EXCEPT ![j] = state]
        /\ result' = [result EXCEPT ![j] = "failed"]
        /\ Conclude(NoSlot, "failed")
    BY <1>1, <1>4 DEF ForeignFail, Advance, Keep
  <2>2. /\ Moves(record[j], state) /\ Fits("report", state) /\ state = "failed"
        /\ state \in JobStates
    BY <1>1, <1>4 DEF Moves, Fits, Table!Allowed, JobStates, Terminal
  <2>3. PICK w \in Thread :
           /\ worker' = [worker EXCEPT ![NoSlot] = w]
           /\ w.pc = "report" /\ w.job = j /\ w.verdict = "failed"
           /\ latest' = [latest EXCEPT ![j] = "failed"]
           /\ UNCHANGED lock
    BY <1>1, <2>1, ConcludeIs, VerdictsAre
  <2>4. Worked(NoSlot, w, state, "failed", "failed")
    BY <1>1, <1>2, <2>1, <2>2, <2>3, VerdictsAre DEF Worked
  <2> QED
    BY <2>4
<1> QED
  BY <1>3, <1>4

\* What the facts about a thread of a slot at work are, where they are needed
LEMMA AtWork ==
  ASSUME IInv, NEW s \in Slots, worker[s].pc # "idle"
  PROVE  LET j == worker[s].job
         IN  /\ Types /\ worker[s] \in Thread /\ s \in Workers /\ s # NoSlot
             /\ worker[s].pc # "foreign"
             /\ j \in Jobs /\ slotOf[j] = s
             /\ record[j] \in JobStates \cup {"none"}
             /\ result[j] \in Verdicts \cup {"none"}
             /\ latest[j] \in Verdicts \cup {"none"}
             /\ Fits(worker[s].pc, record[j])
             /\ record[j] = "active" =>
                   human /\ result[j] = "confirmed" /\ latest[j] = "confirmed"
             /\ worker = [worker EXCEPT ![s] = worker[s]]
             /\ record = [record EXCEPT ![j] = record[j]]
             /\ result = [result EXCEPT ![j] = result[j]]
             /\ latest = [latest EXCEPT ![j] = latest[j]]
  BY ThreadOf, WorkersAre, JobKept
     DEF IInv, Places, Actives, Types, TypeOK, Assigned

\* The kind of path
LEMMA PathWorked ==
  ASSUME IInv, NEW s \in Slots, Path(s)
  PROVE  \E w, state, kept, last : Worked(s, w, state, kept, last)
<1> DEFINE j == worker[s].job
           state == IF record[j] = "none" THEN "pending" ELSE record[j]
<1>1. /\ worker[s].pc = "path" /\ worker[s] \in Thread /\ Types
      /\ j \in Jobs /\ slotOf[j] = s /\ s # NoSlot
      /\ record[j] \in JobStates \cup {"none"} /\ latest[j] \in Verdicts \cup {"none"}
      /\ result[j] \in Verdicts \cup {"none"}
      /\ record[j] = "active" => human /\ result[j] = "confirmed" /\ latest[j] = "confirmed"
      /\ record = [record EXCEPT ![j] = record[j]]
      /\ result = [result EXCEPT ![j] = result[j]]
      /\ latest = [latest EXCEPT ![j] = latest[j]]
  BY AtWork DEF Path
<1>2. UNCHANGED <<slotOf, human, result, pending, told, cycle, todo, proxy, health,
                  failures, restarts>>
  BY DEF Path, config, healthVars
<1>3. CASE human /\ Step(s, "run") /\ Recorded(j) /\ UNCHANGED <<latest, lock>>
  <2>1. PICK w \in Thread :
           worker' = [worker EXCEPT ![s] = w] /\ w.pc = "run" /\ w.job = j
    BY <1>1, <1>3, StepIs
  <2>2. /\ record' = [record EXCEPT ![j] = state] /\ state # "none"
        /\ state \in JobStates /\ Moves(record[j], state)
        /\ state = "active" => record[j] = "active"
    BY <1>1, <1>3, RecordedIs
  <2> HIDE DEF state
  <2>3. Fits("run", state)
    BY <1>3, <2>2 DEF Fits
  <2>4. Worked(s, w, state, result[j], latest[j])
    BY <1>1, <1>2, <1>3, <2>1, <2>2, <2>3 DEF Worked
  <2> QED
    BY <2>4
<1>4. CASE ~human /\ Step(s, "fault") /\ Recorded(j) /\ UNCHANGED <<latest, lock>>
  <2>1. PICK w \in Thread :
           worker' = [worker EXCEPT ![s] = w] /\ w.pc = "fault" /\ w.job = j
    BY <1>1, <1>4, StepIs
  <2>2. /\ record' = [record EXCEPT ![j] = state] /\ state # "none"
        /\ state \in JobStates /\ Moves(record[j], state)
        /\ state = "active" => record[j] = "active"
    BY <1>1, <1>4, RecordedIs
  <2> HIDE DEF state
  <2>3. Fits("fault", state)
    BY <1>4, <2>2 DEF Fits
  <2>4. Worked(s, w, state, result[j], latest[j])
    BY <1>1, <1>2, <1>4, <2>1, <2>2, <2>3 DEF Worked
  <2> QED
    BY <2>4
<1>5. CASE /\ ~human /\ UNCHANGED record
           /\ \E verdict \in {"confirmed", "partial", "failed", "unknown"} : Conclude(s, verdict)
  <2>1. PICK verdict \in {"confirmed", "partial", "failed", "unknown"} : Conclude(s, verdict)
    BY <1>5
  <2>2. verdict \in Verdicts /\ verdict # "none"
    BY VerdictsAre
  <2>3. PICK w \in Thread :
           /\ worker' = [worker EXCEPT ![s] = w]
           /\ w.pc = "report" /\ w.job = j /\ w.verdict = verdict
           /\ latest' = [latest EXCEPT ![j] = verdict]
           /\ lock' = IF s \in Slots THEN [lock EXCEPT ![s] = "free"] ELSE lock
    BY <1>1, <2>1, <2>2, ConcludeIs
  <2>4. Moves(record[j], record[j]) /\ Fits("report", record[j])
    BY DEF Moves, Fits
  <2>5. Worked(s, w, record[j], result[j], verdict)
    BY <1>1, <1>2, <1>5, <2>2, <2>3, <2>4 DEF Worked
  <2> QED
    BY <2>5
<1> QED
  BY <1>3, <1>4, <1>5 DEF Path

\* _advance_human_job before the activation
LEMMA PrepareWorked ==
  ASSUME IInv, NEW s \in Slots, Prepare(s)
  PROVE  \E w, state, kept, last : Worked(s, w, state, kept, last)
<1> DEFINE j == worker[s].job
           state == CASE record[j] = "pending"   -> "claimed"
                      [] record[j] = "preflight" -> "waiting_for_activation"
                      [] OTHER                   -> "preflight"
           pc == IF record[j] = "preflight" THEN "submit" ELSE "run"
<1>1. /\ worker[s].pc = "run" /\ worker[s] \in Thread /\ Types /\ human
      /\ j \in Jobs /\ slotOf[j] = s /\ s # NoSlot
      /\ record[j] \in {"pending", "claimed", "retryable", "preflight"}
      /\ latest[j] \in Verdicts \cup {"none"} /\ result[j] \in Verdicts \cup {"none"}
      /\ result = [result EXCEPT ![j] = result[j]]
      /\ latest = [latest EXCEPT ![j] = latest[j]]
  BY AtWork DEF Prepare, Fits
<1>2. /\ UNCHANGED <<slotOf, human, result, pending, told, latest, cycle, todo, lock, proxy,
                     health, failures, restarts>>
      /\ record' = [record EXCEPT ![j] = state] /\ Step(s, pc)
  BY DEF Prepare, config, healthVars, Advance
<1>3. /\ pc \in {"run", "submit"} /\ state # "active" /\ state \in JobStates
      /\ Moves(record[j], state) /\ Fits(pc, state)
  BY <1>1 DEF JobStates, Moves, Table!Allowed, Fits
<1> HIDE DEF state, pc
<1>4. PICK w \in Thread : worker' = [worker EXCEPT ![s] = w] /\ w.pc = pc /\ w.job = j
  BY <1>1, <1>2, <1>3, StepIs
<1>5. Worked(s, w, state, result[j], latest[j])
  BY <1>1, <1>2, <1>3, <1>4 DEF Worked
<1> QED
  BY <1>5

\* ... and from a later state
LEMMA ResumeWorked ==
  ASSUME IInv, NEW s \in Slots, Resume(s)
  PROVE  \E w, state, kept, last : Worked(s, w, state, kept, last)
<1> DEFINE j == worker[s].job
<1>1. /\ worker[s].pc = "run" /\ worker[s] \in Thread /\ Types /\ human
      /\ j \in Jobs /\ slotOf[j] = s /\ s # NoSlot
      /\ record[j] \in Terminal \cup {"waiting_for_activation"}
      /\ latest[j] \in Verdicts \cup {"none"} /\ result[j] \in Verdicts \cup {"none"}
      /\ record[j] = "active" => human /\ result[j] = "confirmed" /\ latest[j] = "confirmed"
      /\ record = [record EXCEPT ![j] = record[j]]
      /\ result = [result EXCEPT ![j] = result[j]]
      /\ latest = [latest EXCEPT ![j] = latest[j]]
  BY AtWork DEF Resume, Fits
<1>2. UNCHANGED <<slotOf, human, record, result, pending, told, cycle, todo, proxy,
                  health, failures, restarts>>
  BY DEF Resume, config, healthVars
<1>3. /\ record[j] \in JobStates /\ Moves(record[j], record[j])
      /\ Fits("report", record[j])
  BY <1>1 DEF JobStates, Terminal, Moves, Fits
<1>4. CASE record[j] \in Terminal
  <2> DEFINE verdict == IF result[j] # "none" THEN result[j] ELSE "notRunnable"
  <2>1. verdict \in Verdicts /\ verdict # "none"
        /\ (record[j] = "active" => verdict = "confirmed")
    BY <1>1, VerdictsAre
  <2>2. Conclude(s, verdict)
    BY <1>4 DEF Resume
  <2> HIDE DEF verdict
  <2>3. PICK w \in Thread :
           /\ worker' = [worker EXCEPT ![s] = w]
           /\ w.pc = "report" /\ w.job = j /\ w.verdict = verdict
           /\ latest' = [latest EXCEPT ![j] = verdict]
           /\ lock' = IF s \in Slots THEN [lock EXCEPT ![s] = "free"] ELSE lock
    BY <1>1, <2>1, <2>2, ConcludeIs
  <2>4. Worked(s, w, record[j], result[j], verdict)
    BY <1>1, <1>2, <1>3, <2>1, <2>3 DEF Worked
  <2> QED
    BY <2>4
<1>5. CASE record[j] \notin Terminal
  <2>1. Step(s, "source") /\ UNCHANGED <<latest, lock>> /\ record[j] = "waiting_for_activation"
    BY <1>1, <1>5 DEF Resume
  <2>2. PICK w \in Thread : worker' = [worker EXCEPT ![s] = w] /\ w.pc = "source" /\ w.job = j
    BY <1>1, <2>1, StepIs
  <2>3. Fits("source", record[j])
    BY <1>1, <2>1 DEF Fits
  <2>4. Worked(s, w, record[j], result[j], latest[j])
    BY <1>1, <1>2, <1>3, <2>1, <2>2, <2>3 DEF Worked
  <2> QED
    BY <2>4
<1> QED
  BY <1>4, <1>5

\* submit_activation
LEMMA SubmitWorked ==
  ASSUME IInv, NEW s \in Slots, SubmitActivation(s)
  PROVE  \E w, state, kept, last : Worked(s, w, state, kept, last)
<1> DEFINE j == worker[s].job
<1>1. /\ worker[s].pc = "submit" /\ worker[s] \in Thread /\ Types /\ human
      /\ j \in Jobs /\ slotOf[j] = s /\ s # NoSlot
      /\ record[j] = "waiting_for_activation"
      /\ latest[j] \in Verdicts \cup {"none"} /\ result[j] \in Verdicts \cup {"none"}
      /\ record = [record EXCEPT ![j] = record[j]]
      /\ result = [result EXCEPT ![j] = result[j]]
      /\ latest = [latest EXCEPT ![j] = latest[j]]
  BY AtWork DEF SubmitActivation, Fits
<1>2. UNCHANGED <<slotOf, human, record, result, pending, told, latest, cycle, todo, lock,
                  proxy, health, failures, restarts>>
  BY DEF SubmitActivation, jobVars, config, healthVars
<1>3. PICK pc \in {"source", "fault"} : Step(s, pc)
  BY DEF SubmitActivation
<1>4. PICK w \in Thread : worker' = [worker EXCEPT ![s] = w] /\ w.pc = pc /\ w.job = j
  BY <1>1, <1>3, StepIs
<1>5. record[j] \in JobStates /\ Moves(record[j], record[j]) /\ Fits(pc, record[j])
  BY <1>1 DEF JobStates, Moves, Fits
<1>6. Worked(s, w, record[j], result[j], latest[j])
  BY <1>1, <1>2, <1>3, <1>4, <1>5 DEF Worked
<1> QED
  BY <1>6

\* The verification source
LEMMA SourceWorked ==
  ASSUME IInv, NEW s \in Slots, Source(s)
  PROVE  \E w, state, kept, last : Worked(s, w, state, kept, last)
<1> DEFINE j == worker[s].job
<1>1. /\ worker[s].pc = "source" /\ worker[s] \in Thread /\ Types /\ human
      /\ j \in Jobs /\ slotOf[j] = s /\ s # NoSlot
      /\ record[j] = "waiting_for_activation"
      /\ latest[j] \in Verdicts \cup {"none"} /\ result[j] \in Verdicts \cup {"none"}
      /\ record = [record EXCEPT ![j] = record[j]]
      /\ result = [result EXCEPT ![j] = result[j]]
      /\ latest = [latest EXCEPT ![j] = latest[j]]
  BY AtWork DEF Source, Fits
<1>2. UNCHANGED <<slotOf, human, pending, told, cycle, todo, proxy,
                  health, failures, restarts>>
  BY DEF Source, config, healthVars
<1>3. /\ record[j] \in JobStates /\ "activation_submitted" \in JobStates
      /\ Moves(record[j], record[j]) /\ Moves(record[j], "activation_submitted")
      /\ Fits("report", record[j]) /\ Fits("submitted", "activation_submitted")
      /\ Fits("fault", record[j])
  BY <1>1 DEF JobStates, Moves, Table!Allowed, Fits
<1>4. CASE Conclude(s, "human") /\ Keep(j, "human") /\ UNCHANGED record
  <2>1. PICK w \in Thread :
           /\ worker' = [worker EXCEPT ![s] = w]
           /\ w.pc = "report" /\ w.job = j /\ w.verdict = "human"
           /\ latest' = [latest EXCEPT ![j] = "human"]
           /\ lock' = IF s \in Slots THEN [lock EXCEPT ![s] = "free"] ELSE lock
    BY <1>1, <1>4, ConcludeIs, VerdictsAre
  <2>2. Worked(s, w, record[j], "human", "human")
    BY <1>1, <1>2, <1>3, <1>4, <2>1, VerdictsAre DEF Worked, Keep
  <2> QED
    BY <2>2
<1>5. CASE /\ Step(s, "submitted") /\ Advance(j, "activation_submitted")
           /\ UNCHANGED <<result, latest, lock>>
  <2>1. PICK w \in Thread :
           worker' = [worker EXCEPT ![s] = w] /\ w.pc = "submitted" /\ w.job = j
    BY <1>1, <1>5, StepIs
  <2>2. Worked(s, w, "activation_submitted", result[j], latest[j])
    BY <1>1, <1>2, <1>3, <1>5, <2>1 DEF Worked, Advance
  <2> QED
    BY <2>2
<1>6. CASE Step(s, "fault") /\ UNCHANGED <<record, result, latest, lock>>
  <2>1. PICK w \in Thread :
           worker' = [worker EXCEPT ![s] = w] /\ w.pc = "fault" /\ w.job = j
    BY <1>1, <1>6, StepIs
  <2>2. Worked(s, w, record[j], result[j], latest[j])
    BY <1>1, <1>2, <1>3, <1>6, <2>1 DEF Worked
  <2> QED
    BY <2>2
<1> QED
  BY <1>4, <1>5, <1>6 DEF Source

\* The activation is submitted.
LEMMA SubmittedWorked ==
  ASSUME IInv, NEW s \in Slots, Submitted(s)
  PROVE  \E w, state, kept, last : Worked(s, w, state, kept, last)
<1> DEFINE j == worker[s].job
<1>1. /\ worker[s].pc = "submitted" /\ worker[s] \in Thread /\ Types /\ human
      /\ j \in Jobs /\ slotOf[j] = s /\ s # NoSlot
      /\ record[j] = "activation_submitted"
      /\ latest[j] \in Verdicts \cup {"none"} /\ result[j] \in Verdicts \cup {"none"}
      /\ result = [result EXCEPT ![j] = result[j]]
      /\ latest = [latest EXCEPT ![j] = latest[j]]
  BY AtWork DEF Submitted, Fits
<1>2. /\ UNCHANGED <<slotOf, human, result, pending, told, latest, cycle, todo, lock,
                     proxy, health, failures, restarts>>
      /\ record' = [record EXCEPT ![j] = "verification"]
  BY DEF Submitted, config, healthVars, Advance
<1>3. PICK w \in Thread : worker' = [worker EXCEPT ![s] = w] /\ w.pc = "verify" /\ w.job = j
  BY <1>1, StepIs DEF Submitted
<1>4. /\ "verification" \in JobStates /\ Moves(record[j], "verification")
      /\ Fits("verify", "verification")
  BY <1>1 DEF JobStates, Moves, Table!Allowed, Fits
<1>5. Worked(s, w, "verification", result[j], latest[j])
  BY <1>1, <1>2, <1>3, <1>4 DEF Worked
<1> QED
  BY <1>5

\* verify_profile
LEMMA VerifyWorked ==
  ASSUME IInv, NEW s \in Slots, Verify(s)
  PROVE  \E w, state, kept, last : Worked(s, w, state, kept, last)
<1> DEFINE j == worker[s].job
<1>1. /\ worker[s].pc = "verify" /\ worker[s] \in Thread /\ Types /\ human
      /\ j \in Jobs /\ slotOf[j] = s /\ s # NoSlot
      /\ record[j] = "verification"
      /\ latest[j] \in Verdicts \cup {"none"} /\ result[j] \in Verdicts \cup {"none"}
      /\ record = [record EXCEPT ![j] = record[j]]
      /\ result = [result EXCEPT ![j] = result[j]]
      /\ latest = [latest EXCEPT ![j] = latest[j]]
  BY AtWork DEF Verify, Fits
<1>2. UNCHANGED <<slotOf, human, pending, told, cycle, todo, proxy,
                  health, failures, restarts>>
  BY DEF Verify, config, healthVars
<1>3. CASE \E verdict \in {"confirmed", "partial", "failed", "unknown"} :
              Advance(j, StateAfter(verdict)) /\ Keep(j, verdict) /\ Conclude(s, verdict)
  <2>1. PICK verdict \in {"confirmed", "partial", "failed", "unknown"} :
           Advance(j, StateAfter(verdict)) /\ Keep(j, verdict) /\ Conclude(s, verdict)
    BY <1>3
  <2>2. verdict \in Verdicts /\ verdict # "none"
    BY VerdictsAre
  <2> DEFINE state == StateAfter(verdict)
  <2>3. /\ state \in {"active", "waiting_for_activation", "retryable", "failed"}
        /\ state = "active" => verdict = "confirmed"
    BY <2>2, VerdictsAre
  <2>4. record' = [record EXCEPT ![j] = state] /\ result' = [result EXCEPT ![j] = verdict]
    BY <2>1 DEF Advance, Keep
  <2> HIDE DEF state
  <2>5. state \in JobStates /\ Moves(record[j], state) /\ Fits("report", state)
    BY <1>1, <2>3 DEF JobStates, Moves, Table!Allowed, Fits
  <2>6. PICK w \in Thread :
           /\ worker' = [worker EXCEPT ![s] = w]
           /\ w.pc = "report" /\ w.job = j /\ w.verdict = verdict
           /\ latest' = [latest EXCEPT ![j] = verdict]
           /\ lock' = IF s \in Slots THEN [lock EXCEPT ![s] = "free"] ELSE lock
    BY <1>1, <2>1, <2>2, ConcludeIs
  <2>7. Worked(s, w, state, verdict, verdict)
    BY <1>1, <1>2, <2>2, <2>3, <2>4, <2>5, <2>6 DEF Worked
  <2> QED
    BY <2>7
<1>4. CASE Step(s, "fault") /\ UNCHANGED <<record, result, latest, lock>>
  <2>1. PICK w \in Thread :
           worker' = [worker EXCEPT ![s] = w] /\ w.pc = "fault" /\ w.job = j
    BY <1>1, <1>4, StepIs
  <2>2. record[j] \in JobStates /\ Moves(record[j], record[j]) /\ Fits("fault", record[j])
    BY <1>1 DEF JobStates, Moves, Fits
  <2>3. Worked(s, w, record[j], result[j], latest[j])
    BY <1>1, <1>2, <1>4, <2>1, <2>2 DEF Worked
  <2> QED
    BY <2>3
<1> QED
  BY <1>3, <1>4 DEF Verify

\* _retryable_or_failed
LEMMA FaultWorked ==
  ASSUME IInv, NEW s \in Slots, Fault(s)
  PROVE  \E w, state, kept, last : Worked(s, w, state, kept, last)
<1> DEFINE j == worker[s].job
           state == CASE record[j] = "pending"   -> "claimed"
                      [] record[j] = "preflight" -> "retryable"
                      [] OTHER -> IF record[j] \in Terminal THEN record[j] ELSE "failed"
           verdict == IF record[j] = "preflight" THEN "unknown" ELSE "failed"
<1>1. /\ worker[s].pc = "fault" /\ worker[s] \in Thread /\ Types
      /\ j \in Jobs /\ slotOf[j] = s /\ s # NoSlot
      /\ record[j] \in JobStates /\ record[j] # "active"
      /\ human => record[j] \in {"waiting_for_activation", "verification"}
      /\ latest[j] \in Verdicts \cup {"none"} /\ result[j] \in Verdicts \cup {"none"}
      /\ worker = [worker EXCEPT ![s] = worker[s]]
      /\ record = [record EXCEPT ![j] = record[j]]
      /\ result = [result EXCEPT ![j] = result[j]]
      /\ latest = [latest EXCEPT ![j] = latest[j]]
  BY AtWork DEF Fault, Fits
<1>2. /\ UNCHANGED <<slotOf, human, result, pending, told, cycle, todo, proxy,
                     health, failures, restarts>>
      /\ record' = [record EXCEPT ![j] = state]
  BY <1>1 DEF Fault, config, healthVars, Advance
<1>3. /\ state \in JobStates /\ state # "active" /\ Moves(record[j], state)
      /\ Fits("report", state)
  BY <1>1 DEF JobStates, Terminal, Moves, Table!Allowed, Fits
<1>4. CASE record[j] = "pending"
  <2>1. UNCHANGED <<worker, latest, lock>> /\ Fits("fault", state)
    BY <1>1, <1>4 DEF Fault, Fits
  <2> HIDE DEF state
  <2>2. Worked(s, worker[s], state, result[j], latest[j])
    BY <1>1, <1>2, <1>3, <2>1 DEF Worked
  <2> QED
    BY <2>2
<1>5. CASE record[j] # "pending"
  <2>1. Conclude(s, verdict) /\ verdict \in Verdicts /\ verdict # "none"
    BY <1>5, VerdictsAre DEF Fault
  <2> HIDE DEF state, verdict
  <2>2. PICK w \in Thread :
           /\ worker' = [worker EXCEPT ![s] = w]
           /\ w.pc = "report" /\ w.job = j /\ w.verdict = verdict
           /\ latest' = [latest EXCEPT ![j] = verdict]
           /\ lock' = IF s \in Slots THEN [lock EXCEPT ![s] = "free"] ELSE lock
    BY <1>1, <2>1, ConcludeIs
  <2>3. Worked(s, w, state, result[j], verdict)
    BY <1>1, <1>2, <1>3, <2>1, <2>2 DEF Worked
  <2> QED
    BY <2>3
<1> QED
  BY <1>4, <1>5

--------------------------------------------------------------------------------
(* Why such a step keeps the invariant *)

\* The tables after the step, entry by entry; other threads have other jobs.
LEMMA WorkedEach ==
  ASSUME IInv, NEW s \in Workers, NEW w, NEW state, NEW kept, NEW last,
         Worked(s, w, state, kept, last)
  PROVE  LET j == worker[s].job
         IN  /\ j \in Jobs /\ slotOf[j] = s
             /\ \A p \in Workers : worker'[p] = IF p = s THEN w ELSE worker[p]
             /\ \A p \in Workers : p # s /\ worker[p].pc # "idle" => worker[p].job # j
             /\ \A i \in Jobs : record'[i] = IF i = j THEN state ELSE record[i]
             /\ \A i \in Jobs : result'[i] = IF i = j THEN kept ELSE result[i]
             /\ \A i \in Jobs : latest'[i] = IF i = j THEN last ELSE latest[i]
<1> DEFINE j == worker[s].job
<1>1. j \in Jobs /\ slotOf[j] = s
  BY ThreadOf DEF IInv, Worked
<1>2. \A p \in Workers : p # s /\ worker[p].pc # "idle" => worker[p].job # j
  BY <1>1, ThreadOf DEF IInv
<1>3. /\ worker' = [worker EXCEPT ![s] = w] /\ record' = [record EXCEPT ![j] = state]
      /\ result' = [result EXCEPT ![j] = kept] /\ latest' = [latest EXCEPT ![j] = last]
  BY DEF Worked
<1> HIDE DEF j
<1>4. /\ \A p \in Workers : worker'[p] = IF p = s THEN w ELSE worker[p]
      /\ \A i \in Jobs : record'[i] = IF i = j THEN state ELSE record[i]
      /\ \A i \in Jobs : result'[i] = IF i = j THEN kept ELSE result[i]
      /\ \A i \in Jobs : latest'[i] = IF i = j THEN last ELSE latest[i]
  BY <1>3 DEF IInv, Types, TypeOK
<1> QED
  BY <1>1, <1>2, <1>4 DEF j

\* Types and assignments
LEMMA WorkedTypes ==
  ASSUME IInv, NEW s \in Workers, NEW w, NEW state, NEW kept, NEW last,
         Worked(s, w, state, kept, last)
  PROVE  Types' /\ Assigned'
<1> DEFINE j == worker[s].job
<1>1. /\ j \in Jobs /\ slotOf[j] = s
      /\ \A p \in Workers : worker'[p] = IF p = s THEN w ELSE worker[p]
  BY WorkedEach
<1>2. TypeOK'
  <2>1. /\ record' \in [Jobs -> JobStates \cup {"none"}]
        /\ result' \in [Jobs -> Verdicts \cup {"none"}]
        /\ latest' \in [Jobs -> Verdicts \cup {"none"}]
    <3>1. /\ record \in [Jobs -> JobStates \cup {"none"}]
          /\ result \in [Jobs -> Verdicts \cup {"none"}]
          /\ latest \in [Jobs -> Verdicts \cup {"none"}]
      BY DEF IInv, Types, TypeOK
    <3> QED
      BY <3>1 DEF Worked
  <2>2. worker' \in [Workers -> Thread]
    BY DEF IInv, Types, TypeOK, Worked, Thread
  <2>3. lock' \in [Slots -> {"free", "job", "proxy", "health"}]
    BY DEF IInv, Types, TypeOK, Worked
  <2>4. UNCHANGED <<slotOf, human, pending, told, cycle, todo, proxy, health,
                    failures, restarts>>
    BY DEF Worked
  <2> QED
    BY <2>1, <2>2, <2>3, <2>4 DEF IInv, Types, TypeOK, Thread
<1>3. Types'
  BY <1>2 DEF IInv, Types, Worked
<1>4. Assigned'
  <2>1. /\ w.job = j /\ worker[s].pc # "idle"
        /\ s = NoSlot => w.pc \in {"foreign", "report"}
        /\ w.pc = "foreign" => worker[s].pc = "foreign"
        /\ UNCHANGED <<slotOf, todo, cycle>>
    BY DEF Worked
  <2>2. \A p \in Workers : worker'[p].pc # "idle" => worker'[p].job \in JobsOf(p)
    BY <1>1, <2>1 DEF IInv, Assigned, JobsOf
  <2>3. /\ worker'[NoSlot].pc \in {"idle", "foreign", "report"}
        /\ \A p \in Slots : worker'[p].pc # "foreign"
    BY <1>1, <2>1, WorkersAre DEF IInv, Assigned
  <2>4. cycle.pc \notin {"idle", "flush"}
    BY <2>1 DEF IInv, Assigned
  <2> QED
    BY <2>1, <2>2, <2>3, <2>4 DEF IInv, Assigned, JobsOf
<1> QED
  BY <1>3, <1>4

\* Locks, records and results
LEMMA WorkedLocks ==
  ASSUME IInv, NEW s \in Workers, NEW w, NEW state, NEW kept, NEW last,
         Worked(s, w, state, kept, last)
  PROVE  Locks' /\ Places' /\ Actives'
<1> DEFINE j == worker[s].job
<1>1. /\ j \in Jobs /\ slotOf[j] = s
      /\ \A p \in Workers : worker'[p] = IF p = s THEN w ELSE worker[p]
      /\ \A p \in Workers : p # s /\ worker[p].pc # "idle" => worker[p].job # j
      /\ \A i \in Jobs : record'[i] = IF i = j THEN state ELSE record[i]
      /\ \A i \in Jobs : result'[i] = IF i = j THEN kept ELSE result[i]
      /\ \A i \in Jobs : latest'[i] = IF i = j THEN last ELSE latest[i]
  BY WorkedEach
<1>2. /\ w.job = j /\ w.pc # "idle" /\ worker[s].pc \notin {"idle", "report"}
      /\ Fits(w.pc, state)
      /\ lock' = IF w.pc = "report" /\ s \in Slots THEN [lock EXCEPT ![s] = "free"] ELSE lock
      /\ state = "active" => /\ human /\ slotOf[j] \in Slots
                             /\ kept = "confirmed" /\ last = "confirmed"
      /\ UNCHANGED <<slotOf, human, proxy, health>>
  BY DEF Worked
<1> HIDE DEF j
<1>3. Locks'
  <2>1. s \in Slots => lock[s] = "job"
    BY <1>2 DEF IInv, Locks
  <2>2. \A p \in Slots : lock'[p] = lock[p] \/ (p = s /\ w.pc = "report")
    BY <1>2 DEF IInv, Types, TypeOK
  <2>3. \A p \in Slots : worker'[p].pc \notin {"idle", "report"} => lock'[p] = "job"
    BY <1>1, <2>1, <2>2, WorkersAre DEF IInv, Locks
  <2>4. \A p \in Slots : proxy[p] = "route" => lock'[p] = "proxy"
    BY <2>1, <2>2 DEF IInv, Locks
  <2>5. health.pc = "reboot" => lock'[health.slot] = "health"
    BY <2>1, <2>2 DEF IInv, Locks
  <2> QED
    BY <1>2, <2>3, <2>4, <2>5 DEF IInv, Locks
<1>4. Places'
  <2> SUFFICES ASSUME NEW p \in Workers
               PROVE  Fits(worker[p].pc, record[worker[p].job])'
    BY DEF Places
  <2>1. CASE p = s
    BY <1>1, <1>2, <2>1 DEF Fits
  <2>2. CASE p # s /\ worker[p].pc # "idle"
    <3>1. worker[p].job \in Jobs /\ worker'[p] = worker[p]
          /\ record'[worker[p].job] = record[worker[p].job]
      BY <1>1, <2>2, ThreadOf DEF IInv
    <3> QED
      BY <1>2, <3>1 DEF IInv, Places, Fits
  <2>3. CASE p # s /\ worker[p].pc = "idle"
    BY <1>1, <2>3 DEF Fits
  <2> QED
    BY <2>1, <2>2, <2>3
<1>5. Actives'
  BY <1>1, <1>2 DEF IInv, Actives
<1> QED
  BY <1>3, <1>4, <1>5

\* Reports: a thread that has a result is about to report it.
LEMMA WorkedReports ==
  ASSUME IInv, NEW s \in Workers, NEW w, NEW state, NEW kept, NEW last,
         Worked(s, w, state, kept, last)
  PROVE  Reports' /\ NewestReportKept'
<1> DEFINE j == worker[s].job
<1>1. /\ j \in Jobs /\ slotOf[j] = s
      /\ \A p \in Workers : worker'[p] = IF p = s THEN w ELSE worker[p]
      /\ \A p \in Workers : p # s /\ worker[p].pc # "idle" => worker[p].job # j
      /\ \A i \in Jobs : latest'[i] = IF i = j THEN last ELSE latest[i]
  BY WorkedEach
<1>2. /\ w.job = j /\ worker[s].pc \notin {"idle", "report"}
      /\ w.pc = "report" => last # "none" /\ w.verdict = last
      /\ w.pc # "report" => last = latest[j]
      /\ UNCHANGED <<pending, told, cycle>>
  BY DEF Worked
<1> HIDE DEF j
<1>3. \A i \in Jobs : /\ Reporting(i) => Reporting(i)'
                      /\ latest'[i] # latest[i] => Reporting(i)'
  BY <1>1, <1>2 DEF Reporting
<1>4. \A p \in Workers : worker'[p].pc = "report"
          => worker'[p].verdict = latest'[worker'[p].job] /\ worker'[p].verdict # "none"
  <2> SUFFICES ASSUME NEW p \in Workers, worker'[p].pc = "report"
               PROVE  /\ worker'[p].verdict = latest'[worker'[p].job]
                      /\ worker'[p].verdict # "none"
    OBVIOUS
  <2>1. CASE p = s
    BY <1>1, <1>2, <2>1
  <2>2. CASE p # s
    <3>1. worker[p].job \in Jobs /\ worker'[p] = worker[p] /\ worker[p].job # j
      BY <1>1, <2>2, ThreadOf DEF IInv
    <3> QED
      BY <1>1, <3>1 DEF IInv, Reports
  <2> QED
    BY <2>1, <2>2
<1>5. Reports'
  <2>1. \A i \in Jobs : pending[i] # "none" => pending[i] = latest'[i] \/ Reporting(i)'
    BY <1>3 DEF IInv, Reports
  <2> QED
    BY <1>2, <1>4, <2>1 DEF IInv, Reports
<1>6. NewestReportKept'
  BY <1>2, <1>3 DEF IInv, NewestReportKept, Reporting
<1> QED
  BY <1>5, <1>6

\* A step of a thread at work keeps everything.
LEMMA WorkedKeeps ==
  ASSUME IInv, NEW s \in Workers, NEW w, NEW state, NEW kept, NEW last,
         Worked(s, w, state, kept, last)
  PROVE  IInv'
  BY WorkedTypes, WorkedLocks, WorkedReports DEF IInv

--------------------------------------------------------------------------------
(* Reports *)

\* A report reaches the backend, or waits, or both.
LEMMA ReportIs ==
  ASSUME Types, NEW j \in Jobs, NEW verdict \in Verdicts, ReportSafely(j, verdict)
  PROVE  /\ pending' \in [Jobs -> Verdicts \cup {"none"}]
         /\ told' \in [Jobs -> Verdicts \cup {"none"}]
         /\ \A i \in Jobs : i # j => pending'[i] = pending[i] /\ told'[i] = told[i]
         /\ pending'[j] \in {"none", verdict} /\ told'[j] \in {told[j], verdict}
         /\ told'[j] = verdict \/ pending'[j] = verdict
<1>1. /\ pending \in [Jobs -> Verdicts \cup {"none"}]
      /\ told \in [Jobs -> Verdicts \cup {"none"}]
  BY DEF Types, TypeOK
<1>2. CASE Delivered(j, verdict)
  BY <1>1, <1>2 DEF Delivered
<1>3. CASE Undelivered(j, verdict)
  BY <1>1, <1>3 DEF Undelivered
<1> QED
  BY <1>2, <1>3 DEF ReportSafely

\* The pending reports that are flushed are the newest: nobody reports then.
LEMMA FlushNewest ==
  ASSUME IInv, NEW j \in cycle.flush, cycle.pc = "flush"
  PROVE  j \in Jobs /\ pending[j] = latest[j] /\ pending[j] \in Verdicts
<1>1. ~Reporting(j)
  BY DEF IInv, Assigned, Reporting
<1>2. j \in Jobs
  BY DEF IInv, Types
<1> QED
  BY <1>1, <1>2 DEF IInv, Reports, Types, TypeOK

\* _flush_pending_reports
LEMMA FlushKeeps ==
  ASSUME IInv, Flush
  PROVE  IInv'
<1>1. PICK j \in cycle.flush :
         ReportSafely(j, pending[j]) /\ cycle' = [cycle EXCEPT !.flush = @ \ {j}]
  BY DEF Flush
<1>2. /\ cycle.pc = "flush"
      /\ UNCHANGED <<slotOf, human, record, result, latest, todo, worker, lock, proxy,
                     health, failures, restarts>>
  BY DEF Flush, config, healthVars
<1>3. j \in Jobs /\ pending[j] = latest[j] /\ pending[j] \in Verdicts
  BY <1>2, FlushNewest
<1>4. /\ pending' \in [Jobs -> Verdicts \cup {"none"}]
      /\ told' \in [Jobs -> Verdicts \cup {"none"}]
      /\ \A i \in Jobs : i # j => pending'[i] = pending[i] /\ told'[i] = told[i]
      /\ pending'[j] \in {"none", latest[j]}
      /\ told'[j] = latest[j] \/ pending'[j] = latest[j]
  BY <1>1, <1>3, ReportIs DEF IInv
<1>5. /\ cycle' \in [pc : {"idle", "flush", "foreign", "work"}, flush : SUBSET Jobs, number : Nat]
      /\ cycle'.pc = "flush" /\ cycle'.flush = cycle.flush \ {j}
  BY <1>1, <1>2 DEF IInv, Types
<1>6. Types'
  BY <1>2, <1>4, <1>5 DEF IInv, Types, TypeOK
<1>7. Assigned' /\ Locks' /\ Places' /\ Actives'
  BY <1>2, <1>5 DEF IInv, Assigned, Locks, Places, Fits, Actives, JobsOf
<1>8. Reports'
  <2>1. \A i \in Jobs : pending'[i] # "none" => pending'[i] = latest[i] \/ Reporting(i)
    BY <1>4 DEF IInv, Reports
  <2>2. \A i \in cycle'.flush : pending'[i] # "none"
    BY <1>2, <1>4, <1>5 DEF IInv, Reports, Types
  <2> QED
    BY <1>2, <1>5, <2>1, <2>2 DEF IInv, Reports, Reporting
<1>9. NewestReportKept'
  BY <1>2, <1>4 DEF IInv, NewestReportKept
<1> QED
  BY <1>6, <1>7, <1>8, <1>9 DEF IInv

\* The report of a thread
LEMMA ReportKeeps ==
  ASSUME IInv, NEW s \in Workers, Report(s)
  PROVE  IInv'
<1> DEFINE j == worker[s].job
           verdict == worker[s].verdict
<1>1. /\ worker[s].pc = "report" /\ ReportSafely(j, verdict)
      /\ worker' = [worker EXCEPT ![s] = Resting]
      /\ todo' = todo \/ todo' = [todo EXCEPT ![s] = <<>>]
      /\ UNCHANGED <<slotOf, human, record, result, latest, cycle, lock, proxy, health,
                     failures, restarts>>
  BY DEF Report, config, healthVars
<1>2. /\ j \in Jobs /\ slotOf[j] = s /\ worker[s] \in Thread /\ verdict = latest[j]
      /\ verdict \in Verdicts
  BY <1>1, ThreadOf DEF IInv, Reports, Thread
<1>3. /\ pending' \in [Jobs -> Verdicts \cup {"none"}]
      /\ told' \in [Jobs -> Verdicts \cup {"none"}]
      /\ \A i \in Jobs : i # j => pending'[i] = pending[i] /\ told'[i] = told[i]
      /\ pending'[j] \in {"none", latest[j]}
      /\ told'[j] = latest[j] \/ pending'[j] = latest[j]
  BY <1>1, <1>2, ReportIs DEF IInv
<1>4. Resting \in Thread /\ Resting.pc = "idle"
  BY DEF Resting, Thread
<1>5. /\ \A p \in Workers : worker'[p] = IF p = s THEN Resting ELSE worker[p]
      /\ worker' \in [Workers -> Thread]
  BY <1>1, <1>4 DEF IInv, Types, TypeOK, Thread
<1>6. \A p \in Workers : todo'[p] \in {todo[p], <<>>}
  BY <1>1 DEF IInv, Types, TypeOK
<1> HIDE DEF j, verdict
<1>7. Types'
  <2>0. todo \in [Workers -> Seq(Jobs)] /\ <<>> \in Seq(Jobs)
    BY NothingToDo DEF IInv, Types, TypeOK
  <2>1. todo' \in [Workers -> Seq(Jobs)]
    BY <1>1, <2>0
  <2> QED
    BY <1>1, <1>3, <1>5, <2>1 DEF IInv, Types, TypeOK, Thread
<1>8. Assigned'
  <2>1. \A p \in Workers : todo'[p] \in Seq(JobsOf(p))
    BY <1>6, NothingToDo DEF IInv, Assigned
  <2>2. \A p \in Workers : worker'[p].pc # "idle" => worker'[p].job \in JobsOf(p)
    BY <1>4, <1>5 DEF IInv, Assigned
  <2>3. /\ worker'[NoSlot].pc \in {"idle", "foreign", "report"}
        /\ \A p \in Slots : worker'[p].pc # "foreign"
        /\ cycle.pc \in {"idle", "flush"} => \A p \in Workers : worker'[p].pc = "idle"
    BY <1>4, <1>5, WorkersAre DEF IInv, Assigned
  <2> QED
    BY <1>1, <2>1, <2>2, <2>3 DEF Assigned, JobsOf
<1>9. Locks'
  BY <1>1, <1>4, <1>5, WorkersAre DEF IInv, Locks
<1>10. Places' /\ Actives'
  <2>1. \A p \in Workers : Fits(worker'[p].pc, record[worker'[p].job])
    BY <1>4, <1>5 DEF IInv, Places, Fits
  <2> QED
    BY <1>1, <2>1 DEF IInv, Places, Fits, Actives
<1>11. \A i \in Jobs : i # j => (Reporting(i)' <=> Reporting(i))
  BY <1>1, <1>4, <1>5 DEF Reporting, j
<1>12. Reports'
  <2>1. \A i \in Jobs : pending'[i] # "none" => pending'[i] = latest[i] \/ Reporting(i)'
    BY <1>3, <1>11 DEF IInv, Reports
  <2>2. \A p \in Workers : worker'[p].pc = "report"
            => worker'[p].verdict = latest[worker'[p].job] /\ worker'[p].verdict # "none"
    BY <1>4, <1>5 DEF IInv, Reports
  <2>3. cycle.flush = {}
    BY <1>1 DEF IInv, Reports, Assigned
  <2> QED
    BY <1>1, <2>1, <2>2, <2>3 DEF IInv, Reports
<1>13. NewestReportKept'
  BY <1>1, <1>3, <1>11 DEF IInv, NewestReportKept, Reporting
<1> QED
  BY <1>7, <1>8, <1>9, <1>10, <1>12, <1>13 DEF IInv

--------------------------------------------------------------------------------
(* The loop and the other services *)

\* What most steps of the loop leave alone: reports, records and phones
LoopQuiet == UNCHANGED <<slotOf, human, record, result, pending, told, latest, lock, proxy,
                         health, failures, restarts>>

\* A step of the loop that changes only the cycle and what is to do
LEMMA LoopKeeps ==
  ASSUME IInv, LoopQuiet, UNCHANGED worker,
         cycle' \in [pc : {"idle", "flush", "foreign", "work"}, flush : SUBSET Jobs, number : Nat],
         \A s \in Workers : todo'[s] \in Seq(JobsOf(s)),
         todo' \in [Workers -> Seq(Jobs)],
         cycle'.pc \in {"idle", "flush"} => \A s \in Workers : worker[s].pc = "idle",
         \A j \in cycle'.flush : pending[j] # "none",
         cycle'.pc # "flush" => cycle'.flush = {}
  PROVE  IInv'
<1>1. Types'
  BY DEF LoopQuiet, IInv, Types, TypeOK
<1>2. Assigned'
  BY DEF LoopQuiet, IInv, Assigned, JobsOf
<1>3. Locks' /\ Places' /\ Actives'
  BY DEF LoopQuiet, IInv, Locks, Places, Fits, Actives
<1>4. Reports' /\ NewestReportKept'
  BY DEF LoopQuiet, IInv, Reports, Reporting, NewestReportKept
<1> QED
  BY <1>1, <1>2, <1>3, <1>4 DEF IInv

\* A cycle begins, its foreign jobs are done, it ends.
LEMMA CycleKeeps ==
  ASSUME IInv, CycleStart \/ PoolStart \/ CycleEnd
  PROVE  IInv'
<1>1. /\ cycle \in [pc : {"idle", "flush", "foreign", "work"}, flush : SUBSET Jobs, number : Nat]
      /\ todo \in [Workers -> Seq(Jobs)] /\ \A s \in Workers : todo[s] \in Seq(JobsOf(s))
      /\ cycle.pc # "flush" => cycle.flush = {}
      /\ \A j \in cycle.flush : pending[j] # "none"
  BY DEF IInv, Types, TypeOK, Assigned, Reports
<1>2. UNCHANGED <<todo, worker>> /\ LoopQuiet
  BY DEF CycleStart, PoolStart, CycleEnd, LoopQuiet, jobVars, config, healthVars
<1>3. /\ cycle' \in [pc : {"idle", "flush", "foreign", "work"}, flush : SUBSET Jobs, number : Nat]
      /\ cycle'.pc # "flush" => cycle'.flush = {}
      /\ \A j \in cycle'.flush : pending[j] # "none"
  <2>1. CASE CycleStart
    BY <1>1, <2>1 DEF CycleStart
  <2>2. CASE PoolStart
    BY <1>1, <2>2 DEF PoolStart
  <2>3. CASE CycleEnd
    BY <1>1, <2>3 DEF CycleEnd
  <2> QED
    BY <2>1, <2>2, <2>3
<1>4. cycle'.pc \in {"idle", "flush"} => \A s \in Workers : worker[s].pc = "idle"
  <2>1. CASE CycleStart
    BY <2>1 DEF CycleStart, IInv, Assigned
  <2>2. CASE PoolStart
    BY <1>1, <2>2 DEF PoolStart
  <2>3. CASE CycleEnd
    BY <2>3 DEF CycleEnd
  <2> QED
    BY <2>1, <2>2, <2>3
<1>5. todo' \in [Workers -> Seq(Jobs)] /\ \A s \in Workers : todo'[s] \in Seq(JobsOf(s))
  BY <1>1, <1>2
<1> QED
  BY <1>2, <1>3, <1>4, <1>5, LoopKeeps

\* A listing is of jobs of its slot.
LEMMA ListingsAre ==
  ASSUME NEW s, NEW f \in Listings(s)
  PROVE  f \in Seq(JobsOf(s)) /\ f \in Seq(Jobs)
<1>1. PICK n \in 0..Cardinality(Jobs) : f \in [1..n -> JobsOf(s)]
  BY DEF Listings, JobsOf
<1>2. n \in Nat
  BY DaemonAssumption, FS_CardinalityType
<1> QED
  BY <1>1, <1>2 DEF JobsOf

\* fetch_pending
LEMMA FetchKeeps ==
  ASSUME IInv, Fetch
  PROVE  IInv'
<1>1. PICK jobs \in [Workers -> UNION {Listings(s) : s \in Workers}] :
         /\ \A s \in Workers : jobs[s] \in Listings(s)
         /\ todo' = jobs
         /\ cycle' = [cycle EXCEPT !.pc =
               IF \A s \in Workers : jobs[s] = <<>> THEN "idle" ELSE "foreign"]
  BY DEF Fetch
<1>2. /\ cycle.pc = "flush" /\ cycle.flush = {}
      /\ cycle \in [pc : {"idle", "flush", "foreign", "work"}, flush : SUBSET Jobs, number : Nat]
      /\ \A s \in Workers : worker[s].pc = "idle"
  BY DEF Fetch, IInv, Types, Assigned
<1>3. UNCHANGED worker /\ LoopQuiet
  BY DEF Fetch, LoopQuiet, jobVars, config, healthVars
<1>4. \A s \in Workers : todo'[s] \in Seq(JobsOf(s)) /\ todo'[s] \in Seq(Jobs)
  BY <1>1, ListingsAre
<1>5. todo' \in [Workers -> Seq(Jobs)]
  BY <1>1, <1>4
<1>6. /\ cycle' \in [pc : {"idle", "flush", "foreign", "work"}, flush : SUBSET Jobs, number : Nat]
      /\ cycle'.flush = {}
  BY <1>1, <1>2
<1> QED
  BY <1>2, <1>3, <1>4, <1>5, <1>6, LoopKeeps

\* The head of what is to do
LEMMA HeadIs ==
  ASSUME NEW S, NEW q \in Seq(S), q # <<>>
  PROVE  Head(q) \in S /\ Tail(q) \in Seq(S)
  OBVIOUS

\* A thread takes the next job, with the lock of its slot or as the loop.
LEMMA TakeKeeps ==
  ASSUME IInv, NEW s \in Workers, NEW pc \in {"path", "foreign"},
         worker[s].pc = "idle", todo[s] # <<>>, cycle.pc \in {"foreign", "work"},
         worker' = [worker EXCEPT ![s] = [pc |-> pc, job |-> Head(todo[s]), verdict |-> "none"]],
         todo' = [todo EXCEPT ![s] = Tail(@)],
         \/ /\ pc = "path" /\ s \in Slots /\ lock[s] = "free"
            /\ lock' = [lock EXCEPT ![s] = "job"] /\ UNCHANGED record
         \/ /\ pc = "foreign" /\ s = NoSlot
            /\ UNCHANGED lock /\ Recorded(Head(todo[s])),
         UNCHANGED <<slotOf, human, result, pending, told, latest, cycle, proxy, health,
                     failures, restarts>>
  PROVE  IInv'
<1> DEFINE j == Head(todo[s])
           w == [pc |-> pc, job |-> j, verdict |-> "none"]
           state == IF record[j] = "none" THEN "pending" ELSE record[j]
<1>1. j \in JobsOf(s) /\ j \in Jobs /\ Tail(todo[s]) \in Seq(JobsOf(s))
      /\ Tail(todo[s]) \in Seq(Jobs)
  <2>1. todo[s] \in Seq(JobsOf(s)) /\ todo[s] \in Seq(Jobs)
    BY DEF IInv, Assigned, Types, TypeOK
  <2> QED
    BY <2>1, HeadIs
<1>2. w \in Thread /\ w.pc = pc /\ w.job = j
  BY <1>1 DEF Thread
<1>3. /\ \A p \in Workers : worker'[p] = IF p = s THEN w ELSE worker[p]
      /\ worker' \in [Workers -> Thread]
      /\ \A p \in Workers : todo'[p] = IF p = s THEN Tail(todo[s]) ELSE todo[p]
      /\ todo' \in [Workers -> Seq(Jobs)]
  BY <1>1, <1>2 DEF IInv, Types, TypeOK, Thread
<1>4. /\ record' \in [Jobs -> JobStates \cup {"none"}]
      /\ \A i \in Jobs : i # j => record'[i] = record[i]
      /\ pc = "foreign" => record'[j] # "none"
      /\ record'[j] = "active" => record[j] = "active"
      /\ record'[j] = record[j] \/ record[j] = "none"
  <2>1. record \in [Jobs -> JobStates \cup {"none"}]
    BY DEF IInv, Types, TypeOK
  <2>2. CASE pc = "path" /\ UNCHANGED record
    BY <2>1, <2>2, <1>2
  <2>3. CASE pc = "foreign" /\ Recorded(j)
    <3>1. record' = [record EXCEPT ![j] = state] /\ state # "none" /\ state \in JobStates
      BY <1>1, <2>3, RecordedIs DEF IInv
    <3> QED
      BY <1>1, <2>1, <3>1
  <2> QED
    BY <2>2, <2>3
<1> HIDE DEF j, w, state
<1>5. Types'
  <2>1. lock' \in [Slots -> {"free", "job", "proxy", "health"}]
    BY DEF IInv, Types, TypeOK
  <2> QED
    BY <1>3, <1>4, <2>1 DEF IInv, Types, TypeOK, Thread
<1>6. Assigned'
  <2>1. \A p \in Workers : todo'[p] \in Seq(JobsOf(p))
    BY <1>1, <1>3 DEF IInv, Assigned
  <2>2. \A p \in Workers : worker'[p].pc # "idle" => worker'[p].job \in JobsOf(p)
    BY <1>1, <1>2, <1>3 DEF IInv, Assigned
  <2>3. /\ worker'[NoSlot].pc \in {"idle", "foreign", "report"}
        /\ \A p \in Slots : worker'[p].pc # "foreign"
    BY <1>2, <1>3, WorkersAre DEF IInv, Assigned
  <2> QED
    BY <2>1, <2>2, <2>3 DEF Assigned, JobsOf
<1>7. Locks'
  <2>1. \A p \in Slots : lock'[p] = lock[p] \/ (lock[p] = "free" /\ p = s /\ lock'[p] = "job")
    BY DEF IInv, Types, TypeOK
  <2>2. \A p \in Slots : worker'[p].pc \notin {"idle", "report"} => lock'[p] = "job"
    <3>1. s \in Slots => lock'[s] = "job"
      BY WorkersAre DEF IInv, Types, TypeOK
    <3> QED
      BY <1>3, <2>1, <3>1, WorkersAre DEF IInv, Locks
  <2>3. \A p \in Slots : proxy[p] = "route" => lock'[p] = "proxy"
    BY <2>1 DEF IInv, Locks
  <2>4. health.pc = "reboot" => lock'[health.slot] = "health"
    BY <2>1 DEF IInv, Locks
  <2> QED
    BY <2>2, <2>3, <2>4 DEF IInv, Locks
<1>8. Places'
  <2> SUFFICES ASSUME NEW p \in Workers
               PROVE  Fits(worker[p].pc, record[worker[p].job])'
    BY DEF Places
  <2>1. CASE p = s
    BY <1>2, <1>3, <1>4, <2>1 DEF Fits
  <2>2. CASE p # s /\ worker[p].pc # "idle"
    <3>1. worker[p].job \in Jobs /\ worker'[p] = worker[p] /\ worker[p].job # j
      BY <1>1, <1>3, <2>2, ThreadOf DEF IInv, JobsOf
    <3> QED
      BY <1>4, <3>1 DEF IInv, Places, Fits
  <2>3. CASE p # s /\ worker[p].pc = "idle"
    BY <1>3, <2>3 DEF Fits
  <2> QED
    BY <2>1, <2>2, <2>3
<1>9. Actives'
  BY <1>4 DEF IInv, Actives
<1>10. \A i \in Jobs : Reporting(i)' <=> Reporting(i)
  BY <1>2, <1>3 DEF Reporting
<1>11. Reports'
  <2>1. \A p \in Workers : worker'[p].pc = "report"
            => worker'[p].verdict = latest[worker'[p].job] /\ worker'[p].verdict # "none"
    BY <1>2, <1>3 DEF IInv, Reports
  <2> QED
    BY <1>10, <2>1 DEF IInv, Reports
<1>12. NewestReportKept'
  BY <1>10 DEF IInv, NewestReportKept, Reporting
<1> QED
  BY <1>5, <1>6, <1>7, <1>8, <1>9, <1>11, <1>12 DEF IInv

\* What the services of the phones leave alone
PhoneQuiet == UNCHANGED <<slotOf, human, record, result, pending, told, latest, cycle, todo,
                          worker, restarts>>

\* A step of a service of the phones changes locks, probes and counters.
LEMMA PhoneKeeps ==
  ASSUME IInv, PhoneQuiet,
         lock' \in [Slots -> {"free", "job", "proxy", "health"}],
         proxy' \in [Slots -> {"idle", "route"}],
         health' \in [pc : {"idle", "try", "reboot"}, slot : Slots \cup {NoSlot}],
         failures' \in [Slots -> 0..Threshold],
         \A s \in Slots : lock[s] = "job" => lock'[s] = "job",
         \A s \in Slots : proxy'[s] = "route" => lock'[s] = "proxy",
         health'.pc = "reboot" => lock'[health'.slot] = "health",
         health'.pc # "idle" => health'.slot \in Slots
  PROVE  IInv'
<1>1. Types'
  BY DEF PhoneQuiet, IInv, Types, TypeOK
<1>2. Assigned'
  <2>1. UNCHANGED <<slotOf, todo, worker, cycle>> /\ Assigned
    BY DEF PhoneQuiet, IInv
  <2>2. /\ \A s \in Workers : todo'[s] \in Seq(JobsOf(s))
        /\ \A s \in Workers : worker'[s].pc # "idle" => worker'[s].job \in JobsOf(s)
        /\ worker'[NoSlot].pc \in {"idle", "foreign", "report"}
        /\ \A s \in Slots : worker'[s].pc # "foreign"
        /\ cycle'.pc \in {"idle", "flush"} => \A s \in Workers : worker'[s].pc = "idle"
    BY <2>1 DEF Assigned
  <2>3. \A s : JobsOf(s)' = JobsOf(s)
    BY <2>1 DEF JobsOf
  <2>4. /\ \A s \in Workers : todo'[s] \in Seq(JobsOf(s)')
        /\ \A s \in Workers : worker'[s].pc # "idle" => worker'[s].job \in JobsOf(s)'
    BY <2>2, <2>3
  <2> QED
    BY <2>2, <2>4 DEF Assigned
<1>3. Locks'
  BY DEF PhoneQuiet, IInv, Locks
<1>4. Places' /\ Actives'
  BY DEF PhoneQuiet, IInv, Places, Fits, Actives
<1>5. Reports' /\ NewestReportKept'
  BY DEF PhoneQuiet, IInv, Reports, Reporting, NewestReportKept
<1> QED
  BY <1>1, <1>2, <1>3, <1>4, <1>5 DEF IInv

\* What the services of the phones start from
LEMMA PhoneTypes ==
  ASSUME IInv
  PROVE  /\ lock \in [Slots -> {"free", "job", "proxy", "health"}]
         /\ proxy \in [Slots -> {"idle", "route"}]
         /\ health \in [pc : {"idle", "try", "reboot"}, slot : Slots \cup {NoSlot}]
         /\ failures \in [Slots -> 0..Threshold]
         /\ \A s \in Slots : proxy[s] = "route" => lock[s] = "proxy"
         /\ health.pc = "reboot" => lock[health.slot] = "health"
         /\ health.pc # "idle" => health.slot \in Slots
  BY DEF IInv, Types, TypeOK, Locks

\* acquire of a proxy thread
LEMMA ProxyTakeKeeps ==
  ASSUME IInv, NEW s \in Slots, ProxyTake(s)
  PROVE  IInv'
<1>1. /\ lock[s] = "free" /\ lock' = [lock EXCEPT ![s] = "proxy"]
      /\ proxy' = [proxy EXCEPT ![s] = "route"]
      /\ UNCHANGED <<health, failures>> /\ PhoneQuiet
  BY DEF ProxyTake, PhoneQuiet, jobVars, config, healthVars
<1>2. /\ lock' \in [Slots -> {"free", "job", "proxy", "health"}]
      /\ proxy' \in [Slots -> {"idle", "route"}]
      /\ \A p \in Slots : lock[p] = "job" => lock'[p] = "job"
      /\ \A p \in Slots : proxy'[p] = "route" => lock'[p] = "proxy"
      /\ health.pc = "reboot" => lock'[health.slot] = "health"
  BY <1>1, PhoneTypes
<1> QED
  BY <1>1, <1>2, PhoneTypes, PhoneKeeps

\* release of a proxy thread
LEMMA ProxyReleaseKeeps ==
  ASSUME IInv, NEW s \in Slots, ProxyRelease(s)
  PROVE  IInv'
<1>1. /\ proxy[s] = "route" /\ lock' = [lock EXCEPT ![s] = "free"]
      /\ proxy' = [proxy EXCEPT ![s] = "idle"]
      /\ UNCHANGED <<health, failures>> /\ PhoneQuiet
  BY DEF ProxyRelease, PhoneQuiet, jobVars, config, healthVars
<1>2. /\ lock' \in [Slots -> {"free", "job", "proxy", "health"}]
      /\ proxy' \in [Slots -> {"idle", "route"}]
      /\ \A p \in Slots : lock[p] = "job" => lock'[p] = "job"
      /\ \A p \in Slots : proxy'[p] = "route" => lock'[p] = "proxy"
      /\ health.pc = "reboot" => lock'[health.slot] = "health"
  BY <1>1, PhoneTypes
<1> QED
  BY <1>1, <1>2, PhoneTypes, PhoneKeeps

\* _handle_observation: the counter stops at the threshold.
LEMMA ObserveKeeps ==
  ASSUME IInv, NEW s \in Slots, Observe(s)
  PROVE  IInv'
<1> DEFINE count == IF failures[s] < Threshold THEN failures[s] + 1 ELSE Threshold
<1>1. /\ UNCHANGED <<lock, proxy>> /\ PhoneQuiet
      /\ health.pc = "idle"
      /\ failures' = [failures EXCEPT ![s] = 0] \/ failures' = [failures EXCEPT ![s] = count]
      /\ UNCHANGED health \/ health' = [pc |-> "try", slot |-> s]
  BY DEF Observe, PhoneQuiet, jobVars, config
<1>2. count \in 0..Threshold /\ 0 \in 0..Threshold
  BY PhoneTypes, DaemonAssumption
<1> HIDE DEF count
<1>3. failures' \in [Slots -> 0..Threshold]
  BY <1>1, <1>2, PhoneTypes
<1>4. /\ health' \in [pc : {"idle", "try", "reboot"}, slot : Slots \cup {NoSlot}]
      /\ health'.pc # "reboot" /\ (health'.pc # "idle" => health'.slot \in Slots)
  BY <1>1, PhoneTypes
<1> QED
  BY <1>1, <1>3, <1>4, PhoneTypes, PhoneKeeps

\* acquire of the health loop
LEMMA HealthTakeKeeps ==
  ASSUME IInv, HealthTake
  PROVE  IInv'
<1> DEFINE s == health.slot
<1>1. /\ health.pc = "try" /\ s \in Slots
      /\ UNCHANGED <<proxy, failures>> /\ PhoneQuiet
  BY PhoneTypes DEF HealthTake, PhoneQuiet, jobVars, config
<1>2. CASE lock[s] = "free"
  <2>1. lock' = [lock EXCEPT ![s] = "health"] /\ health' = [health EXCEPT !.pc = "reboot"]
    BY <1>2 DEF HealthTake
  <2>2. /\ lock' \in [Slots -> {"free", "job", "proxy", "health"}]
        /\ health' \in [pc : {"idle", "try", "reboot"}, slot : Slots \cup {NoSlot}]
        /\ health'.slot = s
        /\ \A p \in Slots : lock[p] = "job" => lock'[p] = "job"
        /\ \A p \in Slots : proxy[p] = "route" => lock'[p] = "proxy"
        /\ lock'[s] = "health"
    BY <1>1, <1>2, <2>1, PhoneTypes
  <2> QED
    BY <1>1, <2>2, PhoneTypes, PhoneKeeps
<1>3. CASE lock[s] # "free"
  <2>1. UNCHANGED lock /\ health' = [pc |-> "idle", slot |-> NoSlot]
    BY <1>3 DEF HealthTake
  <2>2. /\ health' \in [pc : {"idle", "try", "reboot"}, slot : Slots \cup {NoSlot}]
        /\ health'.pc = "idle"
    BY <2>1
  <2> QED
    BY <1>1, <2>1, <2>2, PhoneTypes, PhoneKeeps
<1> QED
  BY <1>2, <1>3

\* A reboot ends.
LEMMA RebootKeeps ==
  ASSUME IInv, Reboot
  PROVE  IInv'
<1> DEFINE s == health.slot
<1>1. /\ health.pc = "reboot" /\ s \in Slots
      /\ lock' = [lock EXCEPT ![s] = "free"]
      /\ failures' = [failures EXCEPT ![s] = 0] \/ UNCHANGED failures
      /\ health' = [pc |-> "idle", slot |-> NoSlot]
      /\ UNCHANGED proxy /\ PhoneQuiet
  BY PhoneTypes DEF Reboot, PhoneQuiet, jobVars, config
<1>2. /\ lock' \in [Slots -> {"free", "job", "proxy", "health"}]
      /\ health' \in [pc : {"idle", "try", "reboot"}, slot : Slots \cup {NoSlot}]
      /\ health'.pc = "idle"
      /\ \A p \in Slots : lock[p] = "job" => lock'[p] = "job"
      /\ \A p \in Slots : proxy[p] = "route" => lock'[p] = "proxy"
  BY <1>1, PhoneTypes
<1>3. 0 \in 0..Threshold
  BY DaemonAssumption
<1>4. failures' \in [Slots -> 0..Threshold]
  BY <1>1, <1>3, PhoneTypes
<1> QED
  BY <1>1, <1>2, <1>4, PhoneTypes, PhoneKeeps

--------------------------------------------------------------------------------
(* The daemon starts, and starts again *)

\* Everything but the backend, as a start leaves it
Fresh ==
    /\ record = [j \in Jobs |-> "none"] /\ result = [j \in Jobs |-> "none"]
    /\ pending = [j \in Jobs |-> "none"] /\ latest = [j \in Jobs |-> "none"]
    /\ cycle.pc = "idle" /\ cycle.flush = {}
    /\ todo = [s \in Workers |-> <<>>] /\ worker = [s \in Workers |-> Resting]
    /\ lock = [s \in Slots |-> "free"] /\ proxy = [s \in Slots |-> "idle"]
    /\ health = [pc |-> "idle", slot |-> NoSlot]
    /\ failures = [s \in Slots |-> 0]

\* ... and what it finds of the backend, the jobs and the configuration
Found ==
    /\ slotOf \in Assignments /\ human \in BOOLEAN
    /\ told \in [Jobs -> Verdicts \cup {"none"}] /\ restarts \in 0..MaxRestarts
    /\ cycle \in [pc : {"idle", "flush", "foreign", "work"}, flush : SUBSET Jobs, number : Nat]

\* A daemon that has just started satisfies the invariant.
LEMMA FreshHolds == Fresh /\ Found => IInv
<1> SUFFICES ASSUME Fresh, Found PROVE IInv
  OBVIOUS
<1>1. /\ Resting \in Thread /\ Resting.pc = "idle"
      /\ worker \in [Workers -> Thread] /\ \A s \in Workers : worker[s] = Resting
  BY DEF Resting, Thread, Fresh
<1>2. <<>> \in Seq(Jobs) /\ \A s \in Workers : <<>> \in Seq(JobsOf(s))
  BY NothingToDo
<1>3. todo \in [Workers -> Seq(Jobs)] /\ \A s \in Workers : todo[s] \in Seq(JobsOf(s))
  BY <1>2 DEF Fresh
<1>4. /\ record \in [Jobs -> JobStates \cup {"none"}]
      /\ result \in [Jobs -> Verdicts \cup {"none"}]
      /\ pending \in [Jobs -> Verdicts \cup {"none"}]
      /\ latest \in [Jobs -> Verdicts \cup {"none"}]
      /\ \A j \in Jobs : record[j] = "none" /\ latest[j] = "none" /\ pending[j] = "none"
  BY DEF Fresh
<1>5. /\ lock \in [Slots -> {"free", "job", "proxy", "health"}]
      /\ proxy \in [Slots -> {"idle", "route"}]
      /\ health \in [pc : {"idle", "try", "reboot"}, slot : Slots \cup {NoSlot}]
      /\ health.pc = "idle" /\ \A s \in Slots : proxy[s] = "idle"
  BY DEF Fresh
<1>6. failures \in [Slots -> 0..Threshold]
  <2>1. 0 \in 0..Threshold
    BY DaemonAssumption
  <2> QED
    BY <2>1 DEF Fresh
<1>7. cycle.pc = "idle" /\ cycle.flush = {}
  BY DEF Fresh
<1>8. Types
  BY <1>1, <1>3, <1>4, <1>5, <1>6 DEF Types, TypeOK, Thread, Found
<1>9. Assigned
  BY <1>1, <1>3, WorkersAre DEF Assigned
<1>10. Locks /\ Places /\ Actives
  BY <1>1, <1>4, <1>5, WorkersAre DEF Locks, Places, Fits, Actives
<1>11. Reports /\ NewestReportKept
  BY <1>1, <1>4, <1>7 DEF Reports, NewestReportKept
<1> QED
  BY <1>8, <1>9, <1>10, <1>11 DEF IInv

\* The invariant holds at the start.
LEMMA InitHolds == Init => IInv
<1> SUFFICES ASSUME Init PROVE IInv
  OBVIOUS
<1>1. cycle \in [pc : {"idle", "flush", "foreign", "work"}, flush : SUBSET Jobs, number : Nat]
      /\ cycle.pc = "idle" /\ cycle.flush = {}
  BY DEF Init
<1>2. Fresh
  BY <1>1 DEF Init, Fresh
<1>3. /\ slotOf \in Assignments /\ human \in BOOLEAN
      /\ told \in [Jobs -> Verdicts \cup {"none"}] /\ restarts \in 0..MaxRestarts
  BY DaemonAssumption DEF Init
<1>4. Found
  BY <1>1, <1>3 DEF Found
<1> QED
  BY <1>2, <1>4, FreshHolds

\* A restart
LEMMA RestartKeeps ==
  ASSUME IInv, Restart
  PROVE  IInv'
<1>1. /\ cycle' \in [pc : {"idle", "flush", "foreign", "work"}, flush : SUBSET Jobs, number : Nat]
      /\ cycle'.pc = "idle" /\ cycle'.flush = {}
  BY DEF Restart, IInv, Types
<1>2. Fresh'
  BY <1>1 DEF Restart, Fresh
<1>3. restarts' \in 0..MaxRestarts
  BY DaemonAssumption DEF Restart, IInv, Types, TypeOK
<1>4. /\ slotOf' \in Assignments /\ human' \in BOOLEAN
      /\ told' \in [Jobs -> Verdicts \cup {"none"}]
  BY DEF Restart, config, IInv, Types, TypeOK
<1>5. Found'
  BY <1>1, <1>3, <1>4 DEF Found
<1> QED
  BY <1>2, <1>5, FreshHolds, PTL

--------------------------------------------------------------------------------
(* Every step *)

\* What each step of the cycle, the phones' services and the daemon keeps
LEMMA NextKeeps == IInv /\ [Next]_vars => IInv'
<1> SUFFICES ASSUME IInv, [Next]_vars
             PROVE  IInv'
  OBVIOUS
<1>1. CASE Loop
  <2>1. CASE CycleStart \/ PoolStart \/ CycleEnd
    BY <2>1, CycleKeeps
  <2>2. CASE Flush
    BY <2>2, FlushKeeps
  <2>3. CASE Fetch
    BY <2>3, FetchKeeps
  <2>4. CASE ForeignTake
    <3>1. /\ cycle.pc = "foreign" /\ worker[NoSlot].pc = "idle" /\ todo[NoSlot] # <<>>
          /\ worker' = [worker EXCEPT ![NoSlot] =
                           [pc |-> "foreign", job |-> Head(todo[NoSlot]), verdict |-> "none"]]
          /\ todo' = [todo EXCEPT ![NoSlot] = Tail(@)]
          /\ Recorded(Head(todo[NoSlot])) /\ UNCHANGED lock
          /\ UNCHANGED <<slotOf, human, result, pending, told, latest, cycle, proxy, health,
                         failures, restarts>>
      BY <2>4 DEF ForeignTake, config, healthVars
    <3> QED
      BY <3>1, WorkersAre, TakeKeeps
  <2>5. CASE ForeignFail
    BY <2>5, ForeignFailWorked, WorkedKeeps, WorkersAre
  <2> QED
    BY <1>1, <2>1, <2>2, <2>3, <2>4, <2>5 DEF Loop
<1>2. ASSUME NEW s \in Slots, Take(s)
      PROVE  IInv'
  <2>1. /\ cycle.pc = "work" /\ worker[s].pc = "idle" /\ todo[s] # <<>> /\ lock[s] = "free"
        /\ worker' = [worker EXCEPT ![s] =
                         [pc |-> "path", job |-> Head(todo[s]), verdict |-> "none"]]
        /\ todo' = [todo EXCEPT ![s] = Tail(@)]
        /\ lock' = [lock EXCEPT ![s] = "job"] /\ UNCHANGED record
        /\ UNCHANGED <<slotOf, human, result, pending, told, latest, cycle, proxy, health,
                       failures, restarts>>
    BY <1>2 DEF Take, jobVars, config, healthVars
  <2> QED
    BY <2>1, WorkersAre, TakeKeeps
<1>3. ASSUME NEW s \in Slots, Run(s)
      PROVE  IInv'
  <2>1. \E w, state, kept, last : Worked(s, w, state, kept, last)
    BY <1>3, PathWorked, PrepareWorked, ResumeWorked, SubmitWorked, SourceWorked,
       SubmittedWorked, VerifyWorked, FaultWorked DEF Run
  <2> QED
    BY <2>1, WorkedKeeps, WorkersAre
<1>4. ASSUME NEW s \in Workers, Report(s)
      PROVE  IInv'
  BY <1>4, ReportKeeps
<1>5. ASSUME NEW s \in Slots, ProxyTake(s) \/ ProxyRelease(s) \/ Observe(s)
      PROVE  IInv'
  BY <1>5, ProxyTakeKeeps, ProxyReleaseKeeps, ObserveKeeps
<1>6. CASE HealthTake \/ Reboot \/ Restart
  BY <1>6, HealthTakeKeeps, RebootKeeps, RestartKeeps
<1>7. CASE UNCHANGED vars
  <2>1. LoopQuiet /\ UNCHANGED <<worker, cycle, todo>>
    BY <1>7 DEF vars, LoopQuiet
  <2> QED
    BY <2>1, LoopKeeps DEF IInv, Types, TypeOK, Assigned, Reports
<1> QED
  BY <1>1, <1>2, <1>3, <1>4, <1>5, <1>6, <1>7 DEF Next

\* The invariant holds in every reachable state.
LEMMA DaemonInductive == Spec => []IInv
<1>1. Init => IInv
  BY InitHolds
<1>2. IInv /\ [Next]_vars => IInv'
  BY NextKeeps
<1> QED
  BY <1>1, <1>2, PTL DEF Spec

\* A phone has one holder of its lock, and who works on it holds it.
LEMMA LocksExclude == IInv => OneOperationPerPhone
<1> SUFFICES ASSUME IInv, NEW s \in Slots
             PROVE  LET jobRuns == worker[s].pc \notin {"idle", "report"}
                        routed == proxy[s] = "route"
                        rebooted == health.pc = "reboot" /\ health.slot = s
                    IN  ~(jobRuns /\ routed) /\ ~(jobRuns /\ rebooted) /\ ~(routed /\ rebooted)
  BY DEF OneOperationPerPhone
<1> QED
  BY DEF IInv, Locks

\* Whatever jobs are listed, fail and are reported, and however the services of
\* the phones and restarts come in between: one service at a time has a phone,
\* and the newest result of a job has reached the backend, waits in
\* _pending_reports or is about to be sent.
THEOREM DaemonCorrect == Spec => []DaemonInv
<1>1. IInv => DaemonInv
  BY LocksExclude DEF IInv, Types, DaemonInv
<1> QED
  BY <1>1, DaemonInductive, PTL

--------------------------------------------------------------------------------
(* The approved transitions *)

\* The state of a job as JobTable has it: without a record it is pending.
Listed == [j \in Jobs |-> IF record[j] = "none" THEN "pending" ELSE record[j]]

\* The states are those of JobTable.
LEMMA StatesAre == Table!States = JobStates
  BY DEF Table!States, JobStates

\* A step of a thread advances its job along the table, or leaves it.
LEMMA WorkedAdvances ==
  ASSUME IInv, NEW s \in Workers, NEW w, NEW state, NEW kept, NEW last,
         Worked(s, w, state, kept, last)
  PROVE  Table!Next \/ UNCHANGED Listed
<1> DEFINE j == worker[s].job
<1>1. /\ j \in Jobs /\ record \in [Jobs -> JobStates \cup {"none"}]
      /\ record' = [record EXCEPT ![j] = state] /\ Moves(record[j], state)
      /\ state \in JobStates \cup {"none"} /\ "none" \notin JobStates
  BY WorkedEach DEF Worked, IInv, Types, TypeOK, JobStates
<1> HIDE DEF j
<1>2. CASE record[j] = state \/ (record[j] = "none" /\ state = "pending")
  BY <1>1, <1>2 DEF Listed
<1>3. CASE record[j] # "none" /\ <<record[j], state>> \in Table!Allowed
  <2>1. state # "none" /\ state \in Table!States
    BY <1>1, <1>3, StatesAre DEF Table!Allowed
  <2>2. Listed[j] = record[j] /\ Listed' = [Listed EXCEPT ![j] = state]
    BY <1>1, <1>3, <2>1 DEF Listed
  <2>3. Table!Advance(j, state)
    BY <1>3, <2>2 DEF Table!Advance, Listed
  <2> QED
    BY <1>1, <2>1, <2>3 DEF Table!Next
<1> QED
  BY <1>1, <1>2, <1>3 DEF Moves

\* Every step follows the table.
LEMMA NextFollows ==
  ASSUME IInv, [Next]_vars
  PROVE  Table!Next \/ UNCHANGED Listed
<1>1. CASE UNCHANGED record
  BY <1>1 DEF Listed
<1>2. CASE ForeignTake
  <2>1. Head(todo[NoSlot]) \in Jobs
    <3>1. todo[NoSlot] \in Seq(Jobs) /\ todo[NoSlot] # <<>>
      BY <1>2, WorkersAre DEF ForeignTake, IInv, Types, TypeOK
    <3> QED
      BY <3>1, HeadIs
  <2>2. PICK j \in Jobs : Recorded(j)
    BY <1>2, <2>1 DEF ForeignTake
  <2>3. record \in [Jobs -> JobStates \cup {"none"}]
    BY DEF IInv, Types, TypeOK
  <2> QED
    BY <2>2, <2>3 DEF Recorded, Advance, Listed
<1>3. CASE ForeignFail
  BY <1>3, ForeignFailWorked, WorkedAdvances, WorkersAre
<1>4. ASSUME NEW s \in Slots, Run(s)
      PROVE  Table!Next \/ UNCHANGED Listed
  <2>1. \E w, state, kept, last : Worked(s, w, state, kept, last)
    BY <1>4, PathWorked, PrepareWorked, ResumeWorked, SubmitWorked, SourceWorked,
       SubmittedWorked, VerifyWorked, FaultWorked DEF Run
  <2> QED
    BY <2>1, WorkedAdvances, WorkersAre
<1>5. CASE Restart
  <2>1. Listed' = [j \in Jobs |-> "pending"]
    BY <1>5 DEF Restart, Listed
  <2>2. Table!Forget
    BY <2>1 DEF Table!Forget, Listed
  <2> QED
    BY <2>2 DEF Table!Next
<1>6. CASE \/ CycleStart \/ Flush \/ Fetch \/ PoolStart \/ CycleEnd
           \/ \E s \in Slots : Take(s)
           \/ \E s \in Workers : Report(s)
           \/ \E s \in Slots : ProxyTake(s) \/ ProxyRelease(s) \/ Observe(s)
           \/ HealthTake \/ Reboot \/ UNCHANGED vars
  <2>1. UNCHANGED record
    BY <1>6 DEF CycleStart, Flush, Fetch, PoolStart, CycleEnd, Take, Report, ProxyTake,
       ProxyRelease, Observe, HealthTake, Reboot, vars, jobVars
  <2> QED
    BY <1>1, <2>1
<1> QED
  BY <1>2, <1>3, <1>4, <1>5, <1>6 DEF Next, Loop

\* The daemon implements JobTable: whatever fails, and whichever states the
\* records of other cycles were left in, apply_transition is never asked for a
\* transition it would refuse.
THEOREM DaemonFollowsTable == Spec => FollowsTable
<1>1. Init => Table!Init
  BY DEF Init, Table!Init
<1>2. IInv /\ [Next]_vars => [Table!Next]_Listed
  BY NextFollows
<1>3. IInv /\ [Next]_vars
        => [Table!Next]_[j \in Jobs |-> IF record[j] = "none" THEN "pending" ELSE record[j]]
  BY <1>2 DEF Listed
<1> QED
  BY <1>1, <1>3, DaemonInductive, PTL DEF Spec, FollowsTable, Table!Spec

--------------------------------------------------------------------------------
(* A confirmation stands *)

\* A report sent about an active job is its confirmation.
LEMMA ReportsConfirmation ==
  ASSUME IInv, NEW j \in Jobs, record[j] = "active", told[j] = "confirmed",
         NEW i \in Jobs, ReportSafely(i, latest[i]), latest[i] \in Verdicts
  PROVE  told'[j] = "confirmed"
<1>1. latest[j] = "confirmed"
  BY DEF IInv, Actives
<1>2. /\ \A k \in Jobs : k # i => told'[k] = told[k]
      /\ told'[i] \in {told[i], latest[i]}
  BY ReportIs DEF IInv
<1> QED
  BY <1>1, <1>2

\* No report that is sent or sent again replaces the confirmation of an
\* activation: the pending reports that a cycle flushes first are never older
\* than the job's newest result, and an active job only repeats its own.
THEOREM ConfirmationStands == Spec => ConfirmedStands
<1>1. ASSUME IInv, [Next]_vars, NEW j \in Jobs, told[j] = "confirmed", record[j] = "active"
      PROVE  told'[j] = "confirmed"
  <2>1. CASE Flush
    <3>1. PICK i \in cycle.flush : ReportSafely(i, pending[i])
      BY <2>1 DEF Flush
    <3>2. i \in Jobs /\ pending[i] = latest[i] /\ pending[i] \in Verdicts
      BY <2>1, FlushNewest, <1>1 DEF Flush
    <3> QED
      BY <1>1, <3>1, <3>2, ReportsConfirmation
  <2>2. ASSUME NEW s \in Workers, Report(s)
        PROVE  told'[j] = "confirmed"
    <3> DEFINE i == worker[s].job
    <3>1. worker[s].pc = "report" /\ ReportSafely(i, worker[s].verdict)
      BY <2>2 DEF Report
    <3>2. i \in Jobs /\ worker[s].verdict = latest[i] /\ latest[i] \in Verdicts
      BY <1>1, <3>1, ThreadOf DEF IInv, Reports
    <3> HIDE DEF i
    <3> QED
      BY <1>1, <3>1, <3>2, ReportsConfirmation
  <2>3. CASE UNCHANGED told
    BY <1>1, <2>3
  <2>4. UNCHANGED told \/ Flush \/ \E s \in Workers : Report(s)
    <3>1. CASE CycleStart \/ Fetch \/ PoolStart \/ CycleEnd \/ ForeignTake \/ ForeignFail
      BY <3>1 DEF CycleStart, Fetch, PoolStart, CycleEnd, ForeignTake, ForeignFail, jobVars
    <3>2. ASSUME NEW s \in Slots, Take(s) \/ Run(s)
          PROVE  UNCHANGED told
      BY <3>2 DEF Take, Run, Path, Prepare, Resume, SubmitActivation, Source, Submitted,
         Verify, Fault, jobVars
    <3>3. ASSUME NEW s \in Slots, ProxyTake(s) \/ ProxyRelease(s) \/ Observe(s)
          PROVE  UNCHANGED told
      BY <3>3 DEF ProxyTake, ProxyRelease, Observe, jobVars
    <3>4. CASE HealthTake \/ Reboot \/ Restart \/ UNCHANGED vars
      BY <3>4 DEF HealthTake, Reboot, Restart, vars, jobVars
    <3> QED
      BY <1>1, <3>1, <3>2, <3>3, <3>4 DEF Next, Loop
  <2> QED
    BY <2>1, <2>2, <2>3, <2>4
<1>2. IInv /\ [Next]_vars
        => [\A j \in Jobs :
              told[j] = "confirmed" /\ record[j] = "active" => told'[j] = "confirmed"]_vars
  BY <1>1
<1> QED
  BY <1>2, DaemonInductive, PTL DEF Spec, ConfirmedStands
================================================================================
