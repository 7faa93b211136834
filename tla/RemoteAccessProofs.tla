-------------------------- MODULE RemoteAccessProofs --------------------------
(* Theorems about RemoteAccess, for any rentals, threads and requests. *)
EXTENDS RemoteAccess, FiniteSetTheorems, TLAPS

\* What a thread of the server holds
Work == [at : Steps, op : Ops, rental : Rentals, seen : Row]

\* Where a thread has the bay's lock, where a create is not over yet, where
\* one has the lock, and where the flow of a rental is
Locked == {"check", "store", "revoke", "close"}
Creating == {"create", "check"}
Granting == {"check", "store"}
Flows == {"flow", "reach"}

\* A running session that no outdated write has touched
Sound(r) == Active(r) /\ "status" \notin lost[r]

\* A waiting state that no outdated write has put back
Waits(r) == Busy(session[r]) /\ "prepare" \notin lost[r]

Creators == {t \in Threads : thread[t].at \in Creating}

\* A grant needs a request of its own, so their numbers do not run out.
GrantsSuffice ==
    /\ IsFiniteSet(Creators)
    /\ grants + Cardinality(Creators) + left <= MaxEvents + 1

\* The bay's lock is held from the look at the row to its store; the poller
\* only ends sessions.
Held ==
    /\ \A t \in Threads : thread[t].at \in Locked => slotLock = t
    /\ thread[Sweeper].at \in {"idle", "end", "revoke", "close"}

\* While a session is granted the bay has none.
GrantsAlone ==
    \A t \in Threads : thread[t].at \in Granting => \A r \in Rentals : ~Sound(r)

\* The inductive invariant
IInv ==
    /\ TypeOK /\ GrantsSuffice /\ Held /\ GrantsAlone
    /\ OneSessionPerBay /\ LiveCredentials /\ BusyHasFlow

--------------------------------------------------------------------------------
(* Rows and copies *)

\* The thread of the poller is one of the threads, and nobody is none.
LEMMA ThreadsAre ==
  /\ Requests \subseteq Threads /\ Sweeper \in Threads /\ Sweeper \notin Requests
  /\ Nobody \notin Threads /\ \A t \in Threads : t \notin Requests => t = Sweeper
  BY RemoteAssumption DEF Threads

\* What a thread has at hand
LEMMA ThreadOf ==
  ASSUME TypeOK, NEW t \in Threads
  PROVE  /\ thread[t] \in Work /\ Rental(t) \in Rentals /\ Seen(t) \in Row
         /\ session[Rental(t)] \in Row /\ account[Rental(t)] \in Grants
  BY DEF TypeOK, Work, Rental, Seen

\* The copy of an idle thread is no row, its rental the first one.
LEMMA IdleIs ==
  /\ NoRow \in Row /\ Idle \in Work /\ Idle.at = "idle"
  /\ Someone \in Rentals
<1>1. NoRow \in Row
  BY RemoteAssumption DEF NoRow, Row, Statuses, Prepares, Grants
<1>2. Someone \in Rentals
  BY RemoteAssumption DEF Someone
<1> QED
  BY <1>1, <1>2 DEF Idle, Work, Steps, Ops

\* The row replaces whatever is there, and the two marks of `lost`.
LEMMA UpsertIs ==
  ASSUME TypeOK, NEW t \in Threads, NEW row \in Row, Upsert(t, row)
  PROVE  LET r == Rental(t)
         IN  /\ session' \in [Rentals -> Row]
             /\ lost' \in [Rentals -> SUBSET {"status", "prepare"}]
             /\ session'[r] = row
             /\ \A q \in Rentals : q # r => session'[q] = session[q] /\ lost'[q] = lost[q]
             /\ row.status = Seen(t).status /\ row.key = Seen(t).key /\ "status" \notin lost'[r]
                   => /\ "status" \notin lost[r]
                      /\ row.status = session[r].status /\ row.key = session[r].key
             /\ row.prepare = Seen(t).prepare /\ "prepare" \notin lost'[r]
                   => "prepare" \notin lost[r] /\ row.prepare = session[r].prepare
<1> DEFINE r == Rental(t)
           meant == Differ(row, Seen(t))
           missed == Differ(session[r], Seen(t))
           marks == (lost[r] \ meant) \cup (missed \ meant)
<1>1. /\ r \in Rentals /\ session \in [Rentals -> Row]
      /\ lost \in [Rentals -> SUBSET {"status", "prepare"}]
  BY ThreadOf DEF TypeOK
<1>2. session' = [session EXCEPT ![r] = row] /\ lost' = [lost EXCEPT ![r] = marks]
  BY DEF Upsert, Rental, Seen
<1>3. meant \subseteq {"status", "prepare"} /\ missed \subseteq {"status", "prepare"}
  BY DEF Differ
<1>4. /\ row.status = Seen(t).status /\ row.key = Seen(t).key => "status" \notin meant
      /\ "status" \notin missed
            => session[r].status = Seen(t).status /\ session[r].key = Seen(t).key
      /\ row.prepare = Seen(t).prepare => "prepare" \notin meant
      /\ "prepare" \notin missed => session[r].prepare = Seen(t).prepare
  BY DEF Differ
<1>5. marks \in SUBSET {"status", "prepare"} /\ lost'[r] = marks /\ session'[r] = row
  BY <1>1, <1>2, <1>3
<1> HIDE DEF meant, missed
<1>6. /\ row.status = Seen(t).status /\ row.key = Seen(t).key /\ "status" \notin lost'[r]
            => /\ "status" \notin lost[r]
               /\ row.status = session[r].status /\ row.key = session[r].key
      /\ row.prepare = Seen(t).prepare /\ "prepare" \notin lost'[r]
            => "prepare" \notin lost[r] /\ row.prepare = session[r].prepare
  BY <1>4, <1>5
<1> HIDE DEF marks
<1>7. /\ session' \in [Rentals -> Row]
      /\ lost' \in [Rentals -> SUBSET {"status", "prepare"}]
      /\ \A q \in Rentals : q # r => session'[q] = session[q] /\ lost'[q] = lost[q]
  BY <1>1, <1>2, <1>5
<1> QED
  BY <1>5, <1>6, <1>7

\* A write from outside the bay's lock brings no session that is sound.
LEMMA UpsertSound ==
  ASSUME TypeOK, NEW t \in Threads, NEW row \in Row, Upsert(t, row), UNCHANGED expired,
         row.status = Seen(t).status, row.key = Seen(t).key
  PROVE  \A r \in Rentals : Sound(r)' => Sound(r) /\ session'[r].key = session[r].key
<1> SUFFICES ASSUME NEW r \in Rentals, Sound(r)'
             PROVE  Sound(r) /\ session'[r].key = session[r].key
  OBVIOUS
<1>1. /\ session'[r].status = "active" /\ session'[r].key \notin expired
      /\ "status" \notin lost'[r]
  BY DEF Sound, Active, IsActive
<1>2. /\ session'[r].status = session[r].status /\ session'[r].key = session[r].key
      /\ "status" \notin lost[r]
  BY <1>1, UpsertIs, ThreadOf
<1> QED
  BY <1>1, <1>2 DEF Sound, Active, IsActive

\* A write that means the session alone brings no waiting state.
LEMMA UpsertWaits ==
  ASSUME TypeOK, NEW t \in Threads, NEW row \in Row, Upsert(t, row),
         row.prepare = Seen(t).prepare
  PROVE  \A r \in Rentals : Waits(r)' => Waits(r)
<1> SUFFICES ASSUME NEW r \in Rentals, Waits(r)'
             PROVE  Waits(r)
  OBVIOUS
<1>1. session'[r].prepare = "busy" /\ "prepare" \notin lost'[r]
  BY DEF Waits, Busy
<1>2. session'[r].prepare = session[r].prepare /\ "prepare" \notin lost[r]
  BY <1>1, UpsertIs, ThreadOf
<1> QED
  BY <1>1, <1>2 DEF Waits, Busy

--------------------------------------------------------------------------------
(* One step of a thread *)

\* The step of t leaves its thread as w: what each step of a request does to
\* the rows, the platform, the bay's lock and the number of grants.
Took(t, w) ==
    LET at == thread[t].at
        r == Rental(t)
    IN  /\ w \in Work /\ thread' = [thread EXCEPT ![t] = w]
        /\ t \notin Requests => w.at \in {"idle", "end", "revoke", "close"}
        /\ session' \in [Rentals -> Row]
        /\ lost' \in [Rentals -> SUBSET {"status", "prepare"}]
        /\ \A q \in Rentals : Sound(q)' =>
              \/ Sound(q) /\ session'[q].key = session[q].key
              \/ at = "store" /\ q = r /\ session'[q].key = account[q]
        /\ \A q \in Rentals : Waits(q)' => Waits(q) \/ (w.at \in Flows /\ w.rental = q)
        /\ \A q \in Rentals : at \in Flows /\ q = r /\ Waits(q)' => w.at \in Flows /\ w.rental = q
        /\ account' \in [Rentals -> Grants]
        /\ \A q \in Rentals : account'[q] # account[q] => q = r /\ at \in {"check", "revoke"}
        /\ slotLock' = IF w.at \in Locked THEN t
                       ELSE IF at \in Locked THEN Nobody ELSE slotLock
        /\ w.at \in Locked => at \in Locked \/ slotLock = Nobody
        /\ at = "revoke" => w.at = "close" /\ w.rental = r
        /\ \A q \in Rentals : at = "close" /\ q = r => ~Sound(q)'
        /\ at = "store" => w.at = "idle"
        /\ w.at \in Granting => at \in Granting \/ \A q \in Rentals : ~Sound(q)
        /\ left' \in 0..MaxEvents /\ grants' \in Nat
        /\ \/ grants' = grants /\ left' = left /\ (w.at \in Creating => at \in Creating)
           \/ grants' = grants /\ left = left' + 1
           \/ /\ grants' = grants + 1 /\ left' = left
              /\ at \in Creating /\ w.at \notin Creating
        /\ cached' \subseteq Rentals /\ flowLock' \in [Rentals -> Threads \cup {Nobody}]
        /\ UNCHANGED <<tenant, expired>>

\* The other threads stay where they are.
LEMMA TookEach ==
  ASSUME TypeOK, NEW t \in Threads, NEW w, Took(t, w)
  PROVE  /\ thread' \in [Threads -> Work]
         /\ \A p \in Threads : thread'[p] = IF p = t THEN w ELSE thread[p]
  BY DEF TypeOK, Took, Work

\* The number of grants
LEMMA TookGrants ==
  ASSUME IInv, NEW t \in Threads, NEW w, Took(t, w)
  PROVE  GrantsSuffice' /\ grants' \in Grants
<1>1. \A p \in Threads : thread'[p] = IF p = t THEN w ELSE thread[p]
  BY TookEach DEF IInv
<1>2. /\ IsFiniteSet(Creators) /\ Cardinality(Creators) \in Nat
      /\ grants + Cardinality(Creators) + left <= MaxEvents + 1
      /\ grants \in Nat /\ left \in Nat /\ left' \in Nat /\ grants' \in Nat /\ MaxEvents \in Nat
  BY FS_CardinalityType, RemoteAssumption DEF IInv, GrantsSuffice, TypeOK, Grants, Took
<1>3. /\ IsFiniteSet(Creators \cup {t})
      /\ Cardinality(Creators \cup {t}) =
            IF t \in Creators THEN Cardinality(Creators) ELSE Cardinality(Creators) + 1
  BY <1>2, FS_AddElement
<1>4. /\ IsFiniteSet(Creators \ {t})
      /\ Cardinality(Creators \ {t}) =
            IF t \in Creators THEN Cardinality(Creators) - 1 ELSE Cardinality(Creators)
  BY <1>2, FS_RemoveElement
<1>5. Creators' = IF w.at \in Creating THEN Creators \cup {t} ELSE Creators \ {t}
  BY <1>1 DEF Creators
<1>6. t \in Creators <=> thread[t].at \in Creating
  BY DEF Creators
<1>7. grants' + Cardinality(Creators') + left' <= MaxEvents + 1
  <2>1. CASE grants' = grants /\ left' = left /\ (w.at \in Creating => thread[t].at \in Creating)
    BY <1>2, <1>3, <1>4, <1>5, <1>6, <2>1
  <2>2. CASE grants' = grants /\ left = left' + 1
    BY <1>2, <1>3, <1>4, <1>5, <2>2
  <2>3. CASE /\ grants' = grants + 1 /\ left' = left
             /\ thread[t].at \in Creating /\ w.at \notin Creating
    BY <1>2, <1>4, <1>5, <1>6, <2>3
  <2> QED
    BY <2>1, <2>2, <2>3 DEF Took
<1>8. IsFiniteSet(Creators') /\ Cardinality(Creators') \in Nat
  BY <1>3, <1>4, <1>5, FS_CardinalityType
<1>9. grants' \in Grants
  BY <1>2, <1>7, <1>8 DEF Grants
<1> QED
  BY <1>7, <1>8, <1>9 DEF GrantsSuffice

\* The types
LEMMA TookTypes ==
  ASSUME IInv, NEW t \in Threads, NEW w, Took(t, w)
  PROVE  TypeOK'
<1>1. thread' \in [Threads -> Work] /\ grants' \in Grants
  BY TookEach, TookGrants DEF IInv
<1>2. slotLock' \in Threads \cup {Nobody}
  BY DEF Took, IInv, TypeOK
<1> QED
  BY <1>1, <1>2 DEF Took, IInv, TypeOK, Work

\* The lock of the bay, and what its holder may rely on
LEMMA TookLocks ==
  ASSUME IInv, NEW t \in Threads, NEW w, Took(t, w)
  PROVE  Held' /\ GrantsAlone'
<1>1. \A p \in Threads : thread'[p] = IF p = t THEN w ELSE thread[p]
  BY TookEach DEF IInv
<1>2. \A p \in Threads : thread[p].at \in Locked => slotLock = p
  BY DEF IInv, Held
<1>3. Held'
  <2>1. ASSUME NEW p \in Threads, thread'[p].at \in Locked
        PROVE  slotLock' = p
    BY <1>1, <1>2, <2>1, ThreadsAre DEF Took
  <2>2. thread'[Sweeper].at \in {"idle", "end", "revoke", "close"}
    BY <1>1, ThreadsAre DEF Took, IInv, Held
  <2> QED
    BY <2>1, <2>2 DEF Held
<1>4. ASSUME NEW p \in Threads, thread'[p].at \in Granting, NEW r \in Rentals, Sound(r)'
      PROVE  FALSE
  <2>1. CASE p = t
    BY <1>1, <1>4, <2>1 DEF Took, IInv, GrantsAlone, Granting
  <2>2. CASE p # t
    <3>1. thread[p].at \in Granting /\ slotLock = p /\ thread[t].at # "store"
      BY <1>1, <1>2, <1>4, <2>2 DEF Granting, Locked
    <3> QED
      BY <1>4, <3>1 DEF Took, IInv, GrantsAlone
  <2> QED
    BY <2>1, <2>2
<1> QED
  BY <1>3, <1>4 DEF GrantsAlone

\* Sessions and accounts
LEMMA TookSessions ==
  ASSUME IInv, NEW t \in Threads, NEW w, Took(t, w)
  PROVE  OneSessionPerBay' /\ LiveCredentials'
<1>1. \A p \in Threads : thread'[p] = IF p = t THEN w ELSE thread[p]
  BY TookEach DEF IInv
<1>2. \A p \in Threads : thread[p].at \in Locked => slotLock = p
  BY DEF IInv, Held
<1>3. ASSUME NEW r \in Rentals, NEW q \in Rentals, r # q, Sound(r)', Sound(q)'
      PROVE  FALSE
  <2>1. CASE Sound(r) /\ Sound(q)
    BY <1>3, <2>1 DEF IInv, OneSessionPerBay, Sound
  <2>2. CASE thread[t].at = "store"
    BY <1>3, <2>2 DEF Took, IInv, GrantsAlone, Granting
  <2> QED
    BY <1>3, <2>1, <2>2 DEF Took
<1>4. ASSUME NEW r \in Rentals, Sound(r)'
      PROVE  \/ account'[r] = session'[r].key
             \/ slotLock' # Nobody /\ thread'[slotLock'].rental = r /\ thread'[slotLock'].at = "close"
  <2>1. CASE thread[t].at = "store" /\ r = Rental(t) /\ session'[r].key = account[r]
    BY <2>1 DEF Took
  <2>2. CASE Sound(r) /\ session'[r].key = session[r].key
    <3>1. CASE account'[r] # account[r]
      <4>1. thread[t].at \in {"check", "revoke"} /\ r = Rental(t)
        BY <3>1 DEF Took
      <4>2. thread[t].at = "revoke"
        BY <2>2, <4>1 DEF IInv, GrantsAlone, Granting
      <4> QED
        BY <1>1, <4>1, <4>2, ThreadsAre DEF Took, Locked
    <3>2. CASE account[r] = session[r].key /\ account'[r] = account[r]
      BY <2>2, <3>2
    <3>3. CASE slotLock # Nobody /\ Rental(slotLock) = r /\ At(slotLock, "close")
      <4>1. slotLock \in Threads /\ thread[slotLock].rental = r /\ thread[slotLock].at = "close"
        BY <3>3 DEF IInv, TypeOK, Rental, At
      <4>2. slotLock # t
        BY <1>4, <4>1 DEF Took, Rental
      <4>3. slotLock' = slotLock
        BY <1>2, <3>3, <4>2 DEF Took
      <4> QED
        BY <1>1, <3>3, <4>1, <4>2, <4>3
    <3> QED
      BY <2>2, <3>1, <3>2, <3>3 DEF IInv, LiveCredentials, Sound
  <2> QED
    BY <1>4, <2>1, <2>2 DEF Took
<1>5. OneSessionPerBay'
  BY <1>3 DEF OneSessionPerBay, Sound
<1>6. LiveCredentials'
  BY <1>4 DEF LiveCredentials, Sound, Rental, At
<1> QED
  BY <1>5, <1>6

\* Waiting states
LEMMA TookFlows ==
  ASSUME IInv, NEW t \in Threads, NEW w, Took(t, w)
  PROVE  BusyHasFlow'
<1>1. \A p \in Threads : thread'[p] = IF p = t THEN w ELSE thread[p]
  BY TookEach DEF IInv
<1>2. ASSUME NEW r \in Rentals, Waits(r)'
      PROVE  \E p \in Requests : thread'[p].rental = r /\ thread'[p].at \in Flows
  <2>1. CASE w.at \in Flows /\ w.rental = r
    <3>1. t \in Requests
      BY <2>1 DEF Took, Flows
    <3> QED
      BY <1>1, <2>1, <3>1
  <2>2. CASE Waits(r) /\ ~(w.at \in Flows /\ w.rental = r)
    <3>1. PICK p \in Requests : thread[p].rental = r /\ thread[p].at \in Flows
      BY <2>2 DEF IInv, BusyHasFlow, Waits, Rental, Flows
    <3>2. p # t
      BY <1>2, <2>2, <3>1 DEF Took, Rental
    <3> QED
      BY <1>1, <3>1, <3>2, ThreadsAre
  <2> QED
    BY <1>2, <2>1, <2>2 DEF Took
<1> QED
  BY <1>2 DEF BusyHasFlow, Waits, Rental, Flows

\* A step of a thread keeps everything.
LEMMA TookKeeps ==
  ASSUME IInv, NEW t \in Threads, NEW w, Took(t, w)
  PROVE  IInv'
  BY TookTypes, TookGrants, TookLocks, TookSessions, TookFlows DEF IInv

--------------------------------------------------------------------------------
(* Steps that touch neither rows nor accounts *)

\* A thread goes on with its rental.
LEMMA MovesIs ==
  ASSUME TypeOK, NEW t \in Threads, NEW step \in Steps, NEW copy \in Row,
         thread' = [thread EXCEPT ![t].at = step, ![t].seen = copy]
  PROVE  \E w \in Work : /\ thread' = [thread EXCEPT ![t] = w]
                         /\ w.at = step /\ w.rental = Rental(t) /\ w.seen = copy
<1> DEFINE w == [thread[t] EXCEPT !.at = step, !.seen = copy]
<1>1. thread[t] \in Work
  BY ThreadOf
<1>2. w \in Work /\ w.at = step /\ w.rental = thread[t].rental /\ w.seen = copy
  BY <1>1 DEF Work
<1>3. thread' = [thread EXCEPT ![t] = w]
  OBVIOUS
<1> QED
  BY <1>2, <1>3 DEF Rental

\* ... having read the row or forgotten its copy
LEMMA GotoIs ==
  ASSUME TypeOK, NEW t \in Threads, NEW step \in Steps, Goto(t, step) \/ Reads(t, step)
  PROVE  \E w \in Work : /\ thread' = [thread EXCEPT ![t] = w]
                         /\ w.at = step /\ w.rental = Rental(t)
<1>1. session[thread[t].rental] \in Row /\ NoRow \in Row
  BY ThreadOf, IdleIs DEF Rental
<1> QED
  BY <1>1, MovesIs DEF Goto, Reads

\* Rows, accounts, bay's lock and requests to come stay as they are.
Quiet == UNCHANGED <<tenant, session, account, grants, expired, slotLock, left, lost>>

\* A thread goes on and changes none of them.
LEMMA WalkKeeps ==
  ASSUME IInv, NEW t \in Threads, NEW w \in Work, thread' = [thread EXCEPT ![t] = w],
         Quiet, cached' \subseteq Rentals, flowLock' \in [Rentals -> Threads \cup {Nobody}],
         thread[t].at \notin Locked, w.at \notin Locked \cup Creating,
         t \notin Requests => w.at \in {"idle", "end"},
         thread[t].at \in Flows => w.at \in Flows /\ w.rental = Rental(t)
  PROVE  IInv'
<1>1. \A q \in Rentals : /\ Sound(q)' => Sound(q) /\ session'[q].key = session[q].key
                         /\ Waits(q)' => Waits(q)
  BY DEF Quiet, Sound, Active, IsActive, Waits, Busy
<1>2. /\ session' \in [Rentals -> Row] /\ account' \in [Rentals -> Grants]
      /\ lost' \in [Rentals -> SUBSET {"status", "prepare"}]
      /\ left' \in 0..MaxEvents /\ grants' \in Nat
  BY DEF Quiet, IInv, TypeOK, Grants
<1>3. thread[t].at \notin {"revoke", "close", "store", "check"} /\ w.at \notin Granting
  BY DEF Locked, Granting
<1>4. Took(t, w)
  BY <1>1, <1>2, <1>3 DEF Took, Quiet, Locked
<1> QED
  BY <1>4, TookKeeps

\* Releasing a rental's lock
LEMMA UnlockedIs ==
  ASSUME TypeOK, NEW t \in Threads
  PROVE  /\ Unlocked(t) \in [Rentals -> Threads \cup {Nobody}]
         /\ \A r \in Rentals :
               [flowLock EXCEPT ![r] = t] \in [Rentals -> Threads \cup {Nobody}]
  BY DEF Unlocked, TypeOK

\* The steps of the requests that only look
LEMMA LookKeeps ==
  ASSUME IInv, NEW t \in Threads,
         \/ CreateAnswered(t) \/ EndMissing(t)
         \/ ObserveLock(t) \/ ObserveNothing(t) \/ ObserveRead(t)
         \/ VoidfixSkip(t) \/ VoidfixRead(t)
         \/ PrepareAnswered(t) \/ PrepareEsim(t) \/ RebootForCustomer(t) \/ FlowRead(t)
  PROVE  IInv'
<1>1. /\ TypeOK /\ Quiet /\ cached' \subseteq Rentals
      /\ thread[t].at \in {"create", "end", "observe", "farm", "voidfix", "prepare", "flow"}
  BY DEF CreateAnswered, EndMissing, ObserveLock, ObserveNothing, ObserveRead, VoidfixSkip,
     VoidfixRead, PrepareAnswered, PrepareEsim, RebootForCustomer, FlowRead, At, Quiet,
     platformVars, worldVars, IInv, TypeOK
<1>2. flowLock' \in [Rentals -> Threads \cup {Nobody}]
  <2>1. Rental(t) \in Rentals /\ flowLock \in [Rentals -> Threads \cup {Nobody}]
    BY <1>1, ThreadOf DEF TypeOK
  <2>2. \/ UNCHANGED flowLock \/ flowLock' = [flowLock EXCEPT ![Rental(t)] = t]
        \/ flowLock' = Unlocked(t)
    BY DEF CreateAnswered, EndMissing, ObserveLock, ObserveNothing, ObserveRead, VoidfixSkip,
       VoidfixRead, PrepareAnswered, PrepareEsim, RebootForCustomer, FlowRead, Observed
  <2> QED
    BY <1>1, <2>1, <2>2, UnlockedIs
<1>3. \/ Done(t) /\ thread[t].at # "flow"
      \/ \E step \in {"voidfix", "end", "farm", "note", "report", "start"} :
            (Goto(t, step) \/ Reads(t, step)) /\ thread[t].at \notin {"end", "flow"}
      \/ Reads(t, "reach") /\ thread[t].at = "flow"
  BY DEF CreateAnswered, EndMissing, ObserveLock, ObserveNothing, ObserveRead, VoidfixSkip,
     VoidfixRead, PrepareAnswered, PrepareEsim, RebootForCustomer, FlowRead, Observed, At
<1>4. t \notin Requests => thread[t].at = "end"
  BY <1>1, ThreadsAre DEF IInv, Held
<1>5. CASE Done(t) /\ thread[t].at # "flow"
  <2>1. thread[t].at \notin Locked \cup Flows
    BY <1>1, <1>5 DEF Locked, Flows
  <2>2. Idle.at \notin Locked \cup Creating
    BY IdleIs DEF Locked, Creating
  <2> QED
    BY <1>1, <1>2, <1>5, <2>1, <2>2, IdleIs, WalkKeeps DEF Done
<1>6. ASSUME NEW step \in {"voidfix", "end", "farm", "note", "report", "start"},
             Goto(t, step) \/ Reads(t, step), thread[t].at \notin {"end", "flow"}
      PROVE  IInv'
  <2>1. step \in Steps /\ step \notin Locked \cup Creating
    BY DEF Steps, Locked, Creating
  <2>2. PICK w \in Work : thread' = [thread EXCEPT ![t] = w] /\ w.at = step
    BY <1>1, <1>6, <2>1, GotoIs
  <2>3. thread[t].at \notin Locked \cup Flows
    BY <1>1, <1>6 DEF Locked, Flows
  <2> QED
    BY <1>1, <1>2, <1>4, <1>6, <2>1, <2>2, <2>3, WalkKeeps
<1>7. CASE Reads(t, "reach") /\ thread[t].at = "flow"
  <2>1. "reach" \in Steps /\ "reach" \notin Locked \cup Creating
        /\ "flow" \notin Locked /\ "reach" \in Flows
    BY DEF Steps, Locked, Creating, Flows
  <2>2. PICK w \in Work :
           thread' = [thread EXCEPT ![t] = w] /\ w.at = "reach" /\ w.rental = Rental(t)
    BY <1>1, <1>7, <2>1, GotoIs
  <2> QED
    BY <1>1, <1>2, <1>4, <1>7, <2>1, <2>2, WalkKeeps
<1> QED
  BY <1>3, <1>5, <1>6, <1>7

\* A request begins.
LEMMA EnterKeeps ==
  ASSUME IInv, NEW t \in Requests, NEW r \in Rentals, NEW op \in Ops,
         NEW step \in {"create", "end", "observe", "voidfix", "prepare"},
         Enter(t, r, op, step), cached' \subseteq Rentals
  PROVE  IInv'
<1> DEFINE w == [at |-> step, op |-> op, rental |-> r, seen |-> NoRow]
<1>1. w \in Work /\ w.at = step /\ w.rental = r
  BY IdleIs DEF Work, Steps
<1>2. /\ t \in Threads /\ thread[t].at = "idle" /\ thread' = [thread EXCEPT ![t] = w]
      /\ left > 0 /\ left' = left - 1
      /\ UNCHANGED <<tenant, session, account, grants, expired, slotLock, flowLock, lost>>
  BY ThreadsAre DEF Enter, At, platformVars, worldVars
<1>3. \A q \in Rentals : /\ Sound(q)' => Sound(q) /\ session'[q].key = session[q].key
                         /\ Waits(q)' => Waits(q)
  BY <1>2 DEF Sound, Active, IsActive, Waits, Busy
<1>4. /\ session' \in [Rentals -> Row] /\ account' \in [Rentals -> Grants]
      /\ lost' \in [Rentals -> SUBSET {"status", "prepare"}]
      /\ flowLock' \in [Rentals -> Threads \cup {Nobody}] /\ grants' \in Nat
  BY <1>2 DEF IInv, TypeOK, Grants
<1>5. left' \in 0..MaxEvents /\ left = left' + 1
  BY <1>2, RemoteAssumption DEF IInv, TypeOK
<1>6. thread[t].at \notin Locked \cup Flows /\ w.at \notin Locked \cup Flows
      /\ w.at \notin Granting
  BY <1>1, <1>2 DEF Locked, Flows, Granting
<1> HIDE DEF w
<1>7. Took(t, w)
  BY <1>1, <1>2, <1>3, <1>4, <1>5, <1>6 DEF Took
<1> QED
  BY <1>2, <1>7, TookKeeps

\* The requests of customers, of the farm service and of operators
LEMMA RequestKeeps ==
  ASSUME IInv, NEW t \in Requests, NEW r \in Rentals,
         Accept(t, r) \/ Expel(t, r) \/ EndBySystem(t, r)
  PROVE  IInv'
<1>1. cached' \subseteq Rentals
  BY DEF Accept, Expel, EndBySystem, IInv, TypeOK
<1>2. \E op \in Ops, step \in {"create", "end", "observe", "voidfix", "prepare"} :
         Enter(t, r, op, step)
  BY DEF Accept, Expel, EndBySystem, Ops
<1> QED
  BY <1>1, <1>2, EnterKeeps

\* The poller begins to end a session.
LEMMA SweepKeeps ==
  ASSUME IInv, NEW r \in Rentals, SweepStaleSessions(r)
  PROVE  IInv'
<1> DEFINE w == [at |-> "end", op |-> "end", rental |-> r, seen |-> NoRow]
<1>1. w \in Work /\ w.at = "end"
  BY IdleIs DEF Work, Steps, Ops
<1>2. /\ thread[Sweeper].at = "idle" /\ thread' = [thread EXCEPT ![Sweeper] = w]
      /\ Quiet /\ UNCHANGED <<cached, flowLock>>
  BY DEF SweepStaleSessions, At, Quiet, platformVars, worldVars
<1>3. /\ cached' \subseteq Rentals /\ flowLock' \in [Rentals -> Threads \cup {Nobody}]
  BY <1>2 DEF IInv, TypeOK
<1>4. "idle" \notin Locked \cup Flows /\ "end" \notin Locked \cup Creating
  BY DEF Locked, Flows, Creating
<1> HIDE DEF w
<1> QED
  BY <1>1, <1>2, <1>3, <1>4, WalkKeeps, ThreadsAre

--------------------------------------------------------------------------------
(* Writes from outside the bay's lock *)

\* A thread writes its row back and goes on: it means the prepare state at most.
LEMMA WriteKeeps ==
  ASSUME IInv, NEW t \in Requests, NEW row \in Row, Upsert(t, row),
         row.status = Seen(t).status, row.key = Seen(t).key,
         NEW w \in Work, thread' = [thread EXCEPT ![t] = w],
         thread[t].at \notin Locked, w.at \notin Locked \cup Creating,
         \/ row.prepare = Seen(t).prepare /\ thread[t].at \notin Flows
         \/ row.prepare # "busy"
         \/ w.at \in Flows /\ w.rental = Rental(t),
         cached' \subseteq Rentals, flowLock' \in [Rentals -> Threads \cup {Nobody}],
         UNCHANGED <<tenant, account, grants, expired, slotLock, left>>
  PROVE  IInv'
<1>1. TypeOK /\ t \in Threads
  BY ThreadsAre DEF IInv
<1>2. \A q \in Rentals : Sound(q)' => Sound(q) /\ session'[q].key = session[q].key
  BY <1>1, UpsertSound
<1>3. /\ session' \in [Rentals -> Row] /\ lost' \in [Rentals -> SUBSET {"status", "prepare"}]
      /\ session'[Rental(t)] = row
      /\ \A q \in Rentals : q # Rental(t) => session'[q] = session[q] /\ lost'[q] = lost[q]
  BY <1>1, UpsertIs
<1>4. /\ account' \in [Rentals -> Grants] /\ left' \in 0..MaxEvents /\ grants' \in Nat
  BY <1>1 DEF TypeOK, Grants
<1>5. \A q \in Rentals : Waits(q)' => Waits(q) \/ (w.at \in Flows /\ w.rental = q)
  <2>1. CASE row.prepare = Seen(t).prepare
    BY <1>1, <2>1, UpsertWaits
  <2>2. CASE row.prepare # "busy" \/ (w.at \in Flows /\ w.rental = Rental(t))
    BY <1>3, <2>2 DEF Waits, Busy
  <2> QED
    BY <2>1, <2>2
<1>6. \A q \in Rentals : thread[t].at \in Flows /\ q = Rental(t) /\ Waits(q)'
        => w.at \in Flows /\ w.rental = q
  BY <1>3 DEF Waits, Busy
<1>7. thread[t].at \notin {"check", "store", "revoke", "close"} /\ w.at \notin Granting
  BY DEF Locked, Granting
<1>8. Took(t, w)
  BY <1>2, <1>3, <1>4, <1>5, <1>6, <1>7 DEF Took
<1> QED
  BY <1>1, <1>8, TookKeeps

\* The steps of the observation and of VoidFix that write
LEMMA NoteKeeps ==
  ASSUME IInv, NEW t \in Threads, ObserveStore(t) \/ VoidfixStore(t)
  PROVE  IInv'
<1>1. /\ TypeOK /\ thread[t].at \in {"farm", "note", "report"} /\ Upsert(t, Seen(t))
      /\ UNCHANGED <<tenant, cached, account, grants, expired, slotLock, left>>
      /\ UNCHANGED flowLock \/ flowLock' = Unlocked(t)
      /\ Done(t) \/ Goto(t, "voidfix") \/ Goto(t, "end")
  BY DEF ObserveStore, VoidfixStore, Observed, At, platformVars, worldVars, IInv
<1>2. t \in Requests /\ Seen(t) \in Row
  BY <1>1, ThreadsAre, ThreadOf DEF IInv, Held
<1>3. \E w \in Work : thread' = [thread EXCEPT ![t] = w] /\ w.at \in {"idle", "voidfix", "end"}
  <2>1. "voidfix" \in Steps /\ "end" \in Steps
    BY DEF Steps
  <2>2. CASE Done(t)
    BY <2>2, IdleIs DEF Done
  <2>3. CASE Goto(t, "voidfix") \/ Goto(t, "end")
    BY <1>1, <2>1, <2>3, GotoIs
  <2> QED
    BY <1>1, <2>2, <2>3
<1>4. PICK w \in Work : thread' = [thread EXCEPT ![t] = w] /\ w.at \in {"idle", "voidfix", "end"}
  BY <1>3
<1>5. /\ thread[t].at \notin Locked \cup Flows /\ w.at \notin Locked \cup Creating
  BY <1>1, <1>4 DEF Locked, Flows, Creating
<1>6. cached' \subseteq Rentals /\ flowLock' \in [Rentals -> Threads \cup {Nobody}]
  BY <1>1, UnlockedIs DEF TypeOK
<1> QED
  BY <1>1, <1>2, <1>4, <1>5, <1>6, WriteKeeps

\* The steps that start, continue and end a flow
LEMMA FlowKeeps ==
  ASSUME IInv, NEW t \in Threads, StartFlow(t) \/ FlowReboots(t) \/ FlowEnds(t)
  PROVE  IInv'
<1>1. /\ TypeOK /\ thread[t].at \in {"start", "reach"}
      /\ UNCHANGED <<tenant, cached, account, grants, expired, slotLock, left>>
      /\ UNCHANGED flowLock \/ flowLock' = Unlocked(t)
  BY DEF StartFlow, FlowReboots, FlowEnds, At, platformVars, worldVars, IInv
<1>2. t \in Requests /\ Seen(t) \in Row /\ thread[t] \in Work
  BY <1>1, ThreadsAre, ThreadOf DEF IInv, Held
<1>3. cached' \subseteq Rentals /\ flowLock' \in [Rentals -> Threads \cup {Nobody}]
  BY <1>1, UnlockedIs DEF TypeOK
<1>4. thread[t].at \notin Locked /\ "flow" \notin Locked \cup Creating /\ "flow" \in Flows
      /\ "idle" \notin Locked \cup Creating
  BY <1>1 DEF Locked, Creating, Flows
<1>5. \A prepare \in Prepares :
         LET row == [Seen(t) EXCEPT !.prepare = prepare]
         IN  /\ row \in Row /\ row.prepare = prepare
             /\ row.status = Seen(t).status /\ row.key = Seen(t).key
  BY <1>2 DEF Row
<1>6. CASE StartFlow(t) \/ FlowReboots(t)
  <2>1. Upsert(t, [Seen(t) EXCEPT !.prepare = "busy"]) /\ "busy" \in Prepares
    BY <1>6 DEF StartFlow, FlowReboots, Prepares
  <2>2. \E w \in Work : /\ thread' = [thread EXCEPT ![t] = w]
                        /\ w.at = "flow" /\ w.rental = Rental(t)
    <3>1. CASE StartFlow(t)
      <4>1. Goto(t, "flow") /\ "flow" \in Steps
        BY <3>1 DEF StartFlow, Steps
      <4> QED
        BY <1>1, <4>1, GotoIs
    <3>2. CASE FlowReboots(t)
      <4> DEFINE w == [thread[t] EXCEPT !.at = "flow", !.op = "reboot", !.seen = NoRow]
      <4>1. w \in Work /\ w.at = "flow" /\ w.rental = thread[t].rental
        BY <1>2, IdleIs DEF Work, Steps, Ops
      <4>2. thread' = [thread EXCEPT ![t] = w]
        BY <3>2 DEF FlowReboots
      <4> QED
        BY <4>1, <4>2 DEF Rental
    <3> QED
      BY <1>6, <3>1, <3>2
  <2>3. PICK w \in Work : /\ thread' = [thread EXCEPT ![t] = w]
                          /\ w.at = "flow" /\ w.rental = Rental(t)
    BY <2>2
  <2> QED
    BY <1>1, <1>2, <1>3, <1>4, <1>5, <2>1, <2>3, WriteKeeps
<1>7. CASE FlowEnds(t)
  <2>1. PICK prepare \in {"open", "ready"} : Upsert(t, [Seen(t) EXCEPT !.prepare = prepare])
    BY <1>7 DEF FlowEnds
  <2>2. prepare \in Prepares /\ prepare # "busy"
    BY DEF Prepares
  <2>3. thread' = [thread EXCEPT ![t] = Idle]
    BY <1>7 DEF FlowEnds, Done
  <2> DEFINE row == [Seen(t) EXCEPT !.prepare = prepare]
  <2>4. /\ Upsert(t, row) /\ row \in Row /\ row.prepare # "busy"
        /\ row.status = Seen(t).status /\ row.key = Seen(t).key
    BY <1>5, <2>1, <2>2
  <2> HIDE DEF row
  <2> QED
    BY <1>1, <1>2, <1>3, <1>4, <2>3, <2>4, IdleIs, WriteKeeps
<1> QED
  BY <1>6, <1>7

--------------------------------------------------------------------------------
(* create_remote_access *)

\* The bay's lock is taken when no rental of it has a session.
LEMMA CreateLockKeeps ==
  ASSUME IInv, NEW t \in Threads, CreateLock(t)
  PROVE  IInv'
<1> DEFINE r == Rental(t)
           row == IF session[r].status = "none" THEN [NoRow EXCEPT !.status = "closed"]
                  ELSE session[r]
<1>1. /\ thread[t].at = "create" /\ slotLock = Nobody /\ slotLock' = t
      /\ FreeFor(r) /\ ~Active(r)
      /\ session' = [session EXCEPT ![r] = row]
      /\ thread' = [thread EXCEPT ![t].at = "check", ![t].seen = row]
      /\ UNCHANGED <<tenant, cached, account, grants, expired, flowLock, left, lost>>
  BY DEF CreateLock, At, platformVars, worldVars
<1>2. /\ r \in Rentals /\ session[r] \in Row /\ TypeOK /\ t \in Requests
  BY <1>1, ThreadOf, ThreadsAre DEF IInv, Held
<1>3. /\ row \in Row
      /\ row.status = "active" => row = session[r]
      /\ row.prepare = "busy" => row = session[r]
  BY <1>2, IdleIs DEF Row, NoRow, Statuses
<1> HIDE DEF row
<1> DEFINE w == [thread[t] EXCEPT !.at = "check", !.seen = row]
<1>4. w \in Work /\ w.at = "check" /\ w.rental = r
  <2>1. thread[t] \in Work
    BY <1>2, ThreadOf
  <2> QED
    BY <1>3, <2>1 DEF Work, Steps, Rental
<1>5. thread' = [thread EXCEPT ![t] = w]
  BY <1>1
<1> HIDE DEF w
<1>6. /\ session' \in [Rentals -> Row]
      /\ \A q \in Rentals : session'[q] = IF q = r THEN row ELSE session[q]
  BY <1>1, <1>2, <1>3 DEF TypeOK
<1>7. \A q \in Rentals : ~Sound(q)
  BY <1>1 DEF FreeFor, Sound
<1> HIDE DEF r
<1>8. \A q \in Rentals : Sound(q)' => Sound(q)
  BY <1>1, <1>3, <1>6 DEF Sound, Active, IsActive
<1>9. \A q \in Rentals : Waits(q)' => Waits(q)
  BY <1>1, <1>3, <1>6 DEF Waits, Busy
<1>10. /\ account' \in [Rentals -> Grants] /\ lost' \in [Rentals -> SUBSET {"status", "prepare"}]
       /\ left' \in 0..MaxEvents /\ grants' \in Nat /\ cached' \subseteq Rentals
       /\ flowLock' \in [Rentals -> Threads \cup {Nobody}]
  BY <1>1, <1>2 DEF TypeOK, Grants
<1>11. /\ "create" \notin Locked \cup Flows /\ "create" \in Creating
       /\ "check" \in Locked /\ "check" \notin Flows
  BY DEF Locked, Flows, Creating
<1>12. Took(t, w)
  BY <1>1, <1>2, <1>4, <1>5, <1>6, <1>7, <1>8, <1>9, <1>10, <1>11 DEF Took, r
<1> QED
  BY <1>12, TookKeeps

\* grant_access fails, having deleted the old account or not, or makes a new one.
LEMMA GrantKeeps ==
  ASSUME IInv, NEW t \in Threads, CreateRefused(t) \/ CreateGranted(t)
  PROVE  IInv'
<1> DEFINE r == Rental(t)
<1>1. /\ thread[t].at = "check"
      /\ UNCHANGED <<tenant, cached, session, expired, flowLock, left, lost>>
  BY DEF CreateRefused, CreateGranted, At, platformVars, worldVars
<1>2. /\ r \in Rentals /\ TypeOK /\ t \in Requests /\ thread[t] \in Work /\ slotLock = t
  BY <1>1, ThreadOf, ThreadsAre DEF IInv, Held, Locked
<1>3. \A q \in Rentals : /\ Sound(q)' => Sound(q) /\ session'[q].key = session[q].key
                         /\ Waits(q)' => Waits(q)
  BY <1>1 DEF Sound, Active, IsActive, Waits, Busy
<1>4. /\ session' \in [Rentals -> Row] /\ lost' \in [Rentals -> SUBSET {"status", "prepare"}]
      /\ left' \in 0..MaxEvents /\ cached' \subseteq Rentals
      /\ flowLock' \in [Rentals -> Threads \cup {Nobody}]
  BY <1>1, <1>2 DEF TypeOK
<1>5. /\ "check" \in Locked \cap Creating /\ "check" \notin Flows /\ "check" \in Granting
      /\ "idle" \notin Locked \cup Creating \cup Granting
      /\ "store" \in Locked \cap Granting /\ "store" \notin Creating
  BY DEF Locked, Flows, Creating, Granting
<1>6. grants + 1 \in Grants /\ 0 \in Grants /\ grants \in Nat
  <2>1. t \in Creators
    BY <1>1, <1>5 DEF Creators
  <2>2. Cardinality(Creators) \in Nat /\ Cardinality(Creators) # 0
    BY <2>1, FS_CardinalityType, FS_EmptySet DEF IInv, GrantsSuffice
  <2>3. /\ grants + Cardinality(Creators) + left <= MaxEvents + 1
        /\ grants \in Nat /\ left \in Nat /\ MaxEvents \in Nat
    BY <1>2, RemoteAssumption DEF IInv, GrantsSuffice, TypeOK, Grants
  <2>4. grants + 1 <= MaxEvents + 1
    BY <2>2, <2>3
  <2> QED
    BY <2>3, <2>4 DEF Grants
<1> HIDE DEF r
<1>7. CASE CreateRefused(t)
  <2>1. /\ UNCHANGED account \/ account' = [account EXCEPT ![r] = 0]
        /\ slotLock' = Nobody /\ thread' = [thread EXCEPT ![t] = Idle] /\ UNCHANGED grants
    BY <1>7 DEF CreateRefused, Done, r
  <2>2. /\ account' \in [Rentals -> Grants]
        /\ \A q \in Rentals : account'[q] # account[q] => q = r
    BY <1>2, <1>6, <2>1 DEF TypeOK
  <2>3. Took(t, Idle)
    BY <1>1, <1>2, <1>3, <1>4, <1>5, <1>6, <2>1, <2>2, IdleIs DEF Took, r
  <2> QED
    BY <2>3, TookKeeps
<1>8. CASE CreateGranted(t)
  <2> DEFINE w == [thread[t] EXCEPT !.at = "store"]
  <2>1. /\ grants' = grants + 1 /\ account' = [account EXCEPT ![r] = grants']
        /\ thread' = [thread EXCEPT ![t] = w] /\ UNCHANGED slotLock
    BY <1>8 DEF CreateGranted, r
  <2>2. w \in Work /\ w.at = "store"
    BY <1>2 DEF Work, Steps
  <2> HIDE DEF w
  <2>3. /\ account' \in [Rentals -> Grants]
        /\ \A q \in Rentals : account'[q] # account[q] => q = r
    BY <1>2, <1>6, <2>1 DEF TypeOK
  <2>4. grants' \in Nat
    BY <1>6, <2>1
  <2>5. Took(t, w)
    BY <1>1, <1>2, <1>3, <1>4, <1>5, <2>1, <2>2, <2>3, <2>4 DEF Took, r
  <2> QED
    BY <2>5, TookKeeps
<1> QED
  BY <1>7, <1>8

\* The new session is stored.
LEMMA CreateStoreKeeps ==
  ASSUME IInv, NEW t \in Threads, CreateStore(t)
  PROVE  IInv'
<1> DEFINE r == Rental(t)
           row == [Seen(t) EXCEPT !.status = "active", !.key = account[r]]
<1>1. /\ thread[t].at = "store" /\ Upsert(t, row) /\ slotLock' = Nobody
      /\ thread' = [thread EXCEPT ![t] = Idle]
      /\ UNCHANGED <<tenant, cached, account, grants, expired, flowLock, left>>
  BY DEF CreateStore, At, Done, platformVars, worldVars
<1>2. /\ r \in Rentals /\ TypeOK /\ Seen(t) \in Row /\ account[r] \in Grants /\ slotLock = t
  BY <1>1, ThreadOf DEF IInv, Held, Locked
<1>3. row \in Row /\ row.prepare = Seen(t).prepare /\ row.key = account[r]
  BY <1>2 DEF Row, Statuses
<1> HIDE DEF row
<1>4. /\ session' \in [Rentals -> Row] /\ lost' \in [Rentals -> SUBSET {"status", "prepare"}]
      /\ session'[r] = row
      /\ \A q \in Rentals : q # r => session'[q] = session[q] /\ lost'[q] = lost[q]
  BY <1>1, <1>2, <1>3, UpsertIs
<1>5. \A q \in Rentals : Waits(q)' => Waits(q)
  BY <1>1, <1>2, <1>3, UpsertWaits
<1>6. /\ account' \in [Rentals -> Grants] /\ left' \in 0..MaxEvents /\ grants' \in Nat
      /\ cached' \subseteq Rentals /\ flowLock' \in [Rentals -> Threads \cup {Nobody}]
  BY <1>1, <1>2 DEF TypeOK, Grants
<1>7. \A q \in Rentals : Sound(q)' =>
         \/ Sound(q) /\ session'[q].key = session[q].key
         \/ q = r /\ session'[q].key = account[q]
  BY <1>1, <1>3, <1>4 DEF Sound, Active, IsActive
<1>8. /\ "store" \in Locked /\ "store" \notin Flows
      /\ "idle" \notin Locked \cup Creating \cup Granting
  BY DEF Locked, Flows, Creating, Granting
<1> HIDE DEF r
<1>9. Took(t, Idle)
  BY <1>1, <1>2, <1>4, <1>5, <1>6, <1>7, <1>8, IdleIs DEF Took, r
<1> QED
  BY <1>9, TookKeeps

--------------------------------------------------------------------------------
(* _end_session *)

\* The bay's lock is taken, the account is deleted or not.
LEMMA EndLockKeeps ==
  ASSUME IInv, NEW t \in Threads, EndLock(t) \/ EndRevoke(t)
  PROVE  IInv'
<1> DEFINE r == Rental(t)
<1>1. /\ UNCHANGED <<tenant, cached, session, grants, expired, flowLock, left, lost>>
      /\ \/ /\ thread[t].at = "end" /\ slotLock = Nobody /\ slotLock' = t /\ UNCHANGED account
            /\ Goto(t, "revoke") \/ Reads(t, "close")
         \/ /\ thread[t].at = "revoke" /\ UNCHANGED slotLock /\ Reads(t, "close")
            /\ UNCHANGED account \/ account' = [account EXCEPT ![r] = 0]
  BY DEF EndLock, EndRevoke, At, platformVars, worldVars
<1>2. /\ r \in Rentals /\ TypeOK /\ (thread[t].at = "revoke" => slotLock = t)
  BY ThreadOf DEF IInv, Held, Locked
<1>3. \A q \in Rentals : /\ Sound(q)' => Sound(q) /\ session'[q].key = session[q].key
                         /\ Waits(q)' => Waits(q)
  BY <1>1 DEF Sound, Active, IsActive, Waits, Busy
<1>4. /\ session' \in [Rentals -> Row] /\ lost' \in [Rentals -> SUBSET {"status", "prepare"}]
      /\ left' \in 0..MaxEvents /\ grants' \in Nat /\ cached' \subseteq Rentals
      /\ flowLock' \in [Rentals -> Threads \cup {Nobody}]
  BY <1>1, <1>2 DEF TypeOK, Grants
<1>5. 0 \in Grants /\ "revoke" \in Steps /\ "close" \in Steps
  BY RemoteAssumption DEF Grants, Steps
<1>6. /\ account' \in [Rentals -> Grants]
      /\ \A q \in Rentals : account'[q] # account[q] => q = r /\ thread[t].at = "revoke"
  BY <1>1, <1>2, <1>5 DEF TypeOK
<1>7. PICK w \in Work : /\ thread' = [thread EXCEPT ![t] = w] /\ w.rental = r
                        /\ w.at \in {"revoke", "close"}
                        /\ thread[t].at = "revoke" => w.at = "close"
  BY <1>1, <1>2, <1>5, GotoIs
<1>8. /\ {"revoke", "close"} \subseteq Locked /\ "end" \notin Locked
      /\ \A s \in {"end", "revoke", "close"} : s \notin Flows \cup Creating \cup Granting
  BY DEF Locked, Flows, Creating, Granting
<1> HIDE DEF r
<1>9. Took(t, w)
  BY <1>1, <1>2, <1>3, <1>4, <1>6, <1>7, <1>8 DEF Took, r
<1> QED
  BY <1>9, TookKeeps

\* The session is closed.
LEMMA EndStoreKeeps ==
  ASSUME IInv, NEW t \in Threads, EndStore(t)
  PROVE  IInv'
<1> DEFINE r == Rental(t)
           row == [Seen(t) EXCEPT !.status = "closed", !.key = 0]
<1>1. /\ thread[t].at = "close" /\ Upsert(t, row) /\ slotLock' = Nobody
      /\ cached' = cached \ {r} /\ thread' = [thread EXCEPT ![t] = Idle]
      /\ UNCHANGED <<tenant, account, grants, expired, flowLock, left>>
  BY DEF EndStore, At, Done, platformVars, worldVars
<1>2. /\ r \in Rentals /\ TypeOK /\ Seen(t) \in Row /\ slotLock = t
  BY <1>1, ThreadOf DEF IInv, Held, Locked
<1>3. row \in Row /\ row.prepare = Seen(t).prepare /\ row.status = "closed"
  <2>1. 0 \in Grants
    BY RemoteAssumption DEF Grants
  <2> QED
    BY <1>2, <2>1 DEF Row, Statuses
<1> HIDE DEF row
<1>4. /\ session' \in [Rentals -> Row] /\ lost' \in [Rentals -> SUBSET {"status", "prepare"}]
      /\ session'[r] = row
      /\ \A q \in Rentals : q # r => session'[q] = session[q] /\ lost'[q] = lost[q]
  BY <1>1, <1>2, <1>3, UpsertIs
<1>5. \A q \in Rentals : Waits(q)' => Waits(q)
  BY <1>1, <1>2, <1>3, UpsertWaits
<1>6. /\ account' \in [Rentals -> Grants] /\ left' \in 0..MaxEvents /\ grants' \in Nat
      /\ cached' \subseteq Rentals /\ flowLock' \in [Rentals -> Threads \cup {Nobody}]
  BY <1>1, <1>2 DEF TypeOK, Grants
<1>7. \A q \in Rentals : Sound(q)' => q # r /\ Sound(q) /\ session'[q].key = session[q].key
  BY <1>1, <1>3, <1>4 DEF Sound, Active, IsActive
<1>8. /\ "close" \in Locked /\ "close" \notin Flows
      /\ "idle" \notin Locked \cup Creating \cup Granting
  BY DEF Locked, Flows, Creating, Granting
<1> HIDE DEF r
<1>9. Took(t, Idle)
  BY <1>1, <1>2, <1>4, <1>5, <1>6, <1>7, <1>8, IdleIs DEF Took, r
<1> QED
  BY <1>9, TookKeeps

--------------------------------------------------------------------------------
(* The shop, the clock and the restart *)

\* The shop's rows, the cache and the clock
LEMMA WorldKeeps ==
  ASSUME IInv, NEW r \in Rentals, Let(r) \/ Over(r) \/ Expire(r) \/ Forget(r)
  PROVE  IInv'
<1>1. /\ UNCHANGED <<session, account, grants, slotLock, flowLock, thread, left, lost>>
      /\ expired \subseteq expired'
      /\ TypeOK
  BY DEF Let, Over, Expire, Forget, platformVars, worldVars, IInv
<1>2. /\ tenant' \in [Rentals -> {"coming", "ours", "gone", "past", "unowned"}]
      /\ cached' \subseteq Rentals /\ expired' \subseteq Grants
  BY <1>1, RemoteAssumption DEF Let, Over, Expire, Forget, worldVars, TypeOK, Row
<1>3. TypeOK'
  BY <1>1, <1>2 DEF TypeOK
<1>4. \A q \in Rentals : /\ Active(q)' => Active(q)
                         /\ Sound(q)' => Sound(q)
  BY <1>1 DEF Sound, Active, IsActive
<1>5. GrantsSuffice' /\ Held' /\ GrantsAlone'
  BY <1>1, <1>4 DEF IInv, GrantsSuffice, Creators, Held, GrantsAlone
<1>6. OneSessionPerBay'
  BY <1>1, <1>4 DEF IInv, OneSessionPerBay
<1>7. LiveCredentials'
  BY <1>1, <1>4 DEF IInv, LiveCredentials, Rental, At
<1>8. BusyHasFlow'
  BY <1>1 DEF IInv, BusyHasFlow, Busy, Rental
<1> QED
  BY <1>3, <1>5, <1>6, <1>7, <1>8 DEF IInv

\* One request less is left, and no create is under way any more.
LEMMA FewerLeft ==
  ASSUME NEW made \in Nat, NEW under \in Nat, NEW before \in Nat, NEW after \in Nat,
         NEW most \in Nat, before = after + 1, made + under + before <= most + 1
  PROVE  made + 0 + after <= most + 1
  OBVIOUS

\* A restart forgets threads, locks and cache, and opens the waiting states.
LEMMA RestartKeeps ==
  ASSUME IInv, Restart
  PROVE  IInv'
<1>1. /\ left > 0 /\ left' = left - 1 /\ cached' = {} /\ slotLock' = Nobody
      /\ UNCHANGED <<tenant, account, grants, expired>> /\ TypeOK
  BY DEF Restart, platformVars, IInv
<1>2. /\ thread' \in [Threads -> Work] /\ \A t \in Threads : thread'[t].at = "idle"
  BY IdleIs DEF Restart
<1>3. /\ flowLock' \in [Rentals -> Threads \cup {Nobody}]
      /\ left' \in 0..MaxEvents /\ left = left' + 1 /\ left \in Nat /\ left' \in Nat
  BY <1>1, RemoteAssumption DEF Restart, TypeOK
<1>4. /\ session' \in [Rentals -> Row]
      /\ \A r \in Rentals : /\ session'[r].status = session[r].status
                            /\ session'[r].key = session[r].key
                            /\ session'[r].prepare # "busy"
  <2>1. \A r \in Rentals : /\ session[r] \in Row
                           /\ [session[r] EXCEPT !.prepare = "open"] \in Row
    BY <1>1 DEF TypeOK, Row, Prepares
  <2>2. session' = [r \in Rentals |-> IF Busy(session[r])
                                      THEN [session[r] EXCEPT !.prepare = "open"]
                                      ELSE session[r]]
    BY DEF Restart
  <2>3. \A r \in Rentals : session'[r] = IF Busy(session[r])
                                         THEN [session[r] EXCEPT !.prepare = "open"]
                                         ELSE session[r]
    BY <2>2
  <2> QED
    BY <2>1, <2>2, <2>3 DEF Busy, Row
<1>5. /\ lost' \in [Rentals -> SUBSET {"status", "prepare"}]
      /\ \A r \in Rentals :
            lost'[r] = IF slotLock # Nobody /\ At(slotLock, "close") /\ Rental(slotLock) = r
                       THEN lost[r] \cup {"status"} ELSE lost[r]
  BY <1>1 DEF Restart, TypeOK
<1>6. TypeOK'
  BY <1>1, <1>2, <1>3, <1>4, <1>5 DEF TypeOK, Work
<1>7. GrantsSuffice'
  <2>1. Creators' = {}
    BY <1>2 DEF Creators, Creating
  <2>2. /\ Cardinality(Creators) \in Nat /\ grants \in Nat /\ MaxEvents \in Nat
        /\ grants + Cardinality(Creators) + left <= MaxEvents + 1
    BY FS_CardinalityType, RemoteAssumption DEF IInv, GrantsSuffice, TypeOK, Grants
  <2>3. IsFiniteSet(Creators') /\ Cardinality(Creators') = 0
    BY <2>1, FS_EmptySet
  <2>4. left \in Nat /\ left' \in Nat /\ left = left' + 1
    BY <1>3
  <2>5. grants + 0 + left' <= MaxEvents + 1
    BY <2>2, <2>4, FewerLeft
  <2> QED
    BY <1>1, <2>3, <2>5 DEF GrantsSuffice
<1>8. Held' /\ GrantsAlone'
  BY <1>2, ThreadsAre DEF Held, GrantsAlone, Locked, Granting
<1>9. \A r \in Rentals : /\ Active(r)' <=> Active(r)
                         /\ lost[r] \subseteq lost'[r]
  BY <1>1, <1>4, <1>5 DEF Active, IsActive
<1>10. OneSessionPerBay'
  BY <1>9 DEF IInv, OneSessionPerBay
<1>11. LiveCredentials'
  <2> SUFFICES ASSUME NEW r \in Rentals, Active(r)', "status" \notin lost'[r]
               PROVE  account'[r] = session'[r].key
    BY DEF LiveCredentials
  <2> QED
    BY <1>1, <1>4, <1>5, <1>9 DEF IInv, LiveCredentials
<1>12. BusyHasFlow'
  BY <1>4 DEF BusyHasFlow, Busy
<1> QED
  BY <1>6, <1>7, <1>8, <1>10, <1>11, <1>12 DEF IInv

--------------------------------------------------------------------------------
(* Every step *)

\* The invariant holds at the start.
LEMMA InitHolds == Init => IInv
<1> SUFFICES ASSUME Init PROVE IInv
  OBVIOUS
<1>1. /\ \A t \in Threads : thread[t] = Idle
      /\ thread \in [Threads -> Work]
      /\ \A t \in Threads : thread[t].at = "idle"
  BY IdleIs DEF Init
<1>2. 1 \in Grants /\ 0 \in Grants /\ MaxEvents \in 0..MaxEvents
  BY RemoteAssumption DEF Grants
<1>3. [NoRow EXCEPT !.status = "active", !.key = 1] \in Row /\ NoRow \in Row
  BY <1>2, IdleIs DEF Row, Statuses
<1>4. /\ session \in [Rentals -> Row]
      /\ \A r \in Rentals : /\ session[r].prepare = "open"
                            /\ session[r].status = "active" => r = Someone
                            /\ session[r].status = "active" => session[r].key = account[r]
  BY <1>3 DEF Init, NoRow
<1>5. TypeOK
  BY <1>1, <1>2, <1>4 DEF Init, TypeOK, Work
<1>6. GrantsSuffice
  <2>1. Creators = {}
    BY <1>1 DEF Creators, Creating
  <2>2. IsFiniteSet(Creators) /\ Cardinality(Creators) = 0
    BY <2>1, FS_EmptySet
  <2>3. grants = 1 /\ left = MaxEvents
    BY DEF Init
  <2> QED
    BY <2>2, <2>3, RemoteAssumption DEF GrantsSuffice
<1>7. Held /\ GrantsAlone
  BY <1>1, ThreadsAre DEF Held, GrantsAlone, Locked, Granting
<1>8. OneSessionPerBay /\ LiveCredentials /\ BusyHasFlow
  BY <1>4 DEF OneSessionPerBay, LiveCredentials, BusyHasFlow, Active, IsActive, Busy
<1> QED
  BY <1>5, <1>6, <1>7, <1>8 DEF IInv

\* Every step keeps the invariant.
LEMMA NextKeeps == IInv /\ [Next]_vars => IInv'
<1> SUFFICES ASSUME IInv, [Next]_vars
             PROVE  IInv'
  OBVIOUS
<1>1. ASSUME NEW r \in Rentals,
             Let(r) \/ Over(r) \/ Expire(r) \/ Forget(r) \/ SweepStaleSessions(r)
      PROVE  IInv'
  BY <1>1, WorldKeeps, SweepKeeps
<1>2. ASSUME NEW t \in Requests, NEW r \in Rentals,
             Accept(t, r) \/ Expel(t, r) \/ EndBySystem(t, r)
      PROVE  IInv'
  BY <1>2, RequestKeeps
<1>3. ASSUME NEW t \in Threads, Continue(t)
      PROVE  IInv'
  <2>1. CASE \/ CreateAnswered(t) \/ EndMissing(t)
             \/ ObserveLock(t) \/ ObserveNothing(t) \/ ObserveRead(t)
             \/ VoidfixSkip(t) \/ VoidfixRead(t)
             \/ PrepareAnswered(t) \/ PrepareEsim(t) \/ RebootForCustomer(t) \/ FlowRead(t)
    BY <2>1, LookKeeps
  <2>2. CASE CreateLock(t) \/ CreateRefused(t) \/ CreateGranted(t) \/ CreateStore(t)
    BY <2>2, CreateLockKeeps, GrantKeeps, CreateStoreKeeps
  <2>3. CASE EndLock(t) \/ EndRevoke(t) \/ EndStore(t)
    BY <2>3, EndLockKeeps, EndStoreKeeps
  <2>4. CASE ObserveStore(t) \/ VoidfixStore(t)
    BY <2>4, NoteKeeps
  <2>5. CASE StartFlow(t) \/ FlowReboots(t) \/ FlowEnds(t)
    BY <2>5, FlowKeeps
  <2> QED
    BY <1>3, <2>1, <2>2, <2>3, <2>4, <2>5 DEF Continue
<1>4. CASE Restart
  BY <1>4, RestartKeeps
<1>5. CASE UNCHANGED vars
  BY <1>5 DEF vars, IInv, TypeOK, GrantsSuffice, Creators, Held, GrantsAlone, Sound,
     OneSessionPerBay, LiveCredentials, BusyHasFlow, Active, IsActive, Busy, Rental, At
<1> QED
  BY <1>1, <1>2, <1>3, <1>4, <1>5 DEF Next

\* The invariant holds in every reachable state.
LEMMA SessionsInductive == Spec => []IInv
<1>1. Init => IInv
  BY InitHolds
<1>2. IInv /\ [Next]_vars => IInv'
  BY NextKeeps
<1> QED
  BY <1>1, <1>2, PTL DEF Spec

\* Whatever requests, sweeps, flows and restarts do at the same time: a bay has
\* one running session, and a state that tells the customer to wait has a flow
\* behind it, except for rows that a write from an outdated copy has undone.
THEOREM SessionsCorrect == Spec => []SessionsInv
<1>1. IInv => SessionsInv
  BY DEF IInv, SessionsInv
<1> QED
  BY <1>1, SessionsInductive, PTL

\* The secret of a running session opens the account the platform has, or its
\* end is between revoke_access and store.end.
THEOREM CredentialsLive == Spec => []LiveCredentials
<1>1. IInv => LiveCredentials
  BY DEF IInv
<1> QED
  BY <1>1, SessionsInductive, PTL
================================================================================
