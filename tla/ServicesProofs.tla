--------------------------- MODULE ServicesProofs ---------------------------
(***************************************************************************)
(* The invariants of the seven services beside the bays, for all values of *)
(* their constants: each service has its own inductive invariant, and a    *)
(* step of one leaves the variables of the others as they are.             *)
(***************************************************************************)
EXTENDS MCServices, BillingProofs, SequenceTheorems, FiniteSetTheorems, TLAPS

-----------------------------------------------------------------------------
(* LockdownGuard: a guard that watches has outlived the older ones with a  *)
(* smaller number, for any number of launches and any threads of the       *)
(* agent.  A guard that is about to kill has listed every older guard that *)
(* is not dead yet, because half a second after its own first pass none of *)
(* them is hidden in exec any more.                                        *)

Gone == {"none", "orphan"}

\* What a guard in or past its second pass knows of an older one with a smaller
\* number; `smaller` stands for below.
Outlives(level, listed, smaller) ==
  \A p, q \in Pids : p \in smaller[q] =>
    /\ level[q] = "kill2" => level[p] \in Gone \/ p \in listed[q]
    /\ level[q] = "watch" => level[p] \in Gone

GuardType(level, listed) ==
  /\ level \in [Pids -> Stages]
  /\ listed \in [Pids -> SUBSET Pids]
  /\ \A p \in Pids : level[p] \notin {"kill1", "kill2", "orphan"} => listed[p] = {}

\* Smaller numbers of older guards
BelowType(smaller) ==
  /\ smaller \in [Pids -> SUBSET Pids]
  /\ \A q \in Pids : \A p \in smaller[q] : p < q

LoopType == /\ connected \in BOOLEAN
            /\ before \in {"unknown", "missing", "device"}

GuardInv == GuardType(at, seen) /\ BelowType(below) /\ Outlives(at, seen, below)

\* A kill leaves every process it reaches dead or orphaned, and forgets the
\* lists of the dead: both parts of the invariant survive it.
LEMMA KilledKeeps ==
  ASSUME GuardInv, NEW K \in SUBSET Live, NEW spared \in SUBSET Killable(K)
  PROVE  /\ GuardType(Killed(K, spared), Forgotten(K \ spared))
         /\ Outlives(Killed(K, spared), Forgotten(K \ spared), below)
         /\ \A p \in K : Killed(K, spared)[p] \in Gone
<1> DEFINE level == Killed(K, spared)
           listed == Forgotten(K \ spared)
<1>1. level \in [Pids -> Stages]
  BY DEF GuardInv, GuardType, Killed, Stages
<1>2. listed \in [Pids -> SUBSET Pids]
  BY DEF GuardInv, GuardType, Forgotten
<1>3. \A p \in Pids : level[p] = IF p \notin K THEN at[p] ELSE IF p \in spared THEN "orphan" ELSE "none"
  BY DEF Killed
<1>4. \A p \in Pids : listed[p] = IF p \in K \ spared THEN {} ELSE seen[p]
  BY DEF Forgotten
<1>5. \A p \in spared : p \in K /\ at[p] \in {"kill1", "kill2"}
  BY DEF Killable
<1>6. \A p \in Pids : level[p] \notin {"kill1", "kill2", "orphan"} => listed[p] = {}
  BY <1>3, <1>4, <1>5 DEF GuardInv, GuardType
<1>7. Outlives(level, listed, below)
  <2> SUFFICES ASSUME NEW p \in Pids, NEW q \in Pids, p \in below[q]
               PROVE  /\ level[q] = "kill2" => level[p] \in Gone \/ p \in listed[q]
                      /\ level[q] = "watch" => level[p] \in Gone
    BY DEF Outlives
  <2>1. level[q] \in {"kill2", "watch"} => level[q] = at[q] /\ listed[q] = seen[q]
    BY <1>3, <1>4
  <2>2. at[p] \in Gone => level[p] \in Gone
    BY <1>3 DEF Gone
  <2> QED
    BY <2>1, <2>2 DEF GuardInv, Outlives
<1>8. \A p \in K : level[p] \in Gone
  BY <1>3 DEF Gone, Live
<1> QED
  BY <1>1, <1>2, <1>6, <1>7, <1>8 DEF GuardType

\* The steps of one guard keep the invariant.
LEMMA GuardStepKeeps ==
  ASSUME GuardInv, NEW g \in Pids, GuardStep(g)
  PROVE  GuardInv'
<1>1. CASE GuardExec(g)
  <2>1. at' = [at EXCEPT ![g] = "list1"] /\ seen' = seen /\ below' = below /\ at[g] = "exec"
    BY <1>1 DEF GuardExec
  <2>2. GuardType(at', seen')
    BY <2>1 DEF GuardInv, GuardType, Stages
  <2>3. Outlives(at', seen', below')
    BY <2>1 DEF GuardInv, GuardType, Outlives, Gone
  <2> QED
    BY <2>1, <2>2, <2>3 DEF GuardInv
<1>2. CASE GuardList(g)
  <2> DEFINE next == IF at[g] = "list1" THEN "kill1" ELSE "kill2"
  <2>1. /\ at' = [at EXCEPT ![g] = next] /\ seen' = [seen EXCEPT ![g] = Visible(g)]
        /\ below' = below
        /\ at[g] \in {"list1", "list2"} /\ Settled(g)
    BY <1>2 DEF GuardList
  <2>2. Visible(g) \in SUBSET Pids
    BY DEF Visible, Live
  <2>3. GuardType(at', seen')
    BY <2>1, <2>2 DEF GuardInv, GuardType, Stages
  <2>4. ASSUME NEW p \in Pids, NEW q \in Pids, p \in below[q], p < q
        PROVE  /\ at'[q] = "kill2" => at'[p] \in Gone \/ p \in seen'[q]
               /\ at'[q] = "watch" => at'[p] \in Gone
    <3>1. CASE q = g
      <4>1. at'[q] = "kill2" => at[g] = "list2"
        BY <2>1, <3>1 DEF GuardInv, GuardType
      <4>2. at'[p] = at[p] /\ seen'[q] = Visible(g) /\ at'[q] # "watch"
        BY <2>1, <2>4, <3>1 DEF GuardInv, GuardType, Pids
      <4>3. at[g] = "list2" /\ at[p] \notin Gone => p \in Visible(g)
        BY <2>1, <2>4, <3>1 DEF Settled, Visible, Live, Gone, Pids
      <4> QED
        BY <4>1, <4>2, <4>3
    <3>2. CASE q # g
      <4>1. at'[q] = at[q] /\ seen'[q] = seen[q]
        BY <2>1, <3>2 DEF GuardInv, GuardType
      <4>2. at[p] \in Gone => at'[p] = at[p]
        BY <2>1 DEF GuardInv, GuardType, Gone
      <4> QED
        BY <2>4, <4>1, <4>2 DEF GuardInv, Outlives
    <3> QED
      BY <3>1, <3>2
  <2> QED
    BY <2>1, <2>3, <2>4 DEF GuardInv, BelowType, Outlives
<1>3. CASE GuardKill(g)
  <2>a. PICK K \in SUBSET Live : Reached(g, K) /\
          \E spared \in SUBSET Killable(K) :
            /\ at' = [Killed(K, spared) EXCEPT ![g] = AfterPass[at[g]]]
            /\ seen' = Forgotten((K \ spared) \cup {g})
    BY <1>3 DEF GuardKill
  <2>1. PICK spared \in SUBSET Killable(K) :
          /\ Reached(g, K)
          /\ at' = [Killed(K, spared) EXCEPT ![g] = AfterPass[at[g]]]
          /\ seen' = Forgotten((K \ spared) \cup {g})
    BY <2>a
  <2>2. at[g] \in {"kill1", "kill2", "orphan"} /\ below' = below
    BY <1>3 DEF GuardKill
  <2> DEFINE level == Killed(K, spared)
             listed == Forgotten(K \ spared)
  <2>3. /\ GuardType(level, listed) /\ Outlives(level, listed, below)
        /\ \A p \in K : level[p] \in Gone
    BY KilledKeeps
  <2>4. level \in [Pids -> Stages]
    BY <2>3 DEF GuardType
  <2>5. \A p \in Pids : p # g => at'[p] = level[p] /\ seen'[p] = listed[p]
    BY <2>1, <2>4 DEF Forgotten
  <2>6. at'[g] = AfterPass[at[g]] /\ seen'[g] = {}
    BY <2>1, <2>4 DEF Forgotten
  <2>7. AfterPass[at[g]] \in {"list2", "watch", "none"}
        /\ (AfterPass[at[g]] = "watch" => at[g] = "kill2")
        /\ (AfterPass[at[g]] \notin Gone => at[g] \notin Gone)
    BY <2>2 DEF AfterPass, Gone
  <2>8. GuardType(at', seen')
    <3>1. at' \in [Pids -> Stages]
      BY <2>1, <2>4, <2>7 DEF Stages
    <3>2. seen' \in [Pids -> SUBSET Pids]
      BY <2>1 DEF Forgotten, GuardInv, GuardType
    <3> QED
      BY <2>3, <2>5, <2>6, <3>1, <3>2 DEF GuardType
  <2>9. ASSUME NEW p \in Pids, NEW q \in Pids, p \in below[q], p < q
        PROVE  /\ at'[q] = "kill2" => at'[p] \in Gone \/ p \in seen'[q]
               /\ at'[q] = "watch" => at'[p] \in Gone
    <3>1. CASE q = g
      <4>1. at'[q] # "kill2"
        BY <2>6, <2>7, <3>1
      <4>2. p # g
        BY <2>9, <3>1 DEF Pids
      <4>3. at[g] = "kill2" => at[p] \in Gone \/ p \in K
        BY <2>1, <2>9, <3>1 DEF GuardInv, Outlives, Reached, Live, Gone
      <4>4. at[p] \in Gone => level[p] \in Gone
        BY DEF Killed, Gone
      <4>5. at'[q] = "watch" => level[p] \in Gone
        BY <2>3, <2>6, <2>7, <3>1, <4>3, <4>4
      <4> QED
        BY <2>5, <4>1, <4>2, <4>5
    <3>2. CASE q # g
      <4>1. at'[q] = level[q] /\ seen'[q] = listed[q]
        BY <2>5, <3>2
      <4>2. /\ level[q] = "kill2" => level[p] \in Gone \/ p \in listed[q]
            /\ level[q] = "watch" => level[p] \in Gone
        BY <2>3, <2>9 DEF Outlives
      <4>3. CASE p # g
        BY <2>5, <4>1, <4>2, <4>3
      <4>4. CASE p = g
        <5>1. ~(at[g] \in {"kill1", "kill2"} /\ level[q] = "watch")
          BY <2>9, <4>4 DEF GuardInv, Outlives, Killed, Gone
        <5>2. at[g] = "orphan" => at'[p] \in Gone
          BY <2>6, <4>4 DEF AfterPass, Gone
        <5>3. at[g] \in {"kill1", "kill2"} /\ level[q] = "kill2" => p \in listed[q]
          BY <2>9, <4>4 DEF GuardInv, Outlives, Killed, Forgotten, Gone
        <5> QED
          BY <2>2, <4>1, <5>1, <5>2, <5>3
      <4> QED
        BY <4>3, <4>4
    <3> QED
      BY <3>1, <3>2
  <2> QED
    BY <2>2, <2>8, <2>9 DEF GuardInv, BelowType, Outlives
<1> QED
  BY <1>1, <1>2, <1>3 DEF GuardStep

\* The commands of a thread keep it: they kill, or launch a guard younger than
\* all the others.
LEMMA CommandKeeps ==
  ASSUME GuardInv, NEW a \in Actors, Command(a)
  PROVE  GuardInv'
<1>1. CASE StopGuards(a)
  <2>1. CASE connected
    <3>1. PICK later \in 1..(MaxPid + 1) : \E spared \in SUBSET Killable({p \in Live : p < later}) :
            /\ at' = Killed({p \in Live : p < later}, spared)
            /\ seen' = Forgotten({p \in Live : p < later} \ spared)
            /\ below' = below
      BY <1>1, <2>1 DEF StopGuards
    <3> DEFINE K == {p \in Live : p < later}
    <3>2. PICK spared \in SUBSET Killable(K) :
            /\ at' = Killed(K, spared) /\ seen' = Forgotten(K \ spared)
            /\ below' = below
      BY <3>1
    <3>3. K \in SUBSET Live
      OBVIOUS
    <3> HIDE DEF K
    <3>4. GuardType(at', seen') /\ Outlives(at', seen', below')
      BY <3>2, <3>3, KilledKeeps
    <3> QED
      BY <3>2, <3>4 DEF GuardInv
  <2>2. CASE ~connected
    BY <1>1, <2>2 DEF StopGuards, guards, GuardInv
  <2> QED
    BY <2>1, <2>2
<1>2. CASE LaunchGuard(a)
  <2>1. CASE UNCHANGED guards
    BY <2>1 DEF guards, GuardInv
  <2>2. CASE \E p \in Pids :
              /\ Fresh(p) /\ at' = [at EXCEPT ![p] = "exec"] /\ seen' = seen
              /\ \E smaller \in SUBSET Live : below' = [below EXCEPT ![p] = smaller]
    <3>1. PICK g \in Pids, smaller \in SUBSET Live :
            /\ Fresh(g) /\ at' = [at EXCEPT ![g] = "exec"] /\ seen' = seen
            /\ below' = [below EXCEPT ![g] = smaller]
      BY <2>2
    <3>2. at[g] = "none" /\ \A q \in Live : q < g
      BY <3>1 DEF Fresh, Live, Pids
    <3>3. GuardType(at', seen')
      BY <3>1, <3>2 DEF GuardInv, GuardType, Stages
    <3>4. BelowType(below')
      BY <3>1, <3>2 DEF GuardInv, BelowType, Live
    <3>5. ASSUME NEW p \in Pids, NEW q \in Pids, p \in below'[q]
          PROVE  /\ at'[q] = "kill2" => at'[p] \in Gone \/ p \in seen'[q]
                 /\ at'[q] = "watch" => at'[p] \in Gone
      <4>1. at'[q] \in {"kill2", "watch"} => q # g /\ at'[q] = at[q]
        BY <3>1 DEF GuardInv, GuardType
      <4>2. q # g => p \in below[q] /\ p < q
        BY <3>1, <3>5 DEF GuardInv, BelowType
      <4>3. q # g /\ at[q] # "none" => p # g
        BY <3>2, <4>2 DEF Live, Pids
      <4>4. p # g => at'[p] = at[p]
        BY <3>1 DEF GuardInv, GuardType
      <4> QED
        BY <3>1, <4>1, <4>2, <4>3, <4>4 DEF GuardInv, Outlives
    <3> QED
      BY <3>3, <3>4, <3>5 DEF GuardInv, Outlives
  <2> QED
    BY <1>2, <2>1, <2>2 DEF LaunchGuard
<1>3. CASE CheckGuard(a) \/ PushScript(a) \/ AwaitPhone(a)
  BY <1>3 DEF CheckGuard, PushScript, AwaitPhone, guards, GuardInv
<1> QED
  BY <1>1, <1>2, <1>3 DEF Command

\* A reboot leaves no guard, and a guard that dies was watching.
LEMMA LossKeeps ==
  ASSUME GuardInv, Reboot \/ \E p \in Pids : GuardDies(p)
  PROVE  GuardInv'
<1>1. CASE Reboot
  BY <1>1 DEF Reboot, GuardInv, GuardType, BelowType, Outlives, Stages
<1>2. CASE \E p \in Pids : GuardDies(p)
  <2>1. PICK g \in Pids : /\ at' = [at EXCEPT ![g] = "none"] /\ at[g] = "watch"
                           /\ seen' = seen /\ below' = below
    BY <1>2 DEF GuardDies
  <2>2. GuardType(at', seen')
    BY <2>1 DEF GuardInv, GuardType, Stages
  <2>3. Outlives(at', seen', below')
    BY <2>1 DEF GuardInv, GuardType, Outlives, Gone
  <2> QED
    BY <2>1, <2>2, <2>3 DEF GuardInv
<1> QED
  BY <1>1, <1>2

\* Every step keeps what is known of the guards and of the loop.
LEMMA GuardNextKeeps ==
  ASSUME GuardInv, LoopType, [Next]_vars
  PROVE  GuardInv' /\ LoopType'
<1>1. LoopType'
  <2>1. CASE UNCHANGED <<connected, before>>
    BY <2>1 DEF LoopType
  <2>2. CASE PollReconnects
    BY <2>2 DEF PollReconnects, StateShown, LoopType
  <2>3. CASE Unplug \/ Plug \/ Reboot
    BY <2>3 DEF Unplug, Plug, Reboot, LoopType, loop
  <2>4. CASE AgentRestart
    BY <2>4 DEF AgentRestart, LoopType
  <2>5. CASE \E p \in Pids : GuardStep(p) \/ GuardDies(p)
    BY <2>1, <2>5 DEF GuardStep, GuardExec, GuardList, GuardKill, GuardDies, loop
  <2>6. CASE \E a \in Actors : Command(a)
    BY <2>1, <2>6 DEF Command, CheckGuard, StopGuards, PushScript, LaunchGuard, AwaitPhone, loop
  <2>7. CASE Sweep \/ (\E t \in Tasks : StartTask(t)) \/ UNCHANGED vars
    BY <2>1, <2>7 DEF Sweep, StartTask, vars, loop
  <2> QED
    BY <2>2, <2>3, <2>4, <2>5, <2>6, <2>7 DEF Next
<1>2. GuardInv'
  <2>1. CASE UNCHANGED guards
    BY <2>1 DEF guards, GuardInv
  <2>2. CASE \E p \in Pids : GuardStep(p)
    BY <2>2, GuardStepKeeps
  <2>3. CASE \E a \in Actors : Command(a)
    BY <2>3, CommandKeeps
  <2>4. CASE Reboot \/ \E p \in Pids : GuardDies(p)
    BY <2>4, LossKeeps
  <2>5. CASE Sweep \/ PollReconnects \/ (\E t \in Tasks : StartTask(t))
             \/ Unplug \/ Plug \/ AgentRestart \/ UNCHANGED vars
    BY <2>1, <2>5 DEF Sweep, PollReconnects, StartTask, Unplug, Plug, AgentRestart, vars
  <2> QED
    BY <2>2, <2>3, <2>4, <2>5 DEF Next
<1> QED
  BY <1>1, <1>2

\* Before the first launch there is no guard.
LEMMA GuardInitHolds == ASSUME Init PROVE GuardInv /\ LoopType
<1>1. GuardType(at, seen)
  BY DEF Init, GuardType, Stages
<1>2. BelowType(below) /\ Outlives(at, seen, below)
  BY DEF Init, BelowType, Outlives
<1> QED
  BY <1>1, <1>2 DEF Init, GuardInv, LoopType

\* The invariant and the shape of the state.
THEOREM GuardsStayTyped == Spec => [](GuardInv /\ LoopType)
<1>1. Init => GuardInv /\ LoopType
  BY GuardInitHolds
<1>2. (GuardInv /\ LoopType) /\ [Next]_vars => (GuardInv /\ LoopType)'
  BY GuardNextKeeps
<1> QED
  BY <1>1, <1>2, PTL DEF Spec

\* What runs check of the guards follows from their invariant.
LEMMA GuardImplies == GuardInv /\ LoopType => TypeOK /\ NewestWins
<1>1. GuardInv /\ LoopType => TypeOK
  BY DEF GuardInv, GuardType, BelowType, LoopType, TypeOK
<1>2. GuardInv => NewestWins
  BY DEF GuardInv, BelowType, Outlives, NewestWins, Gone
<1> QED
  BY <1>1, <1>2

\* The newest launch wins, for any number of launches, threads and mishaps: a
\* guard that watches has outlived every older guard with a smaller process
\* number.  (Nothing is said of an older guard with a larger number, which is
\* left when the phone's numbers began again between the two.)
THEOREM NewestLaunchWins == Spec => []NewestWins
BY GuardsStayTyped, GuardImplies, PTL

-----------------------------------------------------------------------------
(* Companion *)

Connections == [job : Jobs, open : BOOLEAN]

\* The companion's variables have their types, and the server works on a connection.
CompType ==
  /\ calling \in Jobs \cup {None}
  /\ told \in [Jobs -> Results] /\ kept \in [Jobs -> Results] /\ disk \in [Jobs -> Results]
  /\ queue \in Seq(Connections)
  /\ stage \in {"idle", "waiting", "reply"} /\ shown \in Shown
  /\ stage # "idle" => queue # <<>>
  /\ shown = "provisioning" <=> stage = "waiting"
  /\ handed \in [Jobs -> Nat] /\ deaths \in Nat /\ outlived \in BOOLEAN

\* The server waits for job j.
Awaits(j) == stage = "waiting" /\ Served = j

\* While no download has outlived its wait, the eUICC works on nothing but the
\* download that is waited for.
OnlyTheAwaited ==
  ~outlived => \A d \in euicc : stage = "waiting" /\ d = [job |-> Served, life |-> deaths]

\* A job without a result was not handed over in this life of the process, unless
\* it is waited for, and a job that is waited for has no result.
HandedOnce ==
  \A j \in Jobs :
    /\ handed[j] <= 1 + deaths
    /\ kept[j] = "none" /\ ~Awaits(j) => handed[j] <= deaths
    /\ Awaits(j) => kept[j] = "none"

\* The results in memory and on disk are those of the jobs' own downloads.
OwnVerdicts ==
  \A j \in Jobs :
    kept[j] = "installed" \/ disk[j] = "installed" => j \in profiles \/ outlived

CompInv == CompType /\ OnlyTheAwaited /\ HandedOnce /\ OwnVerdicts /\ AnswerStands

\* What is at the head of a queue that is not empty is a job.
LEMMA ServedType ==
  ASSUME CompType, queue # <<>>
  PROVE  /\ Served \in Jobs
         /\ Head(queue) \in Connections
         /\ Tail(queue) \in Seq(Connections)
<1>1. queue \in Seq(Connections)
  BY DEF CompType
<1>2. Head(queue) \in Connections /\ Tail(queue) \in Seq(Connections)
  BY <1>1, HeadTailProperties
<1> QED
  BY <1>2 DEF Served, Connections

\* A new connection at the end of the queue, or closing all of them, leaves the
\* job that is served.
LEMMA QueueKeeps ==
  ASSUME CompType, (\E j \in Jobs : Request(j)) \/ GiveUp
  PROVE  /\ queue' \in Seq(Connections)
         /\ queue # <<>> => queue' # <<>> /\ Served' = Served
<1>1. queue \in Seq(Connections) /\ DOMAIN queue = 1..Len(queue) /\ Len(queue) \in Nat
  BY LenProperties DEF CompType
<1>2. ASSUME NEW j \in Jobs, Request(j)
      PROVE  /\ queue' \in Seq(Connections)
             /\ queue # <<>> => queue' # <<>> /\ Served' = Served
  <2> DEFINE e == [job |-> j, open |-> TRUE]
  <2>1. e \in Connections /\ queue' = Append(queue, e)
    BY <1>2 DEF Request, Connections
  <2> HIDE DEF e
  <2>2. /\ Append(queue, e) \in Seq(Connections)
        /\ Len(Append(queue, e)) = Len(queue) + 1
        /\ \A i \in 1..Len(queue) : Append(queue, e)[i] = queue[i]
    BY <1>1, <2>1, AppendProperties
  <2>3. queue # <<>> => Len(queue) # 0
    BY <1>1, EmptySeq
  <2>4. queue # <<>> => queue'[1] = queue[1]
    BY <1>1, <2>1, <2>2, <2>3
  <2>5. queue' # <<>>
    BY <1>1, <2>1, <2>2, EmptySeq
  <2> QED
    BY <1>1, <2>1, <2>2, <2>4, <2>5 DEF Served
<1>3. CASE GiveUp
  <2> DEFINE q == [i \in DOMAIN queue |-> [queue[i] EXCEPT !.open = FALSE]]
  <2>1. queue' = q
    BY <1>3 DEF GiveUp
  <2>2. \A i \in 1..Len(queue) : queue[i] \in Connections
    BY <1>1, ElementOfSeq
  <2>3. q \in [1..Len(queue) -> Connections]
    BY <1>1, <2>2 DEF Connections
  <2>4. q \in Seq(Connections) /\ Len(q) = Len(queue)
    BY <1>1, <2>3, LenProperties, IsASeq
  <2>5. \A i \in 1..Len(queue) : q[i].job = queue[i].job
    BY <1>1, <2>2 DEF Connections
  <2> HIDE DEF q
  <2>6. queue # <<>> => Len(queue) # 0
    BY <1>1, EmptySeq
  <2>7. queue # <<>> => q # <<>> /\ q[1].job = queue[1].job
    BY <1>1, <2>4, <2>5, <2>6, EmptySeq
  <2> QED
    BY <1>1, <2>1, <2>4, <2>7 DEF Served
<1> QED
  BY <1>2, <1>3

\* Connections come and go beside what the server does.
LEMMA FarmCallsKeep ==
  ASSUME CompInv, (\E j \in Jobs : Request(j)) \/ GiveUp
  PROVE  CompInv'
<1>1. /\ queue' \in Seq(Connections)
      /\ queue # <<>> => queue' # <<>> /\ Served' = Served
  BY QueueKeeps DEF CompInv
<1>2. calling' \in Jobs \cup {None}
  BY DEF Request, GiveUp
<1>3. UNCHANGED <<told, up, stage, shown, owner, kept, disk, phone, deaths>>
  BY DEF Request, GiveUp
<1>4. stage = "waiting" => Served' = Served
  BY <1>1 DEF CompInv, CompType
<1>5. \A j \in Jobs : Awaits(j)' <=> Awaits(j)
  BY <1>3, <1>4 DEF Awaits
<1>6. CompType'
  BY <1>1, <1>2, <1>3 DEF CompInv, CompType, phone
<1>7. OnlyTheAwaited'
  BY <1>3, <1>4 DEF CompInv, OnlyTheAwaited, phone
<1>8. HandedOnce'
  BY <1>3, <1>5 DEF CompInv, HandedOnce, phone
<1> QED
  BY <1>3, <1>6, <1>7, <1>8 DEF CompInv, OwnVerdicts, AnswerStands, phone

\* A result is kept for the job that was waited for, or refused.
LEMMA KeepKeeps ==
  ASSUME CompInv, queue # <<>>, kept[Served] = "none", NEW result \in Results \ {"none"},
         Keep(Served, result), stage' = "reply",
         shown' \in Shown \ {"provisioning"},
         UNCHANGED <<calling, told, queue, disk, handed, deaths>>,
         outlived' \in BOOLEAN, outlived => outlived', profiles \subseteq profiles',
         ~outlived' => euicc' = {},
         result = "installed" => Served \in profiles' \/ outlived'
  PROVE  CompInv'
<1>1. Served \in Jobs /\ Served' = Served
  BY ServedType DEF CompInv, Served
<1>2. kept' = [kept EXCEPT ![Served] = result]
  BY DEF Keep
<1>3. kept' \in [Jobs -> Results] /\ kept'[Served] # "none"
      /\ \A j \in Jobs : j # Served => kept'[j] = kept[j]
  BY <1>1, <1>2 DEF CompInv, CompType
<1>4. CompType'
  BY <1>3 DEF CompInv, CompType
<1>5. OnlyTheAwaited'
  BY DEF OnlyTheAwaited
<1>6. HandedOnce'
  BY <1>3 DEF CompInv, HandedOnce, Awaits
<1>7. OwnVerdicts'
  BY <1>2, <1>3 DEF CompInv, CompType, OwnVerdicts
<1>8. AnswerStands'
  BY <1>3 DEF CompInv, AnswerStands, CompType
<1> QED
  BY <1>4, <1>5, <1>6, <1>7, <1>8 DEF CompInv

\* A broadcast ends the wait for the download it is of, while none has outlived
\* its wait.
LEMMA EuiccKeeps ==
  ASSUME CompInv, NEW d \in euicc, EuiccDone(d)
  PROVE  CompInv'
<1>1. PICK outcome \in DOMAIN EuiccVerdict :
         /\ profiles' = IF outcome = "ok" THEN profiles \cup {d.job} ELSE profiles
         /\ IF stage = "waiting"
            THEN /\ Keep(Served, EuiccVerdict[outcome])
                 /\ shown' = ShownAfter(EuiccVerdict[outcome])
                 /\ stage' = "reply"
            ELSE UNCHANGED <<kept, shown, stage>>
  BY DEF EuiccDone
<1>2. /\ UNCHANGED <<calling, told, calls, queue, up, owner, disk, handed, outlived, deaths>>
      /\ euicc' = euicc \ {d}
  BY DEF EuiccDone, farm
<1>3. EuiccVerdict[outcome] \in Results \ {"none"}
      /\ (EuiccVerdict[outcome] = "installed" => outcome = "ok")
  BY DEF EuiccVerdict, Results
<1>4. CASE stage = "waiting"
  <2>1. queue # <<>> /\ Served \in Jobs
    BY <1>4, ServedType DEF CompInv, CompType
  <2>2. kept[Served] = "none"
    BY <1>4, <2>1 DEF CompInv, HandedOnce, Awaits
  <2>3. ~outlived => d.job = Served /\ euicc' = {}
    BY <1>2 DEF CompInv, OnlyTheAwaited
  <2>4. ShownAfter(EuiccVerdict[outcome]) \in Shown \ {"provisioning"}
    BY DEF ShownAfter, Shown
  <2>5. outlived' \in BOOLEAN /\ outlived' = outlived
    BY <1>2 DEF CompInv, CompType
  <2>6. profiles \subseteq profiles'
        /\ (outcome = "ok" => d.job \in profiles')
    BY <1>1
  <2> QED
    BY <1>1, <1>2, <1>3, <1>4, <2>1, <2>2, <2>3, <2>4, <2>5, <2>6, KeepKeeps
<1>5. CASE stage # "waiting"
  <2>1. UNCHANGED <<kept, shown, stage>> /\ profiles \subseteq profiles'
    BY <1>1, <1>5
  <2>2. Served' = Served
    BY <1>2 DEF Served
  <2> QED
    BY <1>2, <1>5, <2>1, <2>2
       DEF CompInv, CompType, OnlyTheAwaited, HandedOnce, Awaits, OwnVerdicts, AnswerStands
<1> QED
  BY <1>4, <1>5

\* A job with a result is not handed over again.
LEMMA RouterKeeps ==
  ASSUME CompInv, ProvisionKnown \/ ProvisionRefused \/ Provision \/ TimeOut
  PROVE  CompInv'
<1>1. CASE ProvisionKnown
  <2>1. UNCHANGED <<calling, told, queue, shown, kept, disk, euicc, profiles, handed, outlived,
                    deaths>> /\ stage = "idle" /\ stage' = "reply" /\ queue # <<>>
    BY <1>1 DEF ProvisionKnown, Open, farm, phone
  <2> QED
    BY <2>1 DEF CompInv, CompType, OnlyTheAwaited, HandedOnce, Awaits, OwnVerdicts,
                AnswerStands, Served
<1>2. CASE ProvisionRefused
  <2>1. /\ queue # <<>> /\ kept[Served] = "none" /\ stage = "idle"
        /\ Keep(Served, "refused") /\ stage' = "reply" /\ shown' = shown
        /\ UNCHANGED <<calling, told, queue, disk, handed, deaths, outlived, profiles, euicc>>
    BY <1>2 DEF ProvisionRefused, Open, farm, phone
  <2>2. shown' \in Shown \ {"provisioning"}
    BY <2>1 DEF CompInv, CompType
  <2>3. ~outlived' => euicc' = {}
    BY <2>1 DEF CompInv, OnlyTheAwaited
  <2>4. "refused" \in Results \ {"none"} /\ outlived \in BOOLEAN
    BY DEF Results, CompInv, CompType
  <2> QED
    BY <2>1, <2>2, <2>3, <2>4, KeepKeeps
<1>3. CASE Provision
  <2>1. /\ queue # <<>> /\ kept[Served] = "none" /\ stage = "idle"
        /\ shown' = "provisioning" /\ stage' = "waiting"
        /\ euicc' = euicc \cup {[job |-> Served, life |-> deaths]}
        /\ handed' = [handed EXCEPT ![Served] = @ + 1]
        /\ UNCHANGED <<calling, told, queue, kept, disk, profiles, outlived, deaths>>
    BY <1>3 DEF Provision, Open, farm
  <2>2. Served \in Jobs /\ Served' = Served
    BY <2>1, ServedType DEF CompInv, Served
  <2>3. /\ handed' \in [Jobs -> Nat] /\ handed'[Served] = handed[Served] + 1
        /\ \A j \in Jobs : j # Served => handed'[j] = handed[j]
    BY <2>1, <2>2 DEF CompInv, CompType
  <2>4. CompType'
    BY <2>1, <2>3 DEF CompInv, CompType, Shown
  <2>5. OnlyTheAwaited'
    BY <2>1, <2>2 DEF CompInv, OnlyTheAwaited
  <2>6. HandedOnce'
    <3>1. handed[Served] <= deaths
      BY <2>1, <2>2 DEF CompInv, HandedOnce, Awaits
    <3> QED
      BY <2>1, <2>2, <2>3, <3>1 DEF CompInv, CompType, HandedOnce, Awaits
  <2> QED
    BY <2>1, <2>4, <2>5, <2>6 DEF CompInv, OwnVerdicts, AnswerStands
<1>4. CASE TimeOut
  <2>1. /\ stage = "waiting" /\ Keep(Served, "failed")
        /\ shown' = ShownAfter("failed") /\ stage' = "reply" /\ outlived' = TRUE
        /\ UNCHANGED <<calling, told, queue, disk, handed, deaths, profiles, euicc>>
    BY <1>4 DEF TimeOut, farm
  <2>2. queue # <<>> /\ Served \in Jobs
    BY <2>1, ServedType DEF CompInv, CompType
  <2>3. kept[Served] = "none"
    BY <2>1, <2>2 DEF CompInv, HandedOnce, Awaits
  <2>4. ShownAfter("failed") \in Shown \ {"provisioning"} /\ "failed" \in Results \ {"none"}
    BY DEF ShownAfter, Shown, Results
  <2> QED
    BY <2>1, <2>2, <2>3, <2>4, KeepKeeps
<1> QED
  BY <1>1, <1>2, <1>3, <1>4

\* The farm hears the result the app keeps.
LEMMA ReplyKeeps == ASSUME CompInv, Reply PROVE CompInv'
<1>1. /\ stage = "reply" /\ stage' = "idle" /\ queue' = Tail(queue)
      /\ UNCHANGED <<calls, shown, owner, kept, disk, euicc, profiles, handed, outlived, deaths>>
      /\ \/ calling' = None /\ told' = [told EXCEPT ![Served] = kept[Served]]
         \/ UNCHANGED <<calling, told>>
  BY DEF Reply, Answer, phone
<1>2. Served \in Jobs /\ queue' \in Seq(Connections)
  BY <1>1, ServedType DEF CompInv, CompType
<1>3. told' \in [Jobs -> Results] /\ calling' \in Jobs \cup {None}
      /\ \A j \in Jobs : told'[j] \in {told[j], kept[j]}
  BY <1>1, <1>2 DEF CompInv, CompType
<1>4. CompType'
  BY <1>1, <1>2, <1>3 DEF CompInv, CompType
<1>5. OnlyTheAwaited' /\ HandedOnce'
  BY <1>1 DEF CompInv, OnlyTheAwaited, HandedOnce, Awaits
<1> QED
  BY <1>1, <1>3, <1>4, <1>5 DEF CompInv, OwnVerdicts, AnswerStands

\* After a kill the results are those of the file.
LEMMA DieKeeps == ASSUME CompInv, Die PROVE CompInv'
<1>1. /\ deaths' = deaths + 1 /\ calling' = None /\ queue' = <<>> /\ stage' = "idle"
      /\ shown' = "ready" /\ kept' = disk
      /\ outlived' = (outlived \/ stage = "waiting")
      /\ UNCHANGED <<told, disk, euicc, profiles, handed>>
  BY DEF Die
<1>2. outlived' \in BOOLEAN /\ (~outlived' => ~outlived /\ stage # "waiting")
  BY <1>1 DEF CompInv, CompType
<1>3. CompType'
  BY <1>1, <1>2 DEF CompInv, CompType, Shown
<1>4. OnlyTheAwaited'
  BY <1>1, <1>2 DEF CompInv, OnlyTheAwaited
<1>5. HandedOnce'
  BY <1>1 DEF CompInv, CompType, HandedOnce, Awaits
<1>6. OwnVerdicts'
  BY <1>1, <1>2 DEF CompInv, OwnVerdicts
<1>7. AnswerStands'
  BY <1>1 DEF CompInv, CompType, AnswerStands
<1> QED
  BY <1>3, <1>4, <1>5, <1>6, <1>7 DEF CompInv

\* The file is written, the app becomes owner, or its state is asked for.
LEMMA AppKeeps ==
  ASSUME CompInv, Status \/ BecomeOwner \/ Flush \/ UNCHANGED compVars
  PROVE  CompInv'
<1>1. /\ UNCHANGED <<calling, told, queue, stage, kept, euicc, profiles, handed, outlived, deaths>>
      /\ disk' \in {disk, kept}
      /\ shown' = shown \/ (shown = "ready" /\ shown' = "requires_user_action")
  BY DEF Status, BecomeOwner, Flush, compVars, farm, server, phone
<1> QED
  BY <1>1 DEF CompInv, CompType, OnlyTheAwaited, HandedOnce, Awaits, OwnVerdicts,
              AnswerStands, Served, Shown

\* Every step of farm, app and eUICC keeps the invariant.
LEMMA CompNextKeeps == CompInv /\ [CompNext]_compVars => CompInv'
BY FarmCallsKeep, EuiccKeeps, RouterKeeps, ReplyKeeps, DieKeeps, AppKeeps DEF CompNext, Router

\* Nothing was asked yet.
LEMMA CompInitHolds == CompInit => CompInv
<1> SUFFICES ASSUME CompInit PROVE CompInv
  OBVIOUS
<1>1. <<>> \in Seq(Connections)
  BY EmptySeq
<1>2. CompType
  BY <1>1 DEF CompInit, CompType, Results, Shown
<1> QED
  BY <1>2 DEF CompInit, CompInv, OnlyTheAwaited, HandedOnce, Awaits, OwnVerdicts, AnswerStands

\* What runs check of the companion follows from its invariant.
LEMMA CompImplies ==
  CompInv => CompTypeOK /\ OncePerJob /\ VerdictIsOwn /\ AnswerStands
BY DEF CompInv, CompType, CompTypeOK, HandedOnce, OncePerJob, OwnVerdicts, VerdictIsOwn

\* The invariant holds in every reachable state.
THEOREM CompanionInvariant == CompSpec => []CompInv
<1>1. CompInit => CompInv
  BY CompInitHolds
<1>2. CompInv /\ [CompNext]_compVars => CompInv'
  BY CompNextKeeps
<1> QED
  BY <1>1, <1>2, PTL DEF CompSpec

\* "installed" is kept of a job only after its own download, until a download
\* outlives its wait.
THEOREM VerdictsAreOwn == CompSpec => []VerdictIsOwn
BY CompanionInvariant, CompImplies, PTL

\* An answer the farm has heard stands while the app's process lives.
THEOREM AnswersStand == CompSpec => []AnswerStands
BY CompanionInvariant, CompImplies, PTL

-----------------------------------------------------------------------------
(* AdminLive *)

Rows == [admin : Admins \cup {Nobody}, status : {"none", "active", "over"}]

AdminType ==
  /\ row \in [Sessions -> Rows]
  /\ lock \in Threads \cup {Nobody}
  /\ step \in [Threads -> {"idle", "insert", "begin", "wait", "view"}]
  /\ who \in [Threads -> Admins \cup {Nobody}]
  /\ held \in [Threads -> Nat]
  /\ item \in Warmups \cup {0} /\ aged \in BOOLEAN /\ pending \in Warmups \cup {0}
  /\ worker \in [Warmups -> {"none", "opening", "primed", "failed", "done"}]
  /\ stream \in [Warmups -> {"none", "priming", "cached", "viewed", "closed"}]

\* A thread inserts under the lock of the bay, a row that is free, for an
\* administrator without an active session.
SessionsSound ==
  /\ \A t \in Threads :
        /\ step[t] = "insert" <=> who[t] \in Admins
        /\ step[t] = "insert" =>
              /\ lock = t /\ held[t] \in Sessions /\ row[held[t]].status = "none"
              /\ \A s \in Sessions : ~Active(s, who[t])
  /\ \A s \in Sessions : row[s].status = "none" <=> row[s].admin = Nobody
  /\ OneSessionPerAdmin

\* A warm-up's stream is where its thread has left it.
StreamsSound ==
  /\ item # 0 => stream[item] = "cached"
  /\ item = 0 => ~aged
  /\ \A w \in Warmups :
        /\ worker[w] \in {"none", "opening", "failed"} => stream[w] = "none"
        /\ worker[w] = "primed" => stream[w] = "priming"
  /\ NoStreamLeaks
  /\ \A t \in Threads : step[t] = "view" => held[t] \in Warmups \cup {0}
  /\ ViewerSees

AdminInv == AdminType /\ SessionsSound /\ StreamsSound

\* The rows, the lock and the threads at it stay as they are, apart from threads
\* that neither come to an insertion nor leave one.
LEMMA SessionsSame ==
  ASSUME AdminInv, row' = row, UNCHANGED who,
         \A t \in Threads : step[t] = "insert" => lock' = lock /\ held'[t] = held[t],
         \A t \in Threads : step'[t] = "insert" <=> step[t] = "insert"
  PROVE  SessionsSound'
<1>1. \A s \in Sessions : \A a : Active(s, a)' <=> Active(s, a)
  BY DEF Active
<1>2. OneSessionPerAdmin'
  BY DEF AdminInv, SessionsSound, OneSessionPerAdmin, Active
<1>3. ASSUME NEW t \in Threads
      PROVE  /\ step'[t] = "insert" <=> who'[t] \in Admins
             /\ step'[t] = "insert" =>
                   /\ lock' = t /\ held'[t] \in Sessions /\ row'[held'[t]].status = "none"
                   /\ \A s \in Sessions : ~Active(s, who[t])'
  BY <1>3 DEF AdminInv, SessionsSound, Active
<1> QED
  BY <1>2, <1>3 DEF AdminInv, SessionsSound

\* Streams stay sound while cache, warm-ups and viewers are left alone.
LEMMA StreamsSame ==
  ASSUME AdminInv, UNCHANGED <<item, aged, worker, stream>>,
         \A t \in Threads : step[t] = "view" \/ step'[t] = "view"
                               => step'[t] = step[t] /\ held'[t] = held[t]
  PROVE  StreamsSound'
BY DEF AdminInv, StreamsSound, NoStreamLeaks, ViewerSees

\* A thread takes the bay's lock and looks for the session it is asked for.
LEMMA CreateLockKeeps == ASSUME AdminInv, NEW t \in Threads, CreateLock(t) PROVE AdminInv'
<1> USE AdminAssumption
<1>1. /\ step[t] = "idle" /\ lock = Nobody /\ lock' = t
      /\ UNCHANGED <<row, item, aged, pending, isSet, worker, stream>>
  BY DEF CreateLock, Free, cache, warmup
<1>2. \A u \in Threads : step[u] # "insert"
  BY <1>1 DEF AdminInv, SessionsSound
<1>3. CASE To(t, "begin") /\ UNCHANGED <<who, held>>
  <2>1. /\ step' \in [Threads -> {"idle", "insert", "begin", "wait", "view"}]
        /\ step'[t] = "begin" /\ \A u \in Threads : u # t => step'[u] = step[u]
    BY <1>3 DEF To, AdminInv, AdminType
  <2>2. AdminType'
    BY <1>1, <1>3, <2>1 DEF AdminInv, AdminType, Rows
  <2>3. SessionsSound'
    BY <1>1, <1>2, <1>3, <2>1, SessionsSame
  <2>4. StreamsSound'
    BY <1>1, <1>3, <2>1, StreamsSame
  <2> QED
    BY <2>2, <2>3, <2>4 DEF AdminInv
<1>4. ASSUME NEW a \in Admins, \A s \in Sessions : ~Active(s, a),
             NEW s \in Sessions, row[s].status = "none",
             Hold(t, s), who' = [who EXCEPT ![t] = a], To(t, "insert")
      PROVE  AdminInv'
  <2>1. /\ step' \in [Threads -> {"idle", "insert", "begin", "wait", "view"}]
        /\ step'[t] = "insert" /\ \A u \in Threads : u # t => step'[u] = step[u]
    BY <1>4 DEF To, AdminInv, AdminType
  <2>2. /\ who' \in [Threads -> Admins \cup {Nobody}] /\ who'[t] = a
        /\ \A u \in Threads : u # t => who'[u] = who[u]
    BY <1>4 DEF AdminInv, AdminType
  <2>3. /\ held' \in [Threads -> Nat] /\ held'[t] = s
        /\ \A u \in Threads : u # t => held'[u] = held[u]
    BY <1>4 DEF Hold, AdminInv, AdminType, Sessions
  <2>4. AdminType'
    BY <1>1, <2>1, <2>2, <2>3 DEF AdminInv, AdminType, Rows
  <2>5. SessionsSound'
    BY <1>1, <1>2, <1>4, <2>1, <2>2, <2>3
       DEF AdminInv, SessionsSound, OneSessionPerAdmin, Active
  <2>6. StreamsSound'
    BY <1>1, <2>1, <2>3, StreamsSame
  <2> QED
    BY <2>4, <2>5, <2>6 DEF AdminInv
<1> QED
  BY <1>3, <1>4 DEF CreateLock

\* The row that is inserted is the administrator's only active one.
LEMMA CreateInsertKeeps ==
  ASSUME AdminInv, NEW t \in Threads, CreateInsert(t)
  PROVE  AdminInv'
<1> USE AdminAssumption
<1> DEFINE n == [admin |-> who[t], status |-> "active"]
<1>1. /\ step[t] = "insert" /\ row' = [row EXCEPT ![held[t]] = n]
      /\ To(t, "begin") /\ Hold(t, 0) /\ who' = [who EXCEPT ![t] = Nobody]
      /\ lock' = Nobody /\ UNCHANGED <<item, aged, pending, isSet, worker, stream>>
  BY DEF CreateInsert, cache, warmup
<1>2. /\ who[t] \in Admins /\ held[t] \in Sessions /\ lock = t
      /\ row[held[t]].status = "none" /\ \A s \in Sessions : ~Active(s, who[t])
  BY <1>1 DEF AdminInv, SessionsSound
<1>3. \A u \in Threads : u # t => step[u] # "insert"
  BY <1>2 DEF AdminInv, SessionsSound
<1>4. /\ step' \in [Threads -> {"idle", "insert", "begin", "wait", "view"}]
      /\ step'[t] = "begin" /\ \A u \in Threads : u # t => step'[u] = step[u]
  BY <1>1 DEF To, AdminInv, AdminType
<1>5. /\ who' \in [Threads -> Admins \cup {Nobody}] /\ who'[t] = Nobody
      /\ \A u \in Threads : u # t => who'[u] = who[u]
  BY <1>1 DEF AdminInv, AdminType
<1>6. /\ held' \in [Threads -> Nat] /\ \A u \in Threads : u # t => held'[u] = held[u]
  BY <1>1 DEF Hold, AdminInv, AdminType
<1>7. n \in Rows /\ n.status = "active" /\ n.admin = who[t]
  BY <1>2 DEF Rows
<1>8. /\ row' \in [Sessions -> Rows] /\ row'[held[t]] = n
      /\ \A s \in Sessions : s # held[t] => row'[s] = row[s]
  BY <1>1, <1>2, <1>7 DEF AdminInv, AdminType
<1>9. AdminType'
  BY <1>1, <1>4, <1>5, <1>6, <1>8 DEF AdminInv, AdminType
<1>10. \A s \in Sessions : row'[s].status = "none" <=> row'[s].admin = Nobody
  BY <1>2, <1>7, <1>8 DEF AdminInv, SessionsSound
<1>11. OneSessionPerAdmin'
  <2> SUFFICES ASSUME NEW a \in Admins, NEW r \in Sessions, NEW s \in Sessions,
                      row'[r] = [admin |-> a, status |-> "active"],
                      row'[s] = [admin |-> a, status |-> "active"], r # s
               PROVE  FALSE
    BY DEF OneSessionPerAdmin, Active
  <2>1. CASE r = held[t]
    BY <1>2, <1>7, <1>8, <2>1 DEF Active
  <2>2. CASE s = held[t]
    BY <1>2, <1>7, <1>8, <2>2 DEF Active
  <2>3. CASE r # held[t] /\ s # held[t]
    BY <1>8, <2>3 DEF AdminInv, SessionsSound, OneSessionPerAdmin, Active
  <2> QED
    BY <2>1, <2>2, <2>3
<1>12. SessionsSound'
  BY <1>3, <1>4, <1>5, <1>10, <1>11 DEF AdminInv, SessionsSound
<1>13. StreamsSound'
  BY <1>1, <1>4, <1>6, StreamsSame
<1> QED
  BY <1>9, <1>12, <1>13 DEF AdminInv

\* Closing the stream of the cache leaves the viewers' streams alone.
LEMMA ClosedItem ==
  ASSUME AdminInv
  PROVE  /\ Closed(item) \in [Warmups -> {"none", "priming", "cached", "viewed", "closed"}]
         /\ \A w \in Warmups :
               Closed(item)[w] = IF stream[w] = "cached" THEN "closed" ELSE stream[w]
<1>1. \A w \in Warmups : w = item <=> stream[w] = "cached"
  <2>1. \A w \in Warmups : w # 0
    BY DEF Warmups
  <2> QED
    BY <2>1 DEF AdminInv, StreamsSound, NoStreamLeaks
<1> QED
  BY <1>1 DEF Closed, AdminInv, AdminType

\* A new warm-up throws out what the last one left.
LEMMA BeginKeeps == ASSUME AdminInv, NEW t \in Threads, Begin(t) PROVE AdminInv'
<1> USE AdminAssumption
<1>1. PICK w \in Warmups :
         /\ worker[w] = "none" /\ pending' = w /\ item' = 0 /\ aged' = FALSE
         /\ stream' = Closed(item)
         /\ worker' = [worker EXCEPT ![w] = "opening"]
  BY DEF Begin
<1>2. /\ step[t] = "begin" /\ lock' = IF lock = t THEN Nobody ELSE lock
      /\ To(t, "idle") /\ UNCHANGED <<row, who, held>>
  BY DEF Begin
<1>3. /\ step' \in [Threads -> {"idle", "insert", "begin", "wait", "view"}]
      /\ step'[t] = "idle" /\ \A u \in Threads : u # t => step'[u] = step[u]
  BY <1>2 DEF To, AdminInv, AdminType
<1>4. /\ worker' \in [Warmups -> {"none", "opening", "primed", "failed", "done"}]
      /\ worker'[w] = "opening" /\ \A v \in Warmups : v # w => worker'[v] = worker[v]
  BY <1>1 DEF AdminInv, AdminType
<1>5. /\ stream' \in [Warmups -> {"none", "priming", "cached", "viewed", "closed"}]
      /\ \A v \in Warmups : stream'[v] = IF stream[v] = "cached" THEN "closed" ELSE stream[v]
  BY <1>1, ClosedItem
<1>6. AdminType'
  BY <1>1, <1>2, <1>3, <1>4, <1>5 DEF AdminInv, AdminType
<1>7. SessionsSound'
  <2>1. \A u \in Threads : step[u] = "insert" => lock' = lock
    BY <1>2 DEF AdminInv, SessionsSound
  <2> QED
    BY <1>2, <1>3, <2>1, SessionsSame
<1>8. StreamsSound'
  <2>1. \A v \in Warmups :
           /\ worker'[v] \in {"none", "opening", "failed"} => stream'[v] = "none"
           /\ worker'[v] = "primed" => stream'[v] = "priming"
    BY <1>1, <1>4, <1>5 DEF AdminInv, StreamsSound
  <2>2. NoStreamLeaks'
    BY <1>1, <1>2, <1>3, <1>4, <1>5 DEF AdminInv, AdminType, StreamsSound, NoStreamLeaks
  <2>3. ViewerSees'
    BY <1>2, <1>3, <1>5 DEF AdminInv, StreamsSound, ViewerSees
  <2> QED
    BY <1>1, <1>2, <1>3, <2>1, <2>2, <2>3 DEF AdminInv, StreamsSound
<1> QED
  BY <1>6, <1>7, <1>8 DEF AdminInv

\* A warm-up opens its stream, leaves it in the cache, or fails.
LEMMA WarmupKeeps ==
  ASSUME AdminInv, NEW w \in Warmups, Prime(w) \/ Store(w) \/ Fail(w)
  PROVE  AdminInv'
<1>1. UNCHANGED <<row, lock, step, who, held>>
  BY DEF Prime, Store, Fail, request
<1>2. SessionsSound'
  BY <1>1, SessionsSame
<1>3. w # 0
  BY DEF Warmups
<1>4. CASE Prime(w)
  <2>1. /\ worker[w] = "opening" /\ UNCHANGED <<item, aged, pending>>
        /\ \/ /\ worker' = [worker EXCEPT ![w] = "primed"]
              /\ stream' = [stream EXCEPT ![w] = "priming"]
           \/ worker' = [worker EXCEPT ![w] = "failed"] /\ UNCHANGED stream
    BY <1>4 DEF Prime, cache
  <2>2. AdminType'
    BY <1>1, <2>1 DEF AdminInv, AdminType
  <2>3. /\ stream[w] = "none" /\ \A v \in Warmups : v # w => stream'[v] = stream[v]
        /\ \A v \in Warmups : v # w => worker'[v] = worker[v]
        /\ \/ worker'[w] = "primed" /\ stream'[w] = "priming"
           \/ worker'[w] = "failed" /\ stream'[w] = "none"
    BY <2>1 DEF AdminInv, AdminType, StreamsSound
  <2>4. StreamsSound'
    BY <1>1, <2>1, <2>3 DEF AdminInv, AdminType, StreamsSound, NoStreamLeaks, ViewerSees
  <2> QED
    BY <1>2, <2>2, <2>4 DEF AdminInv
<1>5. CASE Store(w)
  <2>1. /\ worker[w] = "primed" /\ worker' = [worker EXCEPT ![w] = "done"]
        /\ item' = w /\ aged' = FALSE /\ UNCHANGED pending
        /\ stream' = [Closed(item) EXCEPT ![w] = "cached"]
    BY <1>5 DEF Store
  <2>2. /\ stream' \in [Warmups -> {"none", "priming", "cached", "viewed", "closed"}]
        /\ stream'[w] = "cached" /\ stream[w] = "priming"
        /\ \A v \in Warmups : v # w =>
              stream'[v] = IF stream[v] = "cached" THEN "closed" ELSE stream[v]
    BY <2>1, ClosedItem DEF AdminInv, StreamsSound
  <2>3. /\ worker' \in [Warmups -> {"none", "opening", "primed", "failed", "done"}]
        /\ worker'[w] = "done" /\ \A v \in Warmups : v # w => worker'[v] = worker[v]
    BY <2>1 DEF AdminInv, AdminType
  <2>4. AdminType'
    BY <1>1, <2>1, <2>2, <2>3 DEF AdminInv, AdminType
  <2>5. StreamsSound'
    BY <1>1, <1>3, <2>1, <2>2, <2>3 DEF AdminInv, StreamsSound, NoStreamLeaks, ViewerSees
  <2> QED
    BY <1>2, <2>4, <2>5 DEF AdminInv
<1>6. CASE Fail(w)
  <2>1. /\ worker[w] = "failed" /\ worker' = [worker EXCEPT ![w] = "done"]
        /\ item' = 0 /\ aged' = FALSE /\ pending' = 0
        /\ stream' = Closed(item)
    BY <1>6 DEF Fail
  <2>2. /\ stream' \in [Warmups -> {"none", "priming", "cached", "viewed", "closed"}]
        /\ \A v \in Warmups : stream'[v] = IF stream[v] = "cached" THEN "closed" ELSE stream[v]
    BY <2>1, ClosedItem
  <2>3. /\ worker' \in [Warmups -> {"none", "opening", "primed", "failed", "done"}]
        /\ worker'[w] = "done" /\ \A v \in Warmups : v # w => worker'[v] = worker[v]
    BY <2>1 DEF AdminInv, AdminType
  <2>4. AdminType'
    BY <1>1, <2>1, <2>2, <2>3 DEF AdminInv, AdminType
  <2>5. StreamsSound'
    BY <1>1, <2>1, <2>2, <2>3 DEF AdminInv, StreamsSound, NoStreamLeaks, ViewerSees
  <2> QED
    BY <1>2, <2>4, <2>5 DEF AdminInv
<1> QED
  BY <1>4, <1>5, <1>6

\* A viewer takes the stream out of the cache, or waits for one, and goes.
LEMMA ViewKeeps ==
  ASSUME AdminInv, NEW t \in Threads, OpenStream(t) \/ Take(t) \/ EndView(t)
  PROVE  AdminInv'
<1>1. UNCHANGED <<row, lock, who, worker>>
  BY DEF OpenStream, Take, EndView, warmup
<1>2. \A w \in Warmups : w # 0 /\ w \in Nat
  BY DEF Warmups
<1> DEFINE Steps == {"idle", "insert", "begin", "wait", "view"}
           Fates == {"none", "priming", "cached", "viewed", "closed"}
<1>3. /\ step' \in [Threads -> Steps]
      /\ step[t] # "insert" /\ step'[t] # "insert"
      /\ \A u \in Threads : u # t => step'[u] = step[u]
  BY DEF OpenStream, Take, EndView, To, AdminInv, AdminType
<1>4. /\ held' \in [Threads -> Nat]
      /\ \A u \in Threads : u # t => held'[u] = held[u]
  BY <1>2 DEF OpenStream, Take, EndView, Hold, AdminInv, AdminType
<1>5. SessionsSound'
  BY <1>1, <1>3, <1>4, SessionsSame
<1>6. CASE OpenStream(t)
  <2>1. /\ UNCHANGED <<item, aged, pending, stream>>
        /\ step[t] = "idle" /\ step'[t] = "wait"
    BY <1>6 DEF OpenStream, To, cache, warmup, AdminInv, AdminType
  <2>2. AdminType'
    BY <1>1, <1>3, <1>4, <2>1 DEF AdminInv, AdminType
  <2>3. StreamsSound'
    BY <1>1, <1>3, <1>4, <2>1, StreamsSame
  <2> QED
    BY <1>5, <2>2, <2>3 DEF AdminInv
<1>7. CASE Take(t)
  <2>1. /\ step[t] = "wait" /\ step'[t] = "view"
        /\ item' = 0 /\ aged' = FALSE /\ pending' = 0
    BY <1>7 DEF Take, TakenOut, To, AdminInv, AdminType
  <2>2. CASE item # 0 /\ ~aged
    <3>1. stream' = [stream EXCEPT ![item] = "viewed"] /\ held'[t] = item /\ item \in Warmups
      BY <1>7, <2>2 DEF Take, Hold, AdminInv, AdminType
    <3>2. /\ stream' \in [Warmups -> Fates] /\ stream'[item] = "viewed"
          /\ stream[item] = "cached"
          /\ \A v \in Warmups : v # item => stream'[v] = stream[v] /\ stream[v] # "cached"
      BY <2>2, <3>1 DEF AdminInv, AdminType, StreamsSound, NoStreamLeaks
    <3>3. AdminType'
      BY <1>1, <1>3, <1>4, <2>1, <3>2 DEF AdminInv, AdminType
    <3>4. NoStreamLeaks'
      BY <1>1, <1>3, <1>4, <2>1, <3>1, <3>2 DEF AdminInv, StreamsSound, NoStreamLeaks
    <3>5. ViewerSees'
      BY <1>3, <1>4, <2>1, <3>1, <3>2 DEF AdminInv, StreamsSound, ViewerSees
    <3>6. \A w \in Warmups :
             /\ worker'[w] \in {"none", "opening", "failed"} => stream'[w] = "none"
             /\ worker'[w] = "primed" => stream'[w] = "priming"
      BY <1>1, <3>1, <3>2 DEF AdminInv, StreamsSound
    <3>7. \A u \in Threads : step'[u] = "view" => held'[u] \in Warmups \cup {0}
      BY <1>3, <1>4, <3>1 DEF AdminInv, StreamsSound
    <3> QED
      BY <1>5, <2>1, <3>3, <3>4, <3>5, <3>6, <3>7 DEF AdminInv, StreamsSound
  <2>3. CASE ~(item # 0 /\ ~aged)
    <3>1. stream' = Closed(item) /\ held'[t] = 0
      BY <1>7, <2>3 DEF Take, Hold, AdminInv, AdminType
    <3>2. /\ stream' \in [Warmups -> Fates]
          /\ \A v \in Warmups :
                stream'[v] = IF stream[v] = "cached" THEN "closed" ELSE stream[v]
      BY <3>1, ClosedItem
    <3>3. AdminType'
      BY <1>1, <1>3, <1>4, <2>1, <3>2 DEF AdminInv, AdminType
    <3>4. StreamsSound'
      BY <1>1, <1>3, <1>4, <2>1, <3>1, <3>2
         DEF AdminInv, StreamsSound, NoStreamLeaks, ViewerSees
    <3> QED
      BY <1>5, <3>3, <3>4 DEF AdminInv
  <2> QED
    BY <2>2, <2>3
<1>8. CASE EndView(t)
  <2>1. /\ step[t] = "view" /\ step'[t] = "idle" /\ held'[t] = 0
        /\ UNCHANGED <<item, aged, pending>> /\ stream' = Closed(held[t])
    BY <1>8 DEF EndView, To, Hold, cache, AdminInv, AdminType
  <2>2. /\ stream' \in [Warmups -> Fates]
        /\ \A v \in Warmups : stream'[v] = IF v = held[t] THEN "closed" ELSE stream[v]
    BY <2>1 DEF Closed, AdminInv, AdminType
  <2>3. \A v \in Warmups : v = held[t] => stream[v] = "viewed"
    BY <1>2, <2>1 DEF AdminInv, StreamsSound, ViewerSees
  <2>4. AdminType'
    BY <1>1, <1>3, <1>4, <2>1, <2>2 DEF AdminInv, AdminType
  <2>5. NoStreamLeaks'
    BY <1>1, <1>3, <1>4, <2>1, <2>2, <2>3 DEF AdminInv, StreamsSound, NoStreamLeaks
  <2>6. ViewerSees'
    BY <1>3, <1>4, <2>1, <2>2 DEF AdminInv, StreamsSound, ViewerSees
  <2>7. item # 0 => stream'[item] = "cached"
    BY <2>2, <2>3 DEF AdminInv, AdminType, StreamsSound
  <2>8. \A w \in Warmups :
           /\ worker'[w] \in {"none", "opening", "failed"} => stream'[w] = "none"
           /\ worker'[w] = "primed" => stream'[w] = "priming"
    BY <1>1, <2>2, <2>3 DEF AdminInv, StreamsSound
  <2>9. \A u \in Threads : step'[u] = "view" => held'[u] \in Warmups \cup {0}
    BY <1>3, <1>4, <2>1 DEF AdminInv, StreamsSound
  <2> QED
    BY <1>5, <2>1, <2>4, <2>5, <2>6, <2>7, <2>8, <2>9 DEF AdminInv, StreamsSound
<1> QED
  BY <1>6, <1>7, <1>8

\* A session ends, a stream grows old.
LEMMA TimeKeeps ==
  ASSUME AdminInv, Age \/ (\E s \in Sessions : CloseSession(s)) \/ UNCHANGED adminVars
  PROVE  AdminInv'
<1>1. CASE Age
  <2>1. /\ UNCHANGED <<row, lock, step, who, held, item, pending, isSet, worker, stream>>
        /\ item # 0 /\ aged' = TRUE
    BY <1>1 DEF Age, request, warmup
  <2>2. SessionsSound'
    BY <2>1, SessionsSame
  <2> QED
    BY <2>1, <2>2 DEF AdminInv, AdminType, StreamsSound, NoStreamLeaks, ViewerSees
<1>2. ASSUME NEW s \in Sessions, CloseSession(s) PROVE AdminInv'
  <2> DEFINE n == [row[s] EXCEPT !.status = "over"]
  <2>1. /\ row[s].status = "active" /\ row' = [row EXCEPT ![s] = n]
        /\ UNCHANGED <<lock, step, who, held, item, aged, pending, isSet, worker, stream>>
    BY <1>2 DEF CloseSession, request, cache, warmup
  <2>2. n \in Rows /\ n.status = "over" /\ n.admin = row[s].admin
    BY DEF AdminInv, AdminType, Rows
  <2> HIDE DEF n
  <2>3. /\ row' \in [Sessions -> Rows] /\ row'[s] = n
        /\ \A r \in Sessions : r # s => row'[r] = row[r]
    BY <2>1, <2>2 DEF AdminInv, AdminType
  <2>4. AdminType'
    BY <2>1, <2>3 DEF AdminInv, AdminType
  <2>5. \A r \in Sessions, a \in Admins \cup {Nobody} :
           row'[r] = [admin |-> a, status |-> "active"] => Active(r, a)
    BY <2>2, <2>3 DEF Active
  <2>6. OneSessionPerAdmin'
    BY <2>5 DEF AdminInv, SessionsSound, OneSessionPerAdmin, Active
  <2>7. \A r \in Sessions : row'[r].status = "none" <=> row'[r].admin = Nobody
    BY <2>1, <2>2, <2>3 DEF AdminInv, SessionsSound
  <2>8. ASSUME NEW t \in Threads, step[t] = "insert"
        PROVE  /\ row'[held[t]].status = "none"
               /\ \A r \in Sessions : row'[r] # [admin |-> who[t], status |-> "active"]
    <3>1. held[t] \in Sessions /\ held[t] # s /\ who[t] \in Admins
      BY <2>1, <2>8 DEF AdminInv, SessionsSound
    <3> QED
      BY <2>3, <2>5, <2>8, <3>1 DEF AdminInv, SessionsSound
  <2>9. SessionsSound'
    BY <2>1, <2>6, <2>7, <2>8 DEF AdminInv, SessionsSound, Active
  <2>10. StreamsSound'
    BY <2>1, StreamsSame
  <2> QED
    BY <2>4, <2>9, <2>10 DEF AdminInv
<1>3. CASE UNCHANGED adminVars
  <2>1. UNCHANGED <<row, lock, step, who, held, item, aged, pending, isSet, worker, stream>>
    BY <1>3 DEF adminVars, request, cache, warmup
  <2> QED
    BY <2>1, SessionsSame, StreamsSame DEF AdminInv, AdminType
<1> QED
  BY <1>1, <1>2, <1>3

\* Every step of requests, warm-ups and clock keeps the invariant.
LEMMA AdminNextKeeps == AdminInv /\ [AdminNext]_adminVars => AdminInv'
BY CreateLockKeeps, CreateInsertKeeps, BeginKeeps, WarmupKeeps, ViewKeeps, TimeKeeps
   DEF AdminNext

\* No session, no warm-up, an empty cache
LEMMA AdminInitHolds == AdminInit => AdminInv
<1> SUFFICES ASSUME AdminInit PROVE AdminInv
  OBVIOUS
<1> USE AdminAssumption
<1>1. [admin |-> Nobody, status |-> "none"] \in Rows
  BY DEF Rows
<1>2. AdminType
  BY <1>1 DEF AdminInit, AdminType
<1>3. SessionsSound
  BY DEF AdminInit, SessionsSound, OneSessionPerAdmin, Active
<1>4. StreamsSound
  BY DEF AdminInit, StreamsSound, NoStreamLeaks, ViewerSees
<1> QED
  BY <1>2, <1>3, <1>4 DEF AdminInv

\* What runs check of the live access follows from its invariant.
LEMMA AdminImplies ==
  AdminInv => AdminTypeOK /\ OneSessionPerAdmin /\ NoStreamLeaks /\ ViewerSees
BY DEF AdminInv, AdminType, SessionsSound, StreamsSound, AdminTypeOK

\* Every stream that was opened has somebody who will close it, whichever warm-ups,
\* takes and viewers overlap.
THEOREM NoStreamStaysOpen == AdminSpec => []NoStreamLeaks
<1>1. AdminInit => AdminInv
  BY AdminInitHolds
<1>2. AdminInv /\ [AdminNext]_adminVars => AdminInv'
  BY AdminNextKeeps
<1> QED
  BY <1>1, <1>2, AdminImplies, PTL DEF AdminSpec

-----------------------------------------------------------------------------
(* EsimSetup *)

UploadStates   == [at : {"idle", "placed", "marked", "merging"}, read : Tokens, copy : EsimRow]
ObserverStates == [at : {"idle", "asked", "answered"}, copy : EsimRow,
                   present : BOOLEAN, token : Tokens]

\* The eSIM has been the same since the rental began, and every reading of it came.
Unread == own = "no" /\ unread = 0

\* A row, or a copy of one: the baseline is that of an upload and, while Unread,
\* the phone's eSIM; nothing is confirmed yet unless own came or it is unsure.
RowSound(x) ==
  /\ x.base # "unknown" => x.uploaded
  /\ Unread => x.base \in {"unknown", profile}
  /\ x.observed = "confirmed" => own # "no" \/ unsure

EsimInv ==
  /\ EsimTypeOK
  /\ unsure \in BOOLEAN /\ own \in {"no", "late", "yes"}
  /\ RowSound(esimRow) /\ RowSound(observer.copy)
  /\ observer.copy.uploaded => esimRow.uploaded
  /\ observer.at = "answered" /\ Unread =>
        observer.present = Present(profile) /\ observer.token = profile
  /\ \A t \in Uploads :
        /\ RowSound(upload[t].copy)
        /\ upload[t].at # "idle" /\ Unread => upload[t].read = profile
        /\ upload[t].at \in {"marked", "merging"} => esimRow.uploaded
        /\ upload[t].at = "merging" => upload[t].copy.uploaded

\* The types of what an upload, an observation and the ghosts are.
LEMMA EsimTypes ==
  ASSUME EsimInv
  PROVE  /\ profile \in Profiles /\ esimRow \in EsimRow
         /\ upload \in [Uploads -> UploadStates] /\ observer \in ObserverStates
         /\ unread \in 0..MaxUnread
         /\ (own = "no" <=> profile # "own")
BY DEF EsimInv, EsimTypeOK, UploadStates, ObserverStates

\* An upload places its QR and reads the phone, which may fail.
LEMMA PlaceKeeps == ASSUME EsimInv, NEW t \in Uploads, Place(t) PROVE EsimInv'
<1>1. PICK token \in Tokens, f \in 0..1 :
         /\ Dumpsys(token, f)
         /\ upload' = [upload EXCEPT ![t].at = "placed", ![t].read = token]
         /\ unread' = unread + f
  BY DEF Place
<1>2. /\ UNCHANGED <<profile, registered, esimRow, flow, observer, own, unsure, lost>>
      /\ qr' = TRUE /\ upload[t].at = "idle"
  BY DEF Place, ghosts
<1>3. unread' \in 0..MaxUnread /\ (unread' = 0 => unread = 0 /\ token = profile)
  BY <1>1, EsimTypes, EsimAssumption DEF Dumpsys
<1>4. Unread' => Unread
  BY <1>2, <1>3 DEF Unread
<1> DEFINE u == [upload[t] EXCEPT !.at = "placed", !.read = token]
<1>5. upload' = [upload EXCEPT ![t] = u]
  BY <1>1
<1>6. u \in UploadStates /\ u.at = "placed" /\ u.read = token /\ u.copy = upload[t].copy
  BY EsimTypes DEF UploadStates
<1> HIDE DEF u
<1>7. /\ upload' \in [Uploads -> UploadStates]
      /\ \A v \in Uploads : v # t => upload'[v] = upload[v]
      /\ upload'[t] = u
  BY <1>5, <1>6, EsimTypes
<1>8. EsimTypeOK'
  BY <1>2, <1>3, <1>7 DEF EsimInv, EsimTypeOK, UploadStates
<1>9. \A x : RowSound(x) => RowSound(x)'
  BY <1>2, <1>4 DEF RowSound
<1> QED
  BY <1>2, <1>3, <1>4, <1>6, <1>7, <1>8, <1>9 DEF EsimInv, RowSound, Unread

\* The row's mark and the copy of the row that an upload takes
LEMMA MarkKeeps ==
  ASSUME EsimInv, NEW t \in Uploads, MarkQrUploaded(t) \/ BaselineRead(t)
  PROVE  EsimInv'
<1>1. UNCHANGED <<profile, registered, qr, flow, observer, unread, own, unsure, lost>>
  BY DEF MarkQrUploaded, BaselineRead, phoneState, ghosts
<1>2. (Unread' <=> Unread) /\ \A x : RowSound(x) => RowSound(x)'
  BY <1>1 DEF Unread, RowSound
<1>3. CASE MarkQrUploaded(t)
  <2> DEFINE u == [upload[t] EXCEPT !.at = "marked"]
             e == [esimRow EXCEPT !.uploaded = TRUE]
  <2>1. upload' = [upload EXCEPT ![t] = u] /\ esimRow' = e /\ upload[t].at = "placed"
    BY <1>3 DEF MarkQrUploaded
  <2>2. /\ u \in UploadStates /\ u.at = "marked" /\ u.read = upload[t].read
        /\ u.copy = upload[t].copy
    BY EsimTypes DEF UploadStates
  <2>3. /\ e \in EsimRow /\ e.uploaded /\ e.base = esimRow.base
        /\ e.observed = esimRow.observed
    BY EsimTypes DEF EsimRow
  <2> HIDE DEF u, e
  <2>4. /\ upload' \in [Uploads -> UploadStates] /\ upload'[t] = u
        /\ \A v \in Uploads : v # t => upload'[v] = upload[v]
    BY <2>1, <2>2, EsimTypes
  <2>5. EsimTypeOK'
    BY <1>1, <2>1, <2>3, <2>4 DEF EsimInv, EsimTypeOK, UploadStates
  <2>6. RowSound(esimRow)'
    BY <1>1, <2>1, <2>3 DEF EsimInv, RowSound, Unread
  <2>7. \A v \in Uploads : RowSound(upload[v].copy)'
    BY <1>1, <2>2, <2>4 DEF EsimInv, RowSound, Unread
  <2>8. RowSound(observer.copy)'
    BY <1>1 DEF EsimInv, RowSound, Unread
  <2> QED
    BY <1>1, <1>2, <2>1, <2>2, <2>3, <2>4, <2>5, <2>6, <2>7, <2>8 DEF EsimInv
<1>4. CASE BaselineRead(t)
  <2> DEFINE u == [upload[t] EXCEPT !.at = "merging", !.copy = esimRow]
  <2>1. upload' = [upload EXCEPT ![t] = u] /\ esimRow' = esimRow /\ upload[t].at = "marked"
    BY <1>4 DEF BaselineRead
  <2>2. /\ u \in UploadStates /\ u.at = "merging" /\ u.read = upload[t].read
        /\ u.copy = esimRow
    BY EsimTypes DEF UploadStates
  <2> HIDE DEF u
  <2>3. /\ upload' \in [Uploads -> UploadStates] /\ upload'[t] = u
        /\ \A v \in Uploads : v # t => upload'[v] = upload[v]
    BY <2>1, <2>2, EsimTypes
  <2>4. EsimTypeOK'
    BY <1>1, <2>1, <2>3 DEF EsimInv, EsimTypeOK, UploadStates
  <2>5. RowSound(esimRow)' /\ RowSound(observer.copy)'
    BY <1>1, <2>1 DEF EsimInv, RowSound, Unread
  <2>6. \A v \in Uploads : RowSound(upload[v].copy)'
    BY <1>1, <2>2, <2>3 DEF EsimInv, RowSound, Unread
  <2>7. esimRow.uploaded
    BY <2>1 DEF EsimInv
  <2> QED
    BY <1>1, <1>2, <2>1, <2>2, <2>3, <2>4, <2>5, <2>6, <2>7 DEF EsimInv
<1> QED
  BY <1>3, <1>4

\* The baseline that was recorded first stays; of a reading that came it is the
\* phone's eSIM.
LEMMA RecordKeeps == ASSUME EsimInv, NEW t \in Uploads, RecordEsimBaseline(t) PROVE EsimInv'
<1> DEFINE c == upload[t].copy
           b == Merge(c.base, upload[t].read)
           e == [c EXCEPT !.base = b]
<1>1. /\ UNCHANGED <<profile, registered, qr, flow, observer, unread, own, unsure>>
      /\ upload[t].at = "merging" /\ upload' = [upload EXCEPT ![t] = NoUpload]
      /\ esimRow' = e
  BY DEF RecordEsimBaseline, phoneState
<1>2. upload[t] \in UploadStates /\ c \in EsimRow /\ c.uploaded /\ RowSound(c)
  BY <1>1, EsimTypes DEF EsimInv, UploadStates
<1>3. b \in Tokens \cup {"unknown"} /\ (Unread => b \in {"unknown", profile})
  BY <1>1, <1>2 DEF EsimInv, Merge, RowSound, UploadStates, EsimRow
<1> HIDE DEF b
<1>4. e \in EsimRow /\ e.uploaded /\ e.base = b /\ e.observed = c.observed
  BY <1>2, <1>3 DEF EsimRow
<1> HIDE DEF e
<1>5. /\ NoUpload \in UploadStates /\ NoUpload.at = "idle"
      /\ NoUpload.copy.base = "unknown" /\ NoUpload.copy.observed = "nothing"
  BY DEF NoUpload, UploadStates, NewRow, EsimRow, Tokens, Profiles
<1>6. /\ upload' \in [Uploads -> UploadStates] /\ upload'[t] = NoUpload
      /\ \A v \in Uploads : v # t => upload'[v] = upload[v]
  BY <1>1, <1>5, EsimTypes
<1>7. EsimTypeOK'
  BY <1>1, <1>4, <1>6 DEF EsimInv, EsimTypeOK, UploadStates
<1>8. RowSound(esimRow)' /\ RowSound(observer.copy)'
  BY <1>1, <1>2, <1>3, <1>4 DEF EsimInv, RowSound, Unread
<1>9. \A v \in Uploads : RowSound(upload[v].copy)'
  BY <1>1, <1>5, <1>6 DEF EsimInv, RowSound, Unread
<1> QED
  BY <1>1, <1>4, <1>5, <1>6, <1>7, <1>8, <1>9 DEF EsimInv, Unread

\* prepare_esim, the network and the customer's installation
LEMMA PhoneKeeps ==
  ASSUME EsimInv, PrepareStart \/ PrepareEnd \/ Install \/ Register \/ UNCHANGED esimVars
  PROVE  EsimInv'
<1>1. UNCHANGED <<upload, observer, unread, unsure>>
  BY DEF PrepareStart, PrepareEnd, Install, Register, esimVars, ghosts
<1>2. /\ esimRow' \in EsimRow /\ esimRow'.uploaded = esimRow.uploaded
      /\ esimRow'.base = esimRow.base /\ esimRow'.observed = esimRow.observed
  BY EsimTypes DEF PrepareStart, PrepareEnd, Install, Register, esimVars, EsimRow
<1>3. /\ own' \in {"no", "late", "yes"} /\ profile' \in Profiles
      /\ (own' = "no" <=> profile' # "own")
      /\ (own' = "no" => own = "no" /\ profile' = profile)
  BY EsimTypes DEF EsimInv, PrepareStart, PrepareEnd, Install, Register, esimVars, ghosts,
     phoneState, Profiles
<1>4. registered' \in BOOLEAN /\ qr' \in BOOLEAN /\ flow' \in {"none", "placing"}
  BY DEF EsimInv, EsimTypeOK, PrepareStart, PrepareEnd, Install, Register, esimVars, phoneState
<1>5. EsimTypeOK'
  BY <1>1, <1>2, <1>3, <1>4 DEF EsimInv, EsimTypeOK
<1>6. Unread' => Unread /\ profile' = profile
  BY <1>1, <1>3 DEF Unread
<1>7. /\ RowSound(esimRow)' /\ RowSound(observer.copy)'
      /\ \A v \in Uploads : RowSound(upload[v].copy)'
  BY <1>1, <1>2, <1>3, <1>6 DEF EsimInv, RowSound
<1> QED
  BY <1>1, <1>2, <1>3, <1>5, <1>6, <1>7 DEF EsimInv

\* An observation copies the row, and asks the phone twice.
LEMMA AskKeeps == ASSUME EsimInv, ObserveRead \/ ObserveFarm PROVE EsimInv'
<1>1. UNCHANGED <<profile, registered, qr, esimRow, upload, flow, own, unsure, lost>>
  BY DEF ObserveRead, ObserveFarm, phoneState, ghosts
<1>2. /\ observer' \in ObserverStates
      /\ observer'.copy \in {esimRow, observer.copy, NewRow}
      /\ unread' \in 0..MaxUnread /\ (unread' = 0 => unread = 0)
      /\ observer'.at = "answered" /\ unread' = 0 =>
            observer'.present = Present(profile) /\ observer'.token = profile
  <2>1. CASE ObserveRead
    BY <2>1, EsimTypes DEF ObserveRead, ObserverStates
  <2>2. ASSUME NEW a \in Tokens, NEW b \in Tokens, NEW f \in 0..1, NEW g \in 0..1,
               Dumpsys(a, f), Dumpsys(b, g), unread + f + g =< MaxUnread,
               observer' = [observer EXCEPT !.at = "answered", !.present = Present(a),
                                            !.token = b],
               unread' = unread + f + g
        PROVE  /\ observer' \in ObserverStates
               /\ observer'.copy \in {esimRow, observer.copy, NewRow}
               /\ unread' \in 0..MaxUnread /\ (unread' = 0 => unread = 0)
               /\ unread' = 0 =>
                    observer'.present = Present(profile) /\ observer'.token = profile
    <3>1. unread' \in 0..MaxUnread /\ (unread' = 0 => unread = 0 /\ f = 0 /\ g = 0)
      BY <2>2, EsimTypes, EsimAssumption
    <3>2. f = 0 => a = profile
      BY <2>2 DEF Dumpsys
    <3>3. g = 0 => b = profile
      BY <2>2 DEF Dumpsys
    <3>4. Present(a) \in BOOLEAN
      BY DEF Present
    <3>5. /\ observer' \in ObserverStates /\ observer'.copy = observer.copy
          /\ observer'.present = Present(a) /\ observer'.token = b
      BY <2>2, <3>4, EsimTypes DEF ObserverStates
    <3> QED
      BY <3>1, <3>2, <3>3, <3>5
  <2>3. CASE observer' = NotAsked /\ unread < MaxUnread /\ unread' = unread + 1
    <3>1. NotAsked \in ObserverStates /\ NotAsked.copy = NewRow /\ NotAsked.at = "idle"
      BY DEF NotAsked, ObserverStates, NewRow, EsimRow, Tokens, Profiles
    <3>2. unread' \in 0..MaxUnread /\ unread' # 0
      BY <2>3, EsimTypes, EsimAssumption
    <3> QED
      BY <2>3, <3>1, <3>2
  <2> QED
    BY <2>1, <2>2, <2>3 DEF ObserveFarm
<1>3. (Unread' => Unread) /\ (Unread' => unread' = 0)
  BY <1>1, <1>2 DEF Unread
<1>4. NewRow.base = "unknown" /\ ~NewRow.uploaded /\ NewRow.observed = "nothing"
  BY DEF NewRow
<1>5. EsimTypeOK'
  BY <1>1, <1>2 DEF EsimInv, EsimTypeOK, ObserverStates
<1>6. /\ RowSound(esimRow)' /\ RowSound(observer.copy)'
      /\ \A v \in Uploads : RowSound(upload[v].copy)'
  BY <1>1, <1>2, <1>3, <1>4 DEF EsimInv, RowSound
<1>7. observer'.copy.uploaded => esimRow.uploaded
  BY <1>2, <1>4 DEF EsimInv
<1> QED
  BY <1>1, <1>2, <1>3, <1>5, <1>6, <1>7 DEF EsimInv

\* While every reading came and the own eSIM has not, nothing looks new.
LEMMA NothingIsNew ==
  ASSUME EsimInv, observer.at = "answered", Unread, observer.copy.base # "unknown"
  PROVE  Verdict # "confirmed"
<1>1. /\ observer.copy.base = profile /\ observer.present = Present(profile)
      /\ observer.token = profile
  BY DEF EsimInv, RowSound
<1> QED
  BY <1>1 DEF Verdict, IsNew

\* An observation stores its verdict, or the row it read before.
LEMMA StoreKeeps == ASSUME EsimInv, ObserveStore PROVE EsimInv'
<1> DEFINE c == observer.copy
           e == [esimRow EXCEPT !.observed = Verdict, !.base = c.base]
<1>1. /\ UNCHANGED <<profile, registered, qr, upload, flow, unread, own>>
      /\ observer.at = "answered" /\ observer' = NotAsked
      /\ unsure' = (unsure \/ (Verdict = "confirmed" /\ (c.base = "unknown" \/ unread > 0)))
      /\ \/ Verdict = "nothing" /\ esimRow' = c
         \/ esimRow' = esimRow
         \/ Verdict # "nothing" /\ esimRow' = e
  BY DEF ObserveStore, phoneState
<1>2. c \in EsimRow /\ Verdict \in {"nothing", "missing", "confirmed"}
  BY EsimTypes DEF ObserverStates, Verdict
<1>3. /\ e \in EsimRow /\ e.uploaded = esimRow.uploaded /\ e.base = c.base
      /\ e.observed = Verdict
  BY <1>2, EsimTypes DEF EsimRow
<1>4. Verdict = "nothing" => c.base # "unknown"
  BY DEF Verdict, Present
<1>5. /\ NotAsked \in ObserverStates /\ NotAsked.at = "idle" /\ NotAsked.copy = NewRow
      /\ NewRow.base = "unknown" /\ ~NewRow.uploaded /\ NewRow.observed = "nothing"
  BY DEF NotAsked, ObserverStates, NewRow, EsimRow, Tokens, Profiles
<1>6. Verdict = "confirmed" => own # "no" \/ unsure'
  <2>1. unread > 0 \/ unread = 0
    BY EsimTypes, EsimAssumption
  <2>2. Unread /\ c.base # "unknown" => Verdict # "confirmed"
    BY <1>1, NothingIsNew
  <2> QED
    BY <1>1, <2>1, <2>2 DEF Unread
<1>7. c.base # "unknown" => c.uploaded /\ esimRow.uploaded
  BY DEF EsimInv, RowSound
<1> HIDE DEF e
<1>8. esimRow' \in EsimRow /\ (esimRow.uploaded => esimRow'.uploaded)
  BY <1>1, <1>2, <1>3, <1>4, <1>7, EsimTypes
<1>9. unsure' \in BOOLEAN /\ (unsure => unsure') /\ (Unread' <=> Unread)
  BY <1>1 DEF EsimInv, Unread
<1>10. RowSound(esimRow)'
  BY <1>1, <1>3, <1>6, <1>7, <1>9 DEF EsimInv, RowSound
<1>11. /\ RowSound(observer.copy)'
       /\ \A v \in Uploads : RowSound(upload[v].copy)'
  BY <1>1, <1>5, <1>9 DEF EsimInv, RowSound
<1>12. EsimTypeOK'
  <2>1. esimRow'.base # "unknown" => esimRow'.uploaded
    BY <1>10 DEF RowSound
  <2> QED
    BY <1>1, <1>5, <1>8, <2>1 DEF EsimInv, EsimTypeOK, ObserverStates
<1> QED
  BY <1>1, <1>5, <1>8, <1>9, <1>10, <1>11, <1>12 DEF EsimInv

\* Every step of uploads, flow, phone and observation keeps the invariant.
LEMMA EsimNextKeeps == EsimInv /\ [EsimNext]_esimVars => EsimInv'
BY PlaceKeeps, MarkKeeps, RecordKeeps, PhoneKeeps, AskKeeps, StoreKeeps DEF EsimNext

\* A rental begins with an empty row.
LEMMA EsimInitHolds == EsimInit => EsimInv
<1> SUFFICES ASSUME EsimInit PROVE EsimInv
  OBVIOUS
<1>1. /\ NewRow \in EsimRow /\ NewRow.base = "unknown" /\ ~NewRow.uploaded
      /\ NewRow.observed = "nothing"
  BY DEF NewRow, EsimRow
<1>2. NoUpload \in UploadStates /\ NoUpload.at = "idle" /\ NoUpload.copy = NewRow
  BY <1>1 DEF NoUpload, UploadStates, Tokens, Profiles
<1>3. NotAsked \in ObserverStates /\ NotAsked.at = "idle" /\ NotAsked.copy = NewRow
  BY <1>1 DEF NotAsked, ObserverStates, Tokens, Profiles
<1>4. EsimTypeOK
  <2>1. unread \in 0..MaxUnread /\ esimRow = NewRow /\ observer = NotAsked
    BY EsimAssumption DEF EsimInit
  <2>2. upload \in [Uploads -> UploadStates]
    BY <1>2 DEF EsimInit
  <2>3. /\ profile \in Profiles /\ registered \in BOOLEAN /\ qr \in BOOLEAN
        /\ flow \in {"none", "placing"} /\ (own = "no" <=> profile # "own")
    BY DEF EsimInit, Profiles
  <2> QED
    BY <1>1, <1>3, <2>1, <2>2, <2>3 DEF EsimTypeOK, UploadStates, ObserverStates
<1> QED
  BY <1>1, <1>2, <1>3, <1>4 DEF EsimInit, EsimInv, RowSound

\* An earlier rental's eSIM is not confirmed to a rental that recorded a baseline,
\* while every reading of the phone comes.
THEOREM LeftoversStayOld == EsimSpec => []LeftoverIsNotNew
<1>1. EsimInit => EsimInv
  BY EsimInitHolds
<1>2. EsimInv /\ [EsimNext]_esimVars => EsimInv'
  BY EsimNextKeeps
<1>3. EsimInv => LeftoverIsNotNew
  BY DEF EsimInv, RowSound, LeftoverIsNotNew
<1> QED
  BY <1>1, <1>2, <1>3, PTL DEF EsimSpec

-----------------------------------------------------------------------------
(* SlotStatus *)

Beats == [known : BOOLEAN, online : BOOLEAN, ok : BOOLEAN, fresh : BOOLEAN]
Readings == [at : {"idle", "occupancy", "jobs", "assign"}, beat : Beats, taken : BOOLEAN,
             active : {"none", "assign", "action"}]

\* An event waits to be appended only for a bay that has a row.
SlotInv ==
  /\ farmUp \in BOOLEAN /\ reachable \in BOOLEAN
  /\ occupied \in BOOLEAN /\ lostEvent \in BOOLEAN
  /\ reading \in Readings
  /\ SlotTypeOK
  /\ polled # "none" => heartbeat.known
  /\ EventsAlternate

\* derive_slot_state answers one of the statuses callers know.
LEMMA DerivedType ==
  ASSUME NEW beat, NEW busy, NEW active \in {"none", "assign", "action"}, NEW last \in Phases
  PROVE  Derived(beat, busy, active, last) \in States
BY DEF Derived, States, Phases

\* A poll records the phone and what changed since the last one.
LEMMA PollKeeps == ASSUME SlotInv, PollOnce PROVE SlotInv'
<1> USE DEF SlotInv, SlotTypeOK, Beats, Readings
<1>1. CASE farmUp /\ heartbeat' = Record /\ polled' = Transition
  <2>1. heartbeat' \in Beats /\ heartbeat'.known /\ heartbeat'.online = reachable
    BY <1>1 DEF Record
  <2>2. polled' \in {"none", "device_online", "device_offline"}
    BY <1>1 DEF Transition
  <2>3. EventsAlternate' /\ lostEvent' \in BOOLEAN
    BY <1>1, <2>1 DEF EventsAlternate, Transition, PollOnce, NoHeartbeat
  <2> QED
    BY <2>1, <2>2, <2>3 DEF PollOnce, outside, bayState
<1>2. CASE ~farmUp /\ heartbeat' = RecordFarmError /\ UNCHANGED polled
  <2>1. heartbeat' \in Beats /\ heartbeat'.known /\ heartbeat'.online = heartbeat.online
    BY <1>2 DEF RecordFarmError
  <2>2. EventsAlternate' /\ lostEvent' \in BOOLEAN
    BY <1>2, <2>1 DEF EventsAlternate, PollOnce
  <2> QED
    BY <1>2, <2>1, <2>2 DEF PollOnce, outside, bayState
<1> QED
  BY <1>1, <1>2 DEF PollOnce

\* Every step keeps events and row in step.
LEMMA SlotNextKeeps == SlotInv /\ [SlotNext]_slotVars => SlotInv'
<1> SUFFICES ASSUME SlotInv, [SlotNext]_slotVars PROVE SlotInv'
  OBVIOUS
<1> USE DEF SlotInv, SlotTypeOK, Beats, Readings
<1>1. CASE PollOnce
  BY <1>1, PollKeeps
<1>2. CASE AppendEvent
  BY <1>2 DEF AppendEvent, outside, bayState, EventsAlternate
<1>3. CASE RefreshStart
  <2>1. reading' \in Readings
    BY <1>3 DEF RefreshStart
  <2> QED
    BY <1>3, <2>1 DEF RefreshStart, outside, bayState, poll, EventsAlternate
<1>4. CASE ReadOccupancy \/ ReadActiveJob
  <2>1. reading' \in Readings
    BY <1>4 DEF ReadOccupancy, ReadActiveJob
  <2>2. reading'.at \in {"idle", "occupancy", "jobs", "assign"}
    BY <2>1
  <2>3. UNCHANGED <<outside, bayState, poll, snapshot, lostEvent>>
    BY <1>4 DEF ReadOccupancy, ReadActiveJob
  <2> QED
    BY <2>1, <2>2, <2>3 DEF outside, bayState, poll, EventsAlternate
<1>5. CASE RefreshEnd
  <2>1. snapshot' \in States
    BY <1>5, DerivedType DEF RefreshEnd
  <2>2. reading' \in Readings
        /\ reading'.at = "idle"
    BY <1>5 DEF RefreshEnd, NoReading, NoHeartbeat
  <2> QED
    BY <1>5, <2>1, <2>2 DEF RefreshEnd, outside, bayState, poll, EventsAlternate
<1>6. CASE Occupy \/ Vacate \/ StartJob \/ EndJob
  <2>1. job' \in {"none", "assign", "action"} /\ phase' \in Phases /\ occupied' \in BOOLEAN
    BY <1>6 DEF Occupy, Vacate, StartJob, EndJob, Phases
  <2>2. UNCHANGED <<outside, poll, reading, snapshot, lostEvent>>
    BY <1>6 DEF Occupy, Vacate, StartJob, EndJob
  <2> QED
    BY <2>1, <2>2 DEF outside, poll, EventsAlternate
<1>7. CASE Outage
  <2>1. farmUp' \in BOOLEAN /\ reachable' \in BOOLEAN
    BY <1>7 DEF Outage
  <2>2. UNCHANGED <<bayState, poll, reading, snapshot, lostEvent>>
    BY <1>7 DEF Outage
  <2> QED
    BY <2>1, <2>2 DEF bayState, poll, EventsAlternate
<1>8. CASE Stall
  <2>1. heartbeat' \in Beats /\ heartbeat'.known = heartbeat.known
        /\ heartbeat'.online = heartbeat.online
    BY <1>8 DEF Stall
  <2>2. ~NoHeartbeat.fresh
    BY DEF NoHeartbeat
  <2>3. heartbeat.known
    BY <1>8, <2>2 DEF Stall
  <2> QED
    BY <1>8, <2>1, <2>3 DEF Stall, outside, bayState, EventsAlternate
<1>9. CASE VpsRestart
  <2>1. reading' \in Readings
        /\ reading'.at = "idle"
    BY <1>9 DEF VpsRestart, NoReading, NoHeartbeat
  <2>2. EventsAlternate'
    BY <1>9 DEF VpsRestart, EventsAlternate
  <2>3. lostEvent' \in BOOLEAN
    BY <1>9 DEF VpsRestart
  <2> QED
    BY <1>9, <2>1, <2>2, <2>3 DEF VpsRestart, outside, bayState
<1>10. CASE UNCHANGED slotVars
  BY <1>10 DEF slotVars, outside, bayState, poll, EventsAlternate
<1> QED
  BY <1>1, <1>2, <1>3, <1>4, <1>5, <1>6, <1>7, <1>8, <1>9, <1>10
     DEF SlotNext, Poller, Refresh

\* No row, no event, no reading
LEMMA SlotInitHolds == SlotInit => SlotInv
<1> SUFFICES ASSUME SlotInit PROVE SlotInv
  OBVIOUS
<1>1. NoHeartbeat \in Beats
  BY DEF NoHeartbeat, Beats
<1>2. NoReading \in Readings
      /\ NoReading.at = "idle"
  BY <1>1 DEF NoReading, Readings
<1>3. SlotTypeOK
  BY <1>1, <1>2 DEF SlotInit, SlotTypeOK, Beats, Phases
<1> QED
  BY <1>2, <1>3 DEF SlotInit, SlotInv, EventsAlternate

\* The events of a bay alternate: the newest, or the one about to be appended, says
\* what its heartbeat row says.  (An event that a restart between row and event has
\* swallowed stays missing until the phone changes again.)
THEOREM EventsDoAlternate == SlotSpec => []EventsAlternate
<1>1. SlotInit => SlotInv
  BY SlotInitHolds
<1>2. SlotInv /\ [SlotNext]_slotVars => SlotInv'
  BY SlotNextKeeps
<1>3. SlotInv => EventsAlternate
  BY DEF SlotInv
<1> QED
  BY <1>1, <1>2, <1>3, PTL DEF SlotSpec

-----------------------------------------------------------------------------
(* PhoneScreen *)

\* The state of the phone's screen keeps its shape, and a kick notice stands for
\* as long as it was announced.
LEMMA ScreenNextKeeps == ScreenTypeOK /\ [ScreenNext]_screenVars => ScreenTypeOK'
<1> SUFFICES ASSUME ScreenTypeOK, [ScreenNext]_screenVars PROVE ScreenTypeOK'
  OBVIOUS
<1> DEFINE Files    == {"home", "messages", "gallery", "network", "main", "blocked"}
           Guards   == [at : {"read", "act", "kick"}, focus : Screens]
           Controls == [at : {"idle", "look", "meddle", "decide"},
                        for : {"none", "tap", "after", "back", "settings", "launch", "poll"},
                        saw : Screens \cup {"none"}, was : {"open", "confirmed"}]
<1>1. /\ screen \in Screens /\ admin \in BOOLEAN /\ setup \in {"open", "awaiting", "confirmed"}
      /\ guard \in Guards /\ file \in Files /\ hold \in BOOLEAN /\ (hold => file = "blocked")
      /\ control \in Controls /\ taps \in 0..MaxTaps
  BY DEF ScreenTypeOK
<1>2. Back(screen) \subseteq Screens
  BY DEF Back, Screens
<1>3. {"home", "sims", "esim", "messages", "game", "popup"} \subseteq Screens
  BY DEF Screens
<1>4. \A s \in Screens : Key(s) \in Files
  BY DEF Key
<1>5. Listening \in Guards /\ Kicking \in Guards
  BY <1>3 DEF Listening, Kicking
<1>6. Resting \in Controls
  BY <1>3 DEF Resting
<1>7. ASSUME NEW what \in {"tap", "after", "back", "settings", "launch", "poll"}, Starts(what)
      PROVE  control' \in Controls
  BY <1>6, <1>7 DEF Starts, Resting
<1>8. taps' \in 0..MaxTaps
  <2>1. Tapped \/ taps' = taps
    BY DEF ScreenNext, Guard, GuardRead, DismissPopup, GuardAct, GuardKick, HoldEnds,
           GuardRestart, Tap, PressBack, PressHome, OpenSettings, PollSetup, Look, Meddle,
           Decide, HandOff, Confirm, AppOpens, SetAdminMode, screenVars
  <2> QED
    BY <1>1, <2>1, ScreenAssumption DEF Tapped
<1> DEFINE Shape == /\ screen' \in Screens /\ admin' \in BOOLEAN
                   /\ setup' \in {"open", "awaiting", "confirmed"}
                   /\ guard' \in Guards /\ file' \in Files /\ hold' \in BOOLEAN
                   /\ (hold' => file' = "blocked")
                   /\ control' \in Controls
<1> SUFFICES Shape
  BY <1>8 DEF ScreenTypeOK
<1>9. CASE GuardRead
  BY <1>1, <1>9 DEF GuardRead
<1>10. CASE DismissPopup
  BY <1>1, <1>2, <1>5, <1>10 DEF DismissPopup
<1>11. CASE GuardAct
  <2>1. guard.focus \in Screens
    BY <1>1
  <2>2. guard' \in Guards
    BY <1>5, <1>11 DEF GuardAct
  <2>3. /\ file' \in Files /\ hold' \in BOOLEAN
        /\ (hold' => file' = "blocked")
    <3>1. ASSUME NEW key \in Files, MaybeRecord(key)
          PROVE  file' \in Files /\ hold' \in BOOLEAN /\ (hold' => file' = "blocked")
      BY <1>1, <3>1 DEF MaybeRecord
    <3>2. CASE Announce
      BY <3>2 DEF Announce
    <3>3. CASE UNCHANGED <<file, hold>>
      BY <1>1, <3>3
    <3>4. Key(guard.focus) \in Files /\ "network" \in Files
      BY <1>4, <2>1
    <3>5. \/ UNCHANGED <<file, hold>> \/ Announce
          \/ MaybeRecord(Key(guard.focus)) \/ MaybeRecord("network")
      BY <1>11 DEF GuardAct
    <3> QED
      BY <3>1, <3>2, <3>3, <3>4, <3>5
  <2> QED
    BY <1>1, <1>11, <2>2, <2>3 DEF GuardAct
<1>12. CASE GuardKick
  BY <1>1, <1>3, <1>5, <1>12 DEF GuardKick
<1>13. CASE HoldEnds
  BY <1>1, <1>13 DEF HoldEnds
<1>14. CASE GuardRestart
  BY <1>1, <1>5, <1>14 DEF GuardRestart
<1>15. CASE Tap \/ PressBack \/ OpenSettings \/ PollSetup
  <2>1. control' \in Controls
    BY <1>1, <1>7, <1>15 DEF Tap, PressBack, OpenSettings, PollSetup
  <2> QED
    BY <1>1, <1>2, <1>15, <2>1 DEF Tap, PressBack, OpenSettings, PollSetup
<1>16. CASE PressHome
  BY <1>1, <1>3, <1>16 DEF PressHome
<1>17. CASE Look
  BY <1>1, <1>17 DEF Look
<1>18. CASE Meddle
  BY <1>1, <1>3, <1>18 DEF Meddle
<1>19. CASE Decide
  <2>1. control' \in Controls /\ screen' \in Screens
    BY <1>1, <1>2, <1>3, <1>6, <1>7, <1>19 DEF Decide, Enforce, Leads
  <2> QED
    BY <1>1, <1>19, <2>1 DEF Decide
<1>20. CASE HandOff \/ Confirm \/ AppOpens \/ SetAdminMode
  <2>1. screen' \in Screens
    BY <1>1, <1>3, <1>20 DEF HandOff, Confirm, AppOpens, SetAdminMode
  <2>2. admin' \in BOOLEAN /\ setup' \in {"open", "awaiting", "confirmed"}
    BY <1>1, <1>20 DEF HandOff, Confirm, AppOpens, SetAdminMode
  <2>3. UNCHANGED <<guard, file, hold, control>>
    BY <1>20 DEF HandOff, Confirm, AppOpens, SetAdminMode
  <2> QED
    BY <1>1, <2>1, <2>2, <2>3
<1>21. CASE UNCHANGED screenVars
  BY <1>1, <1>21 DEF screenVars
<1> QED
  BY <1>9, <1>10, <1>11, <1>12, <1>13, <1>14, <1>15, <1>16, <1>17, <1>18, <1>19, <1>20,
     <1>21 DEF ScreenNext, Guard

\* The phone starts at its home screen.
LEMMA ScreenInitHolds == ScreenInit => ScreenTypeOK
<1> SUFFICES ASSUME ScreenInit PROVE ScreenTypeOK
  OBVIOUS
<1>1. "home" \in Screens /\ taps \in 0..MaxTaps
  BY ScreenAssumption DEF ScreenInit, Screens
<1>2. Listening \in [at : {"read", "act", "kick"}, focus : Screens]
  BY <1>1 DEF Listening
<1>3. Resting \in [at : {"idle", "look", "meddle", "decide"},
                  for : {"none", "tap", "after", "back", "settings", "launch", "poll"},
                  saw : Screens \cup {"none"}, was : {"open", "confirmed"}]
  BY <1>1 DEF Resting
<1> QED
  BY <1>1, <1>2, <1>3 DEF ScreenInit, ScreenTypeOK

-----------------------------------------------------------------------------
(* All seven together, as the run has them *)

AllInv ==
  /\ GuardInv /\ LoopType /\ BillingInv /\ CompInv /\ AdminInv /\ EsimInv /\ SlotInv
  /\ ScreenTypeOK

\* A step of one service leaves every other as it is.
LEMMA StepOfEach ==
  ASSUME [ServicesNext]_services
  PROVE  /\ [Next]_vars /\ [BillingNext]_billing /\ [CompNext]_compVars
         /\ [AdminNext]_adminVars /\ [EsimNext]_esimVars /\ [SlotNext]_slotVars
         /\ [ScreenNext]_screenVars
BY DEF ServicesNext, services, Only, GuardOnly, BillingOnly, CompanionOnly, AdminOnly,
       EsimOnly, SlotOnly, ScreenOnly

\* What the run's invariants say follows.
LEMMA AllImply ==
  AllInv => /\ ServicesInv /\ NewestWins /\ LedgerBalances
            /\ VerdictIsOwn /\ AnswerStands /\ NoStreamLeaks /\ LeftoverIsNotNew
            /\ EventsAlternate
<1> SUFFICES ASSUME AllInv
             PROVE  /\ ServicesInv /\ NewestWins /\ LedgerBalances
                    /\ VerdictIsOwn /\ AnswerStands /\ NoStreamLeaks /\ LeftoverIsNotNew
                    /\ EventsAlternate
  OBVIOUS
<1>1. TypeOK /\ NewestWins
  BY GuardImplies DEF AllInv
<1>2. BillingTypeOK /\ EventsCountOnce /\ LedgerBalances
  BY DEF AllInv, BillingInv, Ledger, WalletType, RentalType, BillingTypeOK
<1>3. CompTypeOK /\ OncePerJob /\ VerdictIsOwn /\ AnswerStands
  BY CompImplies DEF AllInv
<1>4. AdminTypeOK /\ OneSessionPerAdmin /\ NoStreamLeaks /\ ViewerSees
  BY AdminImplies DEF AllInv
<1>5. EsimTypeOK /\ LeftoverIsNotNew
  BY DEF AllInv, EsimInv, RowSound, LeftoverIsNotNew
<1>6. SlotTypeOK /\ EventsAlternate /\ ScreenTypeOK
  BY DEF AllInv, SlotInv
<1> QED
  BY <1>1, <1>2, <1>3, <1>4, <1>5, <1>6 DEF ServicesInv

\* Every invariant the run of the seven services checks holds in every reachable
\* state, for all values of their constants.
THEOREM ServicesCorrect ==
  ServicesSpec => [](/\ ServicesInv /\ NewestWins /\ LedgerBalances
                     /\ VerdictIsOwn /\ AnswerStands /\ NoStreamLeaks /\ LeftoverIsNotNew
                     /\ EventsAlternate)
<1>1. ServicesInit => AllInv
  BY GuardInitHolds, BillingInitHolds, CompInitHolds, AdminInitHolds, EsimInitHolds,
     SlotInitHolds, ScreenInitHolds DEF ServicesInit, AllInv
<1>2. AllInv /\ [ServicesNext]_services => AllInv'
  <2> SUFFICES ASSUME AllInv, [ServicesNext]_services PROVE AllInv'
    OBVIOUS
  <2>1. (GuardInv /\ LoopType)'
    BY StepOfEach, GuardNextKeeps DEF AllInv
  <2>2. BillingInv'
    BY StepOfEach, BillingNextKeeps DEF AllInv
  <2>3. CompInv'
    BY StepOfEach, CompNextKeeps DEF AllInv
  <2>4. AdminInv'
    BY StepOfEach, AdminNextKeeps DEF AllInv
  <2>5. EsimInv'
    BY StepOfEach, EsimNextKeeps DEF AllInv
  <2>6. SlotInv'
    BY StepOfEach, SlotNextKeeps DEF AllInv
  <2>7. ScreenTypeOK'
    BY StepOfEach, ScreenNextKeeps DEF AllInv
  <2> QED
    BY <2>1, <2>2, <2>3, <2>4, <2>5, <2>6, <2>7 DEF AllInv
<1> QED
  BY <1>1, <1>2, AllImply, PTL DEF ServicesSpec

=============================================================================
