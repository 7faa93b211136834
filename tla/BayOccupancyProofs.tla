-------------------------- MODULE BayOccupancyProofs --------------------------
(* Theorems about BayOccupancy, for any number of bays, rentals and threads. *)
EXTENDS BayOccupancy, TLAPS

\* The steps of reserve_slot and assign_slot, of an end once it has its bay, and
\* of the operator's calls
GrantSteps == {"other", "same", "hold", "disabled", "row", "occupied", "claim",
               "deduct", "undo", "ensure", "insert"}
LookupSteps == {"authorize", "find", "confirm"}
EndSteps == {"gads", "mark", "unclaim", "unowned", "refund", "release"}
OperatorSteps == {"verify", "required", "force", "drop", "clear", "enable",
                  "disable", "free"}

Key(r) == <<"activate", r>>
Paid(r) == Key(r) \in wallet.keys

\* What a thread has in hand at each step
Sound(me, keys) ==
    /\ me \in Tasks
    /\ me.pc \in GrantSteps \cup EndSteps \cup OperatorSteps => me.bay \in Bays
    /\ me.pc \in GrantSteps \cup LookupSteps \cup EndSteps => me.rental \in Rentals
    /\ me.pc \in GrantSteps => me.op \in Grants
    /\ me.op = "reserve" /\ me.pc \in {"ensure", "insert"} => Key(me.rental) \in keys

\* The types of all that is not a thread
Data ==
    /\ row \in [Bays -> Rows]
    /\ sold \subseteq Rentals
    /\ reserved \in [Bays -> Rentals \cup {Nobody}]
    /\ holds \subseteq Bays /\ disabled \subseteq Bays
    /\ wallet \in [left : [Users -> Nat], keys : SUBSET ({"activate", "terminate"} \X Rentals)]
    /\ todo \subseteq Rentals
    /\ last \in [Bays -> Rentals \cup {Nobody}]
    /\ via \in [Bays -> {"none"} \cup Grants]
    /\ failures \in 0..MaxFailures /\ crashes \in 0..MaxCrashes

\* Every thread is at a step with what the step needs
Working ==
    /\ thread \in [Threads -> Tasks]
    /\ \A t \in Threads : Sound(thread[t], wallet.keys)

\* The inductive invariant
IInv ==
    /\ Data
    /\ Working
    /\ RentedMeansCharged

--------------------------------------------------------------------------------
(* Threads *)

\* The program counters, by the operation they belong to
LEMMA PcsAre == Pcs = {"idle"} \cup GrantSteps \cup LookupSteps \cup EndSteps \cup OperatorSteps
  BY SMTT(60) DEF Pcs, Reads, Writes, GrantSteps, LookupSteps, EndSteps, OperatorSteps

\* An idle thread needs nothing.
LEMMA IdleSound ==
  ASSUME NEW keys
  PROVE  Sound(Idle, keys)
  BY SMTT(60) DEF Sound, Idle, Tasks, Pcs, GrantSteps, LookupSteps, EndSteps, OperatorSteps

\* A credit that was charged stays charged.
LEMMA SoundStays ==
  ASSUME NEW me, NEW keys, NEW more, keys \subseteq more, Sound(me, keys)
  PROVE  Sound(me, more)
  BY DEF Sound

\* One thread moves to a task it is equipped for.
LEMMA Moves ==
  ASSUME Working, NEW t \in Threads, NEW task,
         thread' = [thread EXCEPT ![t] = task],
         Sound(task, wallet'.keys), wallet.keys \subseteq wallet'.keys
  PROVE  Working'
<1>1. task \in Tasks
  BY DEF Sound
<1>2. thread' \in [Threads -> Tasks]
  BY <1>1 DEF Working
<1>3. ASSUME NEW x \in Threads PROVE Sound(thread'[x], wallet'.keys)
  <2>1. CASE x = t
    BY <2>1 DEF Working
  <2>2. CASE x # t
    <3>1. thread'[x] = thread[x]
      BY <2>2 DEF Working
    <3> QED
      BY <3>1, SoundStays DEF Working
  <2> QED
    BY <2>1, <2>2
<1> QED
  BY <1>2, <1>3 DEF Working

\* Nothing of the threads moves.
LEMMA Stays ==
  ASSUME Working, thread' = thread, wallet.keys \subseteq wallet'.keys
  PROVE  Working'
<1>1. \A x \in Threads : Sound(thread'[x], wallet'.keys)
  BY SoundStays DEF Working
<1> QED
  BY <1>1 DEF Working

\* A thread ends its operation.
LEMMA Stops ==
  ASSUME Working, NEW t \in Threads, Stop(t), wallet.keys \subseteq wallet'.keys
  PROVE  Working'
<1>1. thread' = [thread EXCEPT ![t] = Idle]
  BY DEF Stop
<1> QED
  BY <1>1, IdleSound, Moves

\* A thread goes on to a step it is equipped for.
LEMMA GoesOn ==
  ASSUME Working, NEW t \in Threads, NEW pc \in Pcs, Goto(t, pc),
         pc \in GrantSteps \cup EndSteps \cup OperatorSteps => thread[t].bay \in Bays,
         pc \in GrantSteps \cup LookupSteps \cup EndSteps => thread[t].rental \in Rentals,
         pc \in GrantSteps => thread[t].op \in Grants,
         thread[t].op = "reserve" /\ pc \in {"ensure", "insert"}
             => Key(thread[t].rental) \in wallet'.keys,
         wallet.keys \subseteq wallet'.keys
  PROVE  Working'
<1> DEFINE task == [thread[t] EXCEPT !.pc = pc]
<1>1. thread' = [thread EXCEPT ![t] = task]
  BY DEF Goto
<1>2. thread[t] \in Tasks
  BY DEF Working
<1>3. /\ task \in Tasks /\ task.pc = pc /\ task.op = thread[t].op
      /\ task.rental = thread[t].rental /\ task.bay = thread[t].bay
  BY <1>2 DEF Tasks
<1>4. Sound(task, wallet'.keys)
  BY <1>3 DEF Sound
<1> QED
  BY <1>1, <1>4, Moves

\* Every step named below is a program counter.
LEMMA StepsArePcs ==
  /\ GrantSteps \subseteq Pcs /\ LookupSteps \subseteq Pcs
  /\ EndSteps \subseteq Pcs /\ OperatorSteps \subseteq Pcs
  BY PcsAre

\* From one step of a grant to the next, or to the end of it
LEMMA WithinGrant ==
  ASSUME Working, NEW t \in Threads, NEW pc \in GrantSteps,
         thread[t].pc \in GrantSteps, Goto(t, pc) \/ Stop(t),
         thread[t].op = "reserve" /\ pc \in {"ensure", "insert"}
             => Key(thread[t].rental) \in wallet'.keys,
         wallet.keys \subseteq wallet'.keys
  PROVE  Working'
<1>1. /\ thread[t].bay \in Bays /\ thread[t].rental \in Rentals
      /\ thread[t].op \in Grants
  BY DEF Working, Sound
<1>2. CASE Goto(t, pc)
  BY <1>1, <1>2, GoesOn, StepsArePcs
<1>3. CASE Stop(t)
  BY <1>3, Stops
<1> QED
  BY <1>2, <1>3

\* The same for an end that has found its bay
LEMMA WithinEnd ==
  ASSUME Working, NEW t \in Threads, NEW pc \in EndSteps,
         thread[t].pc \in EndSteps, Goto(t, pc) \/ Stop(t),
         wallet.keys \subseteq wallet'.keys
  PROVE  Working'
<1>1. thread[t].bay \in Bays /\ thread[t].rental \in Rentals
  BY DEF Working, Sound
<1>2. pc \notin GrantSteps
  BY DEF EndSteps, GrantSteps
<1>3. pc \notin {"ensure", "insert"}
  BY DEF EndSteps
<1>4. CASE Goto(t, pc)
  BY <1>1, <1>2, <1>3, <1>4, GoesOn, StepsArePcs
<1>5. CASE Stop(t)
  BY <1>5, Stops
<1> QED
  BY <1>4, <1>5

\* The same for an operator's call
LEMMA WithinOperator ==
  ASSUME Working, NEW t \in Threads, NEW pc \in OperatorSteps,
         thread[t].pc \in OperatorSteps, Goto(t, pc) \/ Stop(t),
         wallet.keys \subseteq wallet'.keys
  PROVE  Working'
<1>1. thread[t].bay \in Bays
  BY DEF Working, Sound
<1>2. pc \notin GrantSteps \cup LookupSteps \cup EndSteps \cup {"ensure", "insert"}
  BY SMTT(60) DEF EndSteps, GrantSteps, LookupSteps, OperatorSteps
<1>4. CASE Goto(t, pc)
  BY <1>1, <1>2, <1>4, GoesOn, StepsArePcs
<1>5. CASE Stop(t)
  BY <1>5, Stops
<1> QED
  BY <1>4, <1>5

--------------------------------------------------------------------------------
(* Tenant rows and credits *)

\* Writing the user and the rental of a row leaves it a row; V is BOOLEAN below.
LEMMA RowWritten ==
  ASSUME NEW V, NEW R, NEW U, NEW u \in U, NEW r \in R,
         NEW x \in [id : R, user : U, rental : R, over : V]
  PROVE  [x EXCEPT !.user = u, !.rental = r] \in [id : R, user : U, rental : R, over : V]
  OBVIOUS

\* Claiming a row keeps the type of the tenant table.
LEMMA ClaimedType ==
  ASSUME Data, NEW b \in Bays, NEW u \in Users \cup {NoUser}, NEW r \in Rentals \cup {Nobody}
  PROVE  Claimed(b, u, r) \in [Bays -> Rows]
<1> DEFINE new == [row[b] EXCEPT !.user = u, !.rental = r]
<1>1. row \in [Bays -> Rows] /\ row[b] \in Rows
  BY DEF Data
<1>2. new \in Rows
  BY <1>1, RowWritten DEF Rows
<1>3. Claimed(b, u, r) = [row EXCEPT ![b] = new]
  BY DEF Claimed
<1> HIDE DEF new
<1> QED
  BY <1>1, <1>2, <1>3

\* So does unclaiming one.
LEMMA UnclaimedType ==
  ASSUME Data, NEW b \in Bays
  PROVE  Unclaimed(b) \in [Bays -> Rows]
  BY ClaimedType DEF Unclaimed

Wallets == [left : [Users -> Nat], keys : SUBSET ({"activate", "terminate"} \X Rentals)]

\* A deduction that may be made leaves no customer below zero.
LEMMA ChargeType ==
  ASSUME wallet \in Wallets, NEW u, NEW r \in Rentals, CanCharge(u, r)
  PROVE  /\ Charge(u, r) \in Wallets
         /\ wallet.keys \subseteq Charge(u, r).keys
         /\ Key(r) \in Charge(u, r).keys
<1>1. CASE Key(r) \in wallet.keys
  BY <1>1 DEF Charge, Key
<1>2. CASE Key(r) \notin wallet.keys
  <2>1. wallet.left[u] >= 1
    BY <1>2 DEF CanCharge, Key
  <2>2. [wallet.left EXCEPT ![u] = @ - 1] \in [Users -> Nat]
    <3>1. wallet.left \in [Users -> Nat]
      BY DEF Wallets
    <3>2. u \in Users => wallet.left[u] - 1 \in Nat
      BY <2>1, <3>1
    <3> QED
      BY <3>1, <3>2
  <2>3. Charge(u, r) = [left |-> [wallet.left EXCEPT ![u] = @ - 1],
                        keys |-> wallet.keys \cup {Key(r)}]
    BY <1>2 DEF Charge, Key
  <2>4. wallet.keys \cup {Key(r)} \in SUBSET ({"activate", "terminate"} \X Rentals)
    BY DEF Wallets, Key
  <2> QED
    BY <2>2, <2>3, <2>4 DEF Wallets
<1> QED
  BY <1>1, <1>2

\* A refund keeps the types of balances and keys.
LEMMA RefundType ==
  ASSUME wallet \in Wallets, NEW u, NEW r \in Rentals
  PROVE  Refund(u, r) \in Wallets /\ wallet.keys \subseteq Refund(u, r).keys
<1>1. CASE <<"terminate", r>> \in wallet.keys
  BY <1>1 DEF Refund
<1>2. CASE <<"terminate", r>> \notin wallet.keys
  <2>2. [wallet.left EXCEPT ![u] = @ + 1] \in [Users -> Nat]
    <3>1. wallet.left \in [Users -> Nat]
      BY DEF Wallets
    <3>2. u \in Users => wallet.left[u] + 1 \in Nat
      BY <3>1
    <3> QED
      BY <3>1, <3>2
  <2>3. Refund(u, r) = [left |-> [wallet.left EXCEPT ![u] = @ + 1],
                        keys |-> wallet.keys \cup {<<"terminate", r>>}]
    BY <1>2 DEF Refund
  <2>4. wallet.keys \cup {<<"terminate", r>>} \in SUBSET ({"activate", "terminate"} \X Rentals)
    BY DEF Wallets
  <2> QED
    BY <2>2, <2>3, <2>4 DEF Wallets
<1> QED
  BY <1>1, <1>2

--------------------------------------------------------------------------------
(* Steps *)

\* A step that moves a thread and nothing else
LEMMA OnlyThreadKeeps ==
  ASSUME IInv, OnlyThread, Working'
  PROVE  IInv'
  BY DEF IInv, Data, OnlyThread, tenant, stores, history, bounds, RentedMeansCharged

\* A step that reserves nothing
LEMMA NothingReserved ==
  ASSUME IInv, Data', Working', wallet.keys \subseteq wallet'.keys,
         \A b \in Bays : reserved'[b] \in {reserved[b], Nobody}, via' = via
  PROVE  IInv'
  BY DEF IInv, RentedMeansCharged

\* A failed call uses up one of the failures.
LEMMA FailureCounted ==
  ASSUME Data, Fails
  PROVE  failures' \in 0..MaxFailures
  BY BayAssumption DEF Data, Fails

\* The requests, the shop and the sweep's list
LEMMA StartsKeep ==
  ASSUME IInv,
         \/ \E b \in Bays, r \in Rentals : Rent(b, r)
         \/ \E b \in Bays : Expire(b)
         \/ \E h \in Handlers : StartGrant(h) \/ StartEnding(h) \/ StartOperator(h)
         \/ SweepStart
         \/ \E r \in Rentals : SweepNext(r)
         \/ Restart
  PROVE  IInv'
<1> USE DEF IInv
<1>1. ASSUME NEW b \in Bays, NEW r \in Rentals, Rent(b, r) PROVE IInv'
  <2> DEFINE new == [id |-> r, user |-> Buyer[r], rental |-> r, over |-> FALSE]
  <2>1. Buyer[r] \in Users
    BY BayAssumption
  <2>2. new \in Rows
    BY <2>1 DEF Rows
  <2>3. row' \in [Bays -> Rows]
    BY <1>1, <2>2 DEF Rent, Data
  <2>4. Data'
    BY <1>1, <2>3 DEF Rent, Data, stores, history, bounds
  <2>5. Working'
    BY <1>1, Stays DEF Rent
  <2> QED
    BY <1>1, <2>4, <2>5, NothingReserved DEF Rent, stores, history
<1>2. ASSUME NEW b \in Bays, Expire(b) PROVE IInv'
  <2> DEFINE new == [row[b] EXCEPT !.over = TRUE]
  <2>1. row \in [Bays -> Rows] /\ row[b] \in Rows
    BY DEF Data
  <2>2. new \in Rows
    BY <2>1, Zenon DEF Rows
  <2>3. row' = [row EXCEPT ![b] = new]
    BY <1>2 DEF Expire
  <2> HIDE DEF new
  <2>4. Data'
    BY <1>2, <2>1, <2>2, <2>3 DEF Expire, Data, stores, history, bounds
  <2>5. Working'
    BY <1>2, Stays DEF Expire
  <2> QED
    BY <1>2, <2>4, <2>5, NothingReserved DEF Expire, stores, history
<1>3. ASSUME NEW h \in Handlers, StartGrant(h) PROVE IInv'
  <2>1. PICK op \in Ops \cap Grants, r \in sold, b \in Bays :
           thread' = [thread EXCEPT ![h] = Task("other", op, r, b)]
    BY <1>3 DEF StartGrant
  <2>2. Sound(Task("other", op, r, b), wallet'.keys)
    <3>1. "other" \in Pcs /\ "other" \in GrantSteps
      BY StepsArePcs DEF GrantSteps
    <3> QED
      BY <3>1 DEF Data, Sound, Task, Idle, Tasks
  <2>3. Working'
    BY <1>3, <2>1, <2>2, Moves DEF StartGrant, OnlyThread, Threads
  <2> QED
    BY <1>3, <2>3, OnlyThreadKeeps DEF StartGrant
<1>4. ASSUME NEW h \in Handlers, StartEnding(h) PROVE IInv'
  <2>1. PICK op \in Ops \cap Endings, r \in sold :
           thread' = [thread EXCEPT ![h] =
               Task(IF op = "cancel" THEN "authorize" ELSE "find", op, r, NoBay)]
    BY <1>4 DEF StartEnding
  <2> DEFINE pc == IF op = "cancel" THEN "authorize" ELSE "find"
  <2>2. pc \in LookupSteps
    BY DEF LookupSteps
  <2>3. pc \in Pcs /\ pc \notin GrantSteps \cup EndSteps \cup OperatorSteps \cup {"ensure", "insert"}
    BY <2>2, StepsArePcs DEF LookupSteps, GrantSteps, EndSteps, OperatorSteps
  <2> HIDE DEF pc
  <2>4. Sound(Task(pc, op, r, NoBay), wallet'.keys)
    BY <2>3 DEF Data, Sound, Task, Idle, Tasks
  <2>5. Working'
    BY <1>4, <2>1, <2>4, Moves DEF StartEnding, OnlyThread, Threads, pc
  <2> QED
    BY <1>4, <2>5, OnlyThreadKeeps DEF StartEnding
<1>5. ASSUME NEW h \in Handlers, StartOperator(h) PROVE IInv'
  <2>1. PICK op \in Ops \cap Operator, b \in Bays :
           thread' = [thread EXCEPT ![h] = Task(op, op, Nobody, b)]
    BY <1>5 DEF StartOperator
  <2>2. op \in OperatorSteps
    BY DEF Operator, OperatorSteps
  <2>3. op \in Pcs /\ op \notin GrantSteps \cup LookupSteps \cup EndSteps \cup {"ensure", "insert"}
    BY <2>2, StepsArePcs DEF LookupSteps, GrantSteps, EndSteps, OperatorSteps
  <2>4. Sound(Task(op, op, Nobody, b), wallet'.keys)
    BY <2>3 DEF Data, Sound, Task, Idle, Tasks
  <2>5. Working'
    BY <1>5, <2>1, <2>4, Moves DEF StartOperator, OnlyThread, Threads
  <2> QED
    BY <1>5, <2>5, OnlyThreadKeeps DEF StartOperator
<1>6. ASSUME SweepStart PROVE IInv'
  <2>1. todo' \subseteq Rentals
    BY <1>6 DEF SweepStart, Data
  <2>2. Data'
    BY <1>6, <2>1 DEF SweepStart, Data, tenant, stores, history, bounds
  <2>3. Working'
    BY <1>6, Stays DEF SweepStart
  <2> QED
    BY <1>6, <2>2, <2>3, NothingReserved DEF SweepStart, stores, history
<1>7. ASSUME NEW r \in Rentals, SweepNext(r) PROVE IInv'
  <2>1. Sound(Task("find", "sweep", r, NoBay), wallet'.keys)
    <3>1. /\ "find" \in Pcs
          /\ "find" \notin GrantSteps \cup EndSteps \cup OperatorSteps \cup {"ensure", "insert"}
      BY StepsArePcs DEF LookupSteps, GrantSteps, EndSteps, OperatorSteps
    <3> QED
      BY <3>1 DEF Sound, Task, Idle, Tasks
  <2>2. Working'
    BY <1>7, <2>1, Moves DEF SweepNext, Threads
  <2>3. Data'
    BY <1>7 DEF SweepNext, Data, tenant, stores, history, bounds
  <2> QED
    BY <1>7, <2>2, <2>3, NothingReserved DEF SweepNext, stores, history
<1>8. ASSUME Restart PROVE IInv'
  <2>1. Idle \in Tasks
    BY IdleSound DEF Sound
  <2>2. Working'
    BY <1>8, <2>1, IdleSound DEF Restart, Working
  <2>3. crashes' \in 0..MaxCrashes
    BY <1>8, BayAssumption DEF Restart, Data
  <2>4. Data'
    BY <1>8, <2>3 DEF Restart, Data, tenant, stores, history
  <2> QED
    BY <1>8, <2>2, <2>4, NothingReserved DEF Restart, stores, history
<1> QED
  BY <1>1, <1>2, <1>3, <1>4, <1>5, <1>6, <1>7, <1>8

\* reserve_slot and assign_slot
LEMMA GrantKeeps ==
  ASSUME IInv, NEW t \in Threads, Grant(t)
  PROVE  IInv'
<1> USE DEF IInv
<1> DEFINE me == thread[t]
<1>0. Sound(me, wallet.keys)
  BY DEF Working
<1>1. ASSUME CheckOther(t) PROVE IInv'
  <2>1. me.pc \in GrantSteps /\ "same" \in GrantSteps /\ "hold" \in GrantSteps
    BY <1>1 DEF CheckOther, GrantSteps
  <2>2. Goto(t, "same") \/ Goto(t, "hold") \/ Stop(t)
    BY <1>1 DEF CheckOther, GotoIf
  <2>3. Working'
    BY <1>1, <2>1, <2>2, WithinGrant DEF CheckOther, OnlyThread
  <2> QED
    BY <1>1, <2>3, OnlyThreadKeeps DEF CheckOther
<1>2. ASSUME CheckSame(t) PROVE IInv'
  <2>1. me.pc \in GrantSteps /\ "hold" \in GrantSteps
    BY <1>2 DEF CheckSame, GrantSteps
  <2>2. Goto(t, "hold") \/ Stop(t)
    BY <1>2 DEF CheckSame, GotoIf
  <2>3. Working'
    BY <1>2, <2>1, <2>2, WithinGrant DEF CheckSame, OnlyThread
  <2> QED
    BY <1>2, <2>3, OnlyThreadKeeps DEF CheckSame
<1>3. ASSUME CheckHold(t) PROVE IInv'
  <2>1. me.pc \in GrantSteps /\ "disabled" \in GrantSteps
    BY <1>3 DEF CheckHold, GrantSteps
  <2>2. Goto(t, "disabled") \/ Stop(t)
    BY <1>3 DEF CheckHold, GotoIf
  <2>3. Working'
    BY <1>3, <2>1, <2>2, WithinGrant DEF CheckHold, OnlyThread
  <2> QED
    BY <1>3, <2>3, OnlyThreadKeeps DEF CheckHold
<1>4. ASSUME CheckDisabled(t) PROVE IInv'
  <2>1. me.pc \in GrantSteps /\ "row" \in GrantSteps
    BY <1>4 DEF CheckDisabled, GrantSteps
  <2>2. Goto(t, "row") \/ Stop(t)
    BY <1>4 DEF CheckDisabled, GotoIf
  <2>3. Working'
    BY <1>4, <2>1, <2>2, WithinGrant DEF CheckDisabled, OnlyThread
  <2> QED
    BY <1>4, <2>3, OnlyThreadKeeps DEF CheckDisabled
<1>5. ASSUME ResolveOwner(t) PROVE IInv'
  <2>1. me.pc \in GrantSteps /\ "occupied" \in GrantSteps /\ "occupied" \in Pcs
    BY <1>5, StepsArePcs DEF ResolveOwner, GrantSteps
  <2> DEFINE next == [me EXCEPT !.pc = "occupied", !.owner = row[me.bay].user]
  <2>2. row[me.bay].user \in Users \cup {NoUser}
    BY <1>0, <2>1 DEF Sound, Data, Rows
  <2>3. Sound(next, wallet'.keys)
    BY <1>0, <2>1, <2>2 DEF Sound, Tasks
  <2>4. thread' = [thread EXCEPT ![t] = next] \/ Stop(t)
    BY <1>5 DEF ResolveOwner
  <2> HIDE DEF next
  <2>5. Working'
    BY <1>5, <2>3, <2>4, Moves, Stops DEF ResolveOwner, OnlyThread
  <2> QED
    BY <1>5, <2>5, OnlyThreadKeeps DEF ResolveOwner
<1>6. ASSUME RejectOccupied(t) PROVE IInv'
  <2>1. me.pc \in GrantSteps /\ "claim" \in GrantSteps
    BY <1>6 DEF RejectOccupied, GrantSteps
  <2>2. Goto(t, "claim") \/ Stop(t)
    BY <1>6 DEF RejectOccupied, GotoIf
  <2>3. Working'
    BY <1>6, <2>1, <2>2, WithinGrant DEF RejectOccupied, OnlyThread
  <2> QED
    BY <1>6, <2>3, OnlyThreadKeeps DEF RejectOccupied
<1>7. ASSUME ClaimTenant(t) PROVE IInv'
  <2>1. me.pc \in GrantSteps /\ "deduct" \in GrantSteps /\ "ensure" \in GrantSteps
    BY <1>7 DEF ClaimTenant, GrantSteps
  <2>2. \/ Goto(t, "deduct")
        \/ Goto(t, "ensure") /\ me.op # "reserve"
        \/ Stop(t)
    BY <1>7 DEF ClaimTenant
  <2>3. Working'
    BY <1>7, <2>1, <2>2, WithinGrant DEF ClaimTenant
  <2>4. /\ me.bay \in Bays /\ me.owner \in Users \cup {NoUser}
        /\ me.rental \in Rentals \cup {Nobody}
    BY <1>0, <2>1 DEF Sound, Tasks
  <2>5. row' \in [Bays -> Rows]
    <3>1. Claimed(me.bay, me.owner, me.rental) \in [Bays -> Rows] /\ row \in [Bays -> Rows]
      BY <2>4, ClaimedType DEF Data
    <3> QED
      BY <1>7, <3>1 DEF ClaimTenant
  <2>6. Data'
    BY <1>7, <2>5 DEF ClaimTenant, Data, stores, history, bounds
  <2> QED
    BY <1>7, <2>3, <2>6, NothingReserved DEF ClaimTenant, stores, history
<1>8. ASSUME Deduct(t) PROVE IInv'
  <2>1. me.pc \in GrantSteps /\ "undo" \in GrantSteps /\ "ensure" \in GrantSteps
    BY <1>8 DEF Deduct, GrantSteps
  <2>2. me.rental \in Rentals /\ wallet \in Wallets
    BY <1>0, <2>1 DEF Sound, Data, Wallets
  <2>3. CASE CanCharge(me.owner, me.rental)
    <3>1. /\ wallet' \in Wallets /\ wallet.keys \subseteq wallet'.keys
          /\ Key(me.rental) \in wallet'.keys /\ Goto(t, "ensure")
      BY <1>8, <2>2, <2>3, ChargeType DEF Deduct
    <3>2. Working'
      BY <2>1, <3>1, WithinGrant
    <3>3. Data'
      BY <1>8, <3>1 DEF Deduct, Data, Wallets, tenant, stores, history, bounds
    <3> QED
      BY <1>8, <3>1, <3>2, <3>3, NothingReserved DEF Deduct, stores, history
  <2>4. CASE ~CanCharge(me.owner, me.rental)
    <3>1. wallet' = wallet /\ Goto(t, "undo")
      BY <1>8, <2>4 DEF Deduct
    <3>2. Working'
      BY <2>1, <3>1, WithinGrant
    <3>3. Data'
      BY <1>8, <3>1 DEF Deduct, Data, tenant, stores, history, bounds
    <3> QED
      BY <1>8, <3>1, <3>2, <3>3, NothingReserved DEF Deduct, stores, history
  <2> QED
    BY <2>3, <2>4
<1>9. ASSUME UndoClaim(t) PROVE IInv'
  <2>1. me.bay \in Bays
    BY <1>0, <1>9 DEF UndoClaim, Sound, GrantSteps
  <2>2. row' \in [Bays -> Rows]
    BY <1>9, <2>1, UnclaimedType DEF UndoClaim, Data
  <2>3. Data'
    BY <1>9, <2>2 DEF UndoClaim, Data, stores, history, bounds
  <2>4. Working'
    BY <1>9, Stops DEF UndoClaim
  <2> QED
    BY <1>9, <2>3, <2>4, NothingReserved DEF UndoClaim, stores, history
<1>10. ASSUME FindReservation(t) PROVE IInv'
  <2>1. me.pc \in GrantSteps /\ "insert" \in GrantSteps
    BY <1>10 DEF FindReservation, GrantSteps
  <2>2. Goto(t, "insert") \/ Stop(t)
    BY <1>10 DEF FindReservation, GotoIf
  <2>3. me.op = "reserve" => Key(me.rental) \in wallet'.keys
    BY <1>0, <1>10 DEF FindReservation, Sound, OnlyThread
  <2>4. Working'
    BY <1>10, <2>1, <2>2, <2>3, WithinGrant DEF FindReservation, OnlyThread
  <2> QED
    BY <1>10, <2>4, OnlyThreadKeeps DEF FindReservation
<1>11. ASSUME InsertReservation(t) PROVE IInv'
  <2>1. me.bay \in Bays /\ me.rental \in Rentals /\ me.op \in Ops \cap Grants
    BY <1>0, <1>11 DEF InsertReservation, Sound, GrantSteps, Grants, Tasks
  <2>2. Working'
    BY <1>11, Stops DEF InsertReservation
  <2>3. Data'
    BY <1>11, <2>1 DEF InsertReservation, Data, tenant, bounds
  <2>4. ASSUME NEW b \in Bays, reserved'[b] # Nobody, via'[b] = "reserve"
        PROVE  Key(reserved'[b]) \in wallet'.keys
    <3>1. wallet' = wallet
      BY <1>11 DEF InsertReservation
    <3>2. CASE reserved' = reserved /\ via' = via
      BY <2>4, <3>1, <3>2 DEF RentedMeansCharged, Key
    <3>3. CASE /\ reserved' = [reserved EXCEPT ![me.bay] = me.rental]
               /\ via' = [via EXCEPT ![me.bay] = me.op]
      <4>1. CASE b = me.bay
        <5>1. me.op = "reserve" /\ reserved'[b] = me.rental
          BY <2>1, <2>4, <3>3, <4>1 DEF Data
        <5> QED
          BY <1>0, <1>11, <3>1, <5>1 DEF InsertReservation, Sound
      <4>2. CASE b # me.bay
        BY <2>4, <3>1, <3>3, <4>2 DEF Data, RentedMeansCharged, Key
      <4> QED
        BY <4>1, <4>2
    <3> QED
      BY <1>11, <3>2, <3>3 DEF InsertReservation
  <2>5. RentedMeansCharged'
    BY <2>4 DEF RentedMeansCharged, Key
  <2> QED
    BY <2>2, <2>3, <2>5
<1> QED
  BY <1>1, <1>2, <1>3, <1>4, <1>5, <1>6, <1>7, <1>8, <1>9, <1>10, <1>11 DEF Grant

\* end_rental with its callers
LEMMA EndKeeps ==
  ASSUME IInv, NEW t \in Threads, EndRental(t)
  PROVE  IInv'
<1> USE DEF IInv
<1> DEFINE me == thread[t]
<1>0. Sound(me, wallet.keys)
  BY DEF Working
<1>1. ASSUME Authorize(t) PROVE IInv'
  <2>1. me.rental \in Rentals /\ me.pc \in LookupSteps
    BY <1>0, <1>1 DEF Authorize, Sound, LookupSteps
  <2>2. Goto(t, "find") \/ Stop(t)
    BY <1>1 DEF Authorize, GotoIf
  <2>3. /\ "find" \in Pcs
        /\ "find" \notin GrantSteps \cup EndSteps \cup OperatorSteps \cup {"ensure", "insert"}
    BY StepsArePcs DEF LookupSteps, GrantSteps, EndSteps, OperatorSteps
  <2>4. Working'
    <3>1. CASE Goto(t, "find")
      BY <1>1, <2>1, <2>3, <3>1, GoesOn DEF Authorize, OnlyThread
    <3>2. CASE Stop(t)
      BY <1>1, <3>2, Stops DEF Authorize, OnlyThread
    <3> QED
      BY <2>2, <3>1, <3>2
  <2> QED
    BY <1>1, <2>4, OnlyThreadKeeps DEF Authorize
<1>2. ASSUME FindHeld(t) PROVE IInv'
  <2>1. me.rental \in Rentals /\ me \in Tasks
    BY <1>0, <1>2 DEF FindHeld, Sound, LookupSteps
  <2>2. /\ "confirm" \in Pcs
        /\ "confirm" \notin GrantSteps \cup EndSteps \cup OperatorSteps \cup {"ensure", "insert"}
    BY StepsArePcs DEF LookupSteps, GrantSteps, EndSteps, OperatorSteps
  <2>3. CASE Goto(t, "confirm")
    <3>1. Working'
      BY <1>2, <2>1, <2>2, <2>3, GoesOn DEF FindHeld, OnlyThread
    <3> QED
      BY <1>2, <3>1, OnlyThreadKeeps DEF FindHeld
  <2>4. ASSUME NEW b \in Bays,
               thread' = [thread EXCEPT ![t].pc = "confirm", ![t].bay = b]
        PROVE  IInv'
    <3> DEFINE next == [me EXCEPT !.pc = "confirm", !.bay = b]
    <3>1. Sound(next, wallet'.keys)
      BY <2>1, <2>2 DEF Sound, Tasks
    <3>2. thread' = [thread EXCEPT ![t] = next]
      BY <2>4 DEF Working
    <3> HIDE DEF next
    <3>3. Working'
      BY <1>2, <3>1, <3>2, Moves DEF FindHeld, OnlyThread
    <3> QED
      BY <1>2, <3>3, OnlyThreadKeeps DEF FindHeld
  <2> QED
    BY <1>2, <2>3, <2>4 DEF FindHeld
<1>3. ASSUME ConfirmEnd(t) PROVE IInv'
  <2>1. me.rental \in Rentals /\ me \in Tasks
    BY <1>0, <1>3 DEF ConfirmEnd, Sound, LookupSteps
  <2>2. /\ "gads" \in Pcs /\ "gads" \in EndSteps
        /\ "gads" \notin GrantSteps \cup {"ensure", "insert"}
    BY StepsArePcs DEF GrantSteps, EndSteps
  <2> DEFINE rows == RowsOf(me.rental)
             owner == IF rows = {} THEN NoUser ELSE row[CHOOSE x \in rows : TRUE].user
  <2>3. owner \in Users \cup {NoUser}
    <3>1. rows # {} => (CHOOSE x \in rows : TRUE) \in Bays
      BY DEF RowsOf
    <3>2. \A b \in Bays : row[b].user \in Users \cup {NoUser}
      BY DEF Data, Rows
    <3> HIDE DEF rows
    <3> QED
      BY <3>1, <3>2
  <2>4. ASSUME Stop(t) PROVE IInv'
    BY <1>3, <2>4, Stops, OnlyThreadKeeps DEF ConfirmEnd, OnlyThread
  <2>5. ASSUME NEW b \in Bays,
               thread' = [thread EXCEPT ![t].pc = "gads", ![t].bay = b, ![t].owner = owner]
        PROVE  IInv'
    <3> HIDE DEF owner
    <3> DEFINE next == [me EXCEPT !.pc = "gads", !.bay = b, !.owner = owner]
    <3>1. Sound(next, wallet'.keys)
      BY <2>1, <2>2, <2>3 DEF Sound, Tasks
    <3>2. thread' = [thread EXCEPT ![t] = next]
      BY <2>5 DEF Working
    <3> HIDE DEF next
    <3>3. Working'
      BY <1>3, <3>1, <3>2, Moves DEF ConfirmEnd, OnlyThread
    <3> QED
      BY <1>3, <3>3, OnlyThreadKeeps DEF ConfirmEnd
  <2>6. me.bay # NoBay => me.bay \in Bays
    BY <2>1 DEF Tasks
  <2>7. rows \subseteq Bays
    BY DEF RowsOf
  <2> QED
    BY <1>3, <2>4, <2>5, <2>6, <2>7 DEF ConfirmEnd
<1>4. ASSUME ReleaseGads(t) PROVE IInv'
  <2>1. me.pc \in EndSteps /\ "mark" \in EndSteps /\ Goto(t, "mark")
    BY <1>4 DEF ReleaseGads, EndSteps
  <2>2. Working'
    BY <1>4, <2>1, WithinEnd DEF ReleaseGads, OnlyThread
  <2> QED
    BY <1>4, <2>2, OnlyThreadKeeps DEF ReleaseGads
<1>5. ASSUME MarkRequired(t) PROVE IInv'
  <2>1. me.pc \in EndSteps /\ "unclaim" \in EndSteps /\ Goto(t, "unclaim")
    BY <1>5 DEF MarkRequired, EndSteps
  <2>2. Working'
    BY <1>5, <2>1, WithinEnd DEF MarkRequired
  <2>3. me.bay \in Bays
    BY <1>0, <2>1 DEF Sound
  <2>4. Data'
    BY <1>5, <2>3 DEF MarkRequired, Data, tenant, history, bounds
  <2> QED
    BY <1>5, <2>2, <2>4, NothingReserved DEF MarkRequired, history
<1>6. ASSUME UnclaimTenant(t) PROVE IInv'
  <2>1. me.pc \in EndSteps /\ "unowned" \in EndSteps
    BY <1>6 DEF UnclaimTenant, EndSteps
  <2>2. Goto(t, "unowned") \/ Stop(t)
    BY <1>6 DEF UnclaimTenant
  <2>3. Working'
    BY <1>6, <2>1, <2>2, WithinEnd DEF UnclaimTenant
  <2>4. Unclaimed(me.bay) \in [Bays -> Rows] /\ row \in [Bays -> Rows]
    BY <1>0, <2>1, UnclaimedType DEF Sound, Data
  <2>5. row' \in [Bays -> Rows]
    BY <1>6, <2>4 DEF UnclaimTenant
  <2>6. Data'
    BY <1>6, <2>5 DEF UnclaimTenant, Data, stores, history, bounds
  <2> QED
    BY <1>6, <2>3, <2>6, NothingReserved DEF UnclaimTenant, stores, history
<1>7. ASSUME CheckUnowned(t) PROVE IInv'
  <2>1. me.pc \in EndSteps /\ "release" \in EndSteps /\ "refund" \in EndSteps
    BY <1>7 DEF CheckUnowned, EndSteps
  <2>2. Goto(t, "release") \/ Goto(t, "refund") \/ Stop(t)
    BY <1>7 DEF CheckUnowned, GotoIf
  <2>3. Working'
    BY <1>7, <2>1, <2>2, WithinEnd DEF CheckUnowned, OnlyThread
  <2> QED
    BY <1>7, <2>3, OnlyThreadKeeps DEF CheckUnowned
<1>8. ASSUME RefundCredit(t) PROVE IInv'
  <2>1. me.pc \in EndSteps /\ "release" \in EndSteps /\ Goto(t, "release")
    BY <1>8 DEF RefundCredit, EndSteps
  <2>2. me.rental \in Rentals /\ wallet \in Wallets
    BY <1>0, <2>1 DEF Sound, Data, Wallets
  <2>3. wallet' \in Wallets /\ wallet.keys \subseteq wallet'.keys
    BY <1>8, <2>2, RefundType DEF RefundCredit
  <2>4. Working'
    BY <2>1, <2>3, WithinEnd
  <2>5. Data'
    BY <1>8, <2>3 DEF RefundCredit, Data, Wallets, tenant, stores, history, bounds
  <2> QED
    BY <1>8, <2>3, <2>4, <2>5, NothingReserved DEF RefundCredit, stores, history
<1>9. ASSUME ReleaseReservation(t) PROVE IInv'
  <2>1. Working'
    BY <1>9, Stops DEF ReleaseReservation
  <2>2. \A b \in Bays : reserved'[b] \in {reserved[b], Nobody}
    BY <1>9 DEF ReleaseReservation, Data
  <2>3. Data'
    BY <1>9 DEF ReleaseReservation, Data, tenant, history, bounds
  <2> QED
    BY <1>9, <2>1, <2>2, <2>3, NothingReserved DEF ReleaseReservation, history
<1> QED
  BY <1>1, <1>2, <1>3, <1>4, <1>5, <1>6, <1>7, <1>8, <1>9 DEF EndRental

\* verify_cleanup, force_available, disable_rental and enable_rental
LEMMA OperateKeeps ==
  ASSUME IInv, NEW t \in Threads, Operate(t)
  PROVE  IInv'
<1> USE DEF IInv
<1> DEFINE me == thread[t]
<1>0. Sound(me, wallet.keys)
  BY DEF Working
<1>1. ASSUME ReadOccupied(t) PROVE IInv'
  <2>1. me.pc \in OperatorSteps /\ "required" \in OperatorSteps
    BY <1>1 DEF ReadOccupied, OperatorSteps
  <2>2. Goto(t, "required") \/ Stop(t)
    BY <1>1 DEF ReadOccupied, GotoIf
  <2>3. Working'
    BY <1>1, <2>1, <2>2, WithinOperator DEF ReadOccupied, OnlyThread
  <2> QED
    BY <1>1, <2>3, OnlyThreadKeeps DEF ReadOccupied
<1>2. ASSUME ReadRequired(t) PROVE IInv'
  <2>1. /\ me.pc \in OperatorSteps
        /\ "clear" \in OperatorSteps /\ "enable" \in OperatorSteps
    BY <1>2 DEF ReadRequired, OperatorSteps
  <2>2. Goto(t, "clear") \/ Goto(t, "enable")
    BY <1>2 DEF ReadRequired
  <2>3. Working'
    BY <1>2, <2>1, <2>2, WithinOperator DEF ReadRequired, OnlyThread
  <2> QED
    BY <1>2, <2>3, OnlyThreadKeeps DEF ReadRequired
<1>3. ASSUME ForceRead(t) PROVE IInv'
  <2>1. me.pc \in OperatorSteps
    BY <1>3 DEF ForceRead, OperatorSteps
  <2> DEFINE next == [me EXCEPT !.pc = "drop", !.rental = reserved[me.bay]]
  <2>2. /\ "drop" \in Pcs /\ me \in Tasks /\ me.bay \in Bays
        /\ "drop" \notin GrantSteps \cup LookupSteps \cup EndSteps \cup {"ensure", "insert"}
    BY <1>0, <2>1, StepsArePcs
       DEF Sound, GrantSteps, LookupSteps, EndSteps, OperatorSteps
  <2>3. reserved[me.bay] \in Rentals \cup {Nobody}
    BY <2>2 DEF Data
  <2>4. Sound(next, wallet'.keys)
    BY <2>2, <2>3 DEF Sound, Tasks
  <2>5. thread' = [thread EXCEPT ![t] = next]
    BY <1>3 DEF ForceRead, Working
  <2> HIDE DEF next
  <2>6. Working'
    BY <1>3, <2>4, <2>5, Moves DEF ForceRead, OnlyThread
  <2> QED
    BY <1>3, <2>6, OnlyThreadKeeps DEF ForceRead
<1>4. ASSUME ForceDrop(t) PROVE IInv'
  <2>1. me.pc \in OperatorSteps /\ "clear" \in OperatorSteps /\ Goto(t, "clear")
    BY <1>4 DEF ForceDrop, OperatorSteps
  <2>2. me.bay \in Bays
    BY <1>0, <2>1 DEF Sound
  <2>3. Working'
    BY <1>4, <2>1, WithinOperator DEF ForceDrop
  <2>4. \A b \in Bays : reserved'[b] \in {reserved[b], Nobody}
    BY <1>4 DEF ForceDrop, Data
  <2>5. reserved[me.bay] \in Rentals \cup {Nobody}
    BY <2>2 DEF Data
  <2>6. reserved' \in [Bays -> Rentals \cup {Nobody}]
    BY <1>4, <2>5 DEF ForceDrop, Data
  <2>7. Data'
    BY <1>4, <2>6 DEF ForceDrop, Data, tenant, history, bounds
  <2> QED
    BY <1>4, <2>3, <2>4, <2>7, NothingReserved DEF ForceDrop, history
<1>5. ASSUME ClearHold(t) PROVE IInv'
  <2>1. me.pc \in OperatorSteps /\ "enable" \in OperatorSteps /\ Goto(t, "enable")
    BY <1>5 DEF ClearHold, OperatorSteps
  <2>2. Working'
    BY <1>5, <2>1, WithinOperator DEF ClearHold
  <2>3. Data'
    BY <1>5 DEF ClearHold, Data, tenant, bounds
  <2> QED
    BY <1>5, <2>2, <2>3, NothingReserved DEF ClearHold, history
<1>6. ASSUME ClearDisabled(t) PROVE IInv'
  <2>1. me.pc \in OperatorSteps /\ "free" \in OperatorSteps
    BY <1>6 DEF ClearDisabled, OperatorSteps
  <2>2. Goto(t, "free") \/ Stop(t)
    BY <1>6 DEF ClearDisabled, GotoIf
  <2>3. Working'
    BY <1>6, <2>1, <2>2, WithinOperator DEF ClearDisabled
  <2>4. Data'
    BY <1>6 DEF ClearDisabled, Data, tenant, history, bounds
  <2> QED
    BY <1>6, <2>3, <2>4, NothingReserved DEF ClearDisabled, history
<1>7. ASSUME ForceUnclaim(t) PROVE IInv'
  <2>1. me.bay \in Bays
    BY <1>0, <1>7 DEF ForceUnclaim, Sound, OperatorSteps
  <2>2. Unclaimed(me.bay) \in [Bays -> Rows] /\ row \in [Bays -> Rows]
    BY <2>1, UnclaimedType DEF Data
  <2>3. row' \in [Bays -> Rows]
    BY <1>7, <2>2 DEF ForceUnclaim
  <2>4. Data'
    BY <1>7, <2>3 DEF ForceUnclaim, Data, stores, history, bounds
  <2>5. Working'
    BY <1>7, Stops DEF ForceUnclaim
  <2> QED
    BY <1>7, <2>4, <2>5, NothingReserved DEF ForceUnclaim, stores, history
<1>8. ASSUME MarkDisabled(t) PROVE IInv'
  <2>1. me.bay \in Bays
    BY <1>0, <1>8 DEF MarkDisabled, Sound, OperatorSteps
  <2>2. Data'
    BY <1>8, <2>1 DEF MarkDisabled, Data, tenant, history, bounds
  <2>3. Working'
    BY <1>8, Stops DEF MarkDisabled
  <2> QED
    BY <1>8, <2>2, <2>3, NothingReserved DEF MarkDisabled, history
<1> QED
  BY <1>1, <1>2, <1>3, <1>4, <1>5, <1>6, <1>7, <1>8 DEF Operate

\* A thread whose call failed stops, or undoes the claim of a failed deduction.
LEMMA AfterFailureWorks ==
  ASSUME Working, NEW t \in Threads, AfterFailure(t), wallet.keys \subseteq wallet'.keys
  PROVE  Working'
<1>1. CASE thread[t].pc = "deduct"
  <2>1. thread[t].pc \in GrantSteps /\ "undo" \in GrantSteps
    BY <1>1 DEF GrantSteps
  <2>2. Goto(t, "undo")
    BY <1>1 DEF AfterFailure, GotoIf
  <2> QED
    BY <2>1, <2>2, WithinGrant
<1>2. CASE thread[t].pc # "deduct"
  <2>1. Stop(t)
    BY <1>2 DEF AfterFailure, GotoIf
  <2> QED
    BY <2>1, Stops
<1> QED
  BY <1>1, <1>2

\* Calls of other services that fail
LEMMA FailuresKeep ==
  ASSUME IInv, NEW t \in Threads, CallFails(t) \/ AnswerLost(t)
  PROVE  IInv'
<1> USE DEF IInv
<1> DEFINE me == thread[t]
<1>0. Sound(me, wallet.keys) /\ wallet \in Wallets /\ row \in [Bays -> Rows]
  BY DEF Working, Data, Wallets
<1>1. ASSUME CallFails(t) PROVE IInv'
  <2>1. Working'
    BY <1>1, AfterFailureWorks DEF CallFails
  <2>2. Data'
    BY <1>1, FailureCounted DEF CallFails, Data, tenant, stores, history
  <2> QED
    BY <1>1, <2>1, <2>2, NothingReserved DEF CallFails, stores, history
<1>2. ASSUME AnswerLost(t) PROVE IInv'
  <2> DEFINE Fits == row' \in [Bays -> Rows] /\ wallet' \in Wallets /\ wallet.keys \subseteq wallet'.keys
  <2>1. ASSUME me.pc = "claim", row' = Claimed(me.bay, me.owner, me.rental), UNCHANGED wallet
        PROVE  Fits
    <3>1. /\ me.bay \in Bays /\ me.owner \in Users \cup {NoUser}
          /\ me.rental \in Rentals \cup {Nobody}
      BY <1>0, <2>1 DEF Sound, Tasks, GrantSteps
    <3> QED
      BY <1>0, <2>1, <3>1, ClaimedType
  <2>2. ASSUME me.pc = "unclaim", row' = Unclaimed(me.bay), UNCHANGED wallet
        PROVE  Fits
    <3>1. me.bay \in Bays
      BY <1>0, <2>2 DEF Sound, EndSteps
    <3> QED
      BY <1>0, <2>2, <3>1, UnclaimedType
  <2>3. ASSUME me.pc = "deduct", CanCharge(me.owner, me.rental),
               wallet' = Charge(me.owner, me.rental), UNCHANGED row
        PROVE  Fits
    <3>1. me.rental \in Rentals
      BY <1>0, <2>3 DEF Sound, GrantSteps
    <3> QED
      BY <1>0, <2>3, <3>1, ChargeType
  <2>4. ASSUME me.pc = "refund", wallet' = Refund(me.owner, me.rental), UNCHANGED row
        PROVE  Fits
    <3>1. me.rental \in Rentals
      BY <1>0, <2>4 DEF Sound, EndSteps
    <3> QED
      BY <1>0, <2>4, <3>1, RefundType
  <2>5. Fits
    <3> HIDE DEF Fits
    <3> QED
      BY <1>2, <2>1, <2>2, <2>3, <2>4 DEF AnswerLost
  <2>6. Working'
    BY <1>2, <2>5, AfterFailureWorks DEF AnswerLost
  <2>7. Data'
    BY <1>2, <2>5, FailureCounted DEF AnswerLost, Data, Wallets, stores, history
  <2> QED
    BY <1>2, <2>5, <2>6, <2>7, NothingReserved DEF AnswerLost, stores, history
<1> QED
  BY <1>1, <1>2

--------------------------------------------------------------------------------
(* Theorems *)

\* The invariant holds at the start.
LEMMA InitIInv ==
  ASSUME Init
  PROVE  IInv
<1>1. NoRow \in Rows
  BY Zenon DEF NoRow, Rows
<1>2. row \in [Bays -> Rows]
  BY <1>1 DEF Init
<1>3. wallet \in Wallets
  BY BayAssumption DEF Init, Wallets
<1>4. Data
  BY <1>2, <1>3, BayAssumption DEF Init, Data, Wallets
<1>5. Idle \in Tasks
  BY IdleSound DEF Sound
<1>6. Working
  BY <1>5, IdleSound DEF Init, Working
<1>7. RentedMeansCharged
  BY DEF Init, RentedMeansCharged
<1> QED
  BY <1>4, <1>6, <1>7 DEF IInv

\* Every step keeps the invariant.
LEMMA NextIInv ==
  ASSUME IInv, [Next]_vars
  PROVE  IInv'
<1>1. CASE UNCHANGED vars
  <2>1. Working'
    BY <1>1, Stays DEF IInv, vars
  <2> QED
    BY <1>1, <2>1, OnlyThreadKeeps DEF vars, OnlyThread
<1>2. ASSUME NEW t \in Threads, Step(t) PROVE IInv'
  BY <1>2, GrantKeeps, EndKeeps, OperateKeeps DEF Step
<1>3. ASSUME NEW t \in Threads, CallFails(t) \/ AnswerLost(t) PROVE IInv'
  BY <1>3, FailuresKeep
<1> QED
  BY <1>1, <1>2, <1>3, StartsKeep DEF Next

\* Every reachable state satisfies the invariant.
THEOREM Invariance == Spec => []IInv
<1> QED
  BY InitIInv, NextIInv, PTL DEF Spec

\* Rows, reservations, holds, credits and threads always have their types, for
\* all bays, rentals, threads, failures and restarts; in particular no
\* customer's credits fall below zero, however deductions interleave.
THEOREM TypeCorrect == Spec => []TypeOK
<1>1. IInv => TypeOK
  BY DEF IInv, Data, Working, TypeOK
<1> QED
  BY <1>1, Invariance, PTL

\* A reservation that reserve_slot wrote was paid for, on a server that also
\* assigns, ends and forces bays free, whatever fails between deduction and
\* reservation, however many requests of one rental or of one customer run at
\* once.  (Of a reservation that assign_slot wrote nothing is said: it deducts
\* nothing.)
THEOREM ReservedWasPaid == Spec => []RentedMeansCharged
<1>1. IInv => RentedMeansCharged
  BY DEF IInv
<1> QED
  BY <1>1, Invariance, PTL

================================================================================
