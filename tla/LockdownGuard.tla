--------------------------- MODULE LockdownGuard ---------------------------
(***************************************************************************)
(* The guard script that runs on a phone, and the threads of the farm      *)
(* agent that start, kill and respawn it over adb                          *)
(* (application/device_hardware_lockdown.py).                              *)
(*                                                                         *)
(* A guard is a process of the phone.  It first gets rid of its siblings,  *)
(* in two passes over `ps` half a second apart, and then watches the       *)
(* screen.  A pass runs in a subshell: a guard that is killed in the       *)
(* middle of one leaves an "orphan" that still kills what it has listed.   *)
(* Several threads of the agent work on one phone and nothing orders them: *)
(* the sweep loop, the recovery of a phone that came back, and the tasks   *)
(* that the VPS asks for.  Each is the sequence of adb commands it still   *)
(* has to run; a command sent to a phone that adb does not reach fails.    *)
(*                                                                         *)
(* Guards are named by the order of their launches.  The numbers the phone *)
(* gives its processes follow that order until they begin again at the     *)
(* bottom: `below` says which older guards have a smaller number.          *)
(***************************************************************************)
EXTENDS Naturals, Sequences

CONSTANTS Tasks,            \* the threads that serve tasks of the VPS
          MaxPid,           \* bound: guards started before all of them are gone
          MaxTasks,         \* bound: tasks started
          MaxDisruptions    \* bound: cables pulled, reboots, agent restarts

ASSUME MaxPidAssumption == MaxPid \in Nat

VARIABLES connected,    \* adb reaches the phone
          at,           \* at[p]: where guard p is, "none" for no process
          seen,         \* seen[p]: the siblings the pass of p has listed
          below,        \* below[p]: the older guards with a smaller number
          todo,         \* todo[a]: the commands thread a has still to run
          first,        \* the loop's next sweep is the agent's first
          before,       \* the loop's last look at `adb devices`
          started, disruptions      \* the tasks and the mishaps so far

guards == <<at, seen, below>>
loop   == <<first, before>>
bounds == <<started, disruptions>>
vars   == <<connected, guards, todo, loop, bounds>>

Pids   == 1..MaxPid
Actors == Tasks \cup {"loop", "recover"}
Stages == {"none", "exec", "list1", "kill1", "list2", "kill2", "watch", "orphan"}

Live == {p \in Pids : at[p] # "none"}

-----------------------------------------------------------------------------
(* The guard script on the phone *)

Killable(K) == K \cap {p \in Pids : at[p] \in {"kill1", "kill2"}}

\* What a kill -9 of the processes K leaves: a guard in the middle of a pass
\* may leave the subshell of the pass behind.
Killed(K, spared) ==
  [p \in Pids |-> IF p \notin K THEN at[p]
                  ELSE IF p \in spared THEN "orphan" ELSE "none"]

Forgotten(K) == [p \in Pids |-> IF p \in K THEN {} ELSE seen[p]]

GuardExec(p) ==
  /\ at[p] = "exec"
  /\ at' = [at EXCEPT ![p] = "list1"]
  /\ UNCHANGED <<connected, seen, below, todo, loop, bounds>>

\* A pass lists the processes whose command line is exactly the script's: one
\* that is not through exec yet is missed.  The second pass begins half a second
\* after the first, and by then every guard launched earlier is through exec.
Visible(p) == {q \in Live \ {p} : at[q] # "exec"}
Settled(p) == at[p] = "list2" => \A q \in Live : q < p => at[q] # "exec"

GuardList(p) ==
  /\ at[p] \in {"list1", "list2"}
  /\ Settled(p)
  /\ seen' = [seen EXCEPT ![p] = Visible(p)]
  /\ at' = [at EXCEPT ![p] = IF @ = "list1" THEN "kill1" ELSE "kill2"]
  /\ UNCHANGED <<connected, below, todo, loop, bounds>>

\* Fault for NewestWins: the subshell comes to its own line before all others
ReachedNothing(p, K) == K = {}

\* The subshell carries the command line of its guard: it kills itself when it
\* comes to its own line, and the lines are in the order of the numbers.  It has
\* reached the smaller numbers by then, if the numbers did not begin again in
\* the second since its guard was launched, and any other process only perhaps.
Reached(p, K) == /\ K \subseteq seen[p] \cap Live
                 /\ below[p] \cap seen[p] \cap Live \subseteq K

\* Fault for NewestWins: the script watches after its first pass
AfterPassOnce == [kill1 |-> "watch", kill2 |-> "watch", orphan |-> "none"]

AfterPass == [kill1 |-> "list2", kill2 |-> "watch", orphan |-> "none"]

GuardKill(p) ==
  /\ at[p] \in {"kill1", "kill2", "orphan"}
  /\ \E K \in SUBSET Live :
       /\ Reached(p, K)
       /\ \E spared \in SUBSET Killable(K) :
            /\ at' = [Killed(K, spared) EXCEPT ![p] = AfterPass[at[p]]]
            /\ seen' = Forgotten((K \ spared) \cup {p})
  /\ UNCHANGED <<connected, below, todo, loop, bounds>>

GuardStep(p) == GuardExec(p) \/ GuardList(p) \/ GuardKill(p)

-----------------------------------------------------------------------------
(* The commands of the agent's threads *)

Redeploy == <<"stop", "push", "stop", "launch">>

\* Fault for GuardReturns: a script that is in its place counts as one that runs
EnsureScript == <<"check", "push">>

Ensure == <<"check", "push", "stop", "launch">>

Rest(a) == Tail(todo[a])

At(a, command) == todo[a] # <<>> /\ Head(todo[a]) = command
GoOn(a, rest)  == todo' = [todo EXCEPT ![a] = rest]

\* is_lockdown_guard_running: the agent's match is a wider one, it sees a launch
\* that is not through exec too.  A command that fails counts as "not running".
CheckGuard(a) ==
  /\ At(a, "check")
  /\ GoOn(a, IF connected /\ Live # {} THEN <<>> ELSE Rest(a))
  /\ UNCHANGED <<connected, guards, loop, bounds>>

\* stop_lockdown_guard_process: one `ps`, then one kill per pid it showed.  It
\* misses what was launched since the `ps`, and everything when the `ps` failed.
StopGuards(a) ==
  /\ At(a, "stop")
  /\ IF connected
     THEN \E later \in 1..(MaxPid + 1) :
            LET K == {p \in Live : p < later}
            IN  \E spared \in SUBSET Killable(K) :
                  /\ at' = Killed(K, spared)
                  /\ seen' = Forgotten(K \ spared)
                  /\ UNCHANGED below
     ELSE UNCHANGED guards
  /\ GoOn(a, Rest(a))
  /\ UNCHANGED <<connected, loop, bounds>>

PushScript(a) ==
  /\ At(a, "push")
  /\ GoOn(a, IF connected THEN Rest(a) ELSE <<>>)
  /\ UNCHANGED <<connected, guards, loop, bounds>>

\* The name of a new guard is above all that are alive or still written down.
Fresh(p) == /\ \A q \in Live : q < p
            /\ \A q \in Pids : \A r \in seen[q] : r < p

LaunchGuard(a) ==
  /\ At(a, "launch")
  /\ \/ /\ connected
        /\ \E p \in Pids :
             /\ Fresh(p)
             /\ \A q \in Pids : Fresh(q) => p <= q
             /\ at' = [at EXCEPT ![p] = "exec"]
             /\ \E smaller \in SUBSET Live : below' = [below EXCEPT ![p] = smaller]
             /\ UNCHANGED seen
     \/ /\ connected => ~\E p \in Pids : Fresh(p)
        /\ UNCHANGED guards
  /\ GoOn(a, Rest(a))
  /\ UNCHANGED <<connected, loop, bounds>>

\* recover_device_after_reconnect waits for a booted phone and gives up on one
\* that does not answer.
AwaitPhone(a) ==
  /\ At(a, "wait")
  /\ GoOn(a, IF connected THEN Rest(a) ELSE <<>>)
  /\ UNCHANGED <<connected, guards, loop, bounds>>

Command(a) == CheckGuard(a) \/ StopGuards(a) \/ PushScript(a) \/ LaunchGuard(a)
              \/ AwaitPhone(a)

-----------------------------------------------------------------------------
(* The threads: the loop, the recovery it starts, the tasks of the VPS *)

Idle(a) == todo[a] = <<>>

Sweep ==
  /\ Idle("loop")
  /\ GoOn("loop", IF first THEN Redeploy ELSE Ensure)
  /\ first' = FALSE
  /\ UNCHANGED <<connected, guards, before, bounds>>

\* Fault for TypeOK: adb's own word for a phone that is away is kept
StateShownRaw == IF connected THEN "device" ELSE "offline"

StateShown == IF connected THEN "device" ELSE "missing"

\* _poll_reconnects: a phone that was away and answers again is recovered on a
\* thread of its own, unless one is at it already; the return is noted anyway.
PollReconnects ==
  /\ Idle("loop") /\ ~first
  /\ before' = StateShown
  /\ before' # before
  /\ IF before = "missing" /\ Idle("recover")
     THEN GoOn("recover", <<"wait">> \o Redeploy)
     ELSE UNCHANGED todo
  /\ UNCHANGED <<connected, guards, first, bounds>>

\* A task that first sees to the guard: the access mode and the end of a pause
\* ensure one, the preparation of the phone and the cleanup redeploy it.
StartTask(t) ==
  /\ Idle(t) /\ started < MaxTasks
  /\ started' = started + 1
  /\ GoOn(t, Ensure) \/ GoOn(t, Redeploy)
  /\ UNCHANGED <<connected, guards, loop, disruptions>>

-----------------------------------------------------------------------------
(* What goes wrong *)

Disrupt == /\ disruptions < MaxDisruptions
           /\ disruptions' = disruptions + 1
           /\ UNCHANGED started

Unplug ==
  /\ Disrupt /\ connected
  /\ connected' = FALSE
  /\ UNCHANGED <<guards, todo, loop>>

Plug ==
  /\ ~connected
  /\ connected' = TRUE
  /\ UNCHANGED <<guards, todo, loop, bounds>>

Reboot ==
  /\ Disrupt
  /\ connected' = FALSE
  /\ at' = [p \in Pids |-> "none"]
  /\ seen' = [p \in Pids |-> {}] /\ below' = [p \in Pids |-> {}]
  /\ UNCHANGED <<todo, loop>>

\* Android ends a process of the shell user when it is short of memory.
GuardDies(p) ==
  /\ Disrupt /\ at[p] = "watch"
  /\ at' = [at EXCEPT ![p] = "none"]
  /\ UNCHANGED <<connected, seen, below, todo, loop>>

\* The agent's process ends and its threads are gone where they stood.
AgentRestart ==
  /\ Disrupt
  /\ todo' = [a \in Actors |-> <<>>]
  /\ first' = TRUE /\ before' = "unknown"
  /\ UNCHANGED <<connected, guards>>

Init ==
  /\ connected \in BOOLEAN
  /\ at = [p \in Pids |-> "none"] /\ seen = [p \in Pids |-> {}]
  /\ below = [p \in Pids |-> {}]
  /\ todo = [a \in Actors |-> <<>>]
  /\ first = TRUE /\ before = "unknown"
  /\ started = 0 /\ disruptions = 0

Next ==
  \/ \E p \in Pids : GuardStep(p) \/ GuardDies(p)
  \/ \E a \in Actors : Command(a)
  \/ Sweep \/ PollReconnects
  \/ \E t \in Tasks : StartTask(t)
  \/ Unplug \/ Plug \/ Reboot \/ AgentRestart

\* The processes of the phone and the threads of the agent run; nobody promises
\* that a cable is plugged in again or that a task is asked for.
Fairness ==
  /\ \A p \in Pids : WF_vars(GuardStep(p))
  /\ \A a \in Actors : WF_vars(Command(a))
  /\ WF_vars(Sweep) /\ WF_vars(PollReconnects)

Spec == Init /\ [][Next]_vars /\ Fairness

-----------------------------------------------------------------------------

\* The shape of the state.
TypeOK ==
  /\ connected \in BOOLEAN
  /\ at \in [Pids -> Stages]
  /\ seen \in [Pids -> SUBSET Pids] /\ below \in [Pids -> SUBSET Pids]
  /\ before \in {"unknown", "missing", "device"}
  /\ \A p \in Pids : at[p] \notin {"kill1", "kill2", "orphan"} => seen[p] = {}

\* The newest launch wins: a guard that watches has outlived every guard started
\* before it with a smaller process number, of which at most the rest of a pass
\* still runs, whichever threads of the agent swept and launched at once and
\* whatever their `ps` missed.  (An older guard with a larger number may go on
\* watching beside it: its line comes after the subshell's own.)
NewestWins ==
  \A q \in Pids : \A p \in below[q] : at[q] = "watch" => at[p] \in {"none", "orphan"}

\* A phone that stays within reach of adb gets a guard that watches and goes on
\* watching, whoever killed whom on the way: launches that kill each other in
\* their passes leave the phone without a guard until the next sweep.
GuardReturns ==
  <>[]connected => <>[](\E p \in Pids : at[p] = "watch")

=============================================================================
