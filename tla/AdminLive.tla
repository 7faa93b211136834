----------------------------- MODULE AdminLive -----------------------------
(***************************************************************************)
(* The live access of administrators to one bay: the sessions              *)
(* (application/admin_live_access_service.py, infrastructure/              *)
(* admin_live_access_store.py) and the cache of primed streams that        *)
(* customers and administrators share (application/stream_warmup.py).      *)
(*                                                                         *)
(* Opening a session starts a warm-up thread, which opens a stream of the  *)
(* phone, waits for its first picture and leaves it in the cache; the      *)
(* request for the stream waits for the warm-up and takes the stream out.  *)
(* Sessions are opened again while warm-ups of earlier ones still run.     *)
(***************************************************************************)
EXTENDS Naturals

CONSTANTS Threads,      \* the threads that serve requests
          Admins, Nobody,
          MaxSessions,  \* bound: rows of admin_live_access_sessions
          MaxWarmups    \* bound: warm-ups begun

ASSUME AdminAssumption ==
  /\ Nobody \notin Threads \cup Admins
  /\ MaxSessions \in Nat /\ MaxWarmups \in Nat

VARIABLES row,          \* row[s]: the session s
          lock,         \* the thread that holds the lock of the bay
          step,         \* step[t]: what thread t is at
          who,          \* who[t]: the administrator it is about to insert a session of
          held,         \* held[t]: the session, warm-up or stream in its hands
          item,         \* the stream in the cache, 0 for none
          aged,         \* the stream in the cache is older than its TTL
          pending,      \* the warm-up the next take waits for, 0 for none
          isSet,        \* isSet[w]: the event of warm-up w
          worker,       \* worker[w]: what the thread of warm-up w is at
          stream        \* stream[w]: what became of the stream it opened

request == <<step, who, held>>
cache   == <<item, aged, pending>>
warmup  == <<isSet, worker, stream>>
adminVars == <<row, lock, request, cache, warmup>>

Sessions == 1..MaxSessions
Warmups  == 1..MaxWarmups

AdminInit ==
  /\ row = [s \in Sessions |-> [admin |-> Nobody, status |-> "none"]]
  /\ lock = Nobody
  /\ step = [t \in Threads |-> "idle"]
  /\ who = [t \in Threads |-> Nobody]
  /\ held = [t \in Threads |-> 0]
  /\ item = 0 /\ aged = FALSE /\ pending = 0
  /\ isSet = [w \in Warmups |-> FALSE]
  /\ worker = [w \in Warmups |-> "none"]
  /\ stream = [w \in Warmups |-> "none"]

To(t, s)      == step' = [step EXCEPT ![t] = s]
Hold(t, x)    == held' = [held EXCEPT ![t] = x]

\* A session is active while its row says so and its time is not over.
Active(s, a) == row[s] = [admin |-> a, status |-> "active"]

-----------------------------------------------------------------------------
(* create_session *)

\* Fault for OneSessionPerAdmin: the lock of the bay is not waited for
FreeAnyway(t) == lock \in Threads \cup {Nobody}

Free(t) == lock = Nobody

CreateLock(t) ==
  /\ step[t] = "idle" /\ Free(t)
  /\ lock' = t
  /\ \E a \in Admins :
       IF \E s \in Sessions : Active(s, a)
       THEN To(t, "begin") /\ UNCHANGED <<who, held>>
       ELSE \E s \in Sessions : /\ row[s].status = "none"
                                /\ \A r \in 1..(s - 1) : row[r].status # "none"
                                /\ Hold(t, s)
                                /\ who' = [who EXCEPT ![t] = a]
                                /\ To(t, "insert")
  /\ UNCHANGED <<row, cache, warmup>>

\* With the insert the lock of the bay is given back; a session that is used
\* again keeps it until its warm-up has begun.
CreateInsert(t) ==
  /\ step[t] = "insert"
  /\ row' = [row EXCEPT ![held[t]] = [admin |-> who[t], status |-> "active"]]
  /\ lock' = Nobody
  /\ To(t, "begin") /\ Hold(t, 0)
  /\ who' = [who EXCEPT ![t] = Nobody]
  /\ UNCHANGED <<cache, warmup>>

-----------------------------------------------------------------------------
(* MjpegPrimeCache: what is done under its lock is one step, the stream that   *)
(* was pushed out is closed and the events are set after it                    *)

\* Fault for AdminTypeOK: whoever closes a stream closes the cached one as well
ClosedCached(w) == [u \in Warmups |-> IF u \in {w, item} THEN "closed" ELSE stream[u]]

\* Fault for NoStreamLeaks: begin and store drop the stream they find
ClosedKept(w) == stream

Closed(w) == [u \in Warmups |-> IF u = w THEN "closed" ELSE stream[u]]

\* begin, and the start of the warm-up's thread
Begin(t) ==
  /\ step[t] = "begin"
  /\ lock' = IF lock = t THEN Nobody ELSE lock
  /\ \E w \in Warmups :
       /\ worker[w] = "none" /\ \A v \in 1..(w - 1) : worker[v] # "none"
       /\ pending' = w /\ item' = 0 /\ aged' = FALSE
       /\ stream' = Closed(item)
       /\ worker' = [worker EXCEPT ![w] = "opening"]
       /\ isSet' = [v \in Warmups |-> isSet[v] \/ v = pending]
  /\ To(t, "idle")
  /\ UNCHANGED <<row, who, held>>

\* prime_from_platform: the stream is opened and its first picture awaited
Prime(w) ==
  /\ worker[w] = "opening"
  /\ \/ /\ worker' = [worker EXCEPT ![w] = "primed"]
        /\ stream' = [stream EXCEPT ![w] = "priming"]
     \/ /\ worker' = [worker EXCEPT ![w] = "failed"]
        /\ UNCHANGED stream
  /\ UNCHANGED <<row, lock, request, cache, isSet>>

\* The event it sets is that of the newest warm-up, whoever that belongs to.
Wakes == [v \in Warmups |-> isSet[v] \/ v = pending]

Store(w) ==
  /\ worker[w] = "primed"
  /\ worker' = [worker EXCEPT ![w] = "done"]
  /\ item' = w /\ aged' = FALSE
  /\ stream' = [Closed(item) EXCEPT ![w] = "cached"]
  /\ isSet' = Wakes
  /\ UNCHANGED <<row, lock, request, pending>>

\* Fault for WaitsEnd: a failed warm-up leaves the event alone
FailSilent == isSet

\* The warm-ups whose waiters a failure wakes.
FailWakes == Wakes

Fail(w) ==
  /\ worker[w] = "failed"
  /\ worker' = [worker EXCEPT ![w] = "done"]
  /\ item' = 0 /\ aged' = FALSE /\ pending' = 0
  /\ stream' = Closed(item)
  /\ isSet' = FailWakes
  /\ UNCHANGED <<row, lock, request>>

Age ==
  /\ item # 0 /\ ~aged
  /\ aged' = TRUE
  /\ UNCHANGED <<row, lock, request, item, pending, warmup>>

-----------------------------------------------------------------------------
(* open_stream and take *)

OpenStream(t) ==
  /\ step[t] = "idle"
  /\ \E a \in Admins, s \in Sessions : Active(s, a)
  /\ Hold(t, pending) /\ To(t, "wait")
  /\ UNCHANGED <<row, lock, who, cache, warmup>>

\* Fault for ViewerSees: the stream stays in the cache as well
LeftIn == item

\* What the cache holds after a take.
TakenOut == 0

\* A stream that waited longer than its TTL is closed, not shown.  The five
\* seconds of the wait may be over before the event is set.
Take(t) ==
  /\ step[t] = "wait"
  /\ item' = TakenOut /\ aged' = FALSE /\ pending' = 0
  /\ IF item # 0 /\ ~aged
     THEN stream' = [stream EXCEPT ![item] = "viewed"] /\ Hold(t, item)
     ELSE stream' = Closed(item) /\ Hold(t, 0)
  /\ To(t, "view")
  /\ UNCHANGED <<row, lock, who, isSet, worker>>

\* The viewer goes, and the answer's end closes its stream.
EndView(t) ==
  /\ step[t] = "view"
  /\ stream' = Closed(held[t])
  /\ To(t, "idle") /\ Hold(t, 0)
  /\ UNCHANGED <<row, lock, who, cache, isSet, worker>>

-----------------------------------------------------------------------------
(* close_session, or the session's time is over: nobody reads what the sweep *)
(* writes on such a row.                                                       *)

CloseSession(s) ==
  /\ row[s].status = "active"
  /\ row' = [row EXCEPT ![s].status = "over"]
  /\ UNCHANGED <<lock, request, cache, warmup>>

Serve(t) == CreateInsert(t) \/ Begin(t) \/ (Take(t) /\ (held[t] = 0 \/ isSet[held[t]]))

AdminNext ==
  \/ \E t \in Threads : CreateLock(t) \/ CreateInsert(t) \/ Begin(t)
                        \/ OpenStream(t) \/ Take(t) \/ EndView(t)
  \/ \E w \in Warmups : Prime(w) \/ Store(w) \/ Fail(w)
  \/ Age
  \/ \E s \in Sessions : CloseSession(s)

\* The threads run; the platform's answer to a warm-up comes, as its client has
\* a timeout.  The five seconds of a wait are not counted on.
AdminFairness ==
  /\ \A t \in Threads : WF_adminVars(Serve(t))
  /\ \A w \in Warmups : WF_adminVars(Prime(w) \/ Store(w) \/ Fail(w))

AdminSpec == AdminInit /\ [][AdminNext]_adminVars /\ AdminFairness

-----------------------------------------------------------------------------

\* The shape of the state.
AdminTypeOK ==
  /\ lock \in Threads \cup {Nobody}
  /\ item \in Warmups \cup {0} /\ pending \in Warmups \cup {0}
  /\ item # 0 => stream[item] = "cached"
  /\ item = 0 => ~aged
  /\ \A t \in Threads : step[t] = "insert" <=> who[t] \in Admins
  /\ \A s \in Sessions : row[s].status = "none" <=> row[s].admin = Nobody

\* An administrator has one active session of a bay, however many tabs ask for
\* one at the same time.
OneSessionPerAdmin ==
  \A a \in Admins, r, s \in Sessions : Active(r, a) /\ Active(s, a) => r = s

\* Every stream that was opened and is not closed is in the cache, with a viewer
\* or still with its warm-up: whichever warm-ups overlap, none is left open that
\* nobody can close.
NoStreamLeaks ==
  \A w \in Warmups :
    /\ stream[w] = "cached" => item = w
    /\ stream[w] = "viewed" => \E t \in Threads : step[t] = "view" /\ held[t] = w
    /\ stream[w] = "priming" => worker[w] = "primed"

\* What a viewer was given stays open until he goes and is his alone: no later
\* warm-up closes it, no other viewer gets it, and the cache does not have it.
ViewerSees ==
  \A t \in Threads :
    step[t] = "view" /\ held[t] # 0 =>
      /\ stream[held[t]] = "viewed"
      /\ \A u \in Threads \ {t} : step[u] = "view" => held[u] # held[t]

\* A request that waits for a warm-up is woken when that ends, even if it fails
\* or a later one takes its place, unless another viewer came and took the
\* stream first: his take forgets the event the others wait on, and they wait
\* their full five seconds.
WaitsEnd ==
  \A t \in Threads :
    step[t] = "wait" /\ held[t] = pending
      ~> \/ step[t] # "wait"
         \/ \E u \in Threads \ {t} : step[u] = "view"

=============================================================================
