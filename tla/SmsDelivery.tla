------------------------------ MODULE SmsDelivery ------------------------------
(***************************************************************************)
(* The path of an outbound SMS.  On the VPS a request of the API           *)
(* (application/vps_slot_sms_service.py) or an inbound webhook             *)
(* (webhook_outbound_dispatcher.py) stores a message under a unique key    *)
(* and a thread posts it to the Farm Agent, again and again if the answer  *)
(* stays away.  The Farm Agent handles each post in a thread of its own    *)
(* (farm_sms_command.py, sms_service.py, sms_outbox.py), submits to the    *)
(* provider and polls its delivery; main.py resumes polls when it starts.  *)
(*                                                                         *)
(* A Farm Agent thread builds its own SmsOutbox from the table and writes  *)
(* rows back whole, so it works on a copy: `copy` is the final_status in   *)
(* that copy.  Of an outbox row, final_status and the presence of a        *)
(* provider id are kept; nothing on this path decides by the others.       *)
(***************************************************************************)
EXTENDS Naturals, FiniteSets

CONSTANTS
    Messages,      \* idempotency keys of a slot, or inbound event ids
    Requests,      \* request threads of the VPS
    MaxPosts,      \* WEBHOOK_FARM_DISPATCH_MAX_ATTEMPTS
    MaxTries,      \* SMS_MAX_ATTEMPTS
    MaxFaults,     \* restarts of the VPS, the Farm Agent and main.py together
    NoMessage

ASSUME SmsAssumption ==
    /\ MaxPosts \in Nat \ {0} /\ MaxTries \in Nat \ {0}
    /\ MaxFaults \in Nat
    /\ NoMessage \notin Messages

VARIABLES
    kind,       \* "slot" (API) or "reply" (webhook)
    setup,      \* the farm's configuration: dry runs, live sends, live with polls
    sent,       \* status in outbound_api_messages or outbound_jobs
    request,    \* request threads and what they become: dispatchers
    post,       \* posts of a message, each with its Farm Agent thread
    outbox,     \* outbound_messages of the farm
    submitted,  \* how often the provider took the message
    delivery,   \* what the provider reports of it
    risked,     \* history: messages of which two posts found no row, or whose
                \* submission was tried again after a failure
    starts, farmCrashes, vpsCrashes

vars == <<kind, setup, sent, request, post, outbox, submitted, delivery, risked,
          starts, farmCrashes, vpsCrashes>>

--------------------------------------------------------------------------------
Finals == {"queued", "accepted", "sent", "delivered", "failed", "timeout"}
Terminal == {"delivered", "failed", "timeout"}
Open == {"queued", "sending"}
Statuses == {"none", "sending"} \cup Finals

\* Posts of a message by number; 0 is the resumed poll of main.py
Posts == Messages \X (0..MaxPosts)
Of(t) == t[1]
Resumed(m) == <<m, 0>>

Row == [final : {"none"} \cup Finals, id : BOOLEAN]
NoRow == [final |-> "none", id |-> FALSE]

NoAnswer == [code |-> "none", status |-> "none"]
Answers == [code : {"none", "ok", "hard", "soft"}, status : {"none"} \cup Finals]
Ok(status) == [code |-> "ok", status |-> status]
Hard(status) == [code |-> "hard", status |-> status]
Soft == [code |-> "soft", status |-> "none"]

\* Before the reservation, at work, and over
Early == {"flying", "load", "reserve"}
Working == {"refuse", "dry", "submit", "accept", "settle", "poll", "final"}
Idle == [pc |-> "absent", tries |-> 0, copy |-> "none", answer |-> NoAnswer]
Gone == [Idle EXCEPT !.pc = "dead"]
Post == [pc : {"absent", "answer", "dead"} \cup Early \cup Working,
         tries : 0..MaxTries, copy : {"none"} \cup Finals, answer : Answers]

NoRequest == [pc |-> "idle", message |-> NoMessage, number |-> 0, answer |-> NoAnswer]
Request == [pc : {"idle", "lookup", "insert", "spawn", "mark", "post", "wait",
                  "save", "give", "over"},
            message : Messages \cup {NoMessage}, number : 0..MaxPosts, answer : Answers]

Init ==
    /\ kind \in [Messages -> {"slot", "reply"}]
    /\ setup \in {"dry", "live", "polling"}
    /\ sent = [m \in Messages |-> "none"]
    /\ request = [r \in Requests |-> NoRequest]
    /\ post = [t \in Posts |-> Idle]
    /\ outbox = [m \in Messages |-> NoRow]
    /\ submitted = [m \in Messages |-> 0]
    /\ delivery = [m \in Messages |-> "unknown"]
    /\ risked = {}
    /\ starts = 0 /\ farmCrashes = 0 /\ vpsCrashes = 0

--------------------------------------------------------------------------------
(* The VPS.  Refusals that store nothing (slot, destination, body, rate,   *)
(* farm status, another text under the same key) are the step to "over".   *)

vpsVars == <<sent, request>>
farmVars == <<post, outbox, submitted, delivery, risked>>
faults == <<starts, farmCrashes, vpsCrashes>>
MayFail == starts + farmCrashes + vpsCrashes < MaxFaults
fixed == <<kind, setup>>

Go(r, pc) == request' = [request EXCEPT ![r] = [@ EXCEPT !.pc = pc]]

End(r) == request' = [request EXCEPT ![r] = [NoRequest EXCEPT !.pc = "over"]]

\* A request gets a thread of its own; which of the idle ones makes no difference
Ask(r, m) ==
    /\ request[r].pc = "idle" /\ r = CHOOSE q \in Requests : request[q].pc = "idle"
    /\ request' = [request EXCEPT ![r] = [@ EXCEPT !.pc = "lookup", !.message = m]]
    /\ UNCHANGED <<fixed, sent, farmVars, faults>>

\* get_by_slot_idempotency, get_by_inbound_event
Lookup(r) ==
    /\ request[r].pc = "lookup"
    /\ \/ sent[request[r].message] = "none" /\ Go(r, "insert")
       \/ End(r)
    /\ UNCHANGED <<fixed, sent, farmVars, faults>>

\* insert: an IntegrityError answers with the row of the other request
Insert(r) ==
    LET m == request[r].message
    IN  /\ request[r].pc = "insert"
        /\ IF sent[m] = "none"
           THEN sent' = [sent EXCEPT ![m] = "queued"] /\ Go(r, "spawn")
           ELSE UNCHANGED sent /\ End(r)
        /\ UNCHANGED <<fixed, farmVars, faults>>

\* The 202 is answered and a thread dispatches; a reply goes on in its request
Spawn(r) ==
    /\ request[r].pc = "spawn"
    /\ Go(r, "mark")
    /\ UNCHANGED <<fixed, sent, farmVars, faults>>

\* The status and the number of the attempt
Mark(r) ==
    LET m == request[r].message
    IN  /\ request[r].pc = "mark"
        /\ request[r].number < MaxPosts
        /\ sent' = [sent EXCEPT ![m] = IF kind[m] = "slot" THEN "queued" ELSE "sending"]
        /\ request' = [request EXCEPT ![r] =
               [@ EXCEPT !.pc = "post", !.number = request[r].number + 1]]
        /\ UNCHANGED <<fixed, farmVars, faults>>

\* FarmSmsClient.send_sms
Send(r) ==
    LET t == <<request[r].message, request[r].number>>
    IN  /\ request[r].pc = "post"
        /\ post' = [post EXCEPT ![t] = [@ EXCEPT !.pc = "flying"]]
        /\ Go(r, "wait")
        /\ UNCHANGED <<fixed, sent, outbox, submitted, delivery, risked, faults>>

\* Fault for ReportComes: the last attempt's failure is not recorded
AfterFailureUnrecorded(r) == IF request[r].number < MaxPosts THEN "mark" ELSE "over"

\* for attempt in range(1, max_attempts + 1), and what follows the loop
AfterFailure(r) == IF request[r].number < MaxPosts THEN "mark" ELSE "give"

Answered(r) ==
    LET t == <<request[r].message, request[r].number>>
        answer == post[t].answer
        next == CASE answer.code = "ok"   -> "save"
                  [] answer.code = "hard" -> "give"
                  [] OTHER                -> AfterFailure(r)
    IN  /\ request[r].pc = "wait"
        /\ post[t].pc = "answer"
        /\ request' = [request EXCEPT ![r] = [@ EXCEPT !.pc = next, !.answer = answer]]
        /\ post' = [post EXCEPT ![t] = Gone]
        /\ UNCHANGED <<fixed, sent, outbox, submitted, delivery, risked, faults>>

\* The connection breaks or the wait times out; the post may still be on its
\* way, and its thread at work.
Unanswered(r) ==
    LET t == <<request[r].message, request[r].number>>
    IN  /\ request[r].pc = "wait"
        /\ post' = IF post[t].pc = "answer" THEN [post EXCEPT ![t] = Gone] ELSE post
        /\ Go(r, AfterFailure(r))
        /\ UNCHANGED <<fixed, sent, outbox, submitted, delivery, risked, faults>>

\* Fault for DeliveredIsTrue: acceptance is taken for delivery
RecordedOptimistic(m, status) ==
    IF kind[m] = "slot" /\ status \in {"accepted", "queued"} THEN "delivered" ELSE status

\* An answer that is ok: the slot service calls everything in flight "sent"
Recorded(m, status) ==
    IF kind[m] = "slot" /\ status \in {"accepted", "queued"} THEN "sent" ELSE status

Save(r) ==
    LET m == request[r].message
    IN  /\ request[r].pc = "save"
        /\ sent' = [sent EXCEPT ![m] = Recorded(m, request[r].answer.status)]
        /\ End(r)
        /\ UNCHANGED <<fixed, farmVars, faults>>

Give(r) ==
    /\ request[r].pc = "give"
    /\ sent' = [sent EXCEPT ![request[r].message] = "failed"]
    /\ End(r)
    /\ UNCHANGED <<fixed, farmVars, faults>>

\* A restart of the VPS: stored messages stay, nothing dispatches them again
VpsCrash ==
    /\ MayFail
    /\ vpsCrashes' = vpsCrashes + 1
    /\ request' = [r \in Requests |->
                      IF request[r].pc = "idle" THEN request[r]
                      ELSE [NoRequest EXCEPT !.pc = "over"]]
    /\ UNCHANGED <<fixed, sent, farmVars, starts, farmCrashes>>

--------------------------------------------------------------------------------
(* The Farm Agent *)

At(t, pc) == post[t].pc = pc
Goto(t, pc) == post' = [post EXCEPT ![t] = [@ EXCEPT !.pc = pc]]
Awaited(t) == \E r \in Requests :
    request[r].pc = "wait" /\ <<request[r].message, request[r].number>> = t

\* A thread ends with its answer, or finds the connection closed
Reply(t, answer) ==
    post' = [post EXCEPT ![t] =
        IF Awaited(t) THEN [Idle EXCEPT !.pc = "answer", !.answer = answer] ELSE Gone]
Write(m, row) == outbox' = [outbox EXCEPT ![m] = row]

\* do_POST; a bay whose rental is disabled, a slot without number or an agent
\* without configuration is refused before the outbox is looked at
Arrive(t) ==
    /\ At(t, "flying")
    /\ Goto(t, "load") \/ Reply(t, Hard("none")) \/ Reply(t, Soft)
    /\ UNCHANGED <<fixed, vpsVars, outbox, submitted, delivery, risked, faults>>

\* Another post of the message has found no row and not reserved yet
Rival(t) == \E u \in Posts \ {t} : Of(u) = Of(t) /\ At(u, "reserve")

\* create_durable_sms_outbox, and the duplicate check on that copy
Load(t) ==
    /\ At(t, "load")
    /\ \/ outbox[Of(t)].final = "none" /\ Goto(t, "reserve")
       \/ outbox[Of(t)].final # "none" /\ Reply(t, Ok(outbox[Of(t)].final))
    /\ risked' = risked \cup
           (IF outbox[Of(t)].final = "none" /\ Rival(t) THEN {Of(t)} ELSE {})
    /\ UNCHANGED <<fixed, vpsVars, outbox, submitted, delivery, faults>>

\* Where send_for_slot goes from its reservation
Reserved == {"refuse"} \cup (IF setup # "dry" THEN {"submit"} ELSE {"dry"})

\* Fault for OutboxRemembers: the row is kept in memory only
ReserveInMemory(t) ==
    /\ At(t, "reserve")
    /\ \E pc \in Reserved :
          post' = [post EXCEPT ![t] = [@ EXCEPT !.pc = pc, !.copy = "queued"]]
    /\ UNCHANGED <<fixed, vpsVars, outbox, submitted, delivery, risked, faults>>

\* SmsOutbox.reserve looks for the key in the copy, which does not have it,
\* and upserts; _record_blocked reserves as well
Reserve(t) ==
    /\ At(t, "reserve")
    /\ \E pc \in Reserved :
          post' = [post EXCEPT ![t] = [@ EXCEPT !.pc = pc, !.copy = "queued"]]
    /\ Write(Of(t), [final |-> "queued", id |-> FALSE])
    /\ UNCHANGED <<fixed, vpsVars, submitted, delivery, risked, faults>>

\* BLOCKED and DRY_RUN leave final_status as it is
RefuseOrDryRun(t) ==
    /\ At(t, "refuse") \/ At(t, "dry")
    /\ Write(Of(t), [final |-> post[t].copy, id |-> FALSE])
    /\ Reply(t, Hard(post[t].copy))
    /\ UNCHANGED <<fixed, vpsVars, submitted, delivery, risked, faults>>

Taken(m) ==
    /\ submitted' = [submitted EXCEPT ![m] = @ + 1]
    /\ delivery' = [delivery EXCEPT ![m] = "pending"]

\* One call of the provider.  An unclear answer is never retried; an error of
\* the connection is, and may come after the provider has taken the message.
Submit(t) ==
    /\ At(t, "submit")
    /\ post[t].tries < MaxTries
    /\ \/ Taken(Of(t)) /\ Goto(t, "accept") /\ UNCHANGED risked
       \/ /\ Taken(Of(t)) \/ UNCHANGED <<submitted, delivery>>
          /\ \E again \in {"submit", "settle"} :
                /\ again = "submit" => post[t].tries + 1 < MaxTries
                /\ post' = [post EXCEPT ![t] =
                       [@ EXCEPT !.pc = again, !.tries = post[t].tries + 1]]
                /\ risked' = risked \cup (IF again = "submit" THEN {Of(t)} ELSE {})
    /\ UNCHANGED <<fixed, vpsVars, outbox, faults>>

\* UNKNOWN keeps final_status, FAILED sets it
Settle(t) ==
    /\ At(t, "settle")
    /\ \E final \in {"queued", "failed"} :
          /\ Write(Of(t), [final |-> final, id |-> FALSE])
          /\ Reply(t, Hard(final))
    /\ UNCHANGED <<fixed, vpsVars, submitted, delivery, risked, faults>>

\* CONFIRMED with the provider's id
Accept(t) ==
    /\ At(t, "accept")
    /\ Write(Of(t), [final |-> "accepted", id |-> TRUE])
    /\ post' = [post EXCEPT ![t] =
           IF setup = "polling"
           THEN [@ EXCEPT !.pc = "poll", !.copy = "accepted"]
           ELSE [@ EXCEPT !.pc = "answer", !.copy = "accepted", !.answer = Ok("accepted")]]
    /\ UNCHANGED <<fixed, vpsVars, submitted, delivery, risked, faults>>

\* Fault for TypeOK: the provider's word is stored as it is
SeenVerbatim(t) == {delivery[Of(t)]}

\* What on_poll writes: the provider's report, or the copy if it has no row yet
Seen(t) ==
    CASE delivery[Of(t)] = "delivered" -> {"delivered"}
      [] delivery[Of(t)] = "failed"    -> {"failed"}
      [] OTHER                         -> {"sent", post[t].copy}

\* One round of poll_until_terminal; "final" is also the deadline
Poll(t) ==
    /\ At(t, "poll")
    /\ \E final \in Seen(t) :
          /\ Write(Of(t), [final |-> final, id |-> TRUE])
          /\ \E pc \in {"poll", "final"} :
                /\ final \in {"delivered", "failed"} => pc = "final"
                /\ post' = [post EXCEPT ![t] = [@ EXCEPT !.pc = pc, !.copy = final]]
    /\ UNCHANGED <<fixed, vpsVars, submitted, delivery, risked, faults>>

\* The update after the poll; a resumed poll answers nobody
Final(t) ==
    LET final == IF post[t].copy \in Terminal THEN post[t].copy ELSE "timeout"
    IN  /\ At(t, "final")
        /\ Write(Of(t), [final |-> final, id |-> TRUE])
        /\ IF final = "delivered" THEN Reply(t, Ok(final)) ELSE Reply(t, Hard(final))
        /\ UNCHANGED <<fixed, vpsVars, submitted, delivery, risked, faults>>

\* read-messages.php fails: the exception ends the thread without an answer
PollRaises(t) ==
    /\ At(t, "poll")
    /\ post' = [post EXCEPT ![t] = Gone]
    /\ UNCHANGED <<fixed, vpsVars, outbox, submitted, delivery, risked, faults>>

FarmCrash ==
    /\ MayFail
    /\ farmCrashes' = farmCrashes + 1
    /\ post' = [t \in Posts |->
                   IF t[2] = 0 \/ post[t].pc \in {"absent", "answer"} THEN post[t] ELSE Gone]
    /\ UNCHANGED <<fixed, vpsVars, outbox, submitted, delivery, risked, starts, vpsCrashes>>

Resumable(m) == outbox[m].id /\ outbox[m].final \notin Terminal

\* Fault for AtMostOnce: a row left in flight is submitted again
StartSubmitting ==
    /\ MayFail
    /\ starts' = starts + 1
    /\ post' = [t \in Posts |->
                   IF t[2] # 0 THEN post[t]
                   ELSE IF outbox[Of(t)].final # "none" /\ outbox[Of(t)].final \notin Terminal
                   THEN [Idle EXCEPT !.pc = "submit", !.copy = outbox[Of(t)].final]
                   ELSE Idle]
    /\ UNCHANGED <<fixed, vpsVars, outbox, submitted, delivery, risked, farmCrashes, vpsCrashes>>

\* main.py starts: resume_inflight_delivery_tracking
Start ==
    /\ MayFail
    /\ starts' = starts + 1
    /\ post' = [t \in Posts |->
                   IF t[2] # 0 THEN post[t]
                   ELSE IF Resumable(Of(t))
                   THEN [Idle EXCEPT !.pc = "poll", !.copy = outbox[Of(t)].final]
                   ELSE Idle]
    /\ UNCHANGED <<fixed, vpsVars, outbox, submitted, delivery, risked, farmCrashes, vpsCrashes>>

\* The provider
Deliver(m) ==
    /\ delivery[m] = "pending"
    /\ \E report \in {"delivered", "failed"} :
          delivery' = [delivery EXCEPT ![m] = report]
    /\ UNCHANGED <<fixed, vpsVars, post, outbox, submitted, risked, faults>>

--------------------------------------------------------------------------------
Dispatch(r) ==
    Lookup(r) \/ Insert(r) \/ Spawn(r) \/ Mark(r) \/ Send(r)
    \/ Answered(r) \/ Unanswered(r) \/ Save(r) \/ Give(r)

Handle(t) ==
    Arrive(t) \/ Load(t) \/ Reserve(t) \/ RefuseOrDryRun(t) \/ Submit(t)
    \/ Settle(t) \/ Accept(t) \/ Poll(t) \/ Final(t) \/ PollRaises(t)

Next ==
    \/ \E r \in Requests, m \in Messages : Ask(r, m)
    \/ \E r \in Requests : Dispatch(r)
    \/ \E t \in Posts : Handle(t)
    \/ \E m \in Messages : Deliver(m)
    \/ VpsCrash \/ FarmCrash \/ Start

Spec == Init /\ [][Next]_vars

\* The dispatchers run, and a wait ends by an answer or its timeout; of the
\* Farm Agent nothing is needed.
Fairness == \A r \in Requests : WF_vars(Dispatch(r))

FairSpec == Spec /\ Fairness

--------------------------------------------------------------------------------
(* Properties *)

\* Every variable has the type the code gives it.
TypeOK ==
    /\ kind \in [Messages -> {"slot", "reply"}]
    /\ setup \in {"dry", "live", "polling"}
    /\ sent \in [Messages -> Statuses]
    /\ request \in [Requests -> Request]
    /\ post \in [Posts -> Post]
    /\ outbox \in [Messages -> Row]
    /\ submitted \in [Messages -> Nat]
    /\ delivery \in [Messages -> {"unknown", "pending", "delivered", "failed"}]
    /\ risked \subseteq Messages
    /\ starts \in Nat /\ farmCrashes \in Nat /\ vpsCrashes \in Nat

\* A message the provider took has a row in the durable outbox, whatever
\* crashed since: this row is what stops a later post of the same key.
OutboxRemembers == \A m \in Messages : submitted[m] > 0 => outbox[m].final # "none"

\* "delivered" is shown, on either side, only if the provider reported it; no
\* acceptance, timeout or duplicate answer is taken for a delivery.  Of a message
\* whose second submission was risked, the provider may know two.
DeliveredIsTrue ==
    \A m \in Messages \ risked :
        sent[m] = "delivered" \/ outbox[m].final = "delivered"
            => delivery[m] = "delivered"

\* Both sides' books agree with the provider's.
DeliveryInv == TypeOK /\ OutboxRemembers /\ DeliveredIsTrue

Shown(status) ==
    IF status \in Open THEN "open" ELSE status

\* Where a second submission was risked, it counts as one.
Counted(m) == IF m \in risked /\ submitted[m] > 1 THEN 1 ELSE submitted[m]

Promise == INSTANCE SmsPromise
    WITH Verdicts <- Finals \ {"queued"},
         shown <- [m \in Messages |-> Shown(sent[m])],
         submissions <- [m \in Messages |-> Counted(m)]

\* Posts that are retried, duplicated requests, restarts on both sides and
\* resumed polls never hand a message to the provider twice: the ways to that are
\* a post that comes between another's look into the outbox and its reservation,
\* and, with more than one try, the one after a failure.
AtMostOnce == Promise!Spec

\* A reply's job may end as "queued", the status a duplicate answer carries.
InFlight(m) == sent[m] = "sending" \/ (kind[m] = "slot" /\ sent[m] = "queued")

\* Whatever the farm answers, fails to answer or forgets, a message in flight
\* gets a verdict, unless the VPS is restarted under it.
ReportComes ==
    \A m \in Messages : InFlight(m) ~> ~InFlight(m) \/ vpsCrashes > 0
================================================================================
