--------------------------- MODULE SmsDeliveryProofs ---------------------------
(* Theorems about SmsDelivery, for any messages, requests, posts and faults. *)
EXTENDS SmsDelivery, TLAPS

\* A row that is resumed has a status, and so has a thread that has reserved; an
\* answer that is ok tells one.
Rows ==
    /\ \A m \in Messages : outbox[m].id => outbox[m].final # "none"
    /\ \A t \in Posts : post[t].pc \in Working
           => outbox[Of(t)].final # "none" /\ post[t].copy # "none"
    /\ \A t \in Posts : post[t].answer.code = "ok" => post[t].answer.status # "none"

\* A request at work has a message, and the answer it is about to save.
Requested ==
    /\ \A r \in Requests : request[r].pc \notin {"idle", "over"}
           => request[r].message \in Messages
    /\ \A r \in Requests : request[r].pc = "save"
           => request[r].answer.code = "ok" /\ request[r].answer.status # "none"

\* What does not depend on what was risked
OutboxInv == TypeOK /\ Rows /\ Requested /\ OutboxRemembers

Dispatching == {"spawn", "mark", "post", "wait", "save", "give"}

\* A message in flight has one dispatcher.
Dispatchers ==
    /\ \A r \in Requests : request[r].pc \in Dispatching
           => sent[request[r].message] \in Open
    /\ \A r, q \in Requests :
           /\ request[r].pc \in Dispatching /\ request[q].pc \in Dispatching
           /\ request[r].message = request[q].message
           => r = q

\* Unless it was risked, one post of a message finds no row, and it is the only
\* one that submits.
OneSubmits ==
    /\ \A t \in Posts : Of(t) \in risked \/
           /\ post[t].pc = "reserve" => outbox[Of(t)].final = "none"
           /\ post[t].pc = "submit" => submitted[Of(t)] = 0
    /\ \A t, u \in Posts : Of(t) = Of(u) => Of(t) \in risked \/
           /\ post[t].pc = "reserve" /\ post[u].pc = "reserve" => t = u
           /\ post[t].pc = "submit" /\ post[u].pc = "submit" => t = u

\* The farm knows only messages that are shown.
Asked ==
    /\ \A t \in Posts : post[t].pc \in Early \cup Working => sent[Of(t)] # "none"
    /\ \A m \in Messages : outbox[m].final # "none" => sent[m] # "none"

\* Whoever has "delivered" in hand has it from the provider.
Told ==
    /\ \A m \in Messages : submitted[m] = 0 => delivery[m] = "unknown"
    /\ \A t \in Posts : post[t].copy = "delivered" \/ post[t].answer.status = "delivered"
           => Of(t) \in risked \/ delivery[Of(t)] = "delivered"
    /\ \A r \in Requests : request[r].answer.status = "delivered"
           => /\ request[r].pc # "idle" /\ request[r].message \in Messages
              /\ \/ request[r].message \in risked
                 \/ delivery[request[r].message] = "delivered"

\* The inductive invariant
IInv == OutboxInv /\ Dispatchers /\ OneSubmits /\ Asked /\ Told /\ DeliveredIsTrue

--------------------------------------------------------------------------------
(* Posts and answers *)

\* A post is of a message.
LEMMA PostsAre ==
  /\ \A t \in Posts : Of(t) \in Messages
  /\ \A m \in Messages, n \in 0..MaxPosts : <<m, n>> \in Posts /\ Of(<<m, n>>) = m
  BY DEF Posts, Of

\* The records a post starts and ends with
LEMMA IdleGone ==
  /\ Idle \in Post /\ Idle.pc = "absent" /\ Idle.copy = "none" /\ Idle.answer = NoAnswer
  /\ Gone \in Post /\ Gone.pc = "dead" /\ Gone.copy = "none" /\ Gone.answer = NoAnswer
  /\ Idle.tries = 0 /\ Gone.tries = 0
  /\ NoAnswer \in Answers /\ NoAnswer.code = "none" /\ NoAnswer.status = "none"
  BY SmsAssumption DEF Idle, Gone, Post, NoAnswer, Answers, Early, Working

\* The answers of the Farm Agent
LEMMA AnswersAre ==
  /\ \A s \in {"none"} \cup Finals :
        /\ Ok(s) \in Answers /\ Ok(s).code = "ok" /\ Ok(s).status = s
        /\ Hard(s) \in Answers /\ Hard(s).code = "hard" /\ Hard(s).status = s
  /\ Soft \in Answers /\ Soft.code = "soft" /\ Soft.status = "none"
  BY DEF Answers, Ok, Hard, Soft

\* A thread that ends leaves its answer, or nothing.
LEMMA ReplyEnds ==
  ASSUME NEW t \in Posts, NEW answer \in Answers, Reply(t, answer)
  PROVE  \E x \in Post :
            /\ post' = [post EXCEPT ![t] = x]
            /\ x.pc \in {"answer", "dead"} /\ x.copy = "none"
            /\ x.answer \in {answer, NoAnswer}
            /\ x.pc = "answer" => Awaited(t)
<1> DEFINE y == [Idle EXCEPT !.pc = "answer", !.answer = answer]
<1>0. "answer" \in {"absent", "answer", "dead"} \cup Early \cup Working
  OBVIOUS
<1>1. y \in Post /\ y.pc = "answer" /\ y.copy = "none" /\ y.answer = answer
  BY <1>0, IdleGone DEF Post
<1>2. post' = [post EXCEPT ![t] = IF Awaited(t) THEN y ELSE Gone]
  BY DEF Reply
<1> HIDE DEF y
<1>3. CASE Awaited(t)
  BY <1>1, <1>2, <1>3
<1>4. CASE ~Awaited(t)
  BY <1>2, <1>4, IdleGone
<1> QED
  BY <1>3, <1>4

\* A thread that goes on keeps what it has.
LEMMA GotoMoves ==
  ASSUME NEW t \in Posts, post[t] \in Post,
         NEW pc \in {"absent", "answer", "dead"} \cup Early \cup Working, Goto(t, pc)
  PROVE  \E x \in Post :
            /\ post' = [post EXCEPT ![t] = x]
            /\ x.pc = pc /\ x.copy = post[t].copy /\ x.answer = post[t].answer
            /\ x.tries = post[t].tries
<1> DEFINE x == [post[t] EXCEPT !.pc = pc]
<1>1. x \in Post /\ x.pc = pc /\ x.copy = post[t].copy /\ x.answer = post[t].answer
      /\ x.tries = post[t].tries
  BY DEF Post
<1>2. post' = [post EXCEPT ![t] = x]
  BY DEF Goto
<1> QED
  BY <1>1, <1>2

--------------------------------------------------------------------------------
(* What a step of a Farm Agent thread does, whichever it is *)

\* The step of t leaves it as x and the row of its message as row; a row is never
\* forgotten, and whoever goes on after the reservation has one.
Handled(t, x, row) ==
    /\ x \in Post /\ row \in Row
    /\ post' = [post EXCEPT ![t] = x]
    /\ outbox' = [outbox EXCEPT ![Of(t)] = row]
    /\ post[t].pc \in Early \cup Working
    /\ row.final = "none" => outbox[Of(t)].final = "none"
    /\ outbox[Of(t)].final = "none" /\ row.final # "none" => post[t].pc = "reserve"
    /\ row.id => row.final # "none"
    /\ x.pc \in Working => row.final # "none" /\ x.copy # "none"
    /\ x.answer.code = "ok" => x.answer.status # "none"
    /\ x.pc \in Early => post[t].pc \in Early
    /\ x.pc = "reserve" => row.final = "none" /\ (Rival(t) => Of(t) \in risked')
    /\ x.pc = "submit" => post[t].pc = "reserve" \/ Of(t) \in risked'
    /\ \/ risked' = risked
       \/ /\ risked' = risked \cup {Of(t)}
          /\ outbox[Of(t)].final = "none" \/ post[t].pc = "submit"
    /\ \/ UNCHANGED <<submitted, delivery>>
       \/ post[t].pc = "submit" /\ Taken(Of(t))
    /\ UNCHANGED <<kind, setup, sent, request, starts, farmCrashes, vpsCrashes>>

\* The step puts "delivered" nowhere unless the provider has said it.
Truthful(t, x, row) ==
    x.copy = "delivered" \/ x.answer.status = "delivered" \/ row.final = "delivered"
    => Of(t) \in risked \/ (delivery[Of(t)] = "delivered" /\ post[t].pc # "submit")

\* What the facts about one thread are, where they are needed
LEMMA ThreadOf ==
  ASSUME TypeOK, NEW t \in Posts
  PROVE  /\ Of(t) \in Messages /\ post[t] \in Post /\ outbox[Of(t)] \in Row
         /\ post[t].pc \in {"absent", "answer", "dead"} \cup Early \cup Working
         /\ post[t].copy \in {"none"} \cup Finals
         /\ post[t].answer \in Answers
         /\ outbox[Of(t)].final \in {"none"} \cup Finals
  BY PostsAre DEF TypeOK, Post, Row

\* A row that is written
LEMMA RowsAre ==
  /\ \A final \in {"none"} \cup Finals, id \in BOOLEAN :
        /\ [final |-> final, id |-> id] \in Row
        /\ [final |-> final, id |-> id].final = final
        /\ [final |-> final, id |-> id].id = id
  BY DEF Row

\* A step that writes no row keeps the one there is.
LEMMA RowKept ==
  ASSUME TypeOK, NEW t \in Posts, UNCHANGED outbox
  PROVE  outbox' = [outbox EXCEPT ![Of(t)] = outbox[Of(t)]]
  BY DEF TypeOK

\* A thread past its reservation has a row.
LEMMA WorkedRow ==
  ASSUME OutboxInv
  PROVE  \A t \in Posts : post[t].pc \in Working => outbox[Of(t)].final # "none"
  BY DEF OutboxInv, Rows

\* do_POST
LEMMA ArriveHandled ==
  ASSUME OutboxInv, NEW t \in Posts, Arrive(t)
  PROVE  \E x \in Post, row \in Row :
            Handled(t, x, row) /\ (Told /\ DeliveredIsTrue => Truthful(t, x, row))
<1> DEFINE row == outbox[Of(t)]
<1>1. /\ TypeOK /\ post[t].pc = "flying"
      /\ outbox' = [outbox EXCEPT ![Of(t)] = row]
      /\ UNCHANGED <<kind, setup, sent, request, submitted, delivery, risked,
                    starts, farmCrashes, vpsCrashes>>
  BY RowKept DEF OutboxInv, Arrive, At, fixed, vpsVars, faults
<1>2. row \in Row /\ (row.id => row.final # "none")
  BY <1>1, ThreadOf DEF OutboxInv, Rows
<1>3. PICK x \in Post :
         /\ post' = [post EXCEPT ![t] = x]
         /\ \/ x.pc = "load" /\ x.copy = post[t].copy /\ x.answer = post[t].answer
            \/ /\ x.pc \in {"answer", "dead"} /\ x.copy = "none"
               /\ x.answer \in {Hard("none"), Soft, NoAnswer}
  <2>1. CASE Goto(t, "load")
    BY <2>1, <1>1, GotoMoves, ThreadOf DEF Early
  <2>2. CASE Reply(t, Hard("none"))
    BY <2>2, ReplyEnds, AnswersAre
  <2>3. CASE Reply(t, Soft)
    BY <2>3, ReplyEnds, AnswersAre
  <2> QED
    BY <2>1, <2>2, <2>3 DEF Arrive
<1>4. x.answer.code = "ok" => x.answer.status # "none"
  BY <1>3, AnswersAre, IdleGone DEF OutboxInv, Rows
<1>5. Handled(t, x, row)
  BY <1>1, <1>2, <1>3, <1>4 DEF Handled, Early, Working
<1>6. ASSUME Told, DeliveredIsTrue PROVE Truthful(t, x, row)
  BY <1>1, <1>3, <1>6, ThreadOf, AnswersAre, IdleGone DEF Truthful, Told, DeliveredIsTrue
<1> QED
  BY <1>2, <1>5, <1>6

\* The duplicate check
LEMMA LoadHandled ==
  ASSUME OutboxInv, NEW t \in Posts, Load(t)
  PROVE  \E x \in Post, row \in Row :
            Handled(t, x, row) /\ (Told /\ DeliveredIsTrue => Truthful(t, x, row))
<1> DEFINE row == outbox[Of(t)]
<1>1. /\ TypeOK /\ post[t].pc = "load"
      /\ outbox' = [outbox EXCEPT ![Of(t)] = row]
      /\ UNCHANGED <<kind, setup, sent, request, submitted, delivery,
                    starts, farmCrashes, vpsCrashes>>
  BY RowKept DEF OutboxInv, Load, At, fixed, vpsVars, faults
<1>2. row \in Row /\ (row.id => row.final # "none")
  BY <1>1, ThreadOf DEF OutboxInv, Rows
<1>3. PICK x \in Post :
         /\ post' = [post EXCEPT ![t] = x]
         /\ \/ /\ x.pc = "reserve" /\ x.copy = post[t].copy /\ x.answer = post[t].answer
               /\ row.final = "none" /\ (Rival(t) => Of(t) \in risked')
            \/ /\ x.pc \in {"answer", "dead"} /\ x.copy = "none"
               /\ x.answer \in {Ok(row.final), NoAnswer} /\ row.final # "none"
  <2>1. CASE row.final = "none"
    <3>1. Goto(t, "reserve")
      BY <2>1 DEF Load
    <3>2. Rival(t) => Of(t) \in risked'
      BY <2>1 DEF Load
    <3> QED
      BY <2>1, <1>1, <3>1, <3>2, GotoMoves, ThreadOf DEF Early
  <2>2. CASE row.final # "none"
    BY <2>2, <1>1, ReplyEnds, AnswersAre, ThreadOf DEF Load
  <2> QED
    BY <2>1, <2>2
<1>4. x.answer.code = "ok" => x.answer.status # "none"
  BY <1>1, <1>3, AnswersAre, IdleGone, ThreadOf DEF OutboxInv, Rows
<1>5. Handled(t, x, row)
  <2>1. risked' = risked \/ (risked' = risked \cup {Of(t)} /\ row.final = "none")
    BY DEF Load
  <2> QED
    BY <1>1, <1>2, <1>3, <1>4, <2>1 DEF Handled, Early, Working
<1>6. ASSUME Told, DeliveredIsTrue PROVE Truthful(t, x, row)
  BY <1>1, <1>3, <1>6, ThreadOf, AnswersAre, IdleGone DEF Truthful, Told, DeliveredIsTrue
<1> QED
  BY <1>2, <1>5, <1>6

\* The reservation
LEMMA ReserveHandled ==
  ASSUME OutboxInv, NEW t \in Posts, Reserve(t)
  PROVE  \E x \in Post, row \in Row :
            Handled(t, x, row) /\ (Told /\ DeliveredIsTrue => Truthful(t, x, row))
<1> DEFINE row == [final |-> "queued", id |-> FALSE]
<1>1. /\ TypeOK /\ post[t].pc = "reserve"
      /\ outbox' = [outbox EXCEPT ![Of(t)] = row]
      /\ UNCHANGED <<kind, setup, sent, request, submitted, delivery, risked,
                    starts, farmCrashes, vpsCrashes>>
  BY DEF OutboxInv, Reserve, Write, At, fixed, vpsVars, faults
<1>2. row \in Row /\ row.final = "queued" /\ ~row.id
  BY DEF Row, Finals
<1> HIDE DEF row
<1>3. PICK pc \in Reserved : post' = [post EXCEPT ![t] = [@ EXCEPT !.pc = pc, !.copy = "queued"]]
  BY DEF Reserve
<1> DEFINE x == [post[t] EXCEPT !.pc = pc, !.copy = "queued"]
<1>4. /\ pc \in {"refuse", "dry", "submit"}
      /\ pc \in {"absent", "answer", "dead"} \cup Early \cup Working
      /\ "queued" \in {"none"} \cup Finals
  BY <1>3 DEF Reserved, Working, Finals
<1>5. /\ x \in Post /\ x.pc = pc /\ x.copy = "queued" /\ x.answer = post[t].answer
      /\ post' = [post EXCEPT ![t] = x]
  BY <1>1, <1>3, <1>4, ThreadOf DEF Post
<1> HIDE DEF x
<1>6. Handled(t, x, row)
  <2>1. x.answer.code = "ok" => x.answer.status # "none"
    BY <1>5 DEF OutboxInv, Rows
  <2> QED
    BY <1>1, <1>2, <1>4, <1>5, <2>1 DEF Handled, Early, Working
<1>7. ASSUME Told, DeliveredIsTrue PROVE Truthful(t, x, row)
  BY <1>1, <1>2, <1>5, <1>7 DEF Truthful, Told
<1> QED
  BY <1>2, <1>5, <1>6, <1>7

\* The blocked message and the dry run
LEMMA RefuseHandled ==
  ASSUME OutboxInv, NEW t \in Posts, RefuseOrDryRun(t)
  PROVE  \E x \in Post, row \in Row :
            Handled(t, x, row) /\ (Told /\ DeliveredIsTrue => Truthful(t, x, row))
<1> DEFINE row == [final |-> post[t].copy, id |-> FALSE]
<1>1. /\ TypeOK /\ post[t].pc \in {"refuse", "dry"}
      /\ outbox' = [outbox EXCEPT ![Of(t)] = row]
      /\ UNCHANGED <<kind, setup, sent, request, submitted, delivery, risked,
                    starts, farmCrashes, vpsCrashes>>
  BY DEF OutboxInv, RefuseOrDryRun, Write, At, fixed, vpsVars, faults
<1>2. row \in Row /\ row.final = post[t].copy /\ row.final # "none" /\ ~row.id
  BY <1>1, ThreadOf, RowsAre DEF OutboxInv, Rows, Working
<1> HIDE DEF row
<1>3. PICK x \in Post :
         /\ post' = [post EXCEPT ![t] = x]
         /\ x.pc \in {"answer", "dead"} /\ x.copy = "none"
         /\ x.answer \in {Hard(post[t].copy), NoAnswer}
  BY <1>1, ReplyEnds, AnswersAre, ThreadOf DEF RefuseOrDryRun
<1>4. Handled(t, x, row)
  BY <1>1, <1>2, <1>3, AnswersAre, IdleGone, ThreadOf, WorkedRow DEF Handled, Early, Working
<1>5. ASSUME Told, DeliveredIsTrue PROVE Truthful(t, x, row)
  <2>1. x.answer.status \in {post[t].copy, "none"}
    BY <1>1, <1>3, AnswersAre, IdleGone, ThreadOf
  <2> QED
    BY <1>1, <1>2, <1>3, <1>5, <2>1 DEF Truthful, Told
<1> QED
  BY <1>2, <1>4, <1>5

\* UNKNOWN and FAILED
LEMMA SettleHandled ==
  ASSUME OutboxInv, NEW t \in Posts, Settle(t)
  PROVE  \E x \in Post, row \in Row :
            Handled(t, x, row) /\ (Told /\ DeliveredIsTrue => Truthful(t, x, row))
<1>1. /\ TypeOK /\ post[t].pc = "settle"
      /\ UNCHANGED <<kind, setup, sent, request, submitted, delivery, risked,
                    starts, farmCrashes, vpsCrashes>>
  BY DEF OutboxInv, Settle, At, fixed, vpsVars, faults
<1>2. PICK final \in {"queued", "failed"} :
         Write(Of(t), [final |-> final, id |-> FALSE]) /\ Reply(t, Hard(final))
  BY DEF Settle
<1> DEFINE row == [final |-> final, id |-> FALSE]
<1>3. row \in Row /\ row.final = final /\ ~row.id /\ outbox' = [outbox EXCEPT ![Of(t)] = row]
  BY <1>2 DEF Row, Finals, Write
<1> HIDE DEF row
<1>4. PICK x \in Post :
         /\ post' = [post EXCEPT ![t] = x]
         /\ x.pc \in {"answer", "dead"} /\ x.copy = "none"
         /\ x.answer \in {Hard(final), NoAnswer}
  BY <1>2, ReplyEnds, AnswersAre DEF Finals
<1>5. x.answer.code # "ok" /\ x.answer.status # "delivered"
  BY <1>4, AnswersAre, IdleGone DEF Finals
<1>6. Handled(t, x, row)
  BY <1>1, <1>3, <1>4, <1>5, WorkedRow DEF Handled, Early, Working
<1>7. Truthful(t, x, row)
  BY <1>3, <1>4, <1>5 DEF Truthful
<1> QED
  BY <1>3, <1>6, <1>7

\* One call of the provider
LEMMA SubmitHandled ==
  ASSUME OutboxInv, NEW t \in Posts, Submit(t)
  PROVE  \E x \in Post, row \in Row :
            /\ Handled(t, x, row)
            /\ Told /\ submitted[Of(t)] = 0 /\ Of(t) \notin risked => x.copy # "delivered"
            /\ x.answer = post[t].answer /\ row = outbox[Of(t)]
<1> DEFINE row == outbox[Of(t)]
<1>1. /\ TypeOK /\ post[t].pc = "submit" /\ post[t].tries < MaxTries
      /\ outbox' = [outbox EXCEPT ![Of(t)] = row]
      /\ UNCHANGED <<kind, setup, sent, request, starts, farmCrashes, vpsCrashes>>
  BY RowKept DEF OutboxInv, Submit, At, fixed, vpsVars, faults
<1>2. /\ row \in Row /\ (row.id => row.final # "none")
      /\ row.final # "none" /\ post[t].copy # "none"
  BY <1>1, ThreadOf DEF OutboxInv, Rows, Working
<1>3. \/ Taken(Of(t)) \/ UNCHANGED <<submitted, delivery>>
  BY DEF Submit
<1>4. PICK x \in Post :
         /\ post' = [post EXCEPT ![t] = x]
         /\ x.copy = post[t].copy /\ x.answer = post[t].answer
         /\ x.pc \in {"accept", "submit", "settle"}
         /\ x.pc = "submit" => Of(t) \in risked'
         /\ risked' = risked \/ risked' = risked \cup {Of(t)}
  <2>1. CASE Goto(t, "accept") /\ UNCHANGED risked
    BY <2>1, <1>1, GotoMoves, ThreadOf DEF Working
  <2>2. CASE \E again \in {"submit", "settle"} :
                /\ again = "submit" => post[t].tries + 1 < MaxTries
                /\ post' = [post EXCEPT ![t] =
                       [@ EXCEPT !.pc = again, !.tries = post[t].tries + 1]]
                /\ risked' = risked \cup (IF again = "submit" THEN {Of(t)} ELSE {})
    <3>1. PICK again \in {"submit", "settle"} :
                /\ again = "submit" => post[t].tries + 1 < MaxTries
                /\ post' = [post EXCEPT ![t] =
                       [@ EXCEPT !.pc = again, !.tries = post[t].tries + 1]]
                /\ risked' = risked \cup (IF again = "submit" THEN {Of(t)} ELSE {})
      BY <2>2
    <3> DEFINE x == [post[t] EXCEPT !.pc = again, !.tries = post[t].tries + 1]
    <3>2. post[t].tries \in 0..MaxTries /\ post[t].tries + 1 \in 0..MaxTries
      BY <1>1, ThreadOf, SmsAssumption DEF Post
    <3>3. again \in {"absent", "answer", "dead"} \cup Early \cup Working
      BY DEF Working
    <3>4. /\ x \in Post /\ x.pc = again /\ x.copy = post[t].copy
          /\ x.answer = post[t].answer /\ post' = [post EXCEPT ![t] = x]
      BY <1>1, <3>1, <3>2, <3>3, ThreadOf DEF Post
    <3> HIDE DEF x
    <3>5. /\ again = "submit" => Of(t) \in risked'
          /\ risked' = risked \/ risked' = risked \cup {Of(t)}
      BY <3>1
    <3> QED
      BY <3>4, <3>5
  <2> QED
    BY <2>1, <2>2 DEF Submit
<1>5. x.answer.code = "ok" => x.answer.status # "none"
  BY <1>4 DEF OutboxInv, Rows
<1>6. Handled(t, x, row)
  BY <1>1, <1>2, <1>3, <1>4, <1>5 DEF Handled, Early, Working
<1>7. Told /\ submitted[Of(t)] = 0 /\ Of(t) \notin risked => x.copy # "delivered"
  BY <1>1, <1>4, ThreadOf DEF Told
<1> QED
  BY <1>2, <1>4, <1>6, <1>7

\* CONFIRMED
LEMMA AcceptHandled ==
  ASSUME OutboxInv, NEW t \in Posts, Accept(t)
  PROVE  \E x \in Post, row \in Row :
            Handled(t, x, row) /\ (Told /\ DeliveredIsTrue => Truthful(t, x, row))
<1> DEFINE row == [final |-> "accepted", id |-> TRUE]
           x == IF setup = "polling"
                THEN [post[t] EXCEPT !.pc = "poll", !.copy = "accepted"]
                ELSE [post[t] EXCEPT !.pc = "answer", !.copy = "accepted",
                                     !.answer = Ok("accepted")]
<1>1. /\ TypeOK /\ post[t].pc = "accept"
      /\ outbox' = [outbox EXCEPT ![Of(t)] = row]
      /\ UNCHANGED <<kind, setup, sent, request, submitted, delivery, risked,
                    starts, farmCrashes, vpsCrashes>>
  BY DEF OutboxInv, Accept, Write, At, fixed, vpsVars, faults
<1>2. row \in Row /\ row.final = "accepted"
  BY DEF Row, Finals
<1> HIDE DEF row
<1>3. post' = [post EXCEPT ![t] = x]
  BY <1>1, ThreadOf DEF Accept
<1>4. /\ "poll" \in {"absent", "answer", "dead"} \cup Early \cup Working
      /\ "answer" \in {"absent", "answer", "dead"} \cup Early \cup Working
      /\ "accepted" \in {"none"} \cup Finals
      /\ Ok("accepted") \in Answers /\ Ok("accepted").status = "accepted"
  BY AnswersAre DEF Working, Finals
<1>5. /\ x \in Post /\ x.pc \in {"poll", "answer"} /\ x.copy = "accepted"
      /\ x.answer \in {post[t].answer, Ok("accepted")}
  BY <1>1, <1>4, ThreadOf DEF Post
<1> HIDE DEF x
<1>6. x.answer.code = "ok" => x.answer.status # "none"
  BY <1>4, <1>5 DEF OutboxInv, Rows
<1>7. Handled(t, x, row)
  BY <1>1, <1>2, <1>3, <1>5, <1>6, WorkedRow DEF Handled, Early, Working
<1>8. ASSUME Told, DeliveredIsTrue PROVE Truthful(t, x, row)
  BY <1>1, <1>2, <1>4, <1>5, <1>8 DEF Truthful, Told
<1> QED
  BY <1>2, <1>5, <1>7, <1>8

\* A round of the poll
LEMMA PollHandled ==
  ASSUME OutboxInv, NEW t \in Posts, Poll(t)
  PROVE  \E x \in Post, row \in Row :
            Handled(t, x, row) /\ (Told /\ DeliveredIsTrue => Truthful(t, x, row))
<1>1. /\ TypeOK /\ post[t].pc = "poll" /\ post[t].copy # "none"
      /\ UNCHANGED <<kind, setup, sent, request, submitted, delivery, risked,
                    starts, farmCrashes, vpsCrashes>>
  BY DEF OutboxInv, Rows, Working, Poll, At, fixed, vpsVars, faults
<1>2. PICK final \in Seen(t), pc \in {"poll", "final"} :
         /\ Write(Of(t), [final |-> final, id |-> TRUE])
         /\ post' = [post EXCEPT ![t] = [@ EXCEPT !.pc = pc, !.copy = final]]
  BY DEF Poll
<1> DEFINE row == [final |-> final, id |-> TRUE]
           x == [post[t] EXCEPT !.pc = pc, !.copy = final]
<1>3. final \in Finals /\ (final = "delivered" => delivery[Of(t)] = "delivered" \/ post[t].copy = "delivered")
  BY <1>1, ThreadOf DEF Seen, Finals
<1>4. row \in Row /\ row.final = final /\ outbox' = [outbox EXCEPT ![Of(t)] = row]
  BY <1>2, <1>3 DEF Row, Write
<1>5. /\ pc \in {"absent", "answer", "dead"} \cup Early \cup Working
      /\ final \in {"none"} \cup Finals /\ final # "none"
  BY <1>3 DEF Working, Finals
<1>6. /\ x \in Post /\ x.pc = pc /\ x.copy = final /\ x.answer = post[t].answer
      /\ post' = [post EXCEPT ![t] = x]
  BY <1>1, <1>2, <1>5, ThreadOf DEF Post
<1> HIDE DEF x, row
<1>7. x.answer.code = "ok" => x.answer.status # "none"
  BY <1>6 DEF OutboxInv, Rows
<1>8. Handled(t, x, row)
  BY <1>1, <1>4, <1>5, <1>6, <1>7, WorkedRow DEF Handled, Early, Working
<1>9. ASSUME Told, DeliveredIsTrue PROVE Truthful(t, x, row)
  BY <1>1, <1>3, <1>4, <1>6, <1>9 DEF Truthful, Told
<1> QED
  BY <1>4, <1>6, <1>8, <1>9

\* The update after the poll
LEMMA FinalHandled ==
  ASSUME OutboxInv, NEW t \in Posts, Final(t)
  PROVE  \E x \in Post, row \in Row :
            Handled(t, x, row) /\ (Told /\ DeliveredIsTrue => Truthful(t, x, row))
<1> DEFINE final == IF post[t].copy \in Terminal THEN post[t].copy ELSE "timeout"
           row == [final |-> final, id |-> TRUE]
<1>1. /\ TypeOK /\ post[t].pc = "final" /\ post[t].copy # "none"
      /\ outbox' = [outbox EXCEPT ![Of(t)] = row]
      /\ UNCHANGED <<kind, setup, sent, request, submitted, delivery, risked,
                    starts, farmCrashes, vpsCrashes>>
  BY DEF OutboxInv, Rows, Working, Final, Write, At, fixed, vpsVars, faults
<1>2. final \in Finals /\ final # "none" /\ (final = "delivered" => post[t].copy = "delivered")
  BY DEF Terminal, Finals
<1>3. Reply(t, Ok(final)) \/ Reply(t, Hard(final))
  BY DEF Final
<1> HIDE DEF final
<1>4. row \in Row /\ row.final = final
  BY <1>2 DEF Row
<1> HIDE DEF row
<1>5. PICK x \in Post :
         /\ post' = [post EXCEPT ![t] = x]
         /\ x.pc \in {"answer", "dead"} /\ x.copy = "none"
         /\ x.answer \in {Ok(final), Hard(final), NoAnswer}
  <2>1. Ok(final) \in Answers /\ Hard(final) \in Answers
    BY <1>2, AnswersAre
  <2> QED
    BY <1>3, <2>1, ReplyEnds
<1>6. x.answer.status \in {final, "none"} /\ (x.answer.code = "ok" => x.answer.status = final)
  <2>1. final \in {"none"} \cup Finals
    BY <1>2
  <2>2. /\ Ok(final).status = final /\ Hard(final).status = final
        /\ Hard(final).code = "hard"
    BY <2>1, AnswersAre
  <2> QED
    BY <1>5, <2>2, IdleGone
<1>7. Handled(t, x, row)
  BY <1>1, <1>2, <1>4, <1>5, <1>6, WorkedRow DEF Handled, Early, Working
<1>8. ASSUME Told, DeliveredIsTrue PROVE Truthful(t, x, row)
  BY <1>1, <1>2, <1>4, <1>5, <1>6, <1>8 DEF Truthful, Told
<1> QED
  BY <1>4, <1>7, <1>8

\* A poll that raises
LEMMA PollRaisesHandled ==
  ASSUME OutboxInv, NEW t \in Posts, PollRaises(t)
  PROVE  \E x \in Post, row \in Row :
            Handled(t, x, row) /\ (Told /\ DeliveredIsTrue => Truthful(t, x, row))
<1> DEFINE row == outbox[Of(t)]
<1>1. /\ TypeOK /\ post[t].pc = "poll" /\ post' = [post EXCEPT ![t] = Gone]
      /\ outbox' = [outbox EXCEPT ![Of(t)] = row]
      /\ UNCHANGED <<kind, setup, sent, request, submitted, delivery, risked,
                    starts, farmCrashes, vpsCrashes>>
  BY RowKept DEF OutboxInv, PollRaises, At, fixed, vpsVars, faults
<1>2. row \in Row /\ (row.id => row.final # "none") /\ row.final # "none"
  BY <1>1, ThreadOf DEF OutboxInv, Rows, Working
<1>3. Handled(t, Gone, row)
  BY <1>1, <1>2, IdleGone DEF Handled, Early, Working
<1>4. ASSUME Told, DeliveredIsTrue PROVE Truthful(t, Gone, row)
  BY <1>1, <1>4, IdleGone, ThreadOf DEF Truthful, DeliveredIsTrue
<1> QED
  BY <1>2, <1>3, <1>4, IdleGone

--------------------------------------------------------------------------------
(* Why such a step keeps the invariant *)

\* The tables after the step, entry by entry
LEMMA HandledEach ==
  ASSUME TypeOK, NEW t \in Posts, NEW x, NEW row, Handled(t, x, row)
  PROVE  /\ \A u \in Posts : post'[u] = IF u = t THEN x ELSE post[u]
         /\ \A m \in Messages : outbox'[m] = IF m = Of(t) THEN row ELSE outbox[m]
         /\ \A m \in Messages :
               \/ submitted'[m] = submitted[m] /\ delivery'[m] = delivery[m]
               \/ /\ m = Of(t) /\ post[t].pc = "submit"
                  /\ submitted'[m] = submitted[m] + 1 /\ delivery'[m] = "pending"
  BY ThreadOf DEF TypeOK, Handled, Taken

\* Types, rows and what the outbox remembers
LEMMA HandledOutbox ==
  ASSUME OutboxInv, NEW t \in Posts, NEW x, NEW row, Handled(t, x, row)
  PROVE  OutboxInv'
<1> USE DEF OutboxInv
<1>1. /\ \A u \in Posts : post'[u] = IF u = t THEN x ELSE post[u]
      /\ \A m \in Messages : outbox'[m] = IF m = Of(t) THEN row ELSE outbox[m]
      /\ \A m \in Messages :
            \/ submitted'[m] = submitted[m]
            \/ m = Of(t) /\ post[t].pc = "submit"
  BY HandledEach
<1>2. x \in Post /\ row \in Row /\ Of(t) \in Messages
  BY ThreadOf DEF Handled
<1>3. TypeOK'
  <2>1. post' \in [Posts -> Post] /\ outbox' \in [Messages -> Row]
    BY <1>2 DEF TypeOK, Handled
  <2>2. /\ submitted' \in [Messages -> Nat]
        /\ delivery' \in [Messages -> {"unknown", "pending", "delivered", "failed"}]
    BY <1>2 DEF TypeOK, Handled, Taken
  <2>3. risked' \subseteq Messages
    BY <1>2 DEF TypeOK, Handled
  <2> QED
    BY <2>1, <2>2, <2>3 DEF TypeOK, Handled
<1>4. Rows'
  <2>1. \A m \in Messages : outbox'[m].id => outbox'[m].final # "none"
    BY <1>1 DEF Rows, Handled
  <2>2. \A u \in Posts : post'[u].pc \in Working
            => outbox'[Of(u)].final # "none" /\ post'[u].copy # "none"
    <3> SUFFICES ASSUME NEW u \in Posts, post'[u].pc \in Working
                 PROVE  outbox'[Of(u)].final # "none" /\ post'[u].copy # "none"
      OBVIOUS
    <3>1. CASE u = t
      BY <1>1, <1>2, <3>1 DEF Handled
    <3>2. CASE u # t
      BY <1>1, <3>2, PostsAre DEF Rows, Handled
    <3> QED
      BY <3>1, <3>2
  <2>3. \A u \in Posts : post'[u].answer.code = "ok" => post'[u].answer.status # "none"
    BY <1>1 DEF Rows, Handled
  <2> QED
    BY <2>1, <2>2, <2>3 DEF Rows
<1>5. OutboxRemembers'
  <2> SUFFICES ASSUME NEW m \in Messages, submitted'[m] > 0 PROVE outbox'[m].final # "none"
    BY DEF OutboxRemembers
  <2>1. outbox[m].final # "none"
    <3>1. CASE submitted'[m] = submitted[m]
      BY <3>1 DEF OutboxRemembers
    <3>2. CASE m = Of(t) /\ post[t].pc = "submit"
      BY <3>2 DEF Rows, Working
    <3> QED
      BY <1>1, <3>1, <3>2
  <2> QED
    BY <1>1, <2>1 DEF Handled
<1>6. Requested'
  BY DEF Requested, Handled
<1> QED
  BY <1>3, <1>4, <1>5, <1>6

\* The thread that has reserved found no row, so nothing was submitted and nobody
\* else submits; what is tried again is risked.
LEMMA HandledSubmits ==
  ASSUME OutboxInv, OneSubmits, NEW t \in Posts, NEW x, NEW row, Handled(t, x, row)
  PROVE  OneSubmits'
<1>1. TypeOK /\ OutboxInv'
  BY HandledOutbox DEF OutboxInv
<1>2. /\ \A u \in Posts : post'[u] = IF u = t THEN x ELSE post[u]
      /\ \A m \in Messages : outbox'[m] = IF m = Of(t) THEN row ELSE outbox[m]
      /\ \A m \in Messages :
            \/ submitted'[m] = submitted[m]
            \/ m = Of(t) /\ post[t].pc = "submit"
  BY <1>1, HandledEach
<1>3. risked \subseteq risked'
  BY DEF Handled
<1>4. ASSUME Of(t) \notin risked', x.pc = "submit"
      PROVE  /\ post[t].pc = "reserve" /\ outbox[Of(t)].final = "none" /\ submitted[Of(t)] = 0
             /\ \A u \in Posts : Of(u) = Of(t) => post[u].pc # "submit"
  <2>1. post[t].pc = "reserve" /\ outbox[Of(t)].final = "none"
    BY <1>3, <1>4 DEF Handled, OneSubmits
  <2>2. submitted[Of(t)] = 0
    BY <2>1, PostsAre DEF OutboxInv, OutboxRemembers, TypeOK
  <2>3. \A u \in Posts : Of(u) = Of(t) => post[u].pc # "submit"
    BY <2>1 DEF OutboxInv, Rows, Working
  <2> QED
    BY <2>1, <2>2, <2>3
<1>5. ASSUME NEW u \in Posts, Of(u) \notin risked', post'[u].pc = "reserve"
      PROVE  outbox'[Of(u)].final = "none"
  <2>1. CASE u = t
    BY <1>2, <1>5, <2>1, PostsAre DEF Handled
  <2>2. CASE u # t /\ Of(u) = Of(t)
    <3>1. post[u].pc = "reserve" /\ outbox[Of(t)].final = "none"
      BY <1>2, <1>3, <1>5, <2>2 DEF OneSubmits
    <3>2. post[t].pc # "reserve"
      BY <1>3, <1>5, <2>2, <3>1 DEF OneSubmits
    <3>3. row.final = "none"
      BY <3>1, <3>2 DEF Handled
    <3> QED
      BY <1>2, <2>2, <3>3, PostsAre
  <2>3. CASE Of(u) # Of(t)
    BY <1>2, <1>3, <1>5, <2>3, PostsAre DEF OneSubmits
  <2> QED
    BY <2>1, <2>2, <2>3
<1>6. ASSUME NEW u \in Posts, Of(u) \notin risked', post'[u].pc = "submit"
      PROVE  submitted'[Of(u)] = 0
  <2>1. CASE u = t
    BY <1>2, <1>4, <1>6, <2>1, PostsAre
  <2>2. CASE u # t
    BY <1>2, <1>3, <1>6, <2>2, PostsAre DEF OneSubmits
  <2> QED
    BY <2>1, <2>2
<1>7. ASSUME NEW u \in Posts, NEW v \in Posts, Of(u) = Of(v), Of(u) \notin risked'
      PROVE  /\ post'[u].pc = "reserve" /\ post'[v].pc = "reserve" => u = v
             /\ post'[u].pc = "submit" /\ post'[v].pc = "submit" => u = v
  <2>1. x.pc = "reserve" /\ Of(t) \notin risked' =>
           \A w \in Posts \ {t} : Of(w) = Of(t) => post[w].pc # "reserve"
    BY DEF Handled, Rival, At
  <2> QED
    BY <1>2, <1>3, <1>4, <1>7, <2>1 DEF OneSubmits
<1> QED
  BY <1>5, <1>6, <1>7 DEF OneSubmits

\* The farm works on messages it has been asked to send.
LEMMA HandledAsked ==
  ASSUME TypeOK, Asked, NEW t \in Posts, NEW x, NEW row, Handled(t, x, row)
  PROVE  Asked'
<1>1. /\ \A u \in Posts : post'[u] = IF u = t THEN x ELSE post[u]
      /\ \A m \in Messages : outbox'[m] = IF m = Of(t) THEN row ELSE outbox[m]
  BY HandledEach
<1>2. UNCHANGED sent /\ sent[Of(t)] # "none"
  BY DEF Handled, Asked
<1> QED
  BY <1>1, <1>2 DEF Asked

\* A step that is truthful and hands over nothing, and one that hands over
LEMMA HandledTold ==
  ASSUME TypeOK, Told, DeliveredIsTrue, OneSubmits,
         NEW t \in Posts, NEW x, NEW row, Handled(t, x, row),
         \/ Truthful(t, x, row)
         \/ /\ Told /\ submitted[Of(t)] = 0 /\ Of(t) \notin risked => x.copy # "delivered"
            /\ x.answer = post[t].answer /\ row = outbox[Of(t)]
            /\ post[t].pc = "submit"
  PROVE  Told' /\ DeliveredIsTrue'
<1>1. /\ \A u \in Posts : post'[u] = IF u = t THEN x ELSE post[u]
      /\ \A m \in Messages : outbox'[m] = IF m = Of(t) THEN row ELSE outbox[m]
      /\ \A m \in Messages :
            \/ submitted'[m] = submitted[m] /\ delivery'[m] = delivery[m]
            \/ /\ m = Of(t) /\ post[t].pc = "submit"
               /\ submitted'[m] = submitted[m] + 1 /\ delivery'[m] = "pending"
  BY HandledEach
<1>0. UNCHANGED <<sent, request>> /\ Of(t) \in Messages
  BY PostsAre DEF Handled
<1>2. \A m \in Messages : submitted'[m] = 0 => delivery'[m] = "unknown"
  BY <1>1 DEF Told, TypeOK
<1>3. /\ risked \subseteq risked'
      /\ \A m \in Messages \ risked :
            delivery[m] = "delivered" => delivery'[m] = "delivered"
  <2>1. Of(t) \in risked \/ (post[t].pc = "submit" => delivery[Of(t)] = "unknown")
    BY <1>0 DEF Told, OneSubmits
  <2> QED
    BY <1>1, <2>1 DEF Handled
<1>4. \/ Of(t) \in risked
      \/ /\ x.copy = "delivered" \/ x.answer.status = "delivered"
               => delivery[Of(t)] = "delivered"
         /\ row.final = "delivered" => delivery[Of(t)] = "delivered"
  BY <1>0, <1>1 DEF Truthful, Told, DeliveredIsTrue, OneSubmits
<1>5. Told'
  BY <1>0, <1>1, <1>2, <1>3, <1>4, PostsAre DEF Told
<1>6. DeliveredIsTrue'
  BY <1>0, <1>1, <1>3, <1>4 DEF DeliveredIsTrue
<1> QED
  BY <1>5, <1>6

--------------------------------------------------------------------------------
(* The requests and dispatchers of the VPS *)

\* A request that goes on, ends, or takes an answer
LEMMA RequestsAre ==
  ASSUME TypeOK, NEW r \in Requests
  PROVE  /\ request[r] \in Request
         /\ request[r].number \in 0..MaxPosts
         /\ request[r].message \in Messages =>
               /\ <<request[r].message, request[r].number>> \in Posts
               /\ Of(<<request[r].message, request[r].number>>) = request[r].message
  BY PostsAre DEF TypeOK, Request

RequestPcs == {"idle", "lookup", "insert", "spawn", "mark", "post", "wait",
               "save", "give", "over"}

\* A thread that goes on changes its step and keeps what it works on.
LEMMA GoMoves ==
  ASSUME TypeOK, NEW r \in Requests, NEW pc \in RequestPcs, Go(r, pc)
  PROVE  \E q \in Request :
            /\ request' = [request EXCEPT ![r] = q]
            /\ q.pc = pc /\ q.message = request[r].message
            /\ q.number = request[r].number /\ q.answer = request[r].answer
<1> DEFINE q == [request[r] EXCEPT !.pc = pc]
<1>1. /\ q \in Request /\ q.pc = pc /\ q.message = request[r].message
      /\ q.number = request[r].number /\ q.answer = request[r].answer
  BY RequestsAre DEF Request, RequestPcs
<1>2. request' = [request EXCEPT ![r] = q]
  BY DEF Go
<1> QED
  BY <1>1, <1>2

Over == [NoRequest EXCEPT !.pc = "over"]

\* A request that is over knows no message.
LEMMA OverIs ==
  /\ Over \in Request /\ Over.pc = "over" /\ Over.answer = NoAnswer
  /\ NoRequest \in Request /\ NoRequest.pc = "idle" /\ NoRequest.answer = NoAnswer
  BY IdleGone, SmsAssumption DEF Over, NoRequest, Request

\* What a step of the VPS does outside its own tables: at most one post is sent or
\* its connection closed.
Quiet(t, x) ==
    /\ x \in Post /\ x.pc \in {"flying", "dead"} \cup {post[t].pc}
    /\ x.pc \in Working => x = post[t]
    /\ x.copy \in {post[t].copy, "none"} /\ x.answer \in {post[t].answer, NoAnswer}
    /\ post' = [post EXCEPT ![t] = x]
    /\ UNCHANGED <<kind, setup, outbox, submitted, delivery, risked, starts, farmCrashes>>

\* Such a step keeps the farm's tables in order.
LEMMA QuietOutbox ==
  ASSUME OutboxInv, NEW t \in Posts, NEW x, Quiet(t, x),
         sent' \in [Messages -> Statuses], request' \in [Requests -> Request],
         vpsCrashes' \in Nat, Requested'
  PROVE  OutboxInv'
<1>1. \A u \in Posts : post'[u] = IF u = t THEN x ELSE post[u]
  BY DEF OutboxInv, TypeOK, Quiet
<1>2. TypeOK'
  BY DEF OutboxInv, TypeOK, Quiet
<1>3. Rows'
  <2>1. \A m \in Messages : outbox'[m] = outbox[m]
    BY DEF Quiet
  <2>2. \A u \in Posts : post'[u].pc \in Working
            => outbox'[Of(u)].final # "none" /\ post'[u].copy # "none"
    BY <1>1, <2>1, PostsAre DEF OutboxInv, Rows, Quiet
  <2>3. \A u \in Posts : post'[u].answer.code = "ok" => post'[u].answer.status # "none"
    BY <1>1, IdleGone DEF OutboxInv, Rows, Quiet
  <2> QED
    BY <2>1, <2>2, <2>3 DEF OutboxInv, Rows
<1>4. OutboxRemembers'
  BY DEF OutboxInv, OutboxRemembers, Quiet
<1> QED
  BY <1>2, <1>3, <1>4 DEF OutboxInv

\* A step of r leaves it as q, the status of its message as `status`, and the post
\* of its attempt as x.  A status changes while its message is in flight, or when it
\* is stored; only a step from "post" sends.
Dispatched(r, q, status, x) ==
    LET m == request[r].message
        t == <<m, request[r].number>>
    IN  /\ request[r].pc \notin {"idle", "over"}
        /\ q \in Request /\ request' = [request EXCEPT ![r] = q]
        /\ q.pc # "idle"
        /\ \/ q.pc = "over" /\ q.answer = NoAnswer
           \/ q.message = m
        /\ status \in Statuses /\ sent' = [sent EXCEPT ![m] = status]
        /\ \/ status = sent[m]
           \/ request[r].pc \in Dispatching /\ status # "none"
           \/ sent[m] = "none" /\ status = "queued"
        /\ q.pc \in Dispatching =>
              \/ request[r].pc \in Dispatching /\ (status = sent[m] \/ status \in Open)
              \/ sent[m] = "none" /\ status = "queued" /\ q.pc = "spawn" /\ x = post[t]
        /\ q.pc = "save" => q.answer.code = "ok" /\ q.answer.status # "none"
        /\ x.pc \in Early =>
              request[r].pc = "post" \/ x = post[t]
        /\ q.answer.status \in {request[r].answer.status, "none", post[t].answer.status}
        /\ status = "delivered" =>
              sent[m] = "delivered" \/ request[r].answer.status = "delivered"
        /\ Quiet(t, x) /\ UNCHANGED vpsCrashes

\* A step of a dispatcher leaves the outbox as it was, and its own message in hand.
LEMMA DispatchedOutbox ==
  ASSUME OutboxInv, NEW r \in Requests, NEW q, NEW status, NEW x,
         Dispatched(r, q, status, x)
  PROVE  OutboxInv'
<1>1. /\ request[r].message \in Messages
      /\ <<request[r].message, request[r].number>> \in Posts
  BY RequestsAre DEF OutboxInv, Requested, Dispatched
<1>2. /\ sent' \in [Messages -> Statuses] /\ request' \in [Requests -> Request]
      /\ vpsCrashes' \in Nat
  BY <1>1 DEF OutboxInv, TypeOK, Dispatched
<1>3. Requested'
  BY <1>1 DEF OutboxInv, TypeOK, Requested, Dispatched
<1> QED
  BY <1>1, <1>2, <1>3, QuietOutbox DEF Dispatched

\* What the facts about one request are, where they are needed
LEMMA RequestAtWork ==
  ASSUME OutboxInv, NEW r \in Requests, request[r].pc \notin {"idle", "over"}
  PROVE  LET m == request[r].message
             t == <<m, request[r].number>>
         IN  /\ m \in Messages /\ t \in Posts /\ Of(t) = m /\ post[t] \in Post
             /\ sent[m] \in Statuses /\ sent = [sent EXCEPT ![m] = sent[m]]
             /\ post = [post EXCEPT ![t] = post[t]]
             /\ post[t].answer.code = "ok" => post[t].answer.status # "none"
             /\ request[r].answer \in Answers
  BY RequestsAre, PostsAre DEF OutboxInv, Rows, TypeOK, Requested, Request

\* A step that leaves the Farm Agent alone
LEMMA NothingSent ==
  ASSUME OutboxInv, NEW r \in Requests, request[r].pc \notin {"idle", "over"},
         UNCHANGED <<fixed, farmVars, faults>>
  PROVE  LET t == <<request[r].message, request[r].number>>
         IN  Quiet(t, post[t]) /\ UNCHANGED vpsCrashes
  BY RequestAtWork DEF Quiet, fixed, farmVars, faults

\* get_by_slot_idempotency, get_by_inbound_event
LEMMA LookupDispatched ==
  ASSUME OutboxInv, NEW r \in Requests, Lookup(r)
  PROVE  \E q, status, x : Dispatched(r, q, status, x)
<1> DEFINE m == request[r].message
           t == <<m, request[r].number>>
<1>1. /\ TypeOK /\ request[r].pc = "lookup"
      /\ sent[m] \in Statuses /\ sent' = [sent EXCEPT ![m] = sent[m]]
      /\ Quiet(t, post[t]) /\ UNCHANGED vpsCrashes
  BY RequestAtWork, NothingSent DEF OutboxInv, Lookup
<1>2. CASE Go(r, "insert")
  <2>1. PICK q \in Request :
           /\ request' = [request EXCEPT ![r] = q] /\ q.pc = "insert" /\ q.message = m
           /\ q.number = request[r].number /\ q.answer = request[r].answer
    BY <1>1, <1>2, GoMoves DEF RequestPcs
  <2> QED
    BY <1>1, <2>1 DEF Dispatched, Dispatching
<1>3. CASE End(r)
  <2>1. request' = [request EXCEPT ![r] = Over]
    BY <1>3 DEF End, Over
  <2> QED
    BY <1>1, <2>1, OverIs, IdleGone DEF Dispatched, Dispatching
<1> QED
  BY <1>2, <1>3 DEF Lookup

\* insert
LEMMA InsertDispatched ==
  ASSUME OutboxInv, NEW r \in Requests, Insert(r)
  PROVE  \E q, status, x : Dispatched(r, q, status, x)
<1> DEFINE m == request[r].message
           t == <<m, request[r].number>>
<1>1. /\ TypeOK /\ request[r].pc = "insert"
      /\ sent[m] \in Statuses /\ sent = [sent EXCEPT ![m] = sent[m]]
      /\ Quiet(t, post[t]) /\ UNCHANGED vpsCrashes
  BY RequestAtWork, NothingSent DEF OutboxInv, Insert
<1>2. CASE sent[m] = "none"
  <2>1. sent' = [sent EXCEPT ![m] = "queued"] /\ Go(r, "spawn")
    BY <1>2 DEF Insert
  <2>2. PICK q \in Request :
           /\ request' = [request EXCEPT ![r] = q] /\ q.pc = "spawn" /\ q.message = m
           /\ q.number = request[r].number /\ q.answer = request[r].answer
    BY <1>1, <2>1, GoMoves DEF RequestPcs
  <2>3. "queued" \in Statuses
    BY DEF Statuses, Finals
  <2> QED
    BY <1>1, <1>2, <2>1, <2>2, <2>3 DEF Dispatched, Dispatching
<1>3. CASE sent[m] # "none"
  <2>1. request' = [request EXCEPT ![r] = Over] /\ UNCHANGED sent
    BY <1>3 DEF Insert, End, Over
  <2> QED
    BY <1>1, <2>1, OverIs, IdleGone DEF Dispatched, Dispatching
<1> QED
  BY <1>2, <1>3

\* The thread starts, or the request goes on itself.
LEMMA SpawnDispatched ==
  ASSUME OutboxInv, NEW r \in Requests, Spawn(r)
  PROVE  \E q, status, x : Dispatched(r, q, status, x)
<1> DEFINE m == request[r].message
           t == <<m, request[r].number>>
<1>1. /\ TypeOK /\ request[r].pc = "spawn" /\ Go(r, "mark")
      /\ sent[m] \in Statuses /\ sent' = [sent EXCEPT ![m] = sent[m]]
      /\ Quiet(t, post[t]) /\ UNCHANGED vpsCrashes
  BY RequestAtWork, NothingSent DEF OutboxInv, Spawn
<1>2. PICK q \in Request :
         /\ request' = [request EXCEPT ![r] = q] /\ q.pc = "mark" /\ q.message = m
         /\ q.number = request[r].number /\ q.answer = request[r].answer
  BY <1>1, GoMoves DEF RequestPcs
<1> QED
  BY <1>1, <1>2 DEF Dispatched, Dispatching

\* The status and the number of the attempt
LEMMA MarkDispatched ==
  ASSUME OutboxInv, NEW r \in Requests, Mark(r)
  PROVE  \E q, status, x : Dispatched(r, q, status, x)
<1> DEFINE m == request[r].message
           t == <<m, request[r].number>>
           status == IF kind[m] = "slot" THEN "queued" ELSE "sending"
           q == [request[r] EXCEPT !.pc = "post", !.number = request[r].number + 1]
<1>1. /\ TypeOK /\ request[r].pc = "mark" /\ sent' = [sent EXCEPT ![m] = status]
      /\ request' = [request EXCEPT ![r] = q]
      /\ Quiet(t, post[t]) /\ UNCHANGED vpsCrashes
  BY NothingSent DEF OutboxInv, Mark
<1>2. status \in Statuses /\ status \in Open /\ status \notin {"none", "delivered"}
  BY DEF Statuses, Finals, Open
<1>3. request[r].number + 1 \in 0..MaxPosts
  BY <1>1, RequestsAre, SmsAssumption DEF Mark
<1>4. /\ q \in Request /\ q.pc = "post" /\ q.message = m /\ q.answer = request[r].answer
  BY <1>1, <1>3, RequestsAre DEF Request
<1> HIDE DEF q, status
<1> QED
  BY <1>1, <1>2, <1>4 DEF Dispatched, Dispatching

\* FarmSmsClient.send_sms
LEMMA SendDispatched ==
  ASSUME OutboxInv, NEW r \in Requests, Send(r)
  PROVE  \E q, status, x : Dispatched(r, q, status, x)
<1> DEFINE m == request[r].message
           t == <<m, request[r].number>>
           x == [post[t] EXCEPT !.pc = "flying"]
<1>1. /\ TypeOK /\ request[r].pc = "post" /\ Go(r, "wait")
      /\ sent[m] \in Statuses /\ sent' = [sent EXCEPT ![m] = sent[m]]
      /\ post' = [post EXCEPT ![t] = x] /\ post[t] \in Post
      /\ UNCHANGED <<kind, setup, outbox, submitted, delivery, risked,
                     starts, farmCrashes, vpsCrashes>>
  BY RequestAtWork DEF OutboxInv, Send, fixed, faults
<1>2. "flying" \in {"absent", "answer", "dead"} \cup Early \cup Working
  BY DEF Early
<1>3. x \in Post /\ x.pc = "flying" /\ x.copy = post[t].copy /\ x.answer = post[t].answer
  BY <1>1, <1>2 DEF Post
<1>4. PICK q \in Request :
         /\ request' = [request EXCEPT ![r] = q] /\ q.pc = "wait" /\ q.message = m
         /\ q.number = request[r].number /\ q.answer = request[r].answer
  BY <1>1, GoMoves DEF RequestPcs
<1> HIDE DEF x
<1>5. Quiet(t, x)
  BY <1>1, <1>3 DEF Quiet, Working
<1> QED
  BY <1>1, <1>3, <1>4, <1>5 DEF Dispatched, Dispatching

\* Where a failure leads
LEMMA AfterFailureIs ==
  ASSUME NEW r
  PROVE  AfterFailure(r) \in {"mark", "give"}
  BY DEF AfterFailure

\* The answer arrives.
LEMMA AnsweredDispatched ==
  ASSUME OutboxInv, NEW r \in Requests, Answered(r)
  PROVE  \E q, status, x : Dispatched(r, q, status, x)
<1> DEFINE m == request[r].message
           t == <<m, request[r].number>>
           answer == post[t].answer
           next == CASE answer.code = "ok"   -> "save"
                     [] answer.code = "hard" -> "give"
                     [] OTHER                -> AfterFailure(r)
           q == [request[r] EXCEPT !.pc = next, !.answer = answer]
<1>1. /\ TypeOK /\ request[r].pc = "wait" /\ post[t].pc = "answer" /\ post[t] \in Post
      /\ sent[m] \in Statuses /\ sent' = [sent EXCEPT ![m] = sent[m]]
      /\ post' = [post EXCEPT ![t] = Gone] /\ request' = [request EXCEPT ![r] = q]
      /\ (answer.code = "ok" => answer.status # "none")
      /\ UNCHANGED <<kind, setup, outbox, submitted, delivery, risked,
                     starts, farmCrashes, vpsCrashes>>
  BY RequestAtWork DEF OutboxInv, Answered, fixed, faults
<1>2. next \in {"save", "give", "mark"} /\ (next = "save" => answer.code = "ok")
  BY AfterFailureIs
<1>3. answer \in Answers
  BY <1>1 DEF Post
<1> HIDE DEF next, answer
<1>4. /\ q \in Request /\ q.pc = next /\ q.message = m /\ q.answer = answer
  BY <1>1, <1>2, <1>3, RequestsAre DEF Request
<1> HIDE DEF q
<1>5. Quiet(t, Gone)
  BY <1>1, IdleGone DEF Quiet, Working
<1> QED
  BY <1>1, <1>2, <1>4, <1>5, IdleGone DEF Dispatched, Dispatching, Early, answer

\* The wait ends without an answer.
LEMMA UnansweredDispatched ==
  ASSUME OutboxInv, NEW r \in Requests, Unanswered(r)
  PROVE  \E q, status, x : Dispatched(r, q, status, x)
<1> DEFINE m == request[r].message
           t == <<m, request[r].number>>
           x == IF post[t].pc = "answer" THEN Gone ELSE post[t]
<1>1. /\ TypeOK /\ request[r].pc = "wait" /\ Go(r, AfterFailure(r)) /\ post[t] \in Post
      /\ sent[m] \in Statuses /\ sent' = [sent EXCEPT ![m] = sent[m]]
      /\ post = [post EXCEPT ![t] = post[t]]
      /\ UNCHANGED <<kind, setup, outbox, submitted, delivery, risked,
                     starts, farmCrashes, vpsCrashes>>
  BY RequestAtWork DEF OutboxInv, Unanswered, fixed, faults
<1>2. post' = [post EXCEPT ![t] = x]
  BY <1>1 DEF Unanswered
<1>3. x \in {Gone, post[t]} /\ (x.pc \in Early => x = post[t])
  BY <1>1, IdleGone DEF Early
<1> HIDE DEF x
<1>4. PICK q \in Request :
         /\ request' = [request EXCEPT ![r] = q] /\ q.pc \in {"mark", "give"}
         /\ q.message = m /\ q.number = request[r].number /\ q.answer = request[r].answer
  <2>1. AfterFailure(r) \in RequestPcs
    BY AfterFailureIs DEF RequestPcs
  <2> QED
    BY <1>1, <2>1, GoMoves, AfterFailureIs
<1>5. Quiet(t, x)
  BY <1>1, <1>2, <1>3, IdleGone DEF Quiet, Working
<1> QED
  BY <1>1, <1>3, <1>4, <1>5 DEF Dispatched, Dispatching

\* The verdict is saved.
LEMMA SaveDispatched ==
  ASSUME OutboxInv, NEW r \in Requests, Save(r)
  PROVE  \E q, status, x : Dispatched(r, q, status, x)
<1> DEFINE m == request[r].message
           t == <<m, request[r].number>>
           status == Recorded(m, request[r].answer.status)
<1>1. /\ TypeOK /\ request[r].pc = "save" /\ sent' = [sent EXCEPT ![m] = status]
      /\ request' = [request EXCEPT ![r] = Over]
      /\ request[r].answer \in Answers /\ request[r].answer.status # "none"
      /\ Quiet(t, post[t]) /\ UNCHANGED vpsCrashes
  BY NothingSent, RequestAtWork DEF OutboxInv, Requested, Save, End, Over
<1>2. /\ status \in Statuses /\ status # "none"
      /\ status = "delivered" => request[r].answer.status = "delivered"
  BY <1>1 DEF Recorded, Answers, Statuses, Finals
<1> HIDE DEF status
<1> QED
  BY <1>1, <1>2, OverIs, IdleGone DEF Dispatched, Dispatching

\* The dispatcher gives up.
LEMMA GiveDispatched ==
  ASSUME OutboxInv, NEW r \in Requests, Give(r)
  PROVE  \E q, status, x : Dispatched(r, q, status, x)
<1> DEFINE m == request[r].message
           t == <<m, request[r].number>>
<1>1. /\ TypeOK /\ request[r].pc = "give" /\ sent' = [sent EXCEPT ![m] = "failed"]
      /\ request' = [request EXCEPT ![r] = Over]
      /\ Quiet(t, post[t]) /\ UNCHANGED vpsCrashes
  BY NothingSent DEF OutboxInv, Give, End, Over
<1>2. "failed" \in Statuses
  BY DEF Statuses, Finals
<1> QED
  BY <1>1, <1>2, OverIs, IdleGone DEF Dispatched, Dispatching

--------------------------------------------------------------------------------
(* Why such a step keeps the invariant *)

\* The tables after the step, entry by entry
LEMMA DispatchedEach ==
  ASSUME OutboxInv, NEW r \in Requests, NEW q, NEW status, NEW x,
         Dispatched(r, q, status, x)
  PROVE  LET m == request[r].message
             t == <<m, request[r].number>>
         IN  /\ m \in Messages /\ t \in Posts /\ Of(t) = m
             /\ \A p \in Requests : request'[p] = IF p = r THEN q ELSE request[p]
             /\ \A n \in Messages : sent'[n] = IF n = m THEN status ELSE sent[n]
             /\ \A u \in Posts : post'[u] = IF u = t THEN x ELSE post[u]
<1> DEFINE m == request[r].message
           t == <<m, request[r].number>>
<1>1. m \in Messages /\ t \in Posts /\ Of(t) = m
  BY RequestAtWork DEF Dispatched
<1>2. /\ request' = [request EXCEPT ![r] = q] /\ sent' = [sent EXCEPT ![m] = status]
      /\ post' = [post EXCEPT ![t] = x]
  BY DEF Dispatched, Quiet
<1> HIDE DEF m, t
<1>3. /\ \A p \in Requests : request'[p] = IF p = r THEN q ELSE request[p]
      /\ \A n \in Messages : sent'[n] = IF n = m THEN status ELSE sent[n]
      /\ \A u \in Posts : post'[u] = IF u = t THEN x ELSE post[u]
  BY <1>2 DEF OutboxInv, TypeOK
<1> QED
  BY <1>1, <1>3 DEF m, t

\* A dispatcher starts only for a message that had no row, so it is the only one.
LEMMA DispatchedOne ==
  ASSUME OutboxInv, Dispatchers, NEW r \in Requests, NEW q, NEW status, NEW x,
         Dispatched(r, q, status, x)
  PROVE  Dispatchers'
<1> DEFINE m == request[r].message
<1>1. /\ m \in Messages
      /\ \A p \in Requests : request'[p] = IF p = r THEN q ELSE request[p]
      /\ \A n \in Messages : sent'[n] = IF n = m THEN status ELSE sent[n]
  BY DispatchedEach
<1>2. /\ q.pc \in Dispatching => q.message = m /\ status \in Open
      /\ q.pc \in Dispatching => request[r].pc \in Dispatching \/ sent[m] = "none"
      /\ status = sent[m] \/ request[r].pc \in Dispatching \/ sent[m] = "none"
  BY DEF Dispatched, Dispatching, Dispatchers, Open
<1>3. \A p \in Requests : p # r /\ request[p].pc \in Dispatching /\ request[p].message = m
          => sent[m] \in Open /\ request[r].pc \notin Dispatching
  BY DEF Dispatchers
<1>4. "none" \notin Open
  BY DEF Open
<1> HIDE DEF m
<1>5. \A p \in Requests : request'[p].pc \in Dispatching
          => sent'[request'[p].message] \in Open
  <2> SUFFICES ASSUME NEW p \in Requests, request'[p].pc \in Dispatching
               PROVE  sent'[request'[p].message] \in Open
    OBVIOUS
  <2>1. CASE p = r
    BY <1>1, <1>2, <2>1
  <2>2. CASE p # r
    <3>1. request'[p] = request[p] /\ request[p].message \in Messages
          /\ sent[request[p].message] \in Open
      BY <1>1, <2>2 DEF Dispatchers, OutboxInv, Requested, Dispatching
    <3>2. request[p].message = m => status \in Open
      BY <1>2, <1>3, <1>4, <2>2, <3>1
    <3> QED
      BY <1>1, <3>1, <3>2
  <2> QED
    BY <2>1, <2>2
<1>6. \A p, o \in Requests :
          /\ request'[p].pc \in Dispatching /\ request'[o].pc \in Dispatching
          /\ request'[p].message = request'[o].message
          => p = o
  <2>1. \A p \in Requests : p # r /\ request[p].pc \in Dispatching /\ request[p].message = m
            => q.pc \notin Dispatching
    BY <1>2, <1>3, <1>4
  <2> QED
    BY <1>1, <1>2, <2>1 DEF Dispatchers
<1> QED
  BY <1>5, <1>6 DEF Dispatchers

\* The farm's own books do not change.
LEMMA DispatchedSubmits ==
  ASSUME OutboxInv, OneSubmits, NEW r \in Requests, NEW q, NEW status, NEW x,
         Dispatched(r, q, status, x)
  PROVE  OneSubmits'
<1> DEFINE m == request[r].message
           t == <<m, request[r].number>>
<1>1. /\ m \in Messages /\ t \in Posts
      /\ \A u \in Posts : post'[u] = IF u = t THEN x ELSE post[u]
  BY DispatchedEach
<1>2. /\ x.pc \in {"reserve", "submit"} => x.pc = post[t].pc
      /\ UNCHANGED <<outbox, submitted>>
  BY DEF Dispatched, Quiet
<1> HIDE DEF t
<1>3. \A u \in Posts : post'[u].pc \in {"reserve", "submit"} => post'[u].pc = post[u].pc
  BY <1>1, <1>2
<1>4. UNCHANGED risked
  BY DEF Dispatched, Quiet
<1> QED
  BY <1>2, <1>3, <1>4 DEF OneSubmits

\* Only a message that is shown is posted.
LEMMA DispatchedAsked ==
  ASSUME OutboxInv, Dispatchers, Asked, NEW r \in Requests, NEW q, NEW status, NEW x,
         Dispatched(r, q, status, x)
  PROVE  Asked'
<1> DEFINE m == request[r].message
           t == <<m, request[r].number>>
<1>1. /\ m \in Messages /\ t \in Posts /\ Of(t) = m
      /\ \A n \in Messages : sent'[n] = IF n = m THEN status ELSE sent[n]
      /\ \A u \in Posts : post'[u] = IF u = t THEN x ELSE post[u]
  BY DispatchedEach
<1>2. sent[m] # "none" => status # "none"
  BY DEF Dispatched
<1>3. x.pc \in Early \cup Working => sent[m] # "none"
  <2>1. request[r].pc = "post" => sent[m] # "none"
    BY DEF Dispatchers, Dispatching, Open
  <2>2. x.pc \in Early \cup Working => request[r].pc = "post" \/ x.pc = post[t].pc
        \/ x.pc = "flying"
    BY DEF Dispatched, Quiet, Early, Working
  <2>3. CASE x.pc = post[t].pc
    BY <1>1, <2>3 DEF Asked
  <2>4. CASE x.pc = "flying" /\ x.pc # post[t].pc
    <3>1. x.pc \in Early /\ x # post[t]
      BY <2>4 DEF Early
    <3>2. request[r].pc \in Dispatching
      BY <3>1 DEF Dispatched, Dispatching
    <3> QED
      BY <1>1, <3>2 DEF Dispatchers, Open
  <2> QED
    BY <2>1, <2>2, <2>3, <2>4
<1>4. \A n \in Messages : sent[n] # "none" => sent'[n] # "none"
  BY <1>1, <1>2
<1>5. UNCHANGED outbox
  BY DEF Dispatched, Quiet
<1> HIDE DEF m, t
<1> QED
  BY <1>1, <1>3, <1>4, <1>5, PostsAre DEF Asked

\* Nothing is called delivered that was not.
LEMMA DispatchedTold ==
  ASSUME OutboxInv, Told, DeliveredIsTrue, NEW r \in Requests, NEW q, NEW status, NEW x,
         Dispatched(r, q, status, x)
  PROVE  Told' /\ DeliveredIsTrue'
<1> DEFINE m == request[r].message
           t == <<m, request[r].number>>
<1>1. /\ m \in Messages /\ t \in Posts /\ Of(t) = m
      /\ \A p \in Requests : request'[p] = IF p = r THEN q ELSE request[p]
      /\ \A n \in Messages : sent'[n] = IF n = m THEN status ELSE sent[n]
      /\ \A u \in Posts : post'[u] = IF u = t THEN x ELSE post[u]
  BY DispatchedEach
<1>2. UNCHANGED <<outbox, submitted, delivery, risked>>
  BY DEF Dispatched, Quiet
<1>3. x.copy = "delivered" \/ x.answer.status = "delivered"
         => m \in risked \/ delivery[m] = "delivered"
  BY <1>1, IdleGone DEF Dispatched, Quiet, Told
<1>4. q.answer.status = "delivered" => m \in risked \/ delivery[m] = "delivered"
  BY <1>1, IdleGone DEF Dispatched, Told
<1>5. status = "delivered" => m \in risked \/ delivery[m] = "delivered"
  BY <1>1 DEF Dispatched, Told, DeliveredIsTrue
<1>6. q.answer.status = "delivered" => q.pc # "idle" /\ q.message = m
  BY IdleGone DEF Dispatched
<1> HIDE DEF m, t
<1>7. Told'
  BY <1>1, <1>2, <1>3, <1>4, <1>6, PostsAre DEF Told
<1>8. DeliveredIsTrue'
  BY <1>1, <1>2, <1>5 DEF DeliveredIsTrue
<1> QED
  BY <1>7, <1>8

--------------------------------------------------------------------------------
(* The other steps *)

\* A request arrives.
LEMMA AskKeeps ==
  ASSUME OutboxInv, NEW r \in Requests, NEW m \in Messages, Ask(r, m)
  PROVE  OutboxInv' /\ (IInv => IInv')
<1> DEFINE q == [request[r] EXCEPT !.pc = "lookup", !.message = m]
<1>1. /\ TypeOK /\ request[r].pc = "idle" /\ request' = [request EXCEPT ![r] = q]
      /\ UNCHANGED <<kind, setup, sent, post, outbox, submitted, delivery, risked,
                     starts, farmCrashes, vpsCrashes>>
  BY DEF OutboxInv, Ask, fixed, farmVars, faults
<1>2. q \in Request /\ q.pc = "lookup" /\ q.message = m /\ q.answer = request[r].answer
  BY <1>1, RequestsAre DEF Request
<1> HIDE DEF q
<1>3. /\ \A p \in Requests : request'[p] = IF p = r THEN q ELSE request[p]
      /\ request' \in [Requests -> Request]
  BY <1>1, <1>2 DEF TypeOK
<1>4. TypeOK' /\ Rows' /\ OutboxRemembers'
  BY <1>1, <1>3 DEF OutboxInv, TypeOK, Rows, OutboxRemembers
<1>5. Requested'
  BY <1>2, <1>3 DEF OutboxInv, Requested
<1>6. ASSUME IInv PROVE IInv'
  <2>1. /\ \A p \in Requests : request'[p].pc \in Dispatching => request'[p] = request[p]
        /\ \A p \in Requests : request'[p].answer.status = "delivered"
               => request[p].answer.status = "delivered"
                  /\ (request'[p] = request[p] \/ request'[p].message = m)
    BY <1>2, <1>3 DEF Dispatching
  <2>2. Dispatchers'
    BY <1>1, <2>1, <1>6 DEF IInv, Dispatchers
  <2>4. OneSubmits' /\ Asked' /\ DeliveredIsTrue'
    BY <1>1, <1>6 DEF IInv, OneSubmits, Asked, DeliveredIsTrue
  <2>5. Told'
    BY <1>1, <1>2, <1>3, <1>6 DEF IInv, Told
  <2> QED
    BY <1>4, <1>5, <2>2, <2>4, <2>5 DEF IInv, OutboxInv
<1> QED
  BY <1>4, <1>5, <1>6 DEF OutboxInv

\* The provider reports.
LEMMA DeliverKeeps ==
  ASSUME OutboxInv, NEW m \in Messages, Deliver(m)
  PROVE  OutboxInv' /\ (IInv => IInv')
<1>1. PICK report \in {"delivered", "failed"} :
         delivery[m] = "pending" /\ delivery' = [delivery EXCEPT ![m] = report]
  BY DEF Deliver
<1>2. UNCHANGED <<kind, setup, sent, request, post, outbox, submitted, risked,
                  starts, farmCrashes, vpsCrashes>>
  BY DEF Deliver, fixed, vpsVars, faults
<1>3. \A n \in Messages : delivery'[n] = delivery[n] \/ delivery[n] = "pending"
  <2>1. delivery \in [Messages -> {"unknown", "pending", "delivered", "failed"}]
    BY DEF OutboxInv, TypeOK
  <2> QED
    BY <1>1, <2>1
<1>4. OutboxInv'
  BY <1>1, <1>2 DEF OutboxInv, TypeOK, Rows, Requested, OutboxRemembers
<1>5. ASSUME IInv PROVE IInv'
  <2>1. Dispatchers' /\ OneSubmits' /\ Asked'
    BY <1>2, <1>5 DEF IInv, Dispatchers, OneSubmits, Asked, Rival
  <2>2. Told' /\ DeliveredIsTrue'
    BY <1>2, <1>3, <1>5, PostsAre DEF IInv, Told, DeliveredIsTrue
  <2> QED
    BY <1>4, <2>1, <2>2 DEF IInv
<1> QED
  BY <1>4, <1>5

\* The VPS restarts: its requests are gone.
LEMMA VpsCrashKeeps ==
  ASSUME OutboxInv, VpsCrash
  PROVE  OutboxInv' /\ (IInv => IInv')
<1>1. /\ \A r \in Requests : request'[r] = IF request[r].pc = "idle" THEN request[r] ELSE Over
      /\ vpsCrashes' = vpsCrashes + 1
      /\ UNCHANGED <<kind, setup, sent, post, outbox, submitted, delivery, risked,
                     starts, farmCrashes>>
  BY DEF VpsCrash, fixed, farmVars, Over
<1>2. request' \in [Requests -> Request]
  BY <1>1, OverIs DEF OutboxInv, TypeOK, VpsCrash, Over
<1>3. TypeOK' /\ Rows' /\ OutboxRemembers'
  BY <1>1, <1>2 DEF OutboxInv, TypeOK, Rows, OutboxRemembers
<1>4. Requested'
  BY <1>1, OverIs DEF OutboxInv, Requested
<1>5. ASSUME IInv PROVE IInv'
  <2>1. \A r \in Requests : request'[r].pc \notin Dispatching
    BY <1>1, OverIs DEF Dispatching
  <2>2. Dispatchers'
    BY <2>1 DEF Dispatchers
  <2>4. OneSubmits' /\ Asked' /\ DeliveredIsTrue'
    BY <1>1, <1>5 DEF IInv, OneSubmits, Asked, DeliveredIsTrue
  <2>5. Told'
    BY <1>1, <1>5, OverIs, IdleGone DEF IInv, Told
  <2> QED
    BY <1>3, <1>4, <2>2, <2>4, <2>5 DEF IInv, OutboxInv
<1> QED
  BY <1>3, <1>4, <1>5 DEF OutboxInv

\* Threads of the farm end, or poll again for a row that has a provider id.
LEMMA ThreadsReplaced ==
  ASSUME OutboxInv, starts' \in Nat, farmCrashes' \in Nat, post' \in [Posts -> Post],
         UNCHANGED <<kind, setup, sent, request, outbox, submitted, delivery, risked,
                     vpsCrashes>>,
         \A t \in Posts :
            \/ post'[t] \in {post[t], Idle, Gone}
            \/ /\ post'[t].pc = "poll" /\ post'[t].answer = NoAnswer
               /\ post'[t].copy = outbox[Of(t)].final /\ Resumable(Of(t))
  PROVE  OutboxInv' /\ (IInv => IInv')
<1>1. TypeOK' /\ Requested' /\ OutboxRemembers'
  BY DEF OutboxInv, TypeOK, Requested, OutboxRemembers
<1>2. \A t \in Posts : Resumable(Of(t)) => /\ outbox[Of(t)].final # "none"
                                           /\ outbox[Of(t)].final # "delivered"
  BY PostsAre DEF OutboxInv, Rows, Resumable, Terminal
<1>3. Rows'
  <2>1. \A t \in Posts : post'[t].pc \in Working
            => outbox[Of(t)].final # "none" /\ post'[t].copy # "none"
    BY <1>2, IdleGone DEF OutboxInv, Rows, Working
  <2>2. \A t \in Posts : post'[t].answer.code = "ok" => post'[t].answer.status # "none"
    BY IdleGone DEF OutboxInv, Rows
  <2> QED
    BY <2>1, <2>2 DEF OutboxInv, Rows
<1>4. ASSUME IInv PROVE IInv'
  <2>1. \A t \in Posts : /\ post'[t].pc \in Early => post'[t] = post[t]
                         /\ post'[t].pc = "submit" => post'[t] = post[t]
    BY IdleGone DEF Early
  <2>2. Dispatchers' /\ DeliveredIsTrue'
    BY <1>4 DEF IInv, Dispatchers, DeliveredIsTrue
  <2>4. OneSubmits'
    BY <1>4, <2>1 DEF IInv, OneSubmits, Early
  <2>5. Asked'
    BY <1>2, <1>4, IdleGone, PostsAre DEF IInv, Asked, Early, Working
  <2>6. Told'
    BY <1>2, <1>4, IdleGone DEF IInv, Told
  <2> QED
    BY <1>1, <1>3, <2>2, <2>4, <2>5, <2>6 DEF IInv, OutboxInv
<1> QED
  BY <1>1, <1>3, <1>4 DEF OutboxInv

\* The Farm Agent restarts.
LEMMA FarmCrashKeeps ==
  ASSUME OutboxInv, FarmCrash
  PROVE  OutboxInv' /\ (IInv => IInv')
<1>1. /\ \A t \in Posts : post'[t] \in {post[t], Gone}
      /\ post' \in [Posts -> Post]
  BY IdleGone DEF OutboxInv, TypeOK, FarmCrash
<1>2. /\ starts' \in Nat /\ farmCrashes' \in Nat
      /\ UNCHANGED <<kind, setup, sent, request, outbox, submitted, delivery, risked,
                     vpsCrashes>>
  BY DEF OutboxInv, TypeOK, FarmCrash, fixed, vpsVars
<1> QED
  BY <1>1, <1>2, ThreadsReplaced

\* main.py starts.
LEMMA StartKeeps ==
  ASSUME OutboxInv, Start
  PROVE  OutboxInv' /\ (IInv => IInv')
<1> DEFINE Resuming(t) == [Idle EXCEPT !.pc = "poll", !.copy = outbox[Of(t)].final]
<1>1. \A t \in Posts : /\ Resuming(t) \in Post /\ Resuming(t).pc = "poll"
                       /\ Resuming(t).answer = NoAnswer
                       /\ Resuming(t).copy = outbox[Of(t)].final
  <2> TAKE t \in Posts
  <2>1. outbox[Of(t)].final \in {"none"} \cup Finals
    BY ThreadOf DEF OutboxInv
  <2>2. "poll" \in {"absent", "answer", "dead"} \cup Early \cup Working
    BY DEF Working
  <2> QED
    BY <2>1, <2>2, IdleGone DEF Post
<1>2. post' = [t \in Posts |-> IF t[2] # 0 THEN post[t]
                               ELSE IF Resumable(Of(t)) THEN Resuming(t) ELSE Idle]
  BY DEF Start
<1> HIDE DEF Resuming
<1>3. \A t \in Posts :
         \/ post'[t] \in {post[t], Idle}
         \/ Resumable(Of(t)) /\ post'[t] = Resuming(t)
  <2> TAKE t \in Posts
  <2>1. post'[t] = IF t[2] # 0 THEN post[t]
                   ELSE IF Resumable(Of(t)) THEN Resuming(t) ELSE Idle
    BY <1>2, Zenon
  <2> QED
    BY <2>1
<1>5. post' \in [Posts -> Post]
  <2>1. \A t \in Posts : post[t] \in Post
    BY ThreadOf DEF OutboxInv
  <2> QED
    BY <1>1, <1>2, <2>1, IdleGone
<1>4. /\ starts' \in Nat /\ farmCrashes' \in Nat
      /\ UNCHANGED <<kind, setup, sent, request, outbox, submitted, delivery, risked,
                     vpsCrashes>>
  <2>1. /\ starts' = starts + 1
        /\ UNCHANGED <<kind, setup, sent, request, outbox, submitted, delivery,
                       risked, farmCrashes, vpsCrashes>>
    BY DEF Start, fixed, vpsVars
  <2> QED
    BY <2>1 DEF OutboxInv, TypeOK
<1> QED
  BY <1>1, <1>3, <1>4, <1>5, ThreadsReplaced

--------------------------------------------------------------------------------
(* All steps *)

\* Every step of a Farm Agent thread is one of those.
LEMMA HandleHandled ==
  ASSUME OutboxInv, NEW t \in Posts, Handle(t)
  PROVE  \E x \in Post, row \in Row :
            /\ Handled(t, x, row)
            /\ Told /\ DeliveredIsTrue =>
                  \/ Truthful(t, x, row)
                  \/ /\ Told /\ submitted[Of(t)] = 0 /\ Of(t) \notin risked => x.copy # "delivered"
                     /\ x.answer = post[t].answer /\ row = outbox[Of(t)]
                     /\ post[t].pc = "submit"
<1>1. CASE Arrive(t)
  BY <1>1, ArriveHandled
<1>2. CASE Load(t)
  BY <1>2, LoadHandled
<1>3. CASE Reserve(t)
  BY <1>3, ReserveHandled
<1>4. CASE RefuseOrDryRun(t)
  BY <1>4, RefuseHandled
<1>5. CASE Submit(t)
  <2>1. post[t].pc = "submit"
    BY <1>5 DEF Submit, At
  <2> QED
    BY <1>5, <2>1, SubmitHandled
<1>6. CASE Settle(t)
  BY <1>6, SettleHandled
<1>7. CASE Accept(t)
  BY <1>7, AcceptHandled
<1>8. CASE Poll(t)
  BY <1>8, PollHandled
<1>9. CASE Final(t)
  BY <1>9, FinalHandled
<1>10. CASE PollRaises(t)
  BY <1>10, PollRaisesHandled
<1> QED
  BY <1>1, <1>2, <1>3, <1>4, <1>5, <1>6, <1>7, <1>8, <1>9, <1>10 DEF Handle

\* The Farm Agent handles a post: outbox, verdicts and submissions stay in step.
LEMMA HandleKeeps ==
  ASSUME OutboxInv, NEW t \in Posts, Handle(t)
  PROVE  OutboxInv' /\ (IInv => IInv')
<1>1. PICK x \in Post, row \in Row :
         /\ Handled(t, x, row)
         /\ Told /\ DeliveredIsTrue =>
               \/ Truthful(t, x, row)
               \/ /\ Told /\ submitted[Of(t)] = 0 /\ Of(t) \notin risked => x.copy # "delivered"
                  /\ x.answer = post[t].answer /\ row = outbox[Of(t)]
                  /\ post[t].pc = "submit"
  BY HandleHandled
<1>2. OutboxInv'
  BY <1>1, HandledOutbox
<1>3. ASSUME IInv PROVE IInv'
  <2>0. TypeOK /\ Dispatchers /\ OneSubmits /\ Asked /\ Told /\ DeliveredIsTrue
    BY <1>3 DEF IInv, OutboxInv
  <2>1. Dispatchers'
    BY <1>1, <2>0 DEF Handled, Dispatchers
  <2>3. OneSubmits'
    BY <1>1, <2>0, HandledSubmits
  <2>4. Asked'
    BY <1>1, <2>0, HandledAsked
  <2>5. Told' /\ DeliveredIsTrue'
    BY <1>1, <2>0, HandledTold
  <2> QED
    BY <1>2, <2>1, <2>3, <2>4, <2>5 DEF IInv
<1> QED
  BY <1>2, <1>3

\* Every step of a request or dispatcher is one of those.
LEMMA DispatchDispatched ==
  ASSUME OutboxInv, NEW r \in Requests, Dispatch(r)
  PROVE  \E q, status, x : Dispatched(r, q, status, x)
  BY LookupDispatched, InsertDispatched, SpawnDispatched, MarkDispatched, SendDispatched,
     AnsweredDispatched, UnansweredDispatched, SaveDispatched, GiveDispatched
     DEF Dispatch

\* A dispatcher posts, hears its answer or gives up: nothing is submitted by it.
LEMMA DispatchKeeps ==
  ASSUME OutboxInv, NEW r \in Requests, Dispatch(r)
  PROVE  OutboxInv' /\ (IInv => IInv')
<1>1. PICK q, status, x : Dispatched(r, q, status, x)
  BY DispatchDispatched
<1>2. OutboxInv'
  BY <1>1, DispatchedOutbox
<1>3. ASSUME IInv PROVE IInv'
  <2>0. Dispatchers /\ OneSubmits /\ Asked /\ Told /\ DeliveredIsTrue
    BY <1>3 DEF IInv
  <2>1. Dispatchers'
    BY <1>1, <2>0, DispatchedOne
  <2>3. OneSubmits'
    BY <1>1, <2>0, DispatchedSubmits
  <2>4. Asked'
    BY <1>1, <2>0, DispatchedAsked
  <2>5. Told' /\ DeliveredIsTrue'
    BY <1>1, <2>0, DispatchedTold
  <2> QED
    BY <1>2, <2>1, <2>3, <2>4, <2>5 DEF IInv
<1> QED
  BY <1>2, <1>3

\* A stuttering step
LEMMA StutterKeeps ==
  ASSUME UNCHANGED vars
  PROVE  (OutboxInv => OutboxInv') /\ (IInv => IInv')
<1>1. ASSUME OutboxInv PROVE OutboxInv'
  BY <1>1 DEF vars, OutboxInv, TypeOK, Rows, Requested, OutboxRemembers
<1>2. ASSUME IInv PROVE IInv'
  <2>1. OutboxInv'
    BY <1>1, <1>2 DEF IInv
  <2>2. Dispatchers' /\ OneSubmits'
    BY <1>2 DEF vars, IInv, Dispatchers, OneSubmits
  <2>3. Asked' /\ Told' /\ DeliveredIsTrue'
    BY <1>2 DEF vars, IInv, Asked, Told, DeliveredIsTrue
  <2> QED
    BY <2>1, <2>2, <2>3 DEF IInv
<1> QED
  BY <1>1, <1>2

\* Every step keeps the outbox, and the whole invariant.
LEMMA NextKeeps ==
  ASSUME OutboxInv, [Next]_vars
  PROVE  OutboxInv' /\ (IInv => IInv')
<1>1. ASSUME NEW r \in Requests, NEW m \in Messages, Ask(r, m)
      PROVE  OutboxInv' /\ (IInv => IInv')
  BY <1>1, AskKeeps
<1>2. ASSUME NEW r \in Requests, Dispatch(r)
      PROVE  OutboxInv' /\ (IInv => IInv')
  BY <1>2, DispatchKeeps
<1>3. ASSUME NEW t \in Posts, Handle(t)
      PROVE  OutboxInv' /\ (IInv => IInv')
  BY <1>3, HandleKeeps
<1>4. ASSUME NEW m \in Messages, Deliver(m)
      PROVE  OutboxInv' /\ (IInv => IInv')
  BY <1>4, DeliverKeeps
<1>5. CASE VpsCrash \/ FarmCrash \/ Start
  BY <1>5, VpsCrashKeeps, FarmCrashKeeps, StartKeeps
<1>6. CASE UNCHANGED vars
  BY <1>6, StutterKeeps
<1> QED
  BY <1>1, <1>2, <1>3, <1>4, <1>5, <1>6 DEF Next

\* Nothing is stored, sent or submitted.
LEMMA InitHolds ==
  ASSUME Init
  PROVE  OutboxInv /\ IInv
<1>1. TypeOK
  <2>1. NoRequest \in Request /\ NoRow \in Row /\ "none" \in Statuses
    BY OverIs DEF NoRow, Row, Statuses
  <2> QED
    BY <2>1, IdleGone DEF Init, TypeOK
<1>2. /\ \A r \in Requests : request[r].pc = "idle" /\ request[r].answer.status = "none"
      /\ \A t \in Posts : post[t].pc = "absent" /\ post[t].copy = "none"
            /\ post[t].answer.code = "none" /\ post[t].answer.status = "none"
      /\ \A m \in Messages : outbox[m].final = "none" /\ ~outbox[m].id /\ sent[m] = "none"
            /\ submitted[m] = 0 /\ delivery[m] = "unknown"
  BY OverIs, IdleGone DEF Init, NoRow
<1>3. Rows /\ Requested /\ OutboxRemembers
  BY <1>2 DEF Rows, Requested, OutboxRemembers, Working
<1>4. Dispatchers /\ OneSubmits
  BY <1>2 DEF Dispatchers, Dispatching, OneSubmits
<1>5. Asked /\ Told /\ DeliveredIsTrue
  BY <1>2 DEF Asked, Early, Working, Told, DeliveredIsTrue
<1> QED
  BY <1>1, <1>3, <1>4, <1>5 DEF OutboxInv, IInv

\* Whatever is retried, crashes or arrives late, with any number of tries, every
\* variable has its type.
THEOREM DeliveryTypes == Spec => []TypeOK
<1>1. Init => OutboxInv
  BY InitHolds
<1>2. OutboxInv /\ [Next]_vars => OutboxInv'
  BY NextKeeps
<1>3. OutboxInv => TypeOK
  BY DEF OutboxInv
<1> QED
  BY <1>1, <1>2, <1>3, PTL DEF Spec

\* With any number of posts and tries: a message that the provider took has a row in
\* the farm's durable outbox (sms_outbox.py).
THEOREM RemembersWhatWasTaken == Spec => []OutboxRemembers
<1>1. Init => OutboxInv
  BY InitHolds
<1>2. OutboxInv /\ [Next]_vars => OutboxInv'
  BY NextKeeps
<1>3. OutboxInv => OutboxRemembers
  BY DEF OutboxInv
<1> QED
  BY <1>1, <1>2, <1>3, PTL DEF Spec

\* The inductive invariant
LEMMA DeliveryInductive == Spec => []IInv
<1>1. Init => IInv
  BY InitHolds
<1>2. IInv /\ [Next]_vars => IInv'
  BY NextKeeps DEF IInv
<1> QED
  BY <1>1, <1>2, PTL DEF Spec

\* With any number of posts and tries, both sides' books agree with the provider's:
\* a message that was taken has its row, and "delivered" is never shown for one
\* the provider has not reported delivered, except for a message whose second
\* submission was risked.
THEOREM DeliveryCorrect == Spec => []DeliveryInv
<1>1. IInv => DeliveryInv
  BY DEF IInv, OutboxInv, DeliveryInv
<1> QED
  BY <1>1, DeliveryInductive, PTL

--------------------------------------------------------------------------------
(* What the VPS promises of a message *)

shownNow == [m \in Messages |-> Shown(sent[m])]

\* What is shown for a status
LEMMA ShownIs ==
  /\ \A s \in Open : Shown(s) = "open"
  /\ \A s \in Statuses : s \notin Open => Shown(s) = s
  /\ \A s \in Statuses \ {"none"} : Shown(s) # "none"
  BY DEF Shown, Open, Statuses

counted == [m \in Messages |-> Counted(m)]

\* What is counted of a message is one submission at most.
LEMMA CountedIs ==
  ASSUME IInv, NEW t \in Posts, post[t].pc = "submit", NEW m \in Messages, m = Of(t)
  PROVE  /\ sent[m] # "none" /\ sent[m] \in Statuses
         /\ submitted[m] \in Nat
         /\ m \notin risked => submitted[m] = 0
  BY DEF IInv, OutboxInv, TypeOK, OneSubmits, Asked, Working

\* A step of the Farm Agent shows nothing new, and submits once as far as counted.
LEMMA HandlePromised ==
  ASSUME IInv, NEW t \in Posts, Handle(t)
  PROVE  \/ UNCHANGED <<sent, counted>>
         \/ UNCHANGED sent /\ \E m \in Messages : Promise!Submit(m)
<1>1. PICK x \in Post, row \in Row : Handled(t, x, row)
  BY HandleHandled DEF IInv
<1>2. UNCHANGED sent
  BY <1>1 DEF Handled
<1> DEFINE m == Of(t)
<1>3. /\ TypeOK /\ m \in Messages /\ submitted \in [Messages -> Nat]
      /\ risked' = risked \/ risked' = risked \cup {m}
      /\ risked' = risked \/ outbox[m].final = "none" \/ post[t].pc = "submit"
      /\ outbox[m].final = "none" => submitted[m] = 0
  BY <1>1, PostsAre DEF Handled, IInv, OutboxInv, TypeOK, OutboxRemembers
<1>4. \A n \in Messages \ {m} : submitted'[n] = submitted[n] /\ Counted(n)' = Counted(n)
  BY <1>1, <1>3 DEF Handled, Taken, Counted
<1>5. post[t].pc = "submit" =>
         /\ sent[m] # "none" /\ sent[m] \in Statuses
         /\ m \notin risked => submitted[m] = 0
  BY <1>3, CountedIs
<1> HIDE DEF m
<1>6. CASE UNCHANGED submitted
  <2>1. Counted(m)' = Counted(m)
    BY <1>3, <1>5, <1>6 DEF Counted
  <2>2. UNCHANGED counted
    BY <1>4, <2>1 DEF counted
  <2> QED
    BY <1>2, <2>2
<1>7. CASE post[t].pc = "submit" /\ submitted' = [submitted EXCEPT ![m] = @ + 1]
  <2>1. submitted'[m] = submitted[m] + 1 /\ submitted[m] \in Nat
    BY <1>3, <1>7
  <2>2. CASE submitted[m] > 0
    <3>1. m \in risked /\ m \in risked'
      BY <1>3, <1>5, <1>7, <2>2
    <3>2. Counted(m)' = Counted(m)
      BY <2>1, <2>2, <3>1 DEF Counted
    <3>3. UNCHANGED counted
      BY <1>4, <3>2 DEF counted
    <3> QED
      BY <1>2, <3>3
  <2>3. CASE submitted[m] = 0
    <3>1. Counted(m) = 0 /\ Counted(m)' = 1
      BY <2>1, <2>3 DEF Counted
    <3>2. counted[m] = 0 /\ counted' = [counted EXCEPT ![m] = 1]
      BY <1>3, <1>4, <3>1 DEF counted
    <3>3. shownNow[m] # "none" /\ UNCHANGED shownNow
      BY <1>2, <1>3, <1>5, <1>7, ShownIs DEF shownNow
    <3>4. Promise!Submit(m)
      BY <3>2, <3>3 DEF Promise!Submit, shownNow, counted
    <3> QED
      BY <1>2, <1>3, <3>4
  <2> QED
    BY <2>1, <2>2, <2>3
<1> QED
  BY <1>1, <1>6, <1>7 DEF Handled, Taken, m

\* A step of a request or dispatcher stores a message, keeps it open or closes it.
LEMMA DispatchPromised ==
  ASSUME IInv, NEW r \in Requests, Dispatch(r)
  PROVE  [Promise!Next]_(Promise!vars)
<1>1. PICK q, status, x : Dispatched(r, q, status, x)
  BY DispatchDispatched DEF IInv
<1> DEFINE m == request[r].message
<1>2. /\ m \in Messages /\ sent[m] \in Statuses /\ status \in Statuses
      /\ sent' = [sent EXCEPT ![m] = status] /\ UNCHANGED <<submitted, risked>>
      /\ sent \in [Messages -> Statuses]
  BY <1>1, RequestAtWork DEF Dispatched, Quiet, IInv, OutboxInv, TypeOK
<1>9. UNCHANGED counted
  BY <1>2 DEF counted, Counted
<1>3. \/ status = sent[m]
      \/ sent[m] \in Open /\ status # "none"
      \/ sent[m] = "none" /\ status = "queued"
  BY <1>1 DEF Dispatched, IInv, Dispatchers
<1> HIDE DEF m
<1>4. /\ shownNow' = [shownNow EXCEPT ![m] = Shown(status)]
      /\ shownNow[m] = Shown(sent[m])
  <2>1. \A n \in Messages : sent'[n] = IF n = m THEN status ELSE sent[n]
    BY <1>2
  <2> QED
    BY <1>2, <2>1 DEF shownNow
<1>5. CASE Shown(status) = Shown(sent[m])
  <2>1. UNCHANGED shownNow
    BY <1>4, <1>5 DEF shownNow
  <2> QED
    BY <1>9, <2>1 DEF Promise!vars, shownNow, counted
<1>6. CASE sent[m] = "none" /\ status = "queued"
  <2>1. Shown(sent[m]) = "none" /\ Shown(status) = "open"
    BY <1>6 DEF Shown, Open
  <2>2. Promise!Accept(m)
    BY <1>2, <1>4, <1>9, <2>1 DEF Promise!Accept, shownNow, counted
  <2> QED
    BY <1>2, <2>2 DEF Promise!Next
<1>7. CASE sent[m] \in Open /\ status \notin Open \cup {"none"}
  <2>1. Shown(sent[m]) = "open" /\ Shown(status) = status
    BY <1>2, <1>7, ShownIs
  <2>2. status \in Finals \ {"queued"}
    BY <1>2, <1>7 DEF Statuses, Open
  <2>3. Promise!Close(m, status)
    BY <1>2, <1>4, <1>9, <2>1 DEF Promise!Close, shownNow, counted
  <2> QED
    BY <1>2, <2>2, <2>3 DEF Promise!Next
<1>8. CASE sent[m] \in Open /\ status \in Open
  BY <1>5, <1>8, ShownIs
<1> QED
  BY <1>3, <1>5, <1>6, <1>7, <1>8

\* Every step is one of the promise, or none.
LEMMA NextPromised ==
  ASSUME IInv, [Next]_vars
  PROVE  [Promise!Next]_(Promise!vars)
<1>1. ASSUME UNCHANGED <<sent, submitted, risked>>
      PROVE  UNCHANGED Promise!vars
  BY <1>1 DEF Promise!vars, Counted
<1>2. ASSUME NEW r \in Requests, NEW m \in Messages, Ask(r, m)
      PROVE  UNCHANGED <<sent, submitted, risked>>
  BY <1>2 DEF Ask, farmVars
<1>3. ASSUME NEW r \in Requests, Dispatch(r)
      PROVE  [Promise!Next]_(Promise!vars)
  BY <1>3, DispatchPromised
<1>4. ASSUME NEW t \in Posts, Handle(t)
      PROVE  [Promise!Next]_(Promise!vars)
  <2>1. CASE UNCHANGED <<sent, counted>>
    BY <2>1 DEF Promise!vars, counted
  <2>2. CASE \E m \in Messages : Promise!Submit(m)
    BY <2>2 DEF Promise!Next
  <2> QED
    BY <1>4, <2>1, <2>2, HandlePromised
<1>5. ASSUME NEW m \in Messages, Deliver(m)
      PROVE  UNCHANGED <<sent, submitted, risked>>
  BY <1>5 DEF Deliver, vpsVars
<1>6. CASE VpsCrash \/ FarmCrash \/ Start
  <2>1. UNCHANGED <<sent, submitted, risked>>
    BY <1>6 DEF VpsCrash, FarmCrash, Start, farmVars, vpsVars
  <2> QED
    BY <1>1, <2>1
<1>7. CASE UNCHANGED vars
  <2>1. UNCHANGED <<sent, submitted, risked>>
    BY <1>7 DEF vars
  <2> QED
    BY <1>1, <2>1
<1> QED
  BY <1>1, <1>2, <1>3, <1>4, <1>5, <1>6, <1>7 DEF Next

\* With any number of posts and tries, the VPS and the farm together keep the promise
\* of SmsPromise: a verdict that is shown stays, and a message is submitted only after
\* it was stored and at most once, unless two of its posts came between each other's
\* look into the outbox and reservation, or its provider call was tried again.
THEOREM DeliveryKeepsPromise == Spec => AtMostOnce
<1>1. Init => Promise!Init
  BY DEF Init, Promise!Init, Shown, Open, Counted
<1>2. IInv /\ [Next]_vars => [Promise!Next]_(Promise!vars)
  BY NextPromised
<1> QED
  BY <1>1, <1>2, DeliveryInductive, PTL DEF Spec, AtMostOnce, Promise!Spec
================================================================================
