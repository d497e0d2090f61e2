---------------------------- MODULE OrdersWorker ----------------------------
(***************************************************************************)
(* OrdersWorkerService: the consumer of orders.process, with the channel   *)
(* of RabbitMqService between it and the broker.  A message may be at the  *)
(* broker in several copies; up to Prefetch of them are delivered at once  *)
(* and handled concurrently.  A handler inserts a dedup row, processes the *)
(* order and commits in one transaction, then acknowledges; a handler that *)
(* fails publishes the next attempt after a backoff, or the message to     *)
(* orders.dlq, and acknowledges.                                           *)
(*                                                                         *)
(* What the process sends (messages and acknowledgements) goes through one *)
(* socket in order: "wire".  A closed channel or a dead process drops what *)
(* is on the wire, and the broker makes unacknowledged copies ready again. *)
(***************************************************************************)
EXTENDS Integers, Sequences, FiniteSets

CONSTANTS Orders,       \* ids of orders; the API uses them as message ids too
          NoId,         \* messageId: undefined
          Copies,       \* names for the copies of messages that exist at one time
          MaxRetries,   \* WORKER_RETRIES
          Prefetch,     \* RABBITMQ_PREFETCH
          DebugStops,   \* values of simulateFailure.stopOnAttempt in debug requests
          MaxDebug,     \* bound on debug requests
          MaxFailures,  \* bound on failed statements and commits
          MaxFaults     \* bound on crashes and channel closures

Ids == Orders \cup {NoId}

(* msg.attempt is undefined in a message without the field, NaN after 1 is
   added to it, null in the JSON of that, and null + 1 is 1.  Neither
   undefined nor null reaches a positive bound, so -1 and 0 stand for them. *)
Undefined == -1
NoStop == -2    \* no simulateFailure in the message

Blank == [id |-> NoId, attempt |-> Undefined, stop |-> NoStop]

ASSUME WorkerAssumption ==
    /\ NoId \notin Orders
    /\ IsFiniteSet(Copies)
    /\ MaxRetries \in Nat \ {0}
    /\ Prefetch \in Nat \ {0}
    /\ DebugStops \subseteq Nat \ {0}
    /\ MaxDebug \in Nat /\ MaxFailures \in Nat /\ MaxFaults \in Nat

VARIABLES
    msg,        \* content of each copy
    where,      \* where the broker has it
    pc,         \* where the handler of a delivered copy stands
    tx,         \* its transaction
    processed,  \* committed rows of processed_messages
    effects,    \* how many times each order was committed as processed
    accepted,   \* orders whose first message has reached the broker
    wire,       \* frames written to the socket: [kind, copy, queue]
    channel,
    sent,       \* orders whose message the API has sent
    debugs, failures, faults

work == <<pc, tx>>
tables == <<processed, effects>>
broker == <<where, accepted>>
env == <<sent, debugs>>
bounds == <<failures, faults>>
vars == <<msg, broker, work, tables, wire, channel, env, bounds>>

Places == {"unused", "wire", "ready", "unacked", "dlq"}
Steps == {"none", "insert", "process", "commit", "ack", "failed", "backoff"}

Init ==
    /\ msg = [c \in Copies |-> Blank]
    /\ where = [c \in Copies |-> "unused"]
    /\ pc = [c \in Copies |-> "none"]
    /\ tx = [c \in Copies |-> "none"]
    /\ processed = {}
    /\ effects = [o \in Orders |-> 0]
    /\ accepted = {}
    /\ wire = <<>>
    /\ channel = "open"
    /\ sent = {}
    /\ debugs = 0 /\ failures = 0 /\ faults = 0

-----------------------------------------------------------------------------
(* RabbitMqService. *)

Unused == {c \in Copies : where[c] = "unused"}
Fresh == CHOOSE c \in Unused : TRUE
Unacked == {c \in Copies : where[c] = "unacked"}

SendFrame(c, queue) == [kind |-> "send", copy |-> c, queue |-> queue]
AckFrame(c) == [kind |-> "ack", copy |-> c, queue |-> "none"]

(* Mutant: the acknowledgement goes out before the message that replaces it. *)
SendLast(queue, m, frames) ==
    /\ channel = "open"
    /\ Unused # {}
    /\ msg' = [msg EXCEPT ![Fresh] = m]
    /\ where' = [where EXCEPT ![Fresh] = "wire"]
    /\ wire' = wire \o frames \o <<SendFrame(Fresh, queue)>>

(* send(queue, m), then the frames of the same turn of the event loop *)
SendThen(queue, m, frames) ==
    /\ channel = "open"
    /\ Unused # {}
    /\ msg' = [msg EXCEPT ![Fresh] = m]
    /\ where' = [where EXCEPT ![Fresh] = "wire"]
    /\ wire' = wire \o <<SendFrame(Fresh, queue)>> \o frames

(* The messages on the wire are lost, the deliveries are void. *)
Cut ==
    /\ where' = [c \in Copies |-> IF where[c] = "unacked" THEN "ready"
                                  ELSE IF where[c] = "wire" THEN "unused"
                                  ELSE where[c]]
    /\ msg' = [c \in Copies |-> IF where[c] = "wire" THEN Blank ELSE msg[c]]
    /\ wire' = <<>>

(* The process dies: its transactions are rolled back; it is started again
   and opens a channel. *)
Restart ==
    /\ Cut
    /\ pc' = [c \in Copies |-> "none"]
    /\ tx' = [c \in Copies |-> "none"]
    /\ channel' = "open"

-----------------------------------------------------------------------------
(* Producers. *)

(* The end of OrdersService.createOrder, once per order: see OrderCreation. *)
PublishOrder(o) ==
    /\ o \notin sent
    /\ SendThen("process", [id |-> o, attempt |-> 1, stop |-> NoStop], <<>>)
    /\ sent' = sent \cup {o}
    /\ UNCHANGED <<accepted, work, tables, channel, debugs, bounds>>

(* ValidationPipe with whitelist: the fields of ProcessOrderMessageDto carry
   no decorators, so none is kept. *)
Whitelisted(body) == Blank

PostDebug ==
    /\ debugs < MaxDebug
    /\ \E o \in Orders, n \in DebugStops :
          SendThen("process", Whitelisted([id |-> o, attempt |-> 1, stop |-> n]), <<>>)
    /\ debugs' = debugs + 1
    /\ UNCHANGED <<accepted, work, tables, channel, sent, bounds>>

-----------------------------------------------------------------------------
(* The handler of a delivered copy. *)

Goto(c, step) == pc' = [pc EXCEPT ![c] = step]

Deliver(c) ==
    /\ channel = "open"
    /\ where[c] = "ready"
    /\ Cardinality(Unacked) < Prefetch
    /\ where' = [where EXCEPT ![c] = "unacked"]
    /\ Goto(c, "insert")
    /\ UNCHANGED <<msg, accepted, tx, tables, wire, channel, env, bounds>>

HoldsRow(c) == tx[c] = "inserted"

(* Mutant: the dedup key includes the attempt. *)
RowFreeForAttempt(c) ==
    \A d \in Copies : HoldsRow(d) => msg[d] # msg[c]

(* Mutant: only committed rows are checked. *)
RowFreeCommitted(c) == msg[c].id \notin processed

(* No row of that message, committed or not *)
RowFree(c) ==
    /\ msg[c].id \notin processed
    /\ \A d \in Copies : HoldsRow(d) => msg[d].id # msg[c].id

InsertDedup(c) ==
    /\ pc[c] = "insert"
    /\ msg[c].id # NoId
    /\ RowFree(c)
    /\ tx' = [tx EXCEPT ![c] = "inserted"]
    /\ Goto(c, "process")
    /\ UNCHANGED <<msg, broker, tables, wire, channel, env, bounds>>

(* 23505 is caught; COMMIT of the aborted transaction rolls it back. *)
InsertDuplicate(c) ==
    /\ pc[c] = "insert"
    /\ msg[c].id \in processed
    /\ Goto(c, "ack")
    /\ UNCHANGED <<msg, broker, tx, tables, wire, channel, env, bounds>>

(* message_id is NOT NULL. *)
InsertNull(c) ==
    /\ pc[c] = "insert"
    /\ msg[c].id = NoId
    /\ Goto(c, "failed")
    /\ UNCHANGED <<msg, broker, tx, tables, wire, channel, env, bounds>>

Simulated(c) == msg[c].stop # NoStop

(* The order is updated inside the transaction; a simulated failure throws,
   which rolls back, unless this is the attempt it stops on. *)
Process(c) ==
    /\ pc[c] = "process"
    /\ IF Simulated(c) /\ msg[c].stop # msg[c].attempt
       THEN /\ tx' = [tx EXCEPT ![c] = "none"]
            /\ Goto(c, "failed")
       ELSE /\ Goto(c, "commit")
            /\ UNCHANGED tx
    /\ UNCHANGED <<msg, broker, tables, wire, channel, env, bounds>>

Install(c) ==
    /\ processed' = processed \cup {msg[c].id}
    /\ effects' = IF Simulated(c) THEN effects
                  ELSE [effects EXCEPT ![msg[c].id] = @ + 1]
    /\ tx' = [tx EXCEPT ![c] = "none"]

Commit(c) ==
    /\ pc[c] = "commit"
    /\ Install(c)
    /\ Goto(c, "ack")
    /\ UNCHANGED <<msg, broker, wire, channel, env, bounds>>

(* PostgreSQL commits, the answer to COMMIT is lost with the connection. *)
CommitUnknown(c) ==
    /\ pc[c] = "commit"
    /\ failures < MaxFailures
    /\ failures' = failures + 1
    /\ Install(c)
    /\ Goto(c, "failed")
    /\ UNCHANGED <<msg, broker, wire, channel, env, faults>>

StatementFails(c) ==
    /\ pc[c] \in {"insert", "process", "commit"}
    /\ failures < MaxFailures
    /\ failures' = failures + 1
    /\ tx' = [tx EXCEPT ![c] = "none"]
    /\ Goto(c, "failed")
    /\ UNCHANGED <<msg, broker, tables, wire, channel, env, faults>>

Ack(c) ==
    /\ pc[c] = "ack"
    /\ channel = "open"
    /\ wire' = Append(wire, AckFrame(c))
    /\ Goto(c, "none")
    /\ UNCHANGED <<msg, broker, tx, tables, channel, env, bounds>>

(* ack() throws on a closed channel: the success is handled as a failure. *)
AckFails(c) ==
    /\ pc[c] = "ack"
    /\ channel # "open"
    /\ Goto(c, "failed")
    /\ UNCHANGED <<msg, broker, tx, tables, wire, channel, env, bounds>>

(* Mutant: one attempt too many. *)
ExhaustedLate(c) == msg[c].attempt > MaxRetries

Exhausted(c) == msg[c].attempt >= MaxRetries

SendToDlq(c) ==
    /\ pc[c] = "failed"
    /\ Exhausted(c)
    /\ SendThen("dlq", msg[c], <<AckFrame(c)>>)
    /\ Goto(c, "none")
    /\ UNCHANGED <<accepted, tx, tables, channel, env, bounds>>

(* send() throws, and so does reject() in the catch of consume(): the handler
   is over and the copy is left to the broker. *)
SendToDlqFails(c) ==
    /\ pc[c] = "failed"
    /\ Exhausted(c)
    /\ channel # "open"
    /\ Goto(c, "none")
    /\ UNCHANGED <<msg, broker, tx, tables, wire, channel, env, bounds>>

(* Mutant: the failed message is neither republished nor acknowledged. *)
ForgetRetry(c) ==
    /\ pc[c] = "failed"
    /\ ~ Exhausted(c)
    /\ Goto(c, "none")
    /\ UNCHANGED <<msg, broker, tx, tables, wire, channel, env, bounds>>

ScheduleRetry(c) ==
    /\ pc[c] = "failed"
    /\ ~ Exhausted(c)
    /\ Goto(c, "backoff")
    /\ UNCHANGED <<msg, broker, tx, tables, wire, channel, env, bounds>>

(* Mutant: a counter that is missing stays missing. *)
RetryUncounted(c) ==
    /\ pc[c] = "backoff"
    /\ SendThen("process",
                [msg[c] EXCEPT !.attempt = IF @ = Undefined THEN @ ELSE @ + 1],
                <<AckFrame(c)>>)
    /\ Goto(c, "none")
    /\ UNCHANGED <<accepted, tx, tables, channel, env, bounds>>

(* The timer fires: republish, then acknowledge. *)
Retry(c) ==
    /\ pc[c] = "backoff"
    /\ SendThen("process", [msg[c] EXCEPT !.attempt = @ + 1], <<AckFrame(c)>>)
    /\ Goto(c, "none")
    /\ UNCHANGED <<accepted, tx, tables, channel, env, bounds>>

(* Nobody catches what the timer's callback throws: the process dies of it. *)
RetryFails(c) ==
    /\ pc[c] = "backoff"
    /\ channel # "open"
    /\ Restart
    /\ UNCHANGED <<accepted, tables, env, bounds>>

-----------------------------------------------------------------------------
(* The broker and what happens around the process. *)

FlushSend ==
    /\ wire # <<>>
    /\ Head(wire).kind = "send"
    /\ LET c == Head(wire).copy
       IN  /\ where' = [where EXCEPT ![c] = IF Head(wire).queue = "dlq" THEN "dlq" ELSE "ready"]
           /\ accepted' = accepted \cup ({msg[c].id} \cap Orders)
    /\ wire' = Tail(wire)
    /\ UNCHANGED <<msg, work, tables, channel, env, bounds>>

FlushAck ==
    /\ wire # <<>>
    /\ Head(wire).kind = "ack"
    /\ where' = [where EXCEPT ![Head(wire).copy] = "unused"]
    /\ msg' = [msg EXCEPT ![Head(wire).copy] = Blank]
    /\ wire' = Tail(wire)
    /\ UNCHANGED <<accepted, work, tables, channel, env, bounds>>

(* The broker closes the channel or the connection in good order; nothing
   opens another before a restart.  The handlers go on. *)
ChannelClose ==
    /\ faults < MaxFaults
    /\ faults' = faults + 1
    /\ channel = "open"
    /\ channel' = "closed"
    /\ Cut
    /\ UNCHANGED <<accepted, work, tables, env, failures>>

(* SIGTERM: onModuleDestroy closes the channel.  The broker still takes what
   was written before; what handlers and timers want to send now throws. *)
Shutdown ==
    /\ faults < MaxFaults
    /\ faults' = faults + 1
    /\ channel = "open"
    /\ channel' = "closing"
    /\ UNCHANGED <<msg, broker, work, tables, wire, env, failures>>

(* The broker confirms and takes the deliveries back. *)
Closed ==
    /\ channel = "closing"
    /\ wire = <<>>
    /\ Cut
    /\ channel' = "closed"
    /\ UNCHANGED <<accepted, work, tables, env, bounds>>

(* exit(0) after app.close(), or what app.close() threw: an error for a channel
   that is closed already. *)
Exit ==
    /\ channel = "closed"
    /\ Restart
    /\ UNCHANGED <<accepted, tables, env, bounds>>

Crash ==
    /\ faults < MaxFaults
    /\ faults' = faults + 1
    /\ Restart
    /\ UNCHANGED <<accepted, tables, env, failures>>

Idle ==
    /\ \A c \in Copies : pc[c] = "none"
    /\ wire = <<>>
    /\ \A c \in Copies : where[c] # "ready" \/ channel # "open"
    /\ UNCHANGED vars

Handle(c) ==
    \/ InsertDedup(c)
    \/ InsertDuplicate(c)
    \/ InsertNull(c)
    \/ Process(c)
    \/ Commit(c)
    \/ Ack(c)
    \/ AckFails(c)
    \/ SendToDlq(c)
    \/ SendToDlqFails(c)
    \/ ScheduleRetry(c)
    \/ Retry(c)
    \/ RetryFails(c)

Next ==
    \/ \E o \in Orders : PublishOrder(o)
    \/ PostDebug
    \/ \E c \in Copies : Deliver(c) \/ Handle(c) \/ CommitUnknown(c) \/ StatementFails(c)
    \/ FlushSend
    \/ FlushAck
    \/ ChannelClose
    \/ Shutdown
    \/ Closed
    \/ Exit
    \/ Crash
    \/ Idle

Spec == Init /\ [][Next]_vars

(* Awaits settle, timers fire, the socket and the broker make progress. *)
Fairness ==
    /\ \A c \in Copies : WF_vars(Deliver(c)) /\ WF_vars(Handle(c))
    /\ WF_vars(FlushSend) /\ WF_vars(FlushAck)

FairSpec == Spec /\ Fairness

-----------------------------------------------------------------------------
(* Properties. *)

Frames == [kind : {"send", "ack"}, copy : Copies, queue : {"process", "dlq", "none"}]

(* Every variable has its type; no message is attempted more than MaxRetries
   times. *)
TypeOK ==
    /\ msg \in [Copies -> [id : Ids, attempt : Undefined..MaxRetries, stop : Int]]
    /\ where \in [Copies -> Places]
    /\ pc \in [Copies -> Steps]
    /\ tx \in [Copies -> {"none", "inserted"}]
    /\ processed \subseteq Ids
    /\ effects \in [Orders -> Nat]
    /\ accepted \subseteq Orders
    /\ wire \in Seq(Frames)
    /\ channel \in {"open", "closing", "closed"}
    /\ sent \subseteq Orders
    /\ debugs \in 0..MaxDebug
    /\ failures \in 0..MaxFailures
    /\ faults \in 0..MaxFaults

(* The business effect of a message takes place exactly when its dedup row is
   committed, hence once, however often it is delivered, retried or handled
   by two handlers at once. *)
EffectOnce ==
    \A o \in Orders : effects[o] = IF o \in processed THEN 1 ELSE 0

(* Two handlers of one message never both hold its dedup row. *)
OneHandlerInserts ==
    \A c, d \in Copies :
        HoldsRow(c) => /\ pc[c] \in {"process", "commit"}
                       /\ msg[c].id \notin processed \cup {NoId}
                       /\ HoldsRow(d) /\ msg[c].id = msg[d].id => c = d

AtBroker(o) == \E c \in Copies : msg[c].id = o /\ where[c] \in {"ready", "unacked", "dlq"}

(* At-least-once: a message the broker has accepted is processed, or the
   broker has a copy of it, in orders.process or in orders.dlq. *)
NoLostMessage == \A o \in accepted : o \in processed \/ AtBroker(o)

Dead(o) == \E c \in Copies : msg[c].id = o /\ where[c] = "dlq"
Live(o) == \E c \in Copies : msg[c].id = o /\ where[c] \in {"ready", "unacked"}

HeldOrders == {o \in Orders : Live(o)}
DoneOrders == processed \cap Orders
DeadOrders == {o \in Orders : Dead(o)}

Tasks == INSTANCE OrderTasks WITH held <- HeldOrders, done <- DoneOrders, dead <- DeadOrders

(* The worker implements OrderTasks: whatever is delivered twice, retried,
   cut off or committed without an answer, each step accepts, finishes, gives
   up or lets go one task as that specification allows, or changes none. *)
ImplementsTasks == Tasks!Spec

(* Every message the broker has accepted is eventually processed or put in
   the DLQ, unless the channel is cut and nothing restarts the process. *)
Settled == \A o \in Orders :
    o \in accepted ~> (o \in processed \/ Dead(o) \/ channel # "open")

(* No message goes round for ever, also when its counter is missing, as that of
   every debug message is: orders.process gets rid of each message and of all
   its copies, unless the channel is cut and nothing restarts the process. *)
NoRetryLoop == \A i \in Ids : []<>(~Live(i) \/ channel # "open")

(* docs/task-7: WORKER_RETRIES is how many times a failing task is retried
   before it is sent to the DLQ. *)
DlqAfterAllRetries ==
    \A c \in Copies : where[c] = "dlq" => msg[c].attempt - 1 >= MaxRetries

(* docs/task-7: orders.dlq stores failed tasks. *)
DlqHoldsFailedTasks ==
    \A c \in Copies : where[c] = "dlq" => msg[c].id \notin processed

(* docs/task-7: a debug message whose stopOnAttempt is within WORKER_RETRIES
   succeeds on that attempt and does not end in the DLQ. *)
DebugStopsOnAttempt ==
    (\A n \in DebugStops : n <= MaxRetries) => \A c \in Copies : where[c] # "dlq"

(* README, step 6: the worker consumes the message. *)
EveryMessageSettles ==
    \A o \in Orders : o \in accepted ~> (o \in processed \/ Dead(o))
=============================================================================
