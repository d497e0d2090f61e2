------------------------- MODULE OrdersWorkerProofs -------------------------
(***************************************************************************)
(* OrdersWorker, for any orders, copies, number of attempts, prefetch and  *)
(* any numbers of failures and faults: the invariants that TLC checks in   *)
(* the run "orders_worker", and that the worker implements OrderTasks.     *)
(***************************************************************************)
EXTENDS OrdersWorker, SequenceTheorems, TLAPS

Message == [id : Ids, attempt : Undefined..MaxRetries, stop : Int]

(* What the broker has taken and not let go *)
Kept == {"ready", "unacked", "dlq"}

(* A handler works on a delivered copy, or on one whose delivery is void; no
   message carries a simulated failure; a timer runs for a message that has
   an attempt left; an acknowledgement follows a committed row. *)
HandlerOf(c) ==
    /\ msg[c].stop = NoStop
    /\ where[c] = "unused" => msg[c] = Blank
    /\ pc[c] # "none" => \/ where[c] = "unacked"
                         \/ where[c] = "ready" /\ channel # "open"
    /\ pc[c] = "backoff" => msg[c].attempt < MaxRetries
    /\ pc[c] = "ack" => msg[c].id \in processed
    /\ HoldsRow(c) <=> pc[c] \in {"process", "commit"}

HandlerInv == \A c \in Copies : HandlerOf(c)

IsAck(f, c) == f.kind = "ack" /\ f.copy = c

(* A frame is about a copy that is on its way or to be released, and no other
   frame is about it. *)
WireInv ==
    \A i \in 1..Len(wire) :
        /\ IF wire[i].kind = "send" THEN where[wire[i].copy] = "wire"
           ELSE where[wire[i].copy] = "unacked" /\ pc[wire[i].copy] = "none"
        /\ \A j \in 1..Len(wire) : wire[i].copy = wire[j].copy => i = j

(* The broker keeps a copy of o until after frame i. *)
KeptPast(o, i) ==
    \E d \in Copies :
        /\ msg[d].id = o /\ where[d] \in Kept
        /\ \A j \in 1..Len(wire) : j <= i => ~ IsAck(wire[j], d)

(* The same of a copy that was delivered *)
HeldPast(o, i) ==
    \E d \in Copies :
        /\ msg[d].id = o /\ where[d] = "unacked"
        /\ \A j \in 1..Len(wire) : j <= i => ~ IsAck(wire[j], d)

(* An unprocessed message is acknowledged behind the one that replaces it. *)
AckInv ==
    \A i \in 1..Len(wire) :
        LET o == msg[wire[i].copy].id
        IN  wire[i].kind = "ack" /\ o \in Orders \ processed =>
               \/ \E j \in 1..(i - 1) : wire[j].kind = "send" /\ msg[wire[j].copy].id = o
               \/ KeptPast(o, i)

(* Before its first message is accepted, an order has one copy at most. *)
CopyInv ==
    /\ accepted \subseteq sent
    /\ \A c \in Copies :
          msg[c].id \in Orders =>
              /\ msg[c].id \in sent
              /\ where[c] \in Kept => msg[c].id \in accepted
              /\ msg[c].id \notin accepted =>
                    where[c] = "wire" /\ \A d \in Copies : msg[d].id = msg[c].id => d = c

(* After that, a message is sent only while the broker has another, which is
   acknowledged later; the DLQ is for messages that were accepted. *)
SendInv ==
    \A i \in 1..Len(wire) :
        LET o == msg[wire[i].copy].id
        IN  wire[i].kind = "send" =>
               /\ o \in accepted => HeldPast(o, i)
               /\ wire[i].queue \in {"process", "dlq"}
               /\ wire[i].queue = "dlq" /\ o \in Orders => o \in accepted

IInv ==
    /\ TypeOK
    /\ HandlerInv
    /\ EffectOnce
    /\ OneHandlerInserts
    /\ WireInv
    /\ AckInv
    /\ NoLostMessage
    /\ CopyInv
    /\ SendInv

-----------------------------------------------------------------------------
(* What happens to the wire. *)

(* A message m is written: the copy f is new, the frame is the next one. *)
Written(f, queue, m) ==
    /\ where[f] = "unused"
    /\ msg' = [msg EXCEPT ![f] = m]
    /\ where' = [where EXCEPT ![f] = "wire"]
    /\ wire' \in Seq(Frames)
    /\ \A i \in 1..Len(wire) : wire'[i] = wire[i]
    /\ wire'[Len(wire) + 1] = SendFrame(f, queue)

LEMMA SendWrites ==
    ASSUME TypeOK, NEW queue \in {"process", "dlq"}, NEW m, SendThen(queue, m, <<>>)
    PROVE  \E f \in Copies : Written(f, queue, m) /\ Len(wire') = Len(wire) + 1
<1> DEFINE f == Fresh
           frame == SendFrame(f, queue)
<1>1. f \in Copies /\ where[f] = "unused"
  BY DEF SendThen, Fresh, Unused
<1>2. frame \in Frames
  BY <1>1 DEF SendFrame, Frames
<1>3. wire \in Seq(Frames)
  BY DEF TypeOK
<1> HIDE DEF f, frame
<1>4. wire' = (wire \o <<frame>>) \o <<>>
  BY DEF SendThen, f, frame
<1>5. wire \o <<frame>> = Append(wire, frame)
  BY <1>2, <1>3, AppendIsConcat
<1>6. wire' = Append(wire, frame)
  BY <1>2, <1>3, <1>4, <1>5, AppendProperties, ConcatEmptySeq
<1>7. /\ wire' \in Seq(Frames)
      /\ Len(wire') = Len(wire) + 1
      /\ \A i \in 1..Len(wire) : wire'[i] = wire[i]
      /\ wire'[Len(wire) + 1] = frame
  BY <1>2, <1>3, <1>6, AppendProperties
<1>8. msg' = [msg EXCEPT ![f] = m] /\ where' = [where EXCEPT ![f] = "wire"]
  BY DEF SendThen, f
<1> QED
  BY <1>1, <1>7, <1>8 DEF Written, frame

LEMMA SendThenAckWrites ==
    ASSUME TypeOK, NEW queue \in {"process", "dlq"}, NEW m, NEW c \in Copies,
           SendThen(queue, m, <<AckFrame(c)>>)
    PROVE  \E f \in Copies : /\ Written(f, queue, m)
                             /\ Len(wire') = Len(wire) + 2
                             /\ wire'[Len(wire) + 2] = AckFrame(c)
<1> DEFINE f == Fresh
           frame == SendFrame(f, queue)
           ack == AckFrame(c)
<1>1. f \in Copies /\ where[f] = "unused"
  BY DEF SendThen, Fresh, Unused
<1>2. frame \in Frames /\ ack \in Frames
  BY <1>1 DEF SendFrame, AckFrame, Frames
<1>3. wire \in Seq(Frames)
  BY DEF TypeOK
<1> HIDE DEF f, frame, ack
<1>4. wire' = (wire \o <<frame>>) \o <<ack>>
  BY DEF SendThen, f, frame, ack
<1>5. wire \o <<frame>> = Append(wire, frame)
  BY <1>2, <1>3, AppendIsConcat
<1> DEFINE w == Append(wire, frame)
<1>6. /\ w \in Seq(Frames)
      /\ Len(w) = Len(wire) + 1
      /\ \A i \in 1..Len(wire) : w[i] = wire[i]
      /\ w[Len(wire) + 1] = frame
  BY <1>2, <1>3, AppendProperties
<1> HIDE DEF w
<1>7. wire' = Append(w, ack)
  BY <1>2, <1>4, <1>5, <1>6, AppendIsConcat DEF w
<1>8. /\ wire' \in Seq(Frames)
      /\ Len(wire') = Len(w) + 1
      /\ \A i \in 1..Len(w) : wire'[i] = w[i]
      /\ wire'[Len(w) + 1] = ack
  BY <1>2, <1>6, <1>7, AppendProperties
<1>9. Len(wire) \in Nat
  BY <1>3, LenProperties
<1>10. /\ Len(wire') = Len(wire) + 2
       /\ \A i \in 1..Len(wire) : wire'[i] = wire[i]
       /\ wire'[Len(wire) + 1] = frame
       /\ wire'[Len(wire) + 2] = ack
  BY <1>6, <1>8, <1>9
<1>11. msg' = [msg EXCEPT ![f] = m] /\ where' = [where EXCEPT ![f] = "wire"]
  BY DEF SendThen, f
<1> QED
  BY <1>1, <1>8, <1>10, <1>11 DEF Written, frame, ack

LEMMA AckWrites ==
    ASSUME TypeOK, NEW c \in Copies, Ack(c)
    PROVE  /\ wire' \in Seq(Frames)
           /\ Len(wire') = Len(wire) + 1
           /\ \A i \in 1..Len(wire) : wire'[i] = wire[i]
           /\ wire'[Len(wire) + 1] = AckFrame(c)
<1>1. AckFrame(c) \in Frames
  BY DEF AckFrame, Frames
<1>2. wire \in Seq(Frames) /\ wire' = Append(wire, AckFrame(c))
  BY DEF TypeOK, Ack
<1> QED
  BY <1>1, <1>2, AppendProperties

(* The broker takes the first frame. *)
LEMMA FlushReads ==
    ASSUME TypeOK, FlushSend \/ FlushAck
    PROVE  /\ Head(wire) = wire[1] /\ Head(wire) \in Frames
           /\ wire' \in Seq(Frames)
           /\ Len(wire) \in Nat \ {0} /\ Len(wire') = Len(wire) - 1
           /\ \A i \in 1..Len(wire') : wire'[i] = wire[i + 1]
<1>1. wire \in Seq(Frames) /\ wire # <<>> /\ wire' = Tail(wire)
  BY DEF TypeOK, FlushSend, FlushAck
<1>2. Head(wire) = wire[1]
  BY <1>1
<1>3. Len(wire) \in Nat \ {0}
  BY <1>1, EmptySeq, LenProperties
<1> QED
  BY <1>1, <1>2, <1>3, HeadTailProperties


(* The wire is cut. *)
LEMMA CutEmpties ==
    ASSUME TypeOK, Cut
    PROVE  /\ msg' \in [Copies -> Message] /\ where' \in [Copies -> Places]
           /\ wire' = <<>> /\ wire' \in Seq(Frames) /\ Len(wire') = 0
           /\ \A c \in Copies :
                 /\ where[c] = "wire" => msg'[c] = Blank /\ where'[c] = "unused"
                 /\ where[c] # "wire" => msg'[c] = msg[c]
                 /\ where[c] = "unacked" => where'[c] = "ready"
                 /\ where[c] \notin {"wire", "unacked"} => where'[c] = where[c]
<1>1. Blank \in Message
  BY WorkerAssumption DEF Blank, Message, Ids, Undefined, NoStop
<1>2. msg \in [Copies -> Message] /\ where \in [Copies -> Places]
  BY DEF TypeOK, Message
<1>3. wire' = <<>> /\ wire' \in Seq(Frames) /\ Len(wire') = 0
  BY EmptySeq DEF Cut
<1>4. msg' \in [Copies -> Message] /\ where' \in [Copies -> Places]
  BY <1>1, <1>2 DEF Cut, Places
<1> QED
  BY <1>3, <1>4 DEF Cut

-----------------------------------------------------------------------------
(* Type correctness. *)

LEMMA TypeInit == Init => TypeOK
<1> SUFFICES ASSUME Init
             PROVE  TypeOK
  OBVIOUS
<1>1. Blank \in Message
  BY WorkerAssumption DEF Blank, Message, Ids, Undefined, NoStop
<1>2. wire \in Seq(Frames)
  BY EmptySeq DEF Init
<1> QED
  BY <1>1, <1>2, WorkerAssumption DEF Init, TypeOK, Places, Steps, Message

LEMMA TypeStep == IInv /\ [Next]_vars => TypeOK'
<1> SUFFICES ASSUME TypeOK, HandlerInv, OneHandlerInserts, [Next]_vars
             PROVE  TypeOK'
  BY DEF IInv
<1> USE WorkerAssumption
<1>1. msg \in [Copies -> Message] /\ Blank \in Message
  BY DEF TypeOK, Message, Blank, Ids, Undefined, NoStop
<1>2. ASSUME NEW f \in Copies, NEW queue, NEW m \in Message, Written(f, queue, m)
      PROVE  /\ msg' \in [Copies -> Message] /\ where' \in [Copies -> Places]
             /\ wire' \in Seq(Frames)
  BY <1>1, <1>2 DEF Written, TypeOK, Places
<1>3. ASSUME NEW c \in Copies, NEW step \in Steps, Goto(c, step)
      PROVE  pc' \in [Copies -> Steps]
  BY <1>3 DEF TypeOK, Goto
<1>4. ASSUME failures < MaxFailures, failures' = failures + 1
      PROVE  failures' \in 0..MaxFailures
  BY <1>4 DEF TypeOK
<1>5. ASSUME faults < MaxFaults, faults' = faults + 1
      PROVE  faults' \in 0..MaxFaults
  BY <1>5 DEF TypeOK
<1>6. ASSUME Restart
      PROVE  /\ msg' \in [Copies -> Message] /\ where' \in [Copies -> Places]
             /\ wire' \in Seq(Frames) /\ pc' \in [Copies -> Steps]
             /\ tx' \in [Copies -> {"none", "inserted"}] /\ channel' = "open"
  <2>1. Cut /\ pc' = [c \in Copies |-> "none"] /\ tx' = [c \in Copies |-> "none"] /\ channel' = "open"
    BY <1>6 DEF Restart
  <2> QED
    BY <2>1, CutEmpties DEF Steps
<1>7. ASSUME NEW o \in Orders, PublishOrder(o)
      PROVE  TypeOK'
  <2> DEFINE m == [id |-> o, attempt |-> 1, stop |-> NoStop]
  <2>1. m \in Message
    BY DEF Message, Ids, NoStop, Undefined
  <2>2. SendThen("process", m, <<>>)
    BY <1>7 DEF PublishOrder
  <2> HIDE DEF m
  <2>3. PICK f \in Copies : Written(f, "process", m)
    BY <2>2, SendWrites
  <2> QED
    BY <1>2, <1>7, <2>1, <2>3 DEF PublishOrder, TypeOK, Message, work, tables, bounds
<1>8. ASSUME PostDebug
      PROVE  TypeOK'
  <2>1. SendThen("process", Blank, <<>>)
    BY <1>8 DEF PostDebug, Whitelisted
  <2>2. PICK f \in Copies : Written(f, "process", Blank)
    BY <2>1, SendWrites
  <2> QED
    BY <1>1, <1>2, <1>8, <2>2 DEF PostDebug, TypeOK, Message, work, tables, bounds
<1>9. ASSUME NEW c \in Copies, Deliver(c)
      PROVE  TypeOK'
  BY <1>3, <1>9 DEF Deliver, TypeOK, Places, Steps, tables, env, bounds
<1>10. ASSUME NEW c \in Copies, InsertDedup(c)
       PROVE  TypeOK'
  BY <1>3, <1>10 DEF InsertDedup, TypeOK, Steps, broker, tables, env, bounds
<1>11. ASSUME NEW c \in Copies,
              \/ InsertDuplicate(c) \/ InsertNull(c) \/ AckFails(c)
              \/ SendToDlqFails(c) \/ ScheduleRetry(c)
       PROVE  TypeOK'
  BY <1>3, <1>11 DEF InsertDuplicate, InsertNull, AckFails, SendToDlqFails, ScheduleRetry, TypeOK,
     Steps, broker, tables, env, bounds
<1>12. ASSUME NEW c \in Copies, Process(c)
       PROVE  TypeOK'
  BY <1>3, <1>12 DEF Process, TypeOK, Steps, broker, tables, env, bounds
<1>13. ASSUME NEW c \in Copies, pc[c] = "commit", Install(c)
       PROVE  /\ processed' \subseteq Ids /\ effects' \in [Orders -> Nat]
              /\ tx' \in [Copies -> {"none", "inserted"}]
  <2>1. msg[c].id \in Orders /\ msg[c].id \in Ids
    BY <1>1, <1>13 DEF HandlerInv, HandlerOf, OneHandlerInserts, Message, Ids
  <2> QED
    BY <1>13, <2>1 DEF Install, TypeOK
<1>14. ASSUME NEW c \in Copies, Commit(c)
       PROVE  TypeOK'
  BY <1>3, <1>13, <1>14 DEF Commit, TypeOK, Steps, broker, env, bounds
<1>15. ASSUME NEW c \in Copies, CommitUnknown(c)
       PROVE  TypeOK'
  BY <1>3, <1>4, <1>13, <1>15 DEF CommitUnknown, TypeOK, Steps, broker, env
<1>16. ASSUME NEW c \in Copies, StatementFails(c)
       PROVE  TypeOK'
  BY <1>3, <1>4, <1>16 DEF StatementFails, TypeOK, Steps, broker, tables, env
<1>17. ASSUME NEW c \in Copies, Ack(c)
       PROVE  TypeOK'
  BY <1>3, <1>17, AckWrites DEF Ack, TypeOK, Steps, broker, tables, env, bounds
<1>18. ASSUME NEW c \in Copies, SendToDlq(c)
       PROVE  TypeOK'
  <2>1. PICK f \in Copies : Written(f, "dlq", msg[c])
    BY <1>18, SendThenAckWrites DEF SendToDlq
  <2>2. msg[c] \in Message
    BY <1>1
  <2> QED
    BY <1>2, <1>3, <1>18, <2>1, <2>2 DEF SendToDlq, TypeOK, Message, Steps, tables, env, bounds
<1>19. ASSUME NEW c \in Copies, Retry(c)
       PROVE  TypeOK'
  <2> DEFINE m == [msg[c] EXCEPT !.attempt = @ + 1]
  <2>1. msg[c].attempt < MaxRetries /\ msg[c] \in Message
    BY <1>1, <1>19 DEF Retry, HandlerInv, HandlerOf
  <2>2. m \in Message
    BY <2>1 DEF Message, Undefined
  <2>3. SendThen("process", m, <<AckFrame(c)>>)
    BY <1>19 DEF Retry
  <2> HIDE DEF m
  <2>4. PICK f \in Copies : Written(f, "process", m)
    BY <2>3, SendThenAckWrites
  <2> QED
    BY <1>2, <1>3, <1>19, <2>2, <2>4 DEF Retry, TypeOK, Message, Steps, tables, env, bounds
<1>20. ASSUME NEW c \in Copies, RetryFails(c)
       PROVE  TypeOK'
  BY <1>6, <1>20 DEF RetryFails, TypeOK, Message, tables, env, bounds
<1>21. ASSUME FlushSend
       PROVE  TypeOK'
  <2>1. Head(wire).copy \in Copies
    BY <1>21, FlushReads DEF Frames
  <2> QED
    BY <1>1, <1>21, <2>1, FlushReads DEF FlushSend, TypeOK, Places, work, tables, env, bounds
<1>22. ASSUME FlushAck
       PROVE  TypeOK'
  <2>1. msg' \in [Copies -> Message] /\ where' \in [Copies -> Places]
    BY <1>1, <1>22 DEF FlushAck, TypeOK, Places
  <2> QED
    BY <1>22, <2>1, FlushReads DEF FlushAck, TypeOK, Message, work, tables, env, bounds
<1>23. ASSUME ChannelClose \/ Closed
       PROVE  TypeOK'
  <2>1. Cut
    BY <1>23 DEF ChannelClose, Closed
  <2> QED
    BY <1>5, <1>23, <2>1, CutEmpties DEF ChannelClose, Closed, TypeOK, Message, work, tables, env, bounds
<1>24. ASSUME Shutdown
       PROVE  TypeOK'
  BY <1>5, <1>24 DEF Shutdown, TypeOK, broker, work, tables, env
<1>25. ASSUME Exit \/ Crash
       PROVE  TypeOK'
  BY <1>5, <1>6, <1>25 DEF Exit, Crash, TypeOK, Message, tables, env, bounds
<1>26. ASSUME UNCHANGED vars
       PROVE  TypeOK'
  BY <1>26 DEF TypeOK, vars, broker, work, tables, env, bounds
<1> QED
  BY <1>7, <1>8, <1>9, <1>10, <1>11, <1>12, <1>14, <1>15, <1>16, <1>17, <1>18, <1>19, <1>20, <1>21,
     <1>22, <1>23, <1>24, <1>25, <1>26 DEF Next, Handle, Idle


-----------------------------------------------------------------------------
(* Kinds of steps. *)

(* A step that neither the broker nor the wire takes part in *)
Local == UNCHANGED <<msg, where, accepted, wire, sent>>

LEMMA StepKinds ==
    ASSUME [Next]_vars
    PROVE  \/ Local
           \/ \E c \in Copies : Deliver(c) \/ Ack(c) \/ SendToDlq(c) \/ Retry(c)
           \/ \E o \in Orders : PublishOrder(o)
           \/ PostDebug
           \/ Cut /\ UNCHANGED <<accepted, sent, processed>>
           \/ FlushSend \/ FlushAck
BY DEF Next, Handle, Idle, Local, vars, broker, tables, env, InsertDedup, InsertDuplicate, InsertNull,
   Process, Commit, AckFails, SendToDlqFails, ScheduleRetry, RetryFails, CommitUnknown,
   StatementFails, ChannelClose, Shutdown, Closed, Exit, Crash, Restart

(* The row of a message is never taken back. *)
LEMMA ProcessedGrows == ASSUME [Next]_vars PROVE processed \subseteq processed'
BY DEF Next, Handle, Idle, vars, tables, InsertDedup, InsertDuplicate, InsertNull,
   Process, Commit, AckFails, SendToDlqFails, ScheduleRetry, RetryFails, CommitUnknown,
   StatementFails, ChannelClose, Shutdown, Closed, Exit, Crash, Install, Deliver, Ack, SendToDlq,
   Retry, PublishOrder, PostDebug, FlushSend, FlushAck

(* A copy keeps its content while it is in a queue or handled. *)
LEMMA MsgKept ==
    ASSUME IInv, [Next]_vars, NEW c \in Copies,
           where[c] \in {"ready", "dlq"} \/ pc[c] # "none"
    PROVE  msg'[c] = msg[c]
<1> USE DEF IInv
<1>1. where[c] \notin {"unused", "wire"} /\ TypeOK /\ msg \in [Copies -> Message]
  BY DEF HandlerInv, HandlerOf, TypeOK, Message
<1>2. ASSUME NEW f, NEW queue, NEW m, Written(f, queue, m)
      PROVE  msg'[c] = msg[c]
  BY <1>1, <1>2 DEF Written
<1>3. CASE \E o \in Orders : PublishOrder(o)
  <2>1. PICK o \in Orders : SendThen("process", [id |-> o, attempt |-> 1, stop |-> NoStop], <<>>)
    BY <1>3 DEF PublishOrder
  <2> QED
    BY <1>1, <1>2, <2>1, SendWrites
<1>4. CASE PostDebug
  <2>1. SendThen("process", Blank, <<>>)
    BY <1>4 DEF PostDebug, Whitelisted
  <2> QED
    BY <1>1, <1>2, <2>1, SendWrites
<1>5. ASSUME NEW d \in Copies, SendToDlq(d)
      PROVE  msg'[c] = msg[c]
  BY <1>1, <1>2, <1>5, SendThenAckWrites DEF SendToDlq
<1>6. ASSUME NEW d \in Copies, Retry(d)
      PROVE  msg'[c] = msg[c]
  BY <1>1, <1>2, <1>6, SendThenAckWrites DEF Retry
<1>7. CASE Cut
  BY <1>1, <1>7, CutEmpties
<1>8. CASE FlushAck
  <2>1. Len(wire) \in Nat \ {0} /\ Head(wire) = wire[1] /\ wire[1].kind = "ack"
    BY <1>1, <1>8, FlushReads DEF FlushAck
  <2>2. where[wire[1].copy] = "unacked" /\ pc[wire[1].copy] = "none"
    BY <2>1 DEF WireInv
  <2>3. c # wire[1].copy
    BY <2>2
  <2> QED
    BY <1>1, <1>8, <2>1, <2>3 DEF FlushAck
<1>9. CASE Local \/ FlushSend \/ \E d \in Copies : Deliver(d) \/ Ack(d)
  BY <1>9 DEF Local, FlushSend, Deliver, Ack, broker
<1> QED
  BY <1>3, <1>4, <1>5, <1>6, <1>7, <1>8, <1>9, StepKinds

-----------------------------------------------------------------------------
(* Rows and effects: one lemma per conjunct of the invariant. *)

LEMMA HolderStep == IInv /\ [Next]_vars => OneHandlerInserts'
<1> SUFFICES ASSUME IInv, [Next]_vars
             PROVE  OneHandlerInserts'
  OBVIOUS
<1>1. TypeOK /\ HandlerInv /\ OneHandlerInserts
  BY DEF IInv
<1>2. \A c \in Copies : HoldsRow(c) => msg'[c] = msg[c]
  BY <1>1, MsgKept DEF HandlerInv, HandlerOf
<1>3. ASSUME processed' = processed,
             \A c \in Copies : HoldsRow(c)' => HoldsRow(c) /\ pc'[c] \in {"process", "commit"}
      PROVE  OneHandlerInserts'
  BY <1>1, <1>2, <1>3 DEF OneHandlerInserts
<1>4. ASSUME NEW c \in Copies, InsertDedup(c)
      PROVE  OneHandlerInserts'
  BY <1>1, <1>4 DEF InsertDedup, RowFree, OneHandlerInserts, HoldsRow, Goto, TypeOK, tables
<1>5. ASSUME NEW c \in Copies, pc[c] = "commit", Install(c), NEW step, Goto(c, step),
             UNCHANGED msg
      PROVE  OneHandlerInserts'
  <2>1. HoldsRow(c)
    BY <1>1, <1>5 DEF HandlerInv, HandlerOf
  <2>2. /\ processed' = processed \cup {msg[c].id} /\ ~ HoldsRow(c)'
        /\ \A d \in Copies \ {c} : pc'[d] = pc[d] /\ tx'[d] = tx[d]
    BY <1>1, <1>5 DEF Install, Goto, TypeOK, HoldsRow
  <2> QED
    BY <1>1, <1>5, <2>1, <2>2 DEF OneHandlerInserts, HoldsRow
<1>6. ASSUME NEW c \in Copies, Commit(c) \/ CommitUnknown(c)
      PROVE  OneHandlerInserts'
  BY <1>5, <1>6 DEF Commit, CommitUnknown
<1>7. ASSUME NEW c \in Copies, Process(c) \/ StatementFails(c)
      PROVE  OneHandlerInserts'
  <2>1. /\ processed' = processed
        /\ \A d \in Copies \ {c} : pc'[d] = pc[d] /\ tx'[d] = tx[d]
        /\ \/ pc'[c] = "commit" /\ tx' = tx /\ pc[c] = "process"
           \/ tx'[c] = "none"
    BY <1>1, <1>7 DEF Process, StatementFails, Goto, TypeOK, tables
  <2> QED
    BY <1>1, <1>3, <2>1 DEF HandlerInv, HandlerOf, HoldsRow
<1>8. ASSUME NEW c \in Copies,
             \/ InsertDuplicate(c) \/ InsertNull(c) \/ Ack(c) \/ AckFails(c) \/ SendToDlq(c)
             \/ SendToDlqFails(c) \/ ScheduleRetry(c) \/ Retry(c) \/ Deliver(c)
      PROVE  OneHandlerInserts'
  <2>1. ~ HoldsRow(c)
    BY <1>1, <1>8 DEF HandlerInv, HandlerOf, InsertDuplicate, InsertNull, Ack, AckFails, SendToDlq,
       SendToDlqFails, ScheduleRetry, Retry, Deliver
  <2>2. /\ processed' = processed /\ tx' = tx
        /\ \A d \in Copies \ {c} : pc'[d] = pc[d]
    BY <1>1, <1>8 DEF InsertDuplicate, InsertNull, Ack, AckFails, SendToDlq, SendToDlqFails,
       ScheduleRetry, Retry, Deliver, Goto, TypeOK, tables
  <2> QED
    BY <1>1, <1>3, <2>1, <2>2 DEF HandlerInv, HandlerOf, HoldsRow
<1>9. ASSUME Restart, processed' = processed
      PROVE  OneHandlerInserts'
  BY <1>3, <1>9 DEF Restart, HoldsRow
<1>10. ASSUME NEW c \in Copies, RetryFails(c)
       PROVE  OneHandlerInserts'
  BY <1>9, <1>10 DEF RetryFails, tables
<1>11. ASSUME Exit \/ Crash
       PROVE  OneHandlerInserts'
  BY <1>9, <1>11 DEF Exit, Crash, tables
<1>12. ASSUME UNCHANGED <<pc, tx, processed>>
       PROVE  OneHandlerInserts'
  BY <1>1, <1>3, <1>12 DEF HandlerInv, HandlerOf, HoldsRow
<1>13. ASSUME \/ FlushSend \/ FlushAck \/ ChannelClose \/ Shutdown \/ Closed \/ PostDebug
              \/ UNCHANGED vars \/ \E o \in Orders : PublishOrder(o)
       PROVE  OneHandlerInserts'
  BY <1>12, <1>13 DEF FlushSend, FlushAck, ChannelClose, Shutdown, Closed, PostDebug, PublishOrder,
     vars, work, tables
<1> QED
  BY <1>4, <1>6, <1>7, <1>8, <1>10, <1>11, <1>13 DEF Next, Handle, Idle

LEMMA EffectStep == IInv /\ [Next]_vars => EffectOnce'
<1> SUFFICES ASSUME IInv, [Next]_vars
             PROVE  EffectOnce'
  OBVIOUS
<1>1. TypeOK /\ HandlerInv /\ OneHandlerInserts /\ EffectOnce
  BY DEF IInv
<1>2. ASSUME NEW c \in Copies, Commit(c) \/ CommitUnknown(c)
      PROVE  EffectOnce'
  <2>1. Install(c) /\ pc[c] = "commit"
    BY <1>2 DEF Commit, CommitUnknown
  <2>2. HoldsRow(c) /\ ~ Simulated(c)
    BY <1>1, <2>1 DEF HandlerInv, HandlerOf, Simulated
  <2>3. msg[c].id \in Orders /\ msg[c].id \notin processed
    BY <1>1, <2>2 DEF OneHandlerInserts, TypeOK, Ids
  <2> QED
    BY <1>1, <2>1, <2>2, <2>3 DEF Install, EffectOnce, TypeOK
<1>3. UNCHANGED <<processed, effects>> \/ \E c \in Copies : Commit(c) \/ CommitUnknown(c)
  BY DEF Next, Handle, Idle, vars, tables, InsertDedup, InsertDuplicate, InsertNull,
     Process, AckFails, SendToDlqFails, ScheduleRetry, RetryFails, StatementFails, ChannelClose,
     Shutdown, Closed, Exit, Crash, Deliver, Ack, SendToDlq, Retry, PublishOrder, PostDebug,
     FlushSend, FlushAck
<1> QED
  BY <1>1, <1>2, <1>3 DEF EffectOnce


-----------------------------------------------------------------------------
(* The wire. *)

(* A first message m is sent. *)
Publishes(f, m) ==
    /\ Written(f, "process", m)
    /\ Len(wire') = Len(wire) + 1
    /\ m.stop = NoStop
    /\ \/ m.id \in Orders \ sent /\ sent' = sent \cup {m.id}
       \/ m.id = NoId /\ sent' = sent
    /\ UNCHANGED <<accepted, pc, tx, processed, channel>>

(* The handler of c sends m, and acknowledges. *)
Replaces(c, f, queue, m) ==
    /\ Written(f, queue, m)
    /\ Len(wire') = Len(wire) + 2
    /\ wire'[Len(wire) + 2] = AckFrame(c)
    /\ m.stop = NoStop /\ m.id = msg[c].id
    /\ pc[c] \in {"failed", "backoff"} /\ channel = "open"
    /\ Goto(c, "none")
    /\ UNCHANGED <<accepted, tx, processed, channel, sent>>

LEMMA Sends ==
    ASSUME IInv
    PROVE  /\ \A c \in Copies : SendToDlq(c) \/ Retry(c) =>
                 \E f \in Copies, queue \in {"process", "dlq"}, m \in Message : Replaces(c, f, queue, m)
           /\ (\E o \in Orders : PublishOrder(o)) \/ PostDebug =>
                 \E f \in Copies, m \in Message : Publishes(f, m)
<1>1. TypeOK /\ HandlerInv /\ msg \in [Copies -> Message]
  BY DEF IInv, TypeOK, Message
<1>2. ASSUME NEW c \in Copies, SendToDlq(c)
      PROVE  \E f \in Copies, queue \in {"process", "dlq"}, m \in Message : Replaces(c, f, queue, m)
  <2>1. PICK f \in Copies : /\ Written(f, "dlq", msg[c])
                            /\ Len(wire') = Len(wire) + 2
                            /\ wire'[Len(wire) + 2] = AckFrame(c)
    BY <1>1, <1>2, SendThenAckWrites DEF SendToDlq
  <2>2. Replaces(c, f, "dlq", msg[c])
    BY <1>1, <1>2, <2>1 DEF SendToDlq, Replaces, HandlerInv, HandlerOf, SendThen, tables, env
  <2> QED
    BY <1>1, <2>2
<1>3. ASSUME NEW c \in Copies, Retry(c)
      PROVE  \E f \in Copies, queue \in {"process", "dlq"}, m \in Message : Replaces(c, f, queue, m)
  <2> DEFINE m == [msg[c] EXCEPT !.attempt = @ + 1]
  <2>1. /\ m \in Message /\ m.id = msg[c].id /\ m.stop = NoStop
    BY <1>1, <1>3, WorkerAssumption DEF Retry, HandlerInv, HandlerOf, Message, Undefined
  <2>2. SendThen("process", m, <<AckFrame(c)>>) /\ channel = "open"
    BY <1>3 DEF Retry, SendThen
  <2> HIDE DEF m
  <2>3. PICK f \in Copies : /\ Written(f, "process", m)
                            /\ Len(wire') = Len(wire) + 2
                            /\ wire'[Len(wire) + 2] = AckFrame(c)
    BY <1>1, <2>2, SendThenAckWrites
  <2>4. Replaces(c, f, "process", m)
    BY <1>3, <2>1, <2>2, <2>3 DEF Retry, Replaces, tables, env
  <2> QED
    BY <2>1, <2>4
<1>4. ASSUME NEW o \in Orders, PublishOrder(o)
      PROVE  \E f \in Copies, m \in Message : Publishes(f, m)
  <2> DEFINE m == [id |-> o, attempt |-> 1, stop |-> NoStop]
  <2>1. m \in Message /\ m.id = o /\ m.stop = NoStop
    BY WorkerAssumption DEF Message, Ids, NoStop, Undefined
  <2>2. SendThen("process", m, <<>>)
    BY <1>4 DEF PublishOrder
  <2> HIDE DEF m
  <2>3. PICK f \in Copies : Written(f, "process", m) /\ Len(wire') = Len(wire) + 1
    BY <1>1, <2>2, SendWrites
  <2>4. Publishes(f, m)
    BY <1>4, <2>1, <2>3 DEF PublishOrder, Publishes, work, tables
  <2> QED
    BY <2>1, <2>4
<1>5. ASSUME PostDebug
      PROVE  \E f \in Copies, m \in Message : Publishes(f, m)
  <2>1. Blank \in Message /\ Blank.id = NoId /\ Blank.stop = NoStop
    BY WorkerAssumption DEF Blank, Message, Ids, NoStop, Undefined
  <2>2. SendThen("process", Blank, <<>>)
    BY <1>5 DEF PostDebug, Whitelisted
  <2>3. PICK f \in Copies : Written(f, "process", Blank) /\ Len(wire') = Len(wire) + 1
    BY <1>1, <2>2, SendWrites
  <2>4. Publishes(f, Blank)
    BY <1>5, <2>1, <2>3 DEF PostDebug, Publishes, work, tables
  <2> QED
    BY <2>1, <2>4
<1> QED
  BY <1>2, <1>3, <1>4, <1>5

LEMMA WireKinds ==
    ASSUME IInv, [Next]_vars
    PROVE  \/ Local /\ \A c \in Copies : pc[c] = "none" => pc'[c] = "none"
           \/ \E c \in Copies : Deliver(c) \/ Ack(c)
           \/ \E c, f \in Copies, queue \in {"process", "dlq"}, m \in Message : Replaces(c, f, queue, m)
           \/ \E f \in Copies, m \in Message : Publishes(f, m)
           \/ Cut /\ UNCHANGED <<accepted, sent, processed>>
           \/ FlushSend \/ FlushAck
<1>1. TypeOK
  BY DEF IInv
<1>2. Local => \A c \in Copies : pc[c] = "none" => pc'[c] = "none"
  BY <1>1 DEF Local, Next, Handle, Idle, vars, work, tables, env, InsertDedup, InsertDuplicate,
     InsertNull, Process, Commit, AckFails, SendToDlqFails, ScheduleRetry, RetryFails, CommitUnknown,
     StatementFails, ChannelClose, Shutdown, Closed, Exit, Crash, Restart, Goto, TypeOK, Deliver,
     Ack, SendToDlq, Retry, PublishOrder, PostDebug, FlushSend, FlushAck
<1> QED
  BY <1>2, Sends, StepKinds


LEMMA FramesTyped ==
    ASSUME TypeOK
    PROVE  /\ Len(wire) \in Nat
           /\ \A i \in 1..Len(wire) : wire[i] \in Frames /\ wire[i].copy \in Copies
<1>1. wire \in Seq(Frames)
  BY DEF TypeOK
<1>2. Len(wire) \in Nat /\ wire \in [1..Len(wire) -> Frames]
  BY <1>1, LenProperties
<1> QED
  BY <1>2 DEF Frames

(* No frame is about a copy that is not in use or that a handler holds. *)
LEMMA NoFrame ==
    ASSUME WireInv
    PROVE  \A c \in Copies :
              where[c] # "wire" /\ (where[c] # "unacked" \/ pc[c] # "none") =>
                  \A i \in 1..Len(wire) : wire[i].copy # c
BY DEF WireInv

LEMMA WireStep == IInv /\ [Next]_vars => WireInv'
<1> SUFFICES ASSUME IInv, [Next]_vars
             PROVE  WireInv'
  OBVIOUS
<1>1. /\ TypeOK /\ HandlerInv /\ WireInv
      /\ where \in [Copies -> Places] /\ pc \in [Copies -> Steps]
  BY DEF IInv, TypeOK
<1>2. /\ Len(wire) \in Nat
      /\ \A i \in 1..Len(wire) : wire[i] \in Frames /\ wire[i].copy \in Copies
  BY <1>1, FramesTyped
<1>3. CASE Local /\ \A c \in Copies : pc[c] = "none" => pc'[c] = "none"
  BY <1>1, <1>2, <1>3 DEF Local, WireInv
<1>4. ASSUME NEW c \in Copies, Deliver(c)
      PROVE  WireInv'
  <2>1. \A i \in 1..Len(wire) : wire[i].copy # c
    BY <1>1, <1>4, NoFrame DEF Deliver
  <2> QED
    BY <1>1, <1>2, <1>4, <2>1 DEF Deliver, Goto, WireInv
<1>5. ASSUME NEW c \in Copies, Ack(c)
      PROVE  WireInv'
  <2>1. where[c] = "unacked"
    BY <1>1, <1>5 DEF Ack, HandlerInv, HandlerOf
  <2>2. \A i \in 1..Len(wire) : wire[i].copy # c
    BY <1>1, <1>5, <2>1, NoFrame DEF Ack
  <2>3. AckFrame(c).kind = "ack" /\ AckFrame(c).copy = c
    BY DEF AckFrame
  <2>4. where' = where /\ pc'[c] = "none" /\ \A d \in Copies \ {c} : pc'[d] = pc[d]
    BY <1>1, <1>5 DEF Ack, Goto, broker
  <2> QED
    BY <1>1, <1>2, <1>5, <2>1, <2>2, <2>3, <2>4, AckWrites DEF WireInv
<1>6. ASSUME NEW c \in Copies, NEW f \in Copies, NEW queue, NEW m, Replaces(c, f, queue, m)
      PROVE  WireInv'
  <2>1. where[c] = "unacked" /\ where[f] = "unused" /\ c # f
    BY <1>1, <1>6 DEF Replaces, Written, HandlerInv, HandlerOf
  <2>2. \A i \in 1..Len(wire) : wire[i].copy # c /\ wire[i].copy # f
    BY <1>1, <1>6, <2>1, NoFrame DEF Replaces
  <2>3. /\ AckFrame(c).kind = "ack" /\ AckFrame(c).copy = c
        /\ SendFrame(f, queue).kind = "send" /\ SendFrame(f, queue).copy = f
    BY DEF AckFrame, SendFrame
  <2>4. /\ where'[f] = "wire" /\ \A d \in Copies \ {f} : where'[d] = where[d]
        /\ pc'[c] = "none" /\ \A d \in Copies \ {c} : pc'[d] = pc[d]
    BY <1>1, <1>6 DEF Replaces, Written, Goto
  <2>5. /\ \A i \in 1..Len(wire) : wire'[i] = wire[i]
        /\ wire'[Len(wire) + 1] = SendFrame(f, queue)
        /\ wire'[Len(wire) + 2] = AckFrame(c) /\ Len(wire') = Len(wire) + 2
    BY <1>6 DEF Replaces, Written
  <2>6. \A i \in 1..Len(wire') : i \in 1..Len(wire) \/ i = Len(wire) + 1 \/ i = Len(wire) + 2
    BY <1>2, <2>5
  <2>7. \A i \in 1..Len(wire') :
          IF wire'[i].kind = "send" THEN where'[wire'[i].copy] = "wire"
          ELSE where'[wire'[i].copy] = "unacked" /\ pc'[wire'[i].copy] = "none"
    BY <1>1, <1>2, <2>1, <2>2, <2>3, <2>4, <2>5, <2>6 DEF WireInv
  <2>8. \A i, j \in 1..Len(wire) : wire[i].copy = wire[j].copy => i = j
    BY <1>1 DEF WireInv
  <2>9. \A i, j \in 1..Len(wire') : wire'[i].copy = wire'[j].copy => i = j
    BY <2>1, <2>2, <2>3, <2>5, <2>6, <2>8
  <2> QED
    BY <2>7, <2>9 DEF WireInv
<1>7. ASSUME NEW f \in Copies, NEW m, Publishes(f, m)
      PROVE  WireInv'
  <2>1. where[f] = "unused"
    BY <1>7 DEF Publishes, Written
  <2>2. \A i \in 1..Len(wire) : wire[i].copy # f
    BY <1>1, <2>1, NoFrame
  <2>3. SendFrame(f, "process").kind = "send" /\ SendFrame(f, "process").copy = f
    BY DEF SendFrame
  <2>4. /\ where'[f] = "wire" /\ \A d \in Copies \ {f} : where'[d] = where[d]
        /\ pc' = pc
    BY <1>1, <1>7 DEF Publishes, Written
  <2>5. /\ \A i \in 1..Len(wire) : wire'[i] = wire[i]
        /\ wire'[Len(wire) + 1] = SendFrame(f, "process") /\ Len(wire') = Len(wire) + 1
    BY <1>7 DEF Publishes, Written
  <2>6. \A i \in 1..Len(wire') : i \in 1..Len(wire) \/ i = Len(wire) + 1
    BY <1>2, <2>5
  <2> QED
    BY <1>1, <1>2, <2>1, <2>2, <2>3, <2>4, <2>5, <2>6 DEF WireInv
<1>8. CASE Cut
  BY <1>1, <1>8, CutEmpties DEF WireInv
<1>9. ASSUME FlushSend \/ FlushAck
      PROVE  WireInv'
  <2> DEFINE h == wire[1].copy
  <2>1. /\ Len(wire') = Len(wire) - 1 /\ Len(wire) # 0 /\ Head(wire) = wire[1]
        /\ \A i \in 1..Len(wire') : wire'[i] = wire[i + 1] /\ i + 1 \in 1..Len(wire) /\ i + 1 # 1
    BY <1>1, <1>2, <1>9, FlushReads
  <2>2. \A i \in 1..Len(wire') : wire'[i].copy # h
    BY <1>1, <1>2, <2>1 DEF WireInv
  <2>3. pc' = pc /\ \A d \in Copies \ {h} : where'[d] = where[d]
    BY <1>1, <1>9, <2>1 DEF FlushSend, FlushAck, work
  <2> HIDE DEF h
  <2>4. ASSUME NEW i \in 1..Len(wire')
        PROVE  IF wire'[i].kind = "send" THEN where'[wire'[i].copy] = "wire"
               ELSE where'[wire'[i].copy] = "unacked" /\ pc'[wire'[i].copy] = "none"
    <3>1. wire'[i] = wire[i + 1] /\ i + 1 \in 1..Len(wire) /\ wire'[i].copy \in Copies \ {h}
      BY <1>2, <2>1, <2>2
    <3>2. IF wire[i + 1].kind = "send" THEN where[wire[i + 1].copy] = "wire"
          ELSE where[wire[i + 1].copy] = "unacked" /\ pc[wire[i + 1].copy] = "none"
      BY <1>1, <3>1 DEF WireInv
    <3> QED
      BY <2>3, <3>1, <3>2
  <2>5. ASSUME NEW i \in 1..Len(wire'), NEW j \in 1..Len(wire'), wire'[i].copy = wire'[j].copy
        PROVE  i = j
    <3>1. wire[i + 1].copy = wire[j + 1].copy /\ i + 1 \in 1..Len(wire) /\ j + 1 \in 1..Len(wire)
      BY <2>1, <2>5
    <3>2. i + 1 = j + 1
      BY <1>1, <3>1 DEF WireInv
    <3> QED
      BY <3>2
  <2> QED
    BY <2>4, <2>5 DEF WireInv
<1> QED
  BY <1>3, <1>4, <1>5, <1>6, <1>7, <1>8, <1>9, WireKinds

LEMMA HandlerStep == IInv /\ [Next]_vars => HandlerInv'
<1> SUFFICES ASSUME IInv, [Next]_vars
             PROVE  HandlerInv'
  OBVIOUS
<1>1. /\ TypeOK /\ HandlerInv /\ WireInv
      /\ where \in [Copies -> Places] /\ pc \in [Copies -> Steps] /\ msg \in [Copies -> Message]
      /\ tx \in [Copies -> {"none", "inserted"}]
      /\ Len(wire) \in Nat /\ \A i \in 1..Len(wire) : wire[i].copy \in Copies
  BY FramesTyped DEF IInv, TypeOK, Message
<1>2. Blank.stop = NoStop
  BY DEF Blank
<1>3. ASSUME NEW c \in Copies, UNCHANGED <<msg, where>>, channel' # "open" \/ channel' = channel,
             \A d \in Copies \ {c} : pc'[d] = pc[d] /\ tx'[d] = tx[d], HandlerOf(c)'
      PROVE  HandlerInv'
  <2>1. processed \subseteq processed'
    BY ProcessedGrows
  <2> QED
    BY <1>1, <1>3, <2>1 DEF HandlerInv, HandlerOf, HoldsRow
<1>4. ASSUME NEW c \in Copies,
             \/ InsertDedup(c) \/ InsertDuplicate(c) \/ InsertNull(c) \/ Process(c) \/ Commit(c)
             \/ Ack(c) \/ AckFails(c) \/ SendToDlqFails(c) \/ ScheduleRetry(c)
             \/ CommitUnknown(c) \/ StatementFails(c)
      PROVE  HandlerInv'
  <2>1. /\ UNCHANGED <<msg, where, channel>>
        /\ \A d \in Copies \ {c} : pc'[d] = pc[d] /\ tx'[d] = tx[d]
    BY <1>1, <1>4 DEF InsertDedup, InsertDuplicate, InsertNull, Process, Commit, Ack, AckFails,
       SendToDlqFails, ScheduleRetry, CommitUnknown, StatementFails, Install, Goto, broker
  <2>2. HandlerOf(c)'
    <3>1. HandlerOf(c)
      BY <1>1 DEF HandlerInv
    <3>2. CASE InsertDedup(c) \/ Process(c) \/ StatementFails(c)
      BY <1>1, <2>1, <3>1, <3>2 DEF HandlerOf, HoldsRow, InsertDedup, Process, StatementFails, Goto
    <3>3. CASE InsertDuplicate(c) \/ InsertNull(c) \/ Ack(c) \/ AckFails(c) \/ SendToDlqFails(c)
      BY <1>1, <2>1, <3>1, <3>3 DEF HandlerOf, HoldsRow, InsertDuplicate, InsertNull, Ack, AckFails,
         SendToDlqFails, Goto, tables
    <3>4. CASE ScheduleRetry(c)
      <4>1. msg[c].attempt < MaxRetries
        BY <1>1, <3>4, WorkerAssumption DEF ScheduleRetry, Exhausted, Message, Undefined
      <4> QED
        BY <1>1, <2>1, <3>1, <3>4, <4>1 DEF HandlerOf, HoldsRow, ScheduleRetry, Goto, tables
    <3>5. CASE Commit(c) \/ CommitUnknown(c)
      BY <1>1, <2>1, <3>1, <3>5 DEF HandlerOf, HoldsRow, Commit, CommitUnknown, Install, Goto
    <3> QED
      BY <1>4, <3>2, <3>3, <3>4, <3>5
  <2> QED
    BY <1>3, <2>1, <2>2
<1>5. ASSUME NEW c \in Copies, Deliver(c)
      PROVE  HandlerInv'
  <2>1. HandlerOf(c) /\ pc[c] = "none"
    BY <1>1, <1>5 DEF Deliver, HandlerInv, HandlerOf
  <2> QED
    BY <1>1, <1>5, <2>1 DEF Deliver, HandlerInv, HandlerOf, HoldsRow, Goto, tables
<1>6. ASSUME NEW c \in Copies, NEW f \in Copies, NEW queue, NEW m, Replaces(c, f, queue, m)
      PROVE  HandlerInv'
  <2>1. HandlerOf(c) /\ HandlerOf(f)
    BY <1>1 DEF HandlerInv
  <2> QED
    BY <1>1, <1>6, <2>1 DEF Replaces, Written, HandlerInv, HandlerOf, HoldsRow, Goto
<1>7. ASSUME NEW f \in Copies, NEW m, Publishes(f, m)
      PROVE  HandlerInv'
  BY <1>1, <1>7 DEF Publishes, Written, HandlerInv, HandlerOf, HoldsRow
<1>8. ASSUME Cut, (channel' # "open" /\ UNCHANGED <<pc, tx, processed>>) \/ Restart
      PROVE  HandlerInv'
  <2>1. \A c \in Copies : HandlerOf(c)
    BY <1>1 DEF HandlerInv
  <2>2. CASE channel' # "open" /\ UNCHANGED <<pc, tx, processed>>
    BY <1>1, <1>2, <1>8, <2>1, <2>2, CutEmpties DEF HandlerInv, HandlerOf, HoldsRow
  <2>3. CASE Restart
    <3>1. \A c \in Copies : pc'[c] = "none" /\ tx'[c] = "none"
      BY <2>3 DEF Restart
    <3> QED
      BY <1>1, <1>2, <1>8, <2>1, <3>1, CutEmpties DEF HandlerInv, HandlerOf, HoldsRow
  <2> QED
    BY <1>8, <2>2, <2>3
<1>9. ASSUME ChannelClose \/ Closed
      PROVE  HandlerInv'
  BY <1>8, <1>9 DEF ChannelClose, Closed, work, tables
<1>10. ASSUME Exit \/ Crash \/ \E c \in Copies : RetryFails(c)
       PROVE  HandlerInv'
  BY <1>8, <1>10 DEF Exit, Crash, RetryFails, Restart
<1>11. ASSUME FlushSend \/ FlushAck
       PROVE  HandlerInv'
  <2> DEFINE h == wire[1].copy
  <2>1. /\ h \in Copies /\ Head(wire) = wire[1]
        /\ pc[h] = "none"
    BY <1>1, <1>11, FlushReads DEF WireInv, HandlerInv, HandlerOf
  <2>2. UNCHANGED <<pc, tx, processed, channel>> /\ \A d \in Copies \ {h} : where'[d] = where[d] /\ msg'[d] = msg[d]
    BY <1>1, <1>11, <2>1 DEF FlushSend, FlushAck, work, tables
  <2>3. \/ where'[h] # "unused" /\ msg' = msg
        \/ where'[h] = "unused" /\ msg'[h] = Blank
    BY <1>1, <1>11, <2>1 DEF FlushSend, FlushAck
  <2> HIDE DEF h
  <2> QED
    BY <1>1, <1>2, <2>1, <2>2, <2>3 DEF HandlerInv, HandlerOf, HoldsRow
<1>12. ASSUME Shutdown \/ UNCHANGED vars
       PROVE  HandlerInv'
  BY <1>1, <1>12 DEF Shutdown, vars, broker, work, tables, HandlerInv, HandlerOf, HoldsRow
<1> QED
  BY <1>4, <1>5, <1>6, <1>7, <1>9, <1>10, <1>11, <1>12, Sends DEF Next, Handle, Idle


(* What the broker keeps stays, except for the copy whose acknowledgement it
   takes. *)
LEMMA KeptStep ==
    ASSUME IInv, [Next]_vars, NEW o \in Orders, NEW d \in Copies,
           msg[d].id = o, where[d] \in Kept,
           FlushAck => d # wire[1].copy
    PROVE  msg'[d].id = o /\ where'[d] \in Kept
<1>1. /\ TypeOK /\ HandlerInv /\ WireInv
      /\ where \in [Copies -> Places] /\ msg \in [Copies -> Message]
      /\ where[d] \notin {"unused", "wire"}
  BY DEF IInv, TypeOK, Message, Kept
<1>2. ASSUME NEW f \in Copies, NEW queue, NEW m, Written(f, queue, m)
      PROVE  msg'[d].id = o /\ where'[d] \in Kept
  BY <1>1, <1>2 DEF Written
<1>3. CASE \E f \in Copies, m \in Message : Publishes(f, m)
  BY <1>2, <1>3 DEF Publishes
<1>4. CASE \E c, f \in Copies, queue \in {"process", "dlq"}, m \in Message : Replaces(c, f, queue, m)
  BY <1>2, <1>4 DEF Replaces
<1>5. CASE Cut
  BY <1>1, <1>5, CutEmpties DEF Kept
<1>6. CASE FlushSend
  <2>1. wire[1].copy # d /\ Head(wire) = wire[1]
    BY <1>1, <1>6, FlushReads DEF FlushSend, WireInv
  <2> QED
    BY <1>1, <1>6, <2>1 DEF FlushSend
<1>7. CASE FlushAck
  BY <1>1, <1>7, FlushReads DEF FlushAck
<1>8. CASE Local \/ \E c \in Copies : Deliver(c) \/ Ack(c)
  BY <1>1, <1>8 DEF Local, Deliver, Ack, broker, Kept
<1> QED
  BY <1>3, <1>4, <1>5, <1>6, <1>7, <1>8, WireKinds

LEMMA LostStep == IInv /\ [Next]_vars => NoLostMessage'
<1> SUFFICES ASSUME IInv, [Next]_vars
             PROVE  NoLostMessage'
  OBVIOUS
<1>1. /\ TypeOK /\ HandlerInv /\ WireInv /\ NoLostMessage /\ AckInv
      /\ where \in [Copies -> Places] /\ msg \in [Copies -> Message]
      /\ Len(wire) \in Nat /\ \A i \in 1..Len(wire) : wire[i] \in Frames /\ wire[i].copy \in Copies
      /\ accepted \subseteq Orders
  BY FramesTyped DEF IInv, TypeOK, Message
<1>2. processed \subseteq processed'
  BY ProcessedGrows
<1>3. ASSUME NEW o \in accepted, o \notin processed
      PROVE  AtBroker(o)'
  <2>1. CASE ~ FlushAck \/ msg[wire[1].copy].id # o
    BY <1>1, <1>3, <2>1, KeptStep DEF NoLostMessage, AtBroker, Kept
  <2>2. CASE FlushAck /\ msg[wire[1].copy].id = o
    <3>1. 1 \in 1..Len(wire) /\ wire[1].kind = "ack"
      BY <1>1, <2>2, FlushReads DEF FlushAck
    <3>2. KeptPast(o, 1)
      BY <1>1, <1>3, <2>2, <3>1 DEF AckInv
    <3>3. PICK d \in Copies : msg[d].id = o /\ where[d] \in Kept /\ ~ IsAck(wire[1], d)
      BY <3>1, <3>2 DEF KeptPast
    <3>4. d # wire[1].copy
      BY <3>1, <3>3 DEF IsAck
    <3> QED
      BY <1>1, <1>3, <3>3, <3>4, KeptStep DEF AtBroker, Kept
  <2> QED
    BY <2>1, <2>2
<1>4. ASSUME NEW o \in accepted', o \notin accepted
      PROVE  AtBroker(o)'
  <2>1. FlushSend /\ o = msg[wire[1].copy].id
    BY <1>1, <1>4, WireKinds, FlushReads DEF Local, Deliver, Ack, Replaces, Publishes, FlushSend,
       FlushAck, broker
  <2>2. wire[1].copy \in Copies /\ Head(wire) = wire[1]
    BY <1>1, <2>1, FlushReads
  <2> QED
    BY <1>1, <2>1, <2>2 DEF FlushSend, AtBroker
<1> QED
  BY <1>2, <1>3, <1>4 DEF NoLostMessage


(* Frames are added behind, or the first is taken away; what the others are
   about does not change. *)
Grows ==
    /\ Len(wire') \in Nat /\ Len(wire) <= Len(wire')
    /\ \A i \in 1..Len(wire) : wire'[i] = wire[i] /\ msg'[wire[i].copy] = msg[wire[i].copy]

Shifts ==
    /\ Len(wire) \in Nat \ {0} /\ Len(wire') = Len(wire) - 1
    /\ \A i \in 1..Len(wire') :
          /\ wire'[i] = wire[i + 1] /\ msg'[wire[i + 1].copy] = msg[wire[i + 1].copy]
          /\ wire[i + 1].copy # wire[1].copy

LEMMA WireMoves ==
    ASSUME IInv, [Next]_vars
    PROVE  /\ Cut \/ FlushSend \/ FlushAck \/ Grows
           /\ FlushSend \/ FlushAck => Shifts
<1>1. /\ TypeOK /\ WireInv /\ msg \in [Copies -> Message]
      /\ Len(wire) \in Nat /\ \A i \in 1..Len(wire) : wire[i] \in Frames /\ wire[i].copy \in Copies
  BY FramesTyped DEF IInv, TypeOK, Message
<1>2. ASSUME NEW f \in Copies, NEW queue, NEW m, Written(f, queue, m), Len(wire') > Len(wire),
             Len(wire') \in Nat
      PROVE  Grows
  <2>1. \A i \in 1..Len(wire) : wire[i].copy # f
    BY <1>1, <1>2, NoFrame DEF Written
  <2> QED
    BY <1>1, <1>2, <2>1 DEF Written, Grows
<1>3. ASSUME NEW f \in Copies, NEW m, Publishes(f, m)
      PROVE  Grows
  BY <1>1, <1>2, <1>3 DEF Publishes
<1>4. ASSUME NEW c, NEW f \in Copies, NEW queue, NEW m, Replaces(c, f, queue, m)
      PROVE  Grows
  BY <1>1, <1>2, <1>4 DEF Replaces
<1>5. ASSUME Local \/ \E c \in Copies : Deliver(c)
      PROVE  Grows
  BY <1>1, <1>5 DEF Local, Deliver, Grows
<1>6. ASSUME NEW c \in Copies, Ack(c)
      PROVE  Grows
  <2>1. Len(wire') = Len(wire) + 1 /\ \A i \in 1..Len(wire) : wire'[i] = wire[i]
    BY <1>1, <1>6, AckWrites
  <2> QED
    BY <1>1, <1>6, <2>1 DEF Ack, Grows
<1>7. ASSUME FlushSend \/ FlushAck
      PROVE  Shifts
  <2>1. /\ Len(wire) \in Nat \ {0} /\ Len(wire') = Len(wire) - 1 /\ Head(wire) = wire[1]
        /\ \A i \in 1..Len(wire') : wire'[i] = wire[i + 1] /\ i + 1 \in 1..Len(wire) /\ i + 1 # 1
    BY <1>1, <1>7, FlushReads
  <2>2. \A i \in 1..Len(wire') : wire[i + 1].copy # wire[1].copy
    BY <1>1, <2>1 DEF WireInv
  <2>3. \A d \in Copies : d # wire[1].copy => msg'[d] = msg[d]
    BY <1>1, <1>7, <2>1 DEF FlushSend, FlushAck
  <2> QED
    BY <1>1, <2>1, <2>2, <2>3 DEF Shifts
<1> QED
  BY <1>3, <1>4, <1>5, <1>6, <1>7, WireKinds

LEMMA AckStep == IInv /\ [Next]_vars => AckInv'
<1> SUFFICES ASSUME IInv, [Next]_vars
             PROVE  AckInv'
  OBVIOUS
<1> DEFINE Replaced(o, i) == \E j \in 1..(i - 1) : wire[j].kind = "send" /\ msg[wire[j].copy].id = o
<1>1. /\ TypeOK /\ WireInv /\ AckInv /\ HandlerInv
      /\ Len(wire) \in Nat /\ \A i \in 1..Len(wire) : wire[i] \in Frames /\ wire[i].copy \in Copies
      /\ processed \subseteq processed'
  BY FramesTyped, ProcessedGrows DEF IInv
<1>2. SUFFICES ASSUME NEW i \in 1..Len(wire'), wire'[i].kind = "ack",
                      NEW o \in Orders \ processed', msg'[wire'[i].copy].id = o
               PROVE  Replaced(o, i)' \/ KeptPast(o, i)'
  BY DEF AckInv
<1>3. ASSUME ~ FlushSend, ~ FlushAck, Grows, i \in 1..Len(wire)
      PROVE  Replaced(o, i)' \/ KeptPast(o, i)'
  <2>1. Replaced(o, i) \/ KeptPast(o, i)
    BY <1>1, <1>2, <1>3 DEF AckInv, Grows
  <2>2. Replaced(o, i) => Replaced(o, i)'
    BY <1>1, <1>3 DEF Grows
  <2>3. ASSUME KeptPast(o, i)
        PROVE  KeptPast(o, i)'
    <3>1. PICK d \in Copies : /\ msg[d].id = o /\ where[d] \in Kept
                              /\ \A j \in 1..Len(wire) : j <= i => ~ IsAck(wire[j], d)
      BY <2>3 DEF KeptPast
    <3>2. msg'[d].id = o /\ where'[d] \in Kept
      BY <1>3, <3>1, KeptStep
    <3>3. \A j \in 1..Len(wire') : j <= i => ~ IsAck(wire'[j], d)
      BY <1>1, <1>3, <3>1 DEF Grows
    <3> QED
      BY <3>2, <3>3 DEF KeptPast
  <2> QED
    BY <2>1, <2>2, <2>3
<1>4. CASE FlushSend \/ FlushAck
  <2>1. Shifts /\ Len(wire) \in Nat
    BY <1>1, <1>4, WireMoves
  <2>2. i + 1 \in 1..Len(wire) /\ wire[i + 1].kind = "ack" /\ msg[wire[i + 1].copy].id = o
    BY <1>1, <1>2, <2>1 DEF Shifts
  <2>3. Replaced(o, i + 1) \/ KeptPast(o, i + 1)
    BY <1>1, <2>2 DEF AckInv
  <2>4. ASSUME KeptPast(o, i + 1)
        PROVE  KeptPast(o, i)'
    <3>1. PICK d \in Copies : /\ msg[d].id = o /\ where[d] \in Kept
                              /\ \A j \in 1..Len(wire) : j <= i + 1 => ~ IsAck(wire[j], d)
      BY <2>4 DEF KeptPast
    <3>2. FlushAck => d # wire[1].copy
      <4>1. 1 \in 1..Len(wire) /\ 1 <= i + 1
        BY <2>1 DEF Shifts
      <4>2. ~ IsAck(wire[1], d)
        BY <3>1, <4>1
      <4>3. FlushAck => wire[1].kind = "ack"
        BY <1>1, FlushReads DEF FlushAck
      <4> QED
        BY <4>2, <4>3 DEF IsAck
    <3>3. msg'[d].id = o /\ where'[d] \in Kept
      BY <3>1, <3>2, KeptStep
    <3>4. \A j \in 1..Len(wire') : j <= i => ~ IsAck(wire'[j], d)
      BY <2>1, <3>1 DEF Shifts
    <3> QED
      BY <3>3, <3>4 DEF KeptPast
  <2>5. ASSUME Replaced(o, i + 1)
        PROVE  Replaced(o, i)' \/ KeptPast(o, i)'
    <3>1. PICK j \in 1..i : wire[j].kind = "send" /\ msg[wire[j].copy].id = o
      BY <2>5
    <3>2. CASE j # 1
      <4>1. /\ j - 1 \in 1..(i - 1) /\ j - 1 \in 1..Len(wire')
            /\ wire'[j - 1] = wire[j] /\ msg'[wire[j].copy] = msg[wire[j].copy]
        <5>1. j - 1 \in 1..(i - 1) /\ j - 1 \in 1..Len(wire') /\ (j - 1) + 1 = j
          BY <2>1, <2>2, <3>2 DEF Shifts
        <5> QED
          BY <2>1, <5>1 DEF Shifts
      <4>2. wire'[j - 1].kind = "send" /\ msg'[wire'[j - 1].copy].id = o
        BY <3>1, <4>1
      <4> QED
        BY <4>1, <4>2
    <3>3. CASE j = 1
      <4>1. FlushSend /\ Head(wire) = wire[1] /\ wire[1].copy \in Copies
        BY <1>1, <1>4, <3>1, <3>3, FlushReads DEF FlushAck
      <4>2. msg'[wire[1].copy].id = o /\ where'[wire[1].copy] \in Kept
        BY <1>1, <3>1, <3>3, <4>1 DEF FlushSend, TypeOK, Kept
      <4>3. \A k \in 1..Len(wire') : k <= i => ~ IsAck(wire'[k], wire[1].copy)
        BY <2>1 DEF Shifts, IsAck
      <4> QED
        BY <4>1, <4>2, <4>3 DEF KeptPast
    <3> QED
      BY <3>2, <3>3
  <2> QED
    BY <2>3, <2>4, <2>5
<1>5. CASE Cut
  BY <1>1, <1>2, <1>5, CutEmpties
<1>6. ASSUME NEW c \in Copies, Ack(c), i \notin 1..Len(wire)
      PROVE  FALSE
  <2>1. i = Len(wire) + 1 /\ wire'[i].copy = c
    <3>1. /\ Len(wire') = Len(wire) + 1
          /\ wire'[Len(wire) + 1] = AckFrame(c) /\ AckFrame(c).copy = c
      BY <1>1, <1>6, AckWrites DEF AckFrame
    <3> QED
      BY <1>1, <1>6, <3>1
  <2>2. msg'[c] = msg[c] /\ msg[c].id \in processed
    BY <1>1, <1>6 DEF Ack, HandlerInv, HandlerOf
  <2> QED
    BY <1>1, <1>2, <2>1, <2>2
<1>7. ASSUME NEW c \in Copies, NEW f \in Copies, NEW queue, NEW m, Replaces(c, f, queue, m),
             i \notin 1..Len(wire)
      PROVE  Replaced(o, i)'
  <2>1. /\ wire'[Len(wire) + 1] = SendFrame(f, queue)
        /\ wire'[Len(wire) + 2] = AckFrame(c) /\ Len(wire') = Len(wire) + 2
    BY <1>7 DEF Replaces, Written
  <2>2. i = Len(wire) + 2
    <3>1. i # Len(wire) + 1
      BY <1>2, <2>1 DEF SendFrame
    <3> QED
      BY <1>1, <1>7, <2>1, <3>1
  <2>3. wire'[i].copy = c
    BY <2>1, <2>2 DEF AckFrame
  <2>4. where[f] = "unused" /\ where[c] # "unused"
    BY <1>1, <1>7 DEF Replaces, Written, HandlerInv, HandlerOf
  <2>5. msg'[f] = m /\ msg'[c] = msg[c] /\ m.id = msg[c].id
    BY <1>1, <1>7, <2>4 DEF Replaces, Written, TypeOK
  <2>6. msg'[f].id = o
    BY <1>2, <2>3, <2>5
  <2>7. wire'[Len(wire) + 1].kind = "send" /\ wire'[Len(wire) + 1].copy = f
    BY <2>1 DEF SendFrame
  <2>8. Len(wire) + 1 \in 1..(i - 1)
    BY <1>1, <2>2
  <2> QED
    BY <2>6, <2>7, <2>8
<1>8. ASSUME NEW f \in Copies, NEW m, Publishes(f, m), i \notin 1..Len(wire)
      PROVE  FALSE
  <2>1. wire'[Len(wire) + 1].kind = "send" /\ i = Len(wire) + 1
    BY <1>1, <1>8 DEF Publishes, Written, SendFrame
  <2> QED
    BY <1>2, <2>1
<1>9. ASSUME Local \/ \E c \in Copies : Deliver(c)
      PROVE  i \in 1..Len(wire)
  BY <1>9 DEF Local, Deliver
<1> QED
  BY <1>3, <1>4, <1>5, <1>6, <1>7, <1>8, <1>9, WireKinds, WireMoves


LEMMA CopyStep == IInv /\ [Next]_vars => CopyInv'
<1> SUFFICES ASSUME IInv, [Next]_vars
             PROVE  CopyInv'
  OBVIOUS
<1>1. /\ TypeOK /\ WireInv /\ HandlerInv /\ CopyInv
      /\ msg \in [Copies -> Message] /\ where \in [Copies -> Places]
      /\ Len(wire) \in Nat /\ \A i \in 1..Len(wire) : wire[i] \in Frames /\ wire[i].copy \in Copies
  BY FramesTyped DEF IInv, TypeOK, Message
<1>2. Blank.id \notin Orders
  BY WorkerAssumption DEF Blank
<1>3. CASE Local
  BY <1>1, <1>3 DEF Local, CopyInv
<1>4. ASSUME NEW c \in Copies, Deliver(c) \/ Ack(c)
      PROVE  CopyInv'
  BY <1>1, <1>4 DEF Deliver, Ack, broker, env, CopyInv, Kept
<1>5. ASSUME NEW c \in Copies, NEW f \in Copies, NEW queue, NEW m, Replaces(c, f, queue, m)
      PROVE  CopyInv'
  <2>1. where[f] = "unused" /\ where[c] = "unacked"
    BY <1>1, <1>5 DEF Replaces, Written, HandlerInv, HandlerOf
  <2>2. /\ msg'[f].id = msg[c].id /\ where'[f] = "wire"
        /\ \A d \in Copies \ {f} : msg'[d] = msg[d] /\ where'[d] = where[d]
        /\ sent' = sent /\ accepted' = accepted
    BY <1>1, <1>5 DEF Replaces, Written
  <2>3. msg[c].id \in Orders => msg[c].id \in sent /\ msg[c].id \in accepted
    BY <1>1, <2>1 DEF CopyInv, Kept
  <2> QED
    BY <1>1, <2>1, <2>2, <2>3 DEF CopyInv, Kept
<1>6. ASSUME NEW f \in Copies, NEW m, Publishes(f, m)
      PROVE  CopyInv'
  <2>1. /\ msg'[f].id = m.id /\ where'[f] = "wire"
        /\ \A d \in Copies \ {f} : msg'[d] = msg[d] /\ where'[d] = where[d]
        /\ accepted' = accepted
        /\ \/ m.id \in Orders \ sent /\ sent' = sent \cup {m.id}
           \/ m.id = NoId /\ sent' = sent
    BY <1>1, <1>6 DEF Publishes, Written
  <2> QED
    BY <1>1, <2>1, WorkerAssumption DEF CopyInv, Kept
<1>7. CASE Cut /\ UNCHANGED <<accepted, sent, processed>>
  BY <1>1, <1>2, <1>7, CutEmpties DEF CopyInv, Kept, Places
<1>8. CASE FlushSend
  <2>1. /\ wire[1].copy \in Copies /\ where[wire[1].copy] = "wire" /\ Head(wire) = wire[1]
        /\ wire[1].kind = "send"
    BY <1>1, <1>8, FlushReads DEF FlushSend, WireInv
  <2>2. /\ where'[wire[1].copy] \in Kept /\ msg' = msg /\ sent' = sent
        /\ \A d \in Copies : d # wire[1].copy => where'[d] = where[d]
        /\ accepted' = accepted \cup ({msg[wire[1].copy].id} \cap Orders)
    BY <1>1, <1>8, <2>1 DEF FlushSend, Kept, env
  <2> QED
    BY <1>1, <2>1, <2>2 DEF CopyInv, Kept
<1>9. CASE FlushAck
  <2>1. wire[1].copy \in Copies /\ Head(wire) = wire[1]
    BY <1>1, <1>9, FlushReads
  <2>2. /\ msg'[wire[1].copy] = Blank /\ sent' = sent /\ accepted' = accepted
        /\ \A d \in Copies : d # wire[1].copy => where'[d] = where[d] /\ msg'[d] = msg[d]
    BY <1>1, <1>9, <2>1 DEF FlushAck, env
  <2> QED
    BY <1>1, <1>2, <2>1, <2>2 DEF CopyInv
<1> QED
  BY <1>3, <1>4, <1>5, <1>6, <1>7, <1>8, <1>9, WireKinds

LEMMA SendStep == IInv /\ [Next]_vars => SendInv'
<1> SUFFICES ASSUME IInv, [Next]_vars
             PROVE  SendInv'
  OBVIOUS
<1>1. /\ TypeOK /\ WireInv /\ HandlerInv /\ CopyInv /\ SendInv
      /\ msg \in [Copies -> Message] /\ where \in [Copies -> Places]
      /\ Len(wire) \in Nat /\ \A i \in 1..Len(wire) : wire[i] \in Frames /\ wire[i].copy \in Copies
  BY FramesTyped DEF IInv, TypeOK, Message
<1> DEFINE Right(o, i) == /\ o \in accepted => HeldPast(o, i)
                          /\ wire[i].queue \in {"process", "dlq"}
                          /\ wire[i].queue = "dlq" /\ o \in Orders => o \in accepted
<1>2. SUFFICES ASSUME NEW i \in 1..Len(wire'), wire'[i].kind = "send",
                      NEW o, msg'[wire'[i].copy].id = o
               PROVE  Right(o, i)'
  BY DEF SendInv
<1>3. ASSUME NEW d \in Copies, where[d] = "unacked", ~ Cut, ~ FlushSend, ~ FlushAck
      PROVE  msg'[d] = msg[d] /\ where'[d] = "unacked"
  BY <1>1, <1>3, WireKinds DEF Local, Deliver, Ack, broker, Publishes, Replaces, Written
<1>4. ASSUME ~ Cut, ~ FlushSend, ~ FlushAck, i \in 1..Len(wire)
      PROVE  Right(o, i)'
  <2>1. Grows /\ accepted' = accepted
    BY <1>4, WireKinds, WireMoves DEF Local, Deliver, Ack, broker, Publishes, Replaces
  <2>2. Right(o, i) /\ wire'[i] = wire[i]
    BY <1>1, <1>2, <1>4, <2>1 DEF Grows, SendInv
  <2>3. ASSUME HeldPast(o, i)
        PROVE  HeldPast(o, i)'
    <3>1. PICK d \in Copies : /\ msg[d].id = o /\ where[d] = "unacked"
                              /\ \A j \in 1..Len(wire) : j <= i => ~ IsAck(wire[j], d)
      BY <2>3 DEF HeldPast
    <3>2. msg'[d].id = o /\ where'[d] = "unacked"
      BY <1>3, <1>4, <3>1
    <3>3. \A j \in 1..Len(wire') : j <= i => ~ IsAck(wire'[j], d)
      BY <1>1, <1>4, <2>1, <3>1 DEF Grows
    <3> QED
      BY <3>2, <3>3 DEF HeldPast
  <2> QED
    BY <2>1, <2>2, <2>3
<1>5. CASE Cut
  BY <1>1, <1>2, <1>5, CutEmpties
<1>6. CASE FlushSend \/ FlushAck
  <2>1. Shifts
    BY <1>6, WireMoves
  <2>2. /\ i + 1 \in 1..Len(wire) /\ wire'[i] = wire[i + 1]
        /\ wire[i + 1].kind = "send" /\ msg[wire[i + 1].copy].id = o
        /\ wire[i + 1].copy # wire[1].copy
    BY <1>1, <1>2, <2>1 DEF Shifts
  <2>3. Right(o, i + 1)
    BY <1>1, <2>2 DEF SendInv
  <2>4. wire[1].copy \in Copies /\ Head(wire) = wire[1] /\ 1 \in 1..Len(wire)
    BY <1>1, <1>6, <2>1 DEF Shifts
  <2>5. o \in accepted' => o \in accepted
    <3>1. CASE FlushSend
      BY <1>1, <2>2, <2>4, <3>1 DEF FlushSend, CopyInv
    <3>2. CASE FlushAck
      BY <3>2 DEF FlushAck
    <3> QED
      BY <1>6, <3>1, <3>2
  <2>6. accepted \subseteq accepted'
    BY <1>6 DEF FlushSend, FlushAck
  <2>7. ASSUME HeldPast(o, i + 1)
        PROVE  HeldPast(o, i)'
    <3>1. PICK d \in Copies : /\ msg[d].id = o /\ where[d] = "unacked"
                              /\ \A j \in 1..Len(wire) : j <= i + 1 => ~ IsAck(wire[j], d)
      BY <2>7 DEF HeldPast
    <3>2. d # wire[1].copy
      <4>1. CASE FlushSend
        BY <1>1, <2>4, <3>1, <4>1 DEF FlushSend, WireInv
      <4>2. CASE FlushAck
        BY <2>4, <3>1, <4>2 DEF FlushAck, IsAck
      <4> QED
        BY <1>6, <4>1, <4>2
    <3>3. msg'[d].id = o /\ where'[d] = "unacked"
      BY <1>1, <1>6, <2>4, <3>1, <3>2 DEF FlushSend, FlushAck
    <3>4. \A j \in 1..Len(wire') : j <= i => ~ IsAck(wire'[j], d)
      BY <2>1, <3>1 DEF Shifts
    <3> QED
      BY <3>3, <3>4 DEF HeldPast
  <2> QED
    BY <2>2, <2>3, <2>5, <2>6, <2>7
<1>7. ASSUME NEW c \in Copies, Ack(c), i \notin 1..Len(wire)
      PROVE  FALSE
  <2>1. /\ Len(wire') = Len(wire) + 1
        /\ wire'[Len(wire) + 1] = AckFrame(c) /\ AckFrame(c).kind = "ack"
    BY <1>1, <1>7, AckWrites DEF AckFrame
  <2> QED
    BY <1>1, <1>2, <1>7, <2>1
<1>8. ASSUME NEW c \in Copies, NEW f \in Copies, NEW queue \in {"process", "dlq"}, NEW m,
             Replaces(c, f, queue, m), i \notin 1..Len(wire)
      PROVE  Right(o, i)'
  <2>1. /\ wire'[Len(wire) + 1] = SendFrame(f, queue)
        /\ wire'[Len(wire) + 2] = AckFrame(c) /\ Len(wire') = Len(wire) + 2
    BY <1>8 DEF Replaces, Written
  <2>2. i = Len(wire) + 1
    <3>1. i # Len(wire) + 2
      BY <1>2, <2>1 DEF AckFrame
    <3> QED
      BY <1>1, <1>8, <2>1, <3>1
  <2>3. where[f] = "unused" /\ where[c] = "unacked"
    BY <1>1, <1>8 DEF Replaces, Written, HandlerInv, HandlerOf
  <2>4. /\ msg'[f] = m /\ msg'[c] = msg[c] /\ m.id = msg[c].id /\ where'[c] = "unacked"
        /\ accepted' = accepted
    BY <1>1, <1>8, <2>3 DEF Replaces, Written
  <2>5. wire'[i].copy = f /\ wire'[i].queue = queue
    BY <2>1, <2>2 DEF SendFrame
  <2>6. msg'[c].id = o
    BY <1>2, <2>4, <2>5
  <2>7. o \in Orders => o \in accepted
    BY <1>1, <2>3, <2>4, <2>6 DEF CopyInv, Kept
  <2>8. \A j \in 1..Len(wire') : j <= i => ~ IsAck(wire'[j], c)
    <3>1. \A j \in 1..Len(wire) : wire[j].copy # c
      BY <1>1, <1>8, <2>3, NoFrame DEF Replaces
    <3>2. \A j \in 1..Len(wire') : j <= i => j \in 1..Len(wire) \/ j = Len(wire) + 1
      BY <1>1, <2>1, <2>2
    <3>3. \A j \in 1..Len(wire) : wire'[j] = wire[j]
      BY <1>8 DEF Replaces, Written
    <3>4. wire'[Len(wire) + 1].kind = "send"
      BY <2>1 DEF SendFrame
    <3> QED
      BY <3>1, <3>2, <3>3, <3>4 DEF IsAck
  <2>9. HeldPast(o, i)'
    BY <2>4, <2>6, <2>8 DEF HeldPast
  <2> QED
    BY <2>4, <2>5, <2>7, <2>9
<1>9. ASSUME NEW f \in Copies, NEW m, Publishes(f, m), i \notin 1..Len(wire)
      PROVE  Right(o, i)'
  <2>1. /\ wire'[Len(wire) + 1] = SendFrame(f, "process") /\ Len(wire') = Len(wire) + 1
        /\ msg'[f] = m /\ accepted' = accepted
    BY <1>1, <1>9 DEF Publishes, Written
  <2>2. i = Len(wire) + 1
    BY <1>1, <1>9, <2>1
  <2>3. wire'[i].copy = f /\ wire'[i].queue = "process"
    BY <2>1, <2>2 DEF SendFrame
  <2>4. m.id \notin accepted
    BY <1>1, <1>9, WorkerAssumption DEF Publishes, CopyInv, TypeOK
  <2> QED
    BY <1>2, <2>1, <2>3, <2>4
<1>10. ASSUME Local \/ \E c \in Copies : Deliver(c)
       PROVE  i \in 1..Len(wire)
  BY <1>10 DEF Local, Deliver
<1> QED
  BY <1>4, <1>5, <1>6, <1>7, <1>8, <1>9, <1>10, WireKinds

-----------------------------------------------------------------------------

LEMMA InitInv == Init => IInv
<1> SUFFICES ASSUME Init
             PROVE  IInv
  OBVIOUS
<1>1. TypeOK
  BY TypeInit
<1>2. Blank.id \notin Orders /\ Blank.stop = NoStop
  BY WorkerAssumption DEF Blank
<1>3. Len(wire) = 0
  BY EmptySeq DEF Init
<1>4. HandlerInv /\ CopyInv
  BY <1>2 DEF Init, HandlerInv, HandlerOf, HoldsRow, CopyInv
<1>5. EffectOnce /\ OneHandlerInserts /\ NoLostMessage
  BY DEF Init, EffectOnce, OneHandlerInserts, HoldsRow, NoLostMessage
<1>6. WireInv /\ AckInv /\ SendInv
  BY <1>3 DEF WireInv, AckInv, SendInv
<1> QED
  BY <1>1, <1>4, <1>5, <1>6 DEF IInv

LEMMA InvStep == IInv /\ [Next]_vars => IInv'
BY TypeStep, HandlerStep, EffectStep, HolderStep, WireStep, AckStep, LostStep, CopyStep, SendStep
DEF IInv

(* Whatever copies of messages are delivered, handled, retried, acknowledged
   or cut at once, the invariant holds. *)
THEOREM WorkerInvariant == Spec => []IInv
BY InitInv, InvStep, PTL DEF Spec

(* handleFailedProcessing: no message is attempted more often than
   WORKER_RETRIES; and every variable has its type. *)
THEOREM WorkerTypeCorrect == Spec => []TypeOK
<1>1. IInv => TypeOK
  BY DEF IInv
<1> QED
  BY WorkerInvariant, <1>1, PTL

(* handleHappyPath: the effect of a message takes place exactly when its
   dedup row is committed. *)
THEOREM WorkerEffectOnce == Spec => []EffectOnce
<1>1. IInv => EffectOnce
  BY DEF IInv
<1> QED
  BY WorkerInvariant, <1>1, PTL

(* handleHappyPath: two handlers of one message never both hold its row. *)
THEOREM WorkerOneHandlerInserts == Spec => []OneHandlerInserts
<1>1. IInv => OneHandlerInserts
  BY DEF IInv
<1> QED
  BY WorkerInvariant, <1>1, PTL

(* handle, send, consume: a message that the broker has accepted is processed,
   or the broker has a copy of it. *)
THEOREM WorkerLosesNothing == Spec => []NoLostMessage
<1>1. IInv => NoLostMessage
  BY DEF IInv
<1> QED
  BY WorkerInvariant, <1>1, PTL

-----------------------------------------------------------------------------
(* The worker implements OrderTasks. *)

(* Neither the held nor the dead tasks change. *)
SamePlaces ==
    \A c \in Copies :
        \/ msg'[c] = msg[c] /\ where'[c] = where[c]
        \/ msg'[c] = msg[c] /\ {where[c], where'[c]} \subseteq {"ready", "unacked"}
        \/ where[c] \notin Kept /\ where'[c] \notin Kept

LEMMA SameTasks == SamePlaces => HeldOrders' = HeldOrders /\ DeadOrders' = DeadOrders
<1> SUFFICES ASSUME SamePlaces, NEW o \in Orders
             PROVE  (Live(o)' <=> Live(o)) /\ (Dead(o)' <=> Dead(o))
  BY DEF HeldOrders, DeadOrders
<1>1. \A c \in Copies : /\ msg'[c].id = o /\ where'[c] \in {"ready", "unacked"}
                           <=> msg[c].id = o /\ where[c] \in {"ready", "unacked"}
                        /\ msg'[c].id = o /\ where'[c] = "dlq" <=> msg[c].id = o /\ where[c] = "dlq"
  BY DEF SamePlaces, Kept
<1> QED
  BY <1>1 DEF Live, Dead

(* All steps but a commit and a frame that reaches the broker are internal. *)
LEMMA OtherSteps ==
    ASSUME IInv, [Next]_vars
    PROVE  \/ \E c \in Copies : Commit(c) \/ CommitUnknown(c)
           \/ FlushSend
           \/ FlushAck
           \/ SamePlaces /\ UNCHANGED <<accepted, processed, effects>>
<1>1. /\ TypeOK /\ HandlerInv
      /\ msg \in [Copies -> Message] /\ where \in [Copies -> Places]
  BY DEF IInv, TypeOK, Message
<1>2. ASSUME NEW f, NEW queue, NEW m, Written(f, queue, m)
      PROVE  SamePlaces
  BY <1>1, <1>2 DEF Written, SamePlaces, Kept
<1>3. ASSUME Cut
      PROVE  SamePlaces
  BY <1>1, <1>3, CutEmpties DEF SamePlaces, Kept, Places
<1>4. ASSUME NEW o \in Orders, PublishOrder(o)
      PROVE  SamePlaces /\ UNCHANGED <<accepted, processed, effects>>
  <2>1. SendThen("process", [id |-> o, attempt |-> 1, stop |-> NoStop], <<>>)
    BY <1>4 DEF PublishOrder
  <2>2. SamePlaces
    BY <1>1, <1>2, <2>1, SendWrites
  <2> QED
    BY <1>4, <2>2 DEF PublishOrder, tables
<1>5. ASSUME PostDebug
      PROVE  SamePlaces /\ UNCHANGED <<accepted, processed, effects>>
  <2>1. SendThen("process", Blank, <<>>)
    BY <1>5 DEF PostDebug, Whitelisted
  <2>2. SamePlaces
    BY <1>1, <1>2, <2>1, SendWrites
  <2> QED
    BY <1>5, <2>2 DEF PostDebug, tables
<1>6. ASSUME NEW c \in Copies, SendToDlq(c) \/ Retry(c)
      PROVE  SamePlaces /\ UNCHANGED <<accepted, processed, effects>>
  <2>1. SamePlaces
    <3>1. CASE SendToDlq(c)
      BY <1>1, <1>2, <3>1, SendThenAckWrites DEF SendToDlq
    <3>2. CASE Retry(c)
      BY <1>1, <1>2, <3>2, SendThenAckWrites DEF Retry
    <3> QED
      BY <1>6, <3>1, <3>2
  <2> QED
    BY <1>6, <2>1 DEF SendToDlq, Retry, tables
<1>7. ASSUME NEW c \in Copies, Deliver(c)
      PROVE  SamePlaces /\ UNCHANGED <<accepted, processed, effects>>
  BY <1>1, <1>7 DEF Deliver, SamePlaces, tables
<1>8. ASSUME Cut, UNCHANGED <<accepted, tables>>
      PROVE  SamePlaces /\ UNCHANGED <<accepted, processed, effects>>
  BY <1>3, <1>8 DEF tables
<1>9. ASSUME UNCHANGED <<msg, broker, tables>>
      PROVE  SamePlaces /\ UNCHANGED <<accepted, processed, effects>>
  BY <1>9 DEF SamePlaces, broker, tables
<1>10. CASE \/ ChannelClose \/ Closed \/ Exit \/ Crash \/ \E c \in Copies : RetryFails(c)
  BY <1>8, <1>10 DEF ChannelClose, Closed, Exit, Crash, RetryFails, Restart
<1>11. CASE \/ Shutdown \/ Idle \/ UNCHANGED vars
            \/ \E c \in Copies : \/ InsertDedup(c) \/ InsertDuplicate(c) \/ InsertNull(c)
                                \/ Process(c) \/ Ack(c) \/ AckFails(c) \/ SendToDlqFails(c)
                                \/ ScheduleRetry(c) \/ StatementFails(c)
  <2>1. UNCHANGED <<msg, broker, tables>>
    BY <1>11 DEF Shutdown, Idle, vars, InsertDedup, InsertDuplicate, InsertNull, Process, Ack, AckFails,
       SendToDlqFails, ScheduleRetry, StatementFails
  <2> QED
    BY <1>9, <2>1
<1> QED
  BY <1>4, <1>5, <1>6, <1>7, <1>10, <1>11 DEF Next, Handle

LEMMA CommitFinishes ==
    ASSUME IInv, NEW c \in Copies, Commit(c) \/ CommitUnknown(c)
    PROVE  Tasks!Next
<1> DEFINE o == msg[c].id
<1>1. TypeOK /\ HandlerInv /\ OneHandlerInserts /\ pc[c] = "commit" /\ Install(c)
  BY DEF IInv, Commit, CommitUnknown
<1>2. msg' = msg /\ where' = where /\ accepted' = accepted
  BY DEF Commit, CommitUnknown, broker
<1>3. HeldOrders' = HeldOrders /\ DeadOrders' = DeadOrders
  BY <1>2, SameTasks DEF SamePlaces
<1>4. HoldsRow(c) /\ where[c] \in {"ready", "unacked"} /\ ~ Simulated(c)
  BY <1>1 DEF HandlerInv, HandlerOf, Simulated
<1>5. msg \in [Copies -> Message]
  BY <1>1 DEF TypeOK, Message
<1>6. o \in Orders /\ o \notin processed
  BY <1>1, <1>4, <1>5 DEF OneHandlerInserts, Message, Ids
<1>7. o \in HeldOrders \ DoneOrders
  BY <1>4, <1>6 DEF HeldOrders, DoneOrders, Live
<1>8. processed' = processed \cup {o} /\ effects' = [effects EXCEPT ![o] = @ + 1]
  BY <1>1, <1>4 DEF Install
<1>9. DoneOrders' = DoneOrders \cup {o}
  BY <1>6, <1>8 DEF DoneOrders
<1>10. Tasks!Finish(o)
  BY <1>2, <1>3, <1>7, <1>8, <1>9 DEF Tasks!Finish
<1> QED
  BY <1>6, <1>10 DEF Tasks!Next

(* A message that reaches the broker is the first of its order, replaces one
   that the broker still has, or is the one in orders.dlq. *)
LEMMA SendAccepts ==
    ASSUME IInv, FlushSend
    PROVE  Tasks!Next \/ UNCHANGED Tasks!vars
<1>0. PICK c, o : c = wire[1].copy /\ o = msg[c].id
  OBVIOUS
<1>1. /\ TypeOK /\ WireInv /\ CopyInv /\ SendInv
      /\ msg \in [Copies -> Message] /\ where \in [Copies -> Places] /\ accepted \subseteq Orders
      /\ Len(wire) \in Nat /\ \A i \in 1..Len(wire) : wire[i] \in Frames /\ wire[i].copy \in Copies
  BY FramesTyped DEF IInv, TypeOK, Message
<1>2. Len(wire) \in Nat \ {0} /\ Head(wire) = wire[1] /\ 1 \in 1..Len(wire)
  BY <1>1, FlushReads
<1>3. /\ wire[1].kind = "send" /\ msg' = msg /\ accepted' = accepted \cup ({o} \cap Orders)
      /\ where' = [where EXCEPT ![c] = IF wire[1].queue = "dlq" THEN "dlq" ELSE "ready"]
      /\ processed' = processed /\ effects' = effects
  BY <1>0, <1>2 DEF FlushSend, tables
<1>4. c \in Copies /\ where[c] = "wire"
  BY <1>0, <1>1, <1>2, <1>3 DEF WireInv
<1>5. DoneOrders' = DoneOrders
  BY <1>3 DEF DoneOrders
<1>6. \A d \in Copies : d # c => msg'[d] = msg[d] /\ where'[d] = where[d]
  BY <1>1, <1>3
<1>7. /\ wire[1].queue = "dlq" => where'[c] = "dlq"
      /\ wire[1].queue # "dlq" => where'[c] = "ready"
  BY <1>1, <1>3, <1>4
<1>8. o \in Orders /\ o \in accepted => o \in HeldOrders
  <2>1. ASSUME o \in Orders, o \in accepted
        PROVE  HeldPast(o, 1)
    BY <1>0, <1>1, <1>2, <1>3, <2>1 DEF SendInv
  <2> QED
    BY <2>1 DEF HeldPast, HeldOrders, Live
<1>9. msg'[c].id = o /\ msg[c].id = o
  BY <1>0, <1>3
<1>10. \A p \in Orders : p # o => (Live(p)' <=> Live(p)) /\ (Dead(p)' <=> Dead(p))
  BY <1>6, <1>9 DEF Live, Dead
<1>11. CASE o \notin Orders
  <2>1. HeldOrders' = HeldOrders /\ DeadOrders' = DeadOrders /\ accepted' = accepted
    BY <1>3, <1>10, <1>11 DEF HeldOrders, DeadOrders
  <2> QED
    BY <1>3, <1>5, <2>1 DEF Tasks!vars
<1>12. CASE o \in Orders /\ wire[1].queue = "dlq"
  <2>1. o \in accepted
    BY <1>0, <1>1, <1>2, <1>3, <1>12 DEF SendInv
  <2>2. (Live(o)' <=> Live(o)) /\ Dead(o)'
    BY <1>4, <1>6, <1>7, <1>9, <1>12 DEF Live, Dead
  <2>3. HeldOrders' = HeldOrders /\ DeadOrders' = DeadOrders \cup {o} /\ accepted' = accepted
    BY <1>3, <1>10, <1>12, <2>1, <2>2 DEF HeldOrders, DeadOrders
  <2>4. Tasks!GiveUp(o)
    BY <1>3, <1>5, <1>8, <1>12, <2>1, <2>3 DEF Tasks!GiveUp
  <2> QED
    BY <1>12, <2>4 DEF Tasks!Next
<1>13. CASE o \in Orders /\ wire[1].queue # "dlq"
  <2>1. (Dead(o)' <=> Dead(o)) /\ Live(o)'
    BY <1>4, <1>6, <1>7, <1>9, <1>13 DEF Live, Dead
  <2>2. HeldOrders' = HeldOrders \cup {o} /\ DeadOrders' = DeadOrders /\ accepted' = accepted \cup {o}
    BY <1>3, <1>10, <1>13, <2>1 DEF HeldOrders, DeadOrders
  <2>3. CASE o \in accepted
    <3>1. HeldOrders' = HeldOrders /\ accepted' = accepted
      BY <1>8, <1>13, <2>2, <2>3
    <3> QED
      BY <1>3, <1>5, <2>2, <3>1 DEF Tasks!vars
  <2>4. CASE o \notin accepted
    <3>1. Tasks!Accept(o)
      BY <1>3, <1>5, <2>2, <2>4 DEF Tasks!Accept
    <3> QED
      BY <1>13, <3>1 DEF Tasks!Next
  <2> QED
    BY <2>3, <2>4
<1> QED
  BY <1>11, <1>12, <1>13

(* The last copy of a message is let go when its order is processed or in
   orders.dlq. *)
LEMMA AckReleases ==
    ASSUME IInv, NoLostMessage', FlushAck
    PROVE  Tasks!Next \/ UNCHANGED Tasks!vars
<1>0. PICK c, o : c = wire[1].copy /\ o = msg[c].id
  OBVIOUS
<1>1. /\ TypeOK /\ WireInv /\ CopyInv
      /\ msg \in [Copies -> Message] /\ where \in [Copies -> Places]
      /\ Len(wire) \in Nat /\ \A i \in 1..Len(wire) : wire[i] \in Frames /\ wire[i].copy \in Copies
  BY FramesTyped DEF IInv, TypeOK, Message
<1>2. Len(wire) \in Nat \ {0} /\ Head(wire) = wire[1] /\ 1 \in 1..Len(wire)
  BY <1>1, FlushReads
<1>3. /\ wire[1].kind = "ack" /\ accepted' = accepted
      /\ msg' = [msg EXCEPT ![c] = Blank] /\ where' = [where EXCEPT ![c] = "unused"]
      /\ processed' = processed /\ effects' = effects
  BY <1>0, <1>2 DEF FlushAck, tables
<1>4. c \in Copies /\ where[c] = "unacked"
  BY <1>0, <1>1, <1>2, <1>3 DEF WireInv
<1>5. DoneOrders' = DoneOrders
  BY <1>3 DEF DoneOrders
<1>6. \A d \in Copies : d # c => msg'[d] = msg[d] /\ where'[d] = where[d]
  BY <1>1, <1>3
<1>7. where'[c] = "unused"
  BY <1>1, <1>3, <1>4
<1>8. msg[c].id = o
  BY <1>0
<1>9. /\ \A p \in Orders : p # o => (Live(p)' <=> Live(p))
      /\ \A p \in Orders : Dead(p)' <=> Dead(p)
  BY <1>4, <1>6, <1>7, <1>8 DEF Live, Dead
<1>10. DeadOrders' = DeadOrders
  BY <1>9 DEF DeadOrders
<1>11. CASE o \notin Orders
  <2>1. HeldOrders' = HeldOrders
    BY <1>9, <1>11 DEF HeldOrders
  <2> QED
    BY <1>3, <1>5, <1>10, <2>1 DEF Tasks!vars
<1>12. CASE o \in Orders
  <2>1. Live(o) /\ o \in HeldOrders
    BY <1>4, <1>8, <1>12 DEF Live, HeldOrders
  <2>2. CASE Live(o)'
    <3>1. HeldOrders' = HeldOrders
      BY <1>9, <2>1, <2>2 DEF HeldOrders
    <3> QED
      BY <1>3, <1>5, <1>10, <3>1 DEF Tasks!vars
  <2>3. CASE ~ Live(o)'
    <3>1. HeldOrders' = HeldOrders \ {o}
      BY <1>9, <2>3 DEF HeldOrders
    <3>2. o \in accepted'
      BY <1>1, <1>3, <1>4, <1>8, <1>12 DEF CopyInv, Kept
    <3>3. o \in processed \/ Dead(o)'
      BY <1>3, <2>3, <3>2 DEF NoLostMessage, AtBroker, Live, Dead
    <3>4. o \in DoneOrders \cup DeadOrders
      BY <1>9, <1>12, <3>3 DEF DoneOrders, DeadOrders
    <3>5. Tasks!Release(o)
      BY <1>3, <1>5, <1>10, <2>1, <3>1, <3>4 DEF Tasks!Release
    <3> QED
      BY <1>12, <3>5 DEF Tasks!Next
  <2> QED
    BY <2>2, <2>3
<1> QED
  BY <1>11, <1>12

LEMMA TasksStep == IInv /\ IInv' /\ [Next]_vars => [Tasks!Next]_(Tasks!vars)
<1> SUFFICES ASSUME IInv, IInv', [Next]_vars
             PROVE  Tasks!Next \/ UNCHANGED Tasks!vars
  OBVIOUS
<1>1. ASSUME SamePlaces, UNCHANGED <<accepted, processed, effects>>
      PROVE  UNCHANGED Tasks!vars
  <2>1. HeldOrders' = HeldOrders /\ DeadOrders' = DeadOrders /\ DoneOrders' = DoneOrders
    BY <1>1, SameTasks DEF DoneOrders
  <2> QED
    BY <1>1, <2>1 DEF Tasks!vars
<1>2. NoLostMessage'
  BY DEF IInv
<1> QED
  BY <1>1, <1>2, OtherSteps, CommitFinishes, SendAccepts, AckReleases

LEMMA TasksInit == Init => Tasks!Init
<1> SUFFICES ASSUME Init
             PROVE  Tasks!Init
  OBVIOUS
<1>1. HeldOrders = {} /\ DoneOrders = {} /\ DeadOrders = {}
  BY DEF Init, HeldOrders, DoneOrders, DeadOrders, Live, Dead
<1> QED
  BY <1>1 DEF Init, Tasks!Init

(* OrdersWorkerService with RabbitMqService: each order the broker accepts is
   a task that is held until it is done or dead, and done once. *)
THEOREM WorkerImplementsTasks == Spec => ImplementsTasks
BY InitInv, InvStep, TasksInit, TasksStep, PTL DEF Spec, ImplementsTasks, Tasks!Spec
=============================================================================
