------------------------------ MODULE Consumer ------------------------------
(***************************************************************************)
(* internal/ingest/consumer.go: N worker goroutines draining one SQS       *)
(* queue.  A worker receives up to BatchSize messages in one call, handles *)
(* them one after the other, each under its own HandleTimeout, and deletes *)
(* a message only after Handle returned nil for it.  The deadline covers   *)
(* the delete too: handleOne shadows ctx.                                  *)
(*                                                                         *)
(* The queue itself is external: a received message is hidden for          *)
(* VisibilityTimeout, and a message received MaxReceive times without      *)
(* being deleted goes to the dead letter queue (terraform/prod/sqs.tf).    *)
(* The clock is discrete; every time is a number of ticks.                 *)
(***************************************************************************)
EXTENDS Naturals, Sequences

CONSTANTS Msgs, Workers, None,
          BatchSize,           \* messages asked for in one Receive (code: 10)
          HandleTimeout,       \* budget of one message (code: 25s)
          VisibilityTimeout,   \* how long a received message is hidden (30s)
          MaxReceive,          \* receives before redrive (3)
          MaxFaults            \* bound: failures the environment may inject

ASSUME ConsumerAssumption ==
    /\ BatchSize \in Nat \ {0}
    /\ HandleTimeout \in Nat \ {0}
    /\ VisibilityTimeout \in Nat \ {0}
    /\ MaxReceive \in Nat \ {0}
    /\ MaxFaults \in Nat
    /\ None \notin Msgs

VARIABLES
    status,     \* status[m]: unsent, queued, deleted or dead
    hidden,     \* hidden[m]: ticks until a queued message is visible again
    receives,   \* receives[m]: times SQS handed m out
    batch,      \* batch[w]: what is left of w's batch, head first
    pc,         \* pc[w]: "loop" between messages, "handle", "delete"
    budget,     \* budget[w]: ticks left of the message's deadline
    applied,    \* messages Handle has returned nil for
    late,       \* late[w]: the message in hand was started too late (history)
    failed,     \* deliveries lost to a failure (history)
    expired,    \* deliveries that outlived their visibility (history)
    faults      \* failures injected so far

queueVars == <<status, hidden, receives>>
workerVars == <<batch, pc, budget, late>>
lossVars == <<failed, expired>>
vars == <<status, hidden, receives, batch, pc, budget, late, applied, failed,
          expired, faults>>

\* A message in a worker's hands carries the receipt of one delivery and its
\* place in the reply it came with.
Delivery == [msg: Msgs, receipt: 1..MaxReceive, place: 1..BatchSize]

TypeOK == /\ status \in [Msgs -> {"unsent", "queued", "deleted", "dead"}]
          /\ hidden \in [Msgs -> 0..VisibilityTimeout]
          /\ receives \in [Msgs -> 0..MaxReceive]
          /\ batch \in [Workers -> Seq(Delivery)]
          /\ \A w \in Workers : Len(batch[w]) <= BatchSize
          /\ pc \in [Workers -> {"loop", "handle", "delete"}]
          /\ \A w \in Workers : pc[w] # "loop" => batch[w] # <<>>
          /\ budget \in [Workers -> 0..HandleTimeout]
          /\ applied \subseteq Msgs
          /\ late \in [Workers -> BOOLEAN]
          /\ failed \subseteq Msgs \X (1..MaxReceive)
          /\ expired \subseteq Msgs \X (1..MaxReceive)
          /\ faults \in 0..MaxFaults

Init == /\ status = [m \in Msgs |-> "unsent"]
        /\ hidden = [m \in Msgs |-> 0]
        /\ receives = [m \in Msgs |-> 0]
        /\ batch = [w \in Workers |-> <<>>]
        /\ pc = [w \in Workers |-> "loop"]
        /\ budget = [w \in Workers |-> 0]
        /\ applied = {}
        /\ late = [w \in Workers |-> FALSE]
        /\ failed = {}
        /\ expired = {}
        /\ faults = 0
-----------------------------------------------------------------------------
(* The queue.                                                              *)

Visible(m) == status[m] = "queued" /\ hidden[m] = 0

\* A message that has used up its receives is not handed out again.
Receivable == {m \in Msgs : Visible(m) /\ receives[m] < MaxReceive}

Send(m) == /\ status[m] = "unsent"
           /\ status' = [status EXCEPT ![m] = "queued"]
           /\ UNCHANGED <<hidden, receives, workerVars, applied, lossVars, faults>>

Redrive(m) == /\ Visible(m)
              /\ receives[m] = MaxReceive
              /\ status' = [status EXCEPT ![m] = "dead"]
              /\ UNCHANGED <<hidden, receives, workerVars, applied, lossVars, faults>>

\* SQS hands out the messages of M: they are hidden and counted.
HandOut(M) ==
    /\ hidden' = [m \in Msgs |-> IF m \in M THEN VisibilityTimeout ELSE hidden[m]]
    /\ receives' = [m \in Msgs |-> receives[m] + (IF m \in M THEN 1 ELSE 0)]
    /\ UNCHANGED status

Fault == faults < MaxFaults /\ faults' = faults + 1

\* The deliveries of D (message and receipt) are lost to a failure.
Lose(D) == failed' = failed \cup D /\ UNCHANGED expired

\* The reply to Receive never reaches the task.
ReceiveLost(m) == /\ m \in Receivable
                  /\ Fault
                  /\ HandOut({m})
                  /\ Lose({<<m, receives[m] + 1>>})
                  /\ UNCHANGED <<workerVars, applied>>
-----------------------------------------------------------------------------
(* A worker.                                                               *)

Head1(w) == batch[w][1]
Next1(w) == [batch EXCEPT ![w] = Tail(@)]
Id(d) == <<d.msg, d.receipt>>
Held(w) == {batch[w][i] : i \in DOMAIN batch[w]}

\* Orders in which one call may hand out n messages.
Orders(n) == {s \in [1..n -> Receivable] : \A i, j \in 1..n : s[i] = s[j] => i = j}

\* The deliveries of one reply, in its order.
Reply(n, s) == [i \in 1..n |-> [msg |-> s[i], receipt |-> receives[s[i]] + 1, place |-> i]]

Receive(w) ==
    /\ pc[w] = "loop" /\ batch[w] = <<>>
    /\ \E n \in 1..BatchSize : \E s \in Orders(n) :
         /\ HandOut({s[i] : i \in 1..n})
         /\ batch' = [batch EXCEPT ![w] = Reply(n, s)]
    /\ UNCHANGED <<pc, budget, late, applied, lossVars, faults>>

\* The delivery d is the latest of its message, and the message has more than
\* n ticks left before another worker can receive it.
Covered(d, n) == receives[d.msg] = d.receipt /\ hidden[d.msg] > n

\* handleOne: the deadline starts.
Start(w) == /\ pc[w] = "loop" /\ batch[w] # <<>>
            /\ pc' = [pc EXCEPT ![w] = "handle"]
            /\ budget' = [budget EXCEPT ![w] = HandleTimeout]
            /\ late' = [late EXCEPT ![w] = ~Covered(Head1(w), HandleTimeout)]
            /\ UNCHANGED <<queueVars, batch, applied, lossVars, faults>>

\* mutant: the worker forgets to delete what it applied
HandleOkKeeps(w) == /\ pc[w] = "handle"
                    /\ applied' = applied \cup {Head1(w).msg}
                    /\ batch' = Next1(w)
                    /\ pc' = [pc EXCEPT ![w] = "loop"]
                    /\ budget' = [budget EXCEPT ![w] = 0]
                    /\ late' = [late EXCEPT ![w] = FALSE]
                    /\ UNCHANGED <<queueVars, lossVars, faults>>

HandleOk(w) == /\ pc[w] = "handle"
               /\ pc' = [pc EXCEPT ![w] = "delete"]
               /\ applied' = applied \cup {Head1(w).msg}
               /\ UNCHANGED <<queueVars, batch, budget, late, lossVars, faults>>

\* mutant: no deadline ever ends a handler
DeadlineNever(w) == FALSE

\* context.WithTimeout(ctx, c.HandleTimeout) has expired.
DeadlineHit(w) == budget[w] = 0

\* mutant: the batch moves on but the worker still thinks it is handling
AdvanceOnlyBatch(w) == batch' = Next1(w) /\ UNCHANGED <<pc, budget, late>>

\* The worker goes on with the rest of its batch.
Advance(w) == /\ batch' = Next1(w)
              /\ pc' = [pc EXCEPT ![w] = "loop"]
              /\ budget' = [budget EXCEPT ![w] = 0]
              /\ late' = [late EXCEPT ![w] = FALSE]

\* mutant: a message whose handler failed is deleted all the same
LeaveDeleted(m) == /\ status' = [status EXCEPT ![m] = "deleted"]
                   /\ UNCHANGED <<hidden, receives>>

\* A message that was not handled stays on the queue for redelivery.
LeaveOnQueue(m) == UNCHANGED queueVars

\* A step that ran out of the deadline, or a failure the environment injects.
FailStep(w) == IF DeadlineHit(w) THEN UNCHANGED faults ELSE Fault

\* Handle returned an error: a failed statement, or the deadline.
HandleErr(w) == /\ pc[w] = "handle"
                /\ FailStep(w)
                /\ Advance(w)
                /\ Lose({Id(Head1(w))})
                /\ LeaveOnQueue(Head1(w).msg)
                /\ UNCHANGED applied

\* DeleteMessage with the current receipt removes the message.  With the
\* receipt of an earlier delivery SQS may or may not honour it.
Delete(w) ==
    LET m == Head1(w).msg
        gone == [status EXCEPT ![m] = "deleted"]
    IN  /\ pc[w] = "delete"
        /\ Advance(w)
        /\ IF status[m] = "queued"
           THEN \/ status' = gone
                \/ Head1(w).receipt # receives[m] /\ UNCHANGED status
           ELSE UNCHANGED status
        /\ UNCHANGED <<hidden, receives, applied, lossVars, faults>>

\* The delete failed or ran out of the deadline: logged, never retried.
DeleteErr(w) == /\ pc[w] = "delete"
                /\ FailStep(w)
                /\ Advance(w)
                /\ Lose({Id(Head1(w))})
                /\ UNCHANGED <<queueVars, applied>>

\* A task stops: its workers lose what they hold.
Crash(W) == /\ Fault
            /\ \E w \in W : batch[w] # <<>>
            /\ batch' = [w \in Workers |-> IF w \in W THEN <<>> ELSE batch[w]]
            /\ pc' = [w \in Workers |-> IF w \in W THEN "loop" ELSE pc[w]]
            /\ Lose(UNION {{Id(d) : d \in Held(w)} : w \in W})
            /\ budget' = [w \in Workers |-> IF w \in W THEN 0 ELSE budget[w]]
            /\ late' = [w \in Workers |-> IF w \in W THEN FALSE ELSE late[w]]
            /\ UNCHANGED <<queueVars, applied>>

\* No worker sits past its deadline, and none pauses between two messages.
Punctual == \A w \in Workers : IF pc[w] = "loop" THEN batch[w] = <<>>
                                              ELSE ~DeadlineHit(w)

\* At its place in the batch, d may have to wait for handlers that take so long
\* together that its own may end after it is visible again.
Behind(d) == d.place * HandleTimeout >= VisibilityTimeout

\* The visibility of the i-th message in w's hands ends: one queued behind slow
\* batch mates, that has not been started or was started too late.
RunsOut(w, i) == /\ Behind(batch[w][i])
                 /\ i > 1 \/ late[w]
                 /\ receives[batch[w][i].msg] = batch[w][i].receipt
                 /\ hidden[batch[w][i].msg] = 1

Less1(n) == IF n = 0 THEN 0 ELSE n - 1

Tick == /\ Punctual
        /\ \/ \E m \in Msgs : hidden[m] > 0
           \/ \E w \in Workers : budget[w] > 0
        /\ hidden' = [m \in Msgs |-> Less1(hidden[m])]
        /\ budget' = [w \in Workers |-> Less1(budget[w])]
        /\ expired' = expired \cup UNION {{Id(batch[w][i]) :
                         i \in {k \in DOMAIN batch[w] : RunsOut(w, k)}} : w \in Workers}
        /\ UNCHANGED <<status, receives, batch, pc, late, applied, failed, faults>>

WorkerStep(w) == Receive(w) \/ Start(w) \/ HandleOk(w) \/ HandleErr(w)
                            \/ Delete(w) \/ DeleteErr(w)

Next == \/ \E m \in Msgs : Send(m) \/ Redrive(m) \/ ReceiveLost(m)
        \/ \E w \in Workers : WorkerStep(w)
        \/ \E W \in SUBSET Workers : Crash(W)
        \/ Tick

\* A worker keeps polling (workerLoop), what it runs ends at the latest by its
\* deadline (handleOne), the queue redrives and time passes.
Fairness == /\ \A w \in Workers : /\ WF_vars(Receive(w))
                                  /\ WF_vars(Start(w))
                                  /\ WF_vars(HandleErr(w) /\ DeadlineHit(w))
                                  /\ WF_vars(Delete(w) \/ DeleteErr(w))
            /\ \A m \in Msgs : WF_vars(Redrive(m))
            /\ WF_vars(Tick)

Spec == Init /\ [][Next]_vars
FairSpec == Spec /\ Fairness
-----------------------------------------------------------------------------
Holds(w, m) == pc[w] # "loop" /\ Head1(w).msg = m

(* A worker that is handling or deleting a message still owns it: the      *)
(* delivery it holds is the latest one and the message is hidden.  This is *)
(* what the comment on defaultHandleTimeout says (consumer.go:27-34).      *)
HandlerOwnsMessage ==
    \A w \in Workers : pc[w] # "loop" =>
        LET d == Head1(w) IN
        /\ status[d.msg] = "queued"
        /\ hidden[d.msg] > 0
        /\ receives[d.msg] = d.receipt

(* What the code keeps of that claim: a handler that began with its budget *)
(* to spare before the message is visible again owns it to the end, delete *)
(* included, whatever the other workers do; and only a message behind      *)
(* others in its batch can begin later than that (consumer.go:86,98).  The *)
(* message may be gone: a worker with an older receipt can delete it.      *)
TimelyHandlerOwns ==
    \A w \in Workers : pc[w] # "loop" =>
        LET d == Head1(w) IN
        /\ ~late[w] => /\ status[d.msg] \in {"queued", "deleted"}
                       /\ Covered(d, 0)
        /\ late[w] => Behind(d)

(* Two workers have the same message in their hands only when one of them  *)
(* came to it late, behind slow batch mates.                               *)
ExclusiveHandling ==
    \A v, w \in Workers, m \in Msgs :
        Holds(v, m) /\ Holds(w, m) => v = w \/ late[v] \/ late[w]

(* A message ends in the dead letter queue only when every one of its      *)
(* deliveries was lost: to a failure, or to the visibility timeout while   *)
(* it was queued behind slow batch mates, its handler not begun or begun   *)
(* too late.  The second kind needs no failure (consumer.go:77,86).        *)
DeadMeansLost ==
    \A m \in Msgs : status[m] = "dead" =>
        \A r \in 1..MaxReceive : <<m, r>> \in failed \cup expired

(* Every message that was sent ends deleted or dead: no worker, failure or *)
(* restart leaves it circulating for ever.                                 *)
EveryMessageEnds ==
    \A m \in Msgs : status[m] = "queued" ~> status[m] \in {"deleted", "dead"}

(* The consumer implements the at-least-once queue: in particular a        *)
(* message is deleted only after Handle returned nil for it.               *)
Active == [w \in Workers |-> IF pc[w] = "handle" THEN Head1(w).msg ELSE None]
Abstract == INSTANCE AtLeastOnceQueue WITH active <- Active
ImplementsAtLeastOnce == Abstract!QSpec
=============================================================================
