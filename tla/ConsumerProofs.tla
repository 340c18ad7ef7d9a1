--------------------------- MODULE ConsumerProofs ---------------------------
(***************************************************************************)
(* What Consumer guarantees for every number of messages, workers and      *)
(* failures.                                                               *)
(***************************************************************************)
EXTENDS Consumer, SequenceTheorems, TLAPS

LEMMA BuildSeq ==
    ASSUME NEW S, NEW n \in Nat, NEW f \in [1..n -> S]
    PROVE  f \in Seq(S) /\ Len(f) = n
<1>1. f \in Seq(S)
  BY SeqDef
<1>2. DOMAIN f = 1..Len(f) /\ Len(f) \in Nat
  BY <1>1, LenProperties
<1>3. 1..n = 1..Len(f)
  BY <1>2
<1>4. n = Len(f)
  BY <1>2, <1>3, SMT
<1> QED
  BY <1>1, <1>4

\* Taking the head off a worker's batch.
LEMMA AdvanceBatch ==
    ASSUME TypeOK, NEW w \in Workers, batch[w] # <<>>, batch' = Next1(w)
    PROVE  /\ batch' \in [Workers -> Seq(Delivery)]
           /\ \A v \in Workers : v # w => batch'[v] = batch[v]
           /\ Len(batch[w]) \in Nat \ {0}
           /\ Len(batch'[w]) = Len(batch[w]) - 1
           /\ \A i \in 1..Len(batch'[w]) : batch'[w][i] = batch[w][i + 1]
           /\ Head1(w) \in Delivery
<1> DEFINE s == batch[w]
<1>1. batch \in [Workers -> Seq(Delivery)] /\ s \in Seq(Delivery)
  BY DEF TypeOK
<1>2. batch'[w] = Tail(s) /\ \A v \in Workers : v # w => batch'[v] = batch[v]
  BY <1>1 DEF Next1
<1>3. Tail(s) \in Seq(Delivery) /\ Len(Tail(s)) = Len(s) - 1
      /\ \A i \in 1..Len(Tail(s)) : Tail(s)[i] = s[i + 1]
  BY <1>1, HeadTailProperties
<1>4. Len(s) \in Nat \ {0}
  BY <1>1, EmptySeq
<1>5. s[1] \in Delivery
  BY <1>1, <1>4, ElementOfSeq
<1>6. batch' \in [Workers -> Seq(Delivery)]
  BY <1>1, <1>3 DEF Next1
<1> QED
  BY <1>2, <1>3, <1>4, <1>5, <1>6 DEF Head1
-----------------------------------------------------------------------------
\* What a Receive did: n messages, in the order s, are in w's hands.
Handed(w, n, s) ==
    /\ n \in Nat \ {0} /\ n <= BatchSize
    /\ pc[w] = "loop" /\ Len(batch[w]) = 0 /\ Len(batch'[w]) = n
    /\ \A i \in 1..n : /\ s[i] \in Msgs /\ Visible(s[i]) /\ receives[s[i]] < MaxReceive
                       /\ batch'[w][i].msg = s[i]
                       /\ batch'[w][i].receipt = receives[s[i]] + 1
                       /\ batch'[w][i].place = i
    /\ \A i, j \in 1..n : s[i] = s[j] => i = j
    /\ batch' \in [Workers -> Seq(Delivery)]
    /\ \A v \in Workers : v # w => batch'[v] = batch[v]
    /\ \A m \in Msgs : \/ /\ \E i \in 1..n : s[i] = m
                          /\ hidden'[m] = VisibilityTimeout
                          /\ receives'[m] = receives[m] + 1
                       \/ /\ \A i \in 1..n : s[i] # m
                          /\ hidden'[m] = hidden[m]
                          /\ receives'[m] = receives[m]
    /\ hidden' \in [Msgs -> 0..VisibilityTimeout]
    /\ receives' \in [Msgs -> 0..MaxReceive]
    /\ UNCHANGED <<status, pc, budget, late, applied, failed, expired, faults>>

LEMMA ReceiveFacts ==
    ASSUME TypeOK, NEW w \in Workers, Receive(w)
    PROVE  \E n \in 1..BatchSize : \E s \in Orders(n) : Handed(w, n, s)
<1>0. PICK n \in 1..BatchSize : \E s \in Orders(n) :
         /\ HandOut({s[i] : i \in 1..n})
         /\ batch' = [batch EXCEPT ![w] = Reply(n, s)]
  BY DEF Receive
<1>1. PICK s \in Orders(n) :
         /\ HandOut({s[i] : i \in 1..n})
         /\ batch' = [batch EXCEPT ![w] = Reply(n, s)]
  BY <1>0
<1> DEFINE b == Reply(n, s)
           M == {s[i] : i \in 1..n}
<1>2. /\ n \in Nat \ {0} /\ n <= BatchSize
      /\ \A i \in 1..n : s[i] \in Msgs /\ Visible(s[i]) /\ receives[s[i]] \in Nat
                        /\ receives[s[i]] < MaxReceive
      /\ \A i, j \in 1..n : s[i] = s[j] => i = j
  BY ConsumerAssumption DEF Orders, Receivable, TypeOK
<1>3. \A i \in 1..n : b[i] = [msg |-> s[i], receipt |-> receives[s[i]] + 1, place |-> i]
  BY DEF Reply
<1>4. b \in [1..n -> Delivery]
  <2>1. ASSUME NEW i \in 1..n PROVE b[i] \in Delivery
    <3>1. s[i] \in Msgs /\ receives[s[i]] + 1 \in 1..MaxReceive /\ i \in 1..BatchSize
      BY <1>2, ConsumerAssumption
    <3>2. b[i] = [msg |-> s[i], receipt |-> receives[s[i]] + 1, place |-> i]
      BY <1>3
    <3> HIDE DEF b
    <3> QED BY <3>1, <3>2 DEF Delivery
  <2>2. b = [i \in 1..n |-> b[i]]
    BY DEF Reply
  <2> HIDE DEF b
  <2> QED BY <2>1, <2>2
<1>5. b \in Seq(Delivery) /\ Len(b) = n
  <2> HIDE DEF b
  <2> QED BY <1>2, <1>4, BuildSeq
<1> HIDE DEF b
<1>6. /\ batch'[w] = b /\ batch' \in [Workers -> Seq(Delivery)]
      /\ \A v \in Workers : v # w => batch'[v] = batch[v]
  BY <1>1, <1>5 DEF TypeOK, b
<1>7. pc[w] = "loop" /\ Len(batch[w]) = 0
      /\ UNCHANGED <<status, pc, budget, late, applied, failed, expired, faults>>
  BY <1>1, EmptySeq DEF Receive, HandOut, lossVars
<1>8. M \subseteq Msgs /\ \A m \in M : receives[m] < MaxReceive
  BY <1>2
<1>9. \A m \in Msgs : m \in M <=> \E i \in 1..n : s[i] = m
  OBVIOUS
<1>10. HandOut(M)
  BY <1>1
<1> HIDE DEF M
<1>11. /\ hidden' \in [Msgs -> 0..VisibilityTimeout]
       /\ receives' \in [Msgs -> 0..MaxReceive]
       /\ \A m \in M : hidden'[m] = VisibilityTimeout /\ receives'[m] = receives[m] + 1
       /\ \A m \in Msgs \ M : hidden'[m] = hidden[m] /\ receives'[m] = receives[m]
  BY <1>8, <1>10, ConsumerAssumption DEF HandOut, TypeOK
<1>12. \A i \in 1..n : /\ batch'[w][i].msg = s[i]
                       /\ batch'[w][i].receipt = receives[s[i]] + 1
                       /\ batch'[w][i].place = i
  <2> SUFFICES ASSUME NEW i \in 1..n
               PROVE  /\ batch'[w][i].msg = s[i]
                      /\ batch'[w][i].receipt = receives[s[i]] + 1
                      /\ batch'[w][i].place = i
    OBVIOUS
  <2>1. batch'[w][i] = [msg |-> s[i], receipt |-> receives[s[i]] + 1, place |-> i]
    BY <1>3, <1>6, Zenon
  <2> QED
    BY <2>1
<1>13. Handed(w, n, s)
  BY <1>2, <1>5, <1>6, <1>7, <1>9, <1>11, <1>12 DEF Handed
<1> QED
  BY <1>13
-----------------------------------------------------------------------------
LEMMA InitType == Init => TypeOK
<1> SUFFICES ASSUME Init PROVE TypeOK
  OBVIOUS
<1>1. batch \in [Workers -> Seq(Delivery)] /\ \A w \in Workers : Len(batch[w]) <= BatchSize
  BY EmptySeq, ConsumerAssumption DEF Init
<1> QED
  BY <1>1, ConsumerAssumption DEF Init, TypeOK

\* What a worker holds are deliveries of messages.
LEMMA HeldIds ==
    ASSUME TypeOK, NEW w \in Workers
    PROVE  /\ Len(batch[w]) \in Nat /\ DOMAIN batch[w] = 1..Len(batch[w])
           /\ \A i \in 1..Len(batch[w]) :
                 batch[w][i] \in Delivery /\ batch[w][i].msg \in Msgs
           /\ pc[w] # "loop" => Len(batch[w]) \in Nat \ {0}
           /\ {Id(d) : d \in Held(w)} \subseteq Msgs \X (1..MaxReceive)
<1>1. batch[w] \in Seq(Delivery)
  BY DEF TypeOK
<1>2. Len(batch[w]) \in Nat /\ DOMAIN batch[w] = 1..Len(batch[w])
  BY <1>1, LenProperties
<1>3. \A i \in 1..Len(batch[w]) : batch[w][i] \in Delivery
  BY <1>1, ElementOfSeq
<1>4. pc[w] # "loop" => Len(batch[w]) \in Nat \ {0}
  BY <1>1, EmptySeq DEF TypeOK
<1>5. Held(w) \subseteq Delivery
  BY <1>2, <1>3 DEF Held
<1> QED
  BY <1>2, <1>3, <1>4, <1>5 DEF Delivery, Id

LEMMA AdvanceType ==
    ASSUME TypeOK, NEW w \in Workers, pc[w] # "loop", Advance(w)
    PROVE  /\ batch' \in [Workers -> Seq(Delivery)]
           /\ \A v \in Workers : Len(batch'[v]) <= BatchSize
           /\ pc' \in [Workers -> {"loop", "handle", "delete"}]
           /\ \A v \in Workers : pc'[v] # "loop" => batch'[v] # <<>>
           /\ budget' \in [Workers -> 0..HandleTimeout]
           /\ late' \in [Workers -> BOOLEAN]
           /\ Id(Head1(w)) \in Msgs \X (1..MaxReceive)
<1>1. batch[w] # <<>>
  BY DEF TypeOK
<1>2. \A v \in Workers : Len(batch[v]) \in Nat /\ Len(batch[v]) <= BatchSize
  BY LenProperties DEF TypeOK
<1>3. /\ Len(batch'[w]) = Len(batch[w]) - 1
      /\ \A v \in Workers : v # w => batch'[v] = batch[v]
      /\ batch' \in [Workers -> Seq(Delivery)]
  BY <1>1, AdvanceBatch DEF Advance
<1>4. \A v \in Workers : Len(batch'[v]) <= BatchSize
  <2>1. BatchSize \in Nat
    BY ConsumerAssumption
  <2>2. Len(batch'[w]) <= BatchSize
    BY <1>2, <1>3, <2>1
  <2> QED
    BY <1>2, <1>3, <2>2
<1>5. /\ pc' \in [Workers -> {"loop", "handle", "delete"}]
      /\ pc'[w] = "loop"
      /\ \A v \in Workers : v # w => pc'[v] = pc[v]
  BY DEF Advance, TypeOK
<1>6. \A v \in Workers : pc'[v] # "loop" => batch'[v] # <<>>
  BY <1>3, <1>5 DEF TypeOK
<1>7. budget' \in [Workers -> 0..HandleTimeout]
  BY ConsumerAssumption DEF Advance, TypeOK
<1>8. late' \in [Workers -> BOOLEAN]
  BY DEF Advance, TypeOK
<1>9. Id(Head1(w)) \in Msgs \X (1..MaxReceive)
  BY <1>1, AdvanceBatch DEF Advance, Delivery, Id
<1> QED
  BY <1>3, <1>4, <1>5, <1>6, <1>7, <1>8, <1>9

LEMMA NextType == TypeOK /\ [Next]_vars => TypeOK'
<1> SUFFICES ASSUME TypeOK, [Next]_vars PROVE TypeOK'
  OBVIOUS
<1> USE ConsumerAssumption
<1>1. ASSUME NEW m \in Msgs, Send(m) PROVE TypeOK'
  BY <1>1 DEF Send, workerVars, lossVars, TypeOK
<1>2. ASSUME NEW m \in Msgs, Redrive(m) PROVE TypeOK'
  BY <1>2 DEF Redrive, workerVars, lossVars, TypeOK
<1>3. ASSUME NEW m \in Msgs, ReceiveLost(m) PROVE TypeOK'
  BY <1>3 DEF ReceiveLost, Receivable, HandOut, Lose, Fault, workerVars, TypeOK
<1>4. ASSUME NEW w \in Workers, Receive(w) PROVE TypeOK'
  <2>0. PICK n \in 1..BatchSize : \E s \in Orders(n) : Handed(w, n, s)
    BY <1>4, ReceiveFacts
  <2>1. PICK s \in Orders(n) : Handed(w, n, s)
    BY <2>0
  <2>2. \A v \in Workers : Len(batch'[v]) <= BatchSize
    BY <2>1 DEF Handed, TypeOK
  <2>3. \A v \in Workers : pc'[v] # "loop" => batch'[v] # <<>>
    BY <2>1 DEF Handed, TypeOK
  <2> QED
    BY <2>1, <2>2, <2>3 DEF Handed, TypeOK
<1>5. ASSUME NEW w \in Workers, Start(w) PROVE TypeOK'
  BY <1>5 DEF Start, queueVars, lossVars, TypeOK
<1>6. ASSUME NEW w \in Workers, HandleOk(w) PROVE TypeOK'
  <2>1. Head1(w).msg \in Msgs
    <3>1. batch[w] \in Seq(Delivery) /\ batch[w] # <<>>
      BY <1>6 DEF HandleOk, TypeOK
    <3>2. batch[w][1] \in Delivery
      BY <3>1, EmptySeq, ElementOfSeq
    <3> QED BY <3>2 DEF Head1, Delivery
  <2> QED
    BY <1>6, <2>1 DEF HandleOk, queueVars, lossVars, TypeOK
<1>7. ASSUME NEW w \in Workers, HandleErr(w) PROVE TypeOK'
  <2>1. pc[w] # "loop" /\ Advance(w) /\ UNCHANGED queueVars
    BY <1>7 DEF HandleErr, LeaveOnQueue
  <2>2. faults' \in 0..MaxFaults
    BY <1>7 DEF HandleErr, FailStep, Fault, TypeOK
  <2>3. failed' \subseteq Msgs \X (1..MaxReceive) /\ UNCHANGED expired
    BY <1>7, <2>1, AdvanceType DEF HandleErr, Lose, TypeOK
  <2> QED
    BY <1>7, <2>1, <2>2, <2>3, AdvanceType DEF HandleErr, queueVars, TypeOK
<1>8. ASSUME NEW w \in Workers, Delete(w) PROVE TypeOK'
  <2>1. pc[w] # "loop" /\ Advance(w) /\ UNCHANGED <<hidden, receives, applied, failed, expired, faults>>
    BY <1>8 DEF Delete, lossVars
  <2>2. status' \in [Msgs -> {"unsent", "queued", "deleted", "dead"}]
    BY <1>8 DEF Delete, TypeOK
  <2> QED
    BY <2>1, <2>2, AdvanceType DEF TypeOK
<1>9. ASSUME NEW w \in Workers, DeleteErr(w) PROVE TypeOK'
  <2>1. pc[w] # "loop" /\ Advance(w) /\ UNCHANGED queueVars
    BY <1>9 DEF DeleteErr
  <2>2. faults' \in 0..MaxFaults
    BY <1>9 DEF DeleteErr, FailStep, Fault, TypeOK
  <2>3. failed' \subseteq Msgs \X (1..MaxReceive) /\ UNCHANGED expired
    BY <1>9, <2>1, AdvanceType DEF DeleteErr, Lose, TypeOK
  <2> QED
    BY <1>9, <2>1, <2>2, <2>3, AdvanceType DEF DeleteErr, queueVars, TypeOK
<1>10. ASSUME NEW W \in SUBSET Workers, Crash(W) PROVE TypeOK'
  <2>1. /\ batch' \in [Workers -> Seq(Delivery)]
        /\ \A v \in Workers : Len(batch'[v]) <= BatchSize
    BY <1>10, EmptySeq DEF Crash, TypeOK
  <2>2. /\ pc' \in [Workers -> {"loop", "handle", "delete"}]
        /\ \A v \in Workers : pc'[v] # "loop" => batch'[v] # <<>>
        /\ budget' \in [Workers -> 0..HandleTimeout]
    BY <1>10 DEF Crash, TypeOK
  <2>3. failed' \subseteq Msgs \X (1..MaxReceive) /\ UNCHANGED expired
    <3>1. \A w \in Workers : {Id(d) : d \in Held(w)} \subseteq Msgs \X (1..MaxReceive)
      BY HeldIds
    <3>2. UNION {{Id(d) : d \in Held(w)} : w \in W} \subseteq Msgs \X (1..MaxReceive)
      BY <3>1
    <3> QED BY <1>10, <3>2 DEF Crash, Lose, TypeOK
  <2>5. late' \in [Workers -> BOOLEAN]
    BY <1>10 DEF Crash, TypeOK
  <2>4. faults' \in 0..MaxFaults
    BY <1>10 DEF Crash, Fault, TypeOK
  <2> QED
    BY <1>10, <2>1, <2>2, <2>3, <2>4, <2>5 DEF Crash, queueVars, TypeOK
<1>11. CASE Tick
  <2>1. expired' \subseteq Msgs \X (1..MaxReceive)
    <3> DEFINE out(w) == {Id(batch[w][i]) : i \in {k \in DOMAIN batch[w] : RunsOut(w, k)}}
    <3>1. \A w \in Workers : out(w) \subseteq {Id(d) : d \in Held(w)}
      BY DEF Held
    <3>2. \A w \in Workers : out(w) \subseteq Msgs \X (1..MaxReceive)
      <4> HIDE DEF out
      <4> QED BY <3>1, HeldIds
    <3>3. expired' = expired \cup UNION {out(w) : w \in Workers}
      BY <1>11 DEF Tick
    <3> HIDE DEF out
    <3> QED BY <3>2, <3>3 DEF TypeOK
  <2> QED
    BY <1>11, <2>1 DEF Tick, Less1, TypeOK
<1>12. CASE UNCHANGED vars
  BY <1>12 DEF vars, TypeOK
<1> QED
  BY <1>1, <1>2, <1>3, <1>4, <1>5, <1>6, <1>7, <1>8, <1>9, <1>10, <1>11, <1>12
     DEF Next, WorkerStep

(* Every variable of the consumer keeps its type, whatever fails: in       *)
(* particular no message is received more often than the redrive policy    *)
(* allows and no worker holds more than one batch.                         *)
THEOREM ConsumerType == Spec => []TypeOK
BY InitType, NextType, PTL DEF Spec
-----------------------------------------------------------------------------
(***************************************************************************)
(* Refinement.  What a worker holds was sent, and what it deletes was      *)
(* applied; this needs no condition on the timeouts.                       *)
(***************************************************************************)
Sent == \A w \in Workers :
           /\ \A i \in 1..Len(batch[w]) : status[batch[w][i].msg] # "unsent"
           /\ pc[w] = "delete" => Head1(w).msg \in applied

RInv == TypeOK /\ Sent

LEMMA HeadHeld ==
    ASSUME TypeOK, NEW w \in Workers, batch[w] # <<>>
    PROVE  1 \in 1..Len(batch[w]) /\ Head1(w) \in Delivery /\ Head1(w).msg \in Msgs
<1>1. batch[w] \in Seq(Delivery)
  BY DEF TypeOK
<1>2. 1 \in 1..Len(batch[w])
  BY <1>1, EmptySeq
<1>3. batch[w][1] \in Delivery
  BY <1>1, <1>2, ElementOfSeq
<1> QED
  BY <1>2, <1>3 DEF Head1, Delivery

LEMMA AdvanceSent ==
    ASSUME RInv, NEW w \in Workers, pc[w] # "loop", Advance(w), UNCHANGED applied,
           \A m \in Msgs : status'[m] = "unsent" => status[m] = "unsent"
    PROVE  Sent'
<1>1. /\ \A v \in Workers : v # w => batch'[v] = batch[v] /\ pc'[v] = pc[v]
      /\ pc'[w] = "loop"
  BY AdvanceBatch DEF Advance, TypeOK, RInv
<1>2. \A i \in 1..Len(batch'[w]) : i + 1 \in 1..Len(batch[w]) /\ batch'[w][i] = batch[w][i + 1]
  BY AdvanceBatch DEF Advance, TypeOK, RInv
<1>3. \A v \in Workers : \A i \in 1..Len(batch[v]) : status'[batch[v][i].msg] # "unsent"
  BY HeldIds DEF RInv, Sent
<1> QED
  BY <1>1, <1>2, <1>3 DEF RInv, Sent, Head1

LEMMA NextSent == RInv /\ [Next]_vars => RInv'
<1> SUFFICES ASSUME RInv, [Next]_vars PROVE Sent'
  BY NextType DEF RInv
<1>0. TypeOK
  BY DEF RInv
<1>1. ASSUME NEW m \in Msgs, Send(m) \/ Redrive(m) \/ ReceiveLost(m) PROVE Sent'
  <2>1. \A k \in Msgs : status'[k] = "unsent" => status[k] = "unsent"
    BY <1>1, <1>0 DEF Send, Redrive, ReceiveLost, HandOut, TypeOK
  <2>2. UNCHANGED <<batch, pc, applied>>
    BY <1>1 DEF Send, Redrive, ReceiveLost, workerVars
  <2>3. \A v \in Workers : \A i \in 1..Len(batch[v]) : batch[v][i].msg \in Msgs
    BY <1>0, HeldIds
  <2> QED
    BY <2>1, <2>2, <2>3 DEF RInv, Sent, Head1
<1>2. ASSUME NEW w \in Workers, Receive(w) PROVE Sent'
  <2>0. PICK n \in 1..BatchSize : \E s \in Orders(n) : Handed(w, n, s)
    BY <1>0, <1>2, ReceiveFacts
  <2>1. PICK s \in Orders(n) : Handed(w, n, s)
    BY <2>0
  <2>2. /\ Len(batch'[w]) = n /\ pc'[w] = "loop"
        /\ \A i \in 1..n : status'[batch'[w][i].msg] = "queued"
        /\ \A v \in Workers : v # w => batch'[v] = batch[v]
        /\ UNCHANGED <<status, pc, applied>>
    <3>1. /\ Len(batch'[w]) = n /\ pc[w] = "loop"
          /\ \A i \in 1..n : Visible(s[i]) /\ batch'[w][i].msg = s[i]
          /\ \A v \in Workers : v # w => batch'[v] = batch[v]
          /\ UNCHANGED <<status, pc, applied>>
      BY <2>1 DEF Handed
    <3> QED BY <3>1 DEF Visible
  <2>3. ASSUME NEW v \in Workers, NEW i \in 1..Len(batch'[v])
        PROVE  status'[batch'[v][i].msg] # "unsent"
    <3>1. CASE v = w
      BY <2>2, <3>1
    <3>2. CASE v # w
      BY <2>2, <3>2 DEF RInv, Sent
    <3> QED BY <3>1, <3>2
  <2>4. ASSUME NEW v \in Workers, pc'[v] = "delete" PROVE (Head1(v).msg \in applied)'
    <3>1. v # w /\ batch'[v] = batch[v] /\ pc[v] = "delete"
      BY <2>2, <2>4
    <3>2. Head1(v).msg \in applied
      BY <3>1 DEF RInv, Sent
    <3> QED BY <2>2, <3>1, <3>2 DEF Head1
  <2> QED
    BY <2>3, <2>4 DEF Sent
<1>3. ASSUME NEW w \in Workers, Start(w) PROVE Sent'
  BY <1>3, <1>0 DEF Start, queueVars, RInv, Sent, Head1, TypeOK
<1>4. ASSUME NEW w \in Workers, HandleOk(w) PROVE Sent'
  BY <1>4, <1>0 DEF HandleOk, queueVars, RInv, Sent, Head1, TypeOK
<1>5. ASSUME NEW w \in Workers, HandleErr(w) PROVE Sent'
  BY <1>5, AdvanceSent DEF HandleErr, LeaveOnQueue, queueVars
<1>6. ASSUME NEW w \in Workers, Delete(w) PROVE Sent'
  BY <1>6, <1>0, AdvanceSent DEF Delete, TypeOK
<1>7. ASSUME NEW w \in Workers, DeleteErr(w) PROVE Sent'
  BY <1>7, AdvanceSent DEF DeleteErr, queueVars
<1>8. ASSUME NEW W \in SUBSET Workers, Crash(W) PROVE Sent'
  <2>1. /\ \A w \in W : Len(batch'[w]) = 0 /\ pc'[w] = "loop"
        /\ \A w \in Workers \ W : batch'[w] = batch[w] /\ pc'[w] = pc[w]
        /\ UNCHANGED <<status, applied>>
    BY <1>8, <1>0, EmptySeq DEF Crash, queueVars, TypeOK
  <2> QED
    BY <2>1 DEF RInv, Sent, Head1
<1>9. ASSUME Tick \/ UNCHANGED vars PROVE Sent'
  BY <1>9 DEF Tick, vars, RInv, Sent, Head1
<1> QED
  BY <1>1, <1>2, <1>3, <1>4, <1>5, <1>6, <1>7, <1>8, <1>9 DEF Next, WorkerStep

LEMMA StepSimulation == RInv /\ [Next]_vars => [Abstract!QNext]_(Abstract!qvars)
<1> SUFFICES ASSUME RInv, [Next]_vars PROVE Abstract!QNext \/ UNCHANGED Abstract!qvars
  OBVIOUS
<1>0. TypeOK
  BY DEF RInv
<1> DEFINE Same == UNCHANGED <<status, Active, applied>>
<1>1. ASSUME NEW m \in Msgs, Send(m) \/ Redrive(m) \/ ReceiveLost(m)
      PROVE  Abstract!QNext \/ Same
  <2>1. UNCHANGED <<Active, applied>>
    BY <1>1 DEF Send, Redrive, ReceiveLost, workerVars, Active, Head1
  <2> QED
    BY <1>1, <2>1 DEF Send, Redrive, ReceiveLost, HandOut, Visible,
                      Abstract!QNext, Abstract!QSend, Abstract!QRedrive
<1>2. ASSUME NEW w \in Workers, Receive(w) PROVE Same
  <2>1. UNCHANGED <<status, pc, applied>>
    BY <1>2 DEF Receive, HandOut
  <2>2. pc[w] = "loop" /\ \A v \in Workers : v # w => batch'[v] = batch[v]
    BY <1>2, <1>0 DEF Receive, TypeOK
  <2> QED
    BY <2>1, <2>2 DEF Active, Head1
<1>3. ASSUME NEW w \in Workers, Start(w) PROVE Abstract!QNext
  <2> DEFINE m == Head1(w).msg
  <2>1. m \in Msgs /\ status[m] # "unsent"
    BY <1>3, <1>0, HeadHeld DEF Start, RInv, Sent, Head1
  <2>2. Active[w] = None /\ Active' = [Active EXCEPT ![w] = m]
    BY <1>3, <1>0 DEF Start, Active, Head1, TypeOK
  <2>3. UNCHANGED <<status, applied>>
    BY <1>3 DEF Start, queueVars
  <2>4. Abstract!QBegin(w, m)
    BY <2>1, <2>2, <2>3 DEF Abstract!QBegin
  <2> QED
    BY <2>1, <2>4 DEF Abstract!QNext
<1>4. ASSUME NEW w \in Workers, HandleOk(w) PROVE Abstract!QNext
  <2>1. Active[w] = Head1(w).msg /\ Active[w] # None
    BY <1>4, <1>0, HeadHeld, ConsumerAssumption DEF HandleOk, Active, TypeOK
  <2>2. Active' = [Active EXCEPT ![w] = None]
    BY <1>4, <1>0 DEF HandleOk, Active, Head1, TypeOK
  <2>3. Abstract!QSucceed(w)
    BY <1>4, <2>1, <2>2 DEF HandleOk, queueVars, Abstract!QSucceed
  <2> QED
    BY <2>3 DEF Abstract!QNext
<1>5. ASSUME NEW W \in SUBSET Workers,
             \A v \in Workers \ W : batch'[v] = batch[v] /\ pc'[v] = pc[v],
             \A v \in W : pc'[v] = "loop",
             UNCHANGED <<status, applied>>
      PROVE  Abstract!QNext
  <2>1. Active' = [v \in Workers |-> IF v \in W THEN None ELSE Active[v]]
    BY <1>5 DEF Active, Head1
  <2>2. Abstract!QAbandon(W)
    BY <1>5, <2>1 DEF Abstract!QAbandon
  <2> QED
    BY <2>2 DEF Abstract!QNext
<1>6. ASSUME NEW w \in Workers, HandleErr(w) \/ DeleteErr(w) PROVE Abstract!QNext
  <2>1. Advance(w) /\ pc[w] # "loop" /\ UNCHANGED <<status, applied>>
    BY <1>6 DEF HandleErr, DeleteErr, LeaveOnQueue, queueVars
  <2>2. /\ \A v \in Workers \ {w} : batch'[v] = batch[v] /\ pc'[v] = pc[v]
        /\ pc'[w] = "loop"
    BY <2>1, <1>0, AdvanceBatch DEF Advance, TypeOK
  <2> QED
    BY <2>1, <2>2, <1>5
<1>7. ASSUME NEW w \in Workers, Delete(w) PROVE Abstract!QNext \/ Same
  <2> DEFINE m == Head1(w).msg
  <2>1. m \in Msgs /\ m \in applied
    BY <1>7, <1>0, HeadHeld DEF Delete, RInv, Sent, TypeOK
  <2>2. /\ \A v \in Workers \ {w} : batch'[v] = batch[v] /\ pc'[v] = pc[v]
        /\ pc[w] = "delete" /\ pc'[w] = "loop"
    BY <1>7, <1>0, AdvanceBatch DEF Delete, Advance, TypeOK
  <2>3. UNCHANGED <<Active, applied>>
    BY <1>7, <2>2 DEF Delete, Active, Head1
  <2>4. UNCHANGED status \/ (status[m] = "queued" /\ status' = [status EXCEPT ![m] = "deleted"])
    BY <1>7 DEF Delete
  <2> QED
    BY <2>1, <2>3, <2>4 DEF Abstract!QNext, Abstract!QDelete
<1>8. ASSUME NEW W \in SUBSET Workers, Crash(W) PROVE Abstract!QNext
  <2>1. /\ \A w \in W : pc'[w] = "loop"
        /\ \A w \in Workers \ W : batch'[w] = batch[w] /\ pc'[w] = pc[w]
        /\ UNCHANGED <<status, applied>>
    BY <1>8 DEF Crash, queueVars
  <2> QED
    BY <2>1, <1>5
<1>9. ASSUME Tick \/ UNCHANGED vars PROVE Same
  BY <1>9 DEF Tick, vars, Active, Head1
<1>10. Abstract!QNext \/ Same
  BY <1>1, <1>2, <1>3, <1>4, <1>6, <1>7, <1>8, <1>9 DEF Next, WorkerStep
<1> QED
  BY <1>10 DEF Abstract!qvars

(* For every size, timeout and failure, the consumer and its queue         *)
(* implement the at-least-once queue the handlers are written against: a   *)
(* message leaves the queue only once it was applied, or for the dead      *)
(* letter queue.                                                           *)
THEOREM ConsumerImplements == Spec => ImplementsAtLeastOnce
<1>1. Init => RInv /\ Abstract!QInit
  <2> SUFFICES ASSUME Init PROVE RInv /\ Abstract!QInit
    OBVIOUS
  <2>1. \A w \in Workers : Len(batch[w]) = 0
    BY EmptySeq DEF Init
  <2>2. Active = [w \in Workers |-> None]
    BY DEF Init, Active
  <2> QED
    BY <2>1, <2>2, InitType DEF Init, RInv, Sent, Abstract!QInit
<1> QED
  BY <1>1, NextSent, StepSimulation, PTL DEF Spec, ImplementsAtLeastOnce, Abstract!QSpec
-----------------------------------------------------------------------------
(***************************************************************************)
(* Ownership.  The argument: a received message is hidden for longer than  *)
(* its own handler and those before it in the batch can take, unless it is *)
(* Behind; and a handler that begins with its budget to spare keeps it to  *)
(* spare, because the hiding time and the budget shrink together.  A       *)
(* covered delivery is hidden, so no other receive can take the message.   *)
(***************************************************************************)
Span(n) == n * HandleTimeout

\* The longest until w is done with the i-th message in its hands.
Need(w, i) == IF pc[w] = "loop" THEN Span(i) ELSE budget[w] + Span(i - 1)

Own == \A w \in Workers : \A i \in 1..Len(batch[w]) :
          ~Behind(batch[w][i]) => Covered(batch[w][i], Need(w, i))

Begun == \A w \in Workers : pc[w] # "loop" =>
            /\ ~late[w] => Covered(Head1(w), budget[w])
            /\ late[w] => Behind(Head1(w))

\* No delivery is in two places, and none is ahead of the queue's count.
Apart == \A v, w \in Workers :
            \A i \in 1..Len(batch[v]), j \in 1..Len(batch[w]) :
               Id(batch[v][i]) = Id(batch[w][j]) => v = w /\ i = j

Counted == \A w \in Workers : \A i \in 1..Len(batch[w]) :
              batch[w][i].receipt <= receives[batch[w][i].msg]

\* Dead messages were visible with their receives used up.
Settled == \A m \in Msgs :
              /\ status[m] = "unsent" => receives[m] = 0
              /\ status[m] = "dead" => hidden[m] = 0 /\ receives[m] = MaxReceive

Hands == Own /\ Begun /\ Apart /\ Counted
IInv == RInv /\ Hands /\ Settled

LEMMA SpanFacts ==
    /\ \A n \in Nat : Span(n) \in Nat
    /\ \A n \in Nat \ {0} : Span(n) = Span(n - 1) + HandleTimeout
<1>1. HandleTimeout \in Nat
  BY ConsumerAssumption
<1>2. \A n, k \in Nat : (n + k) * HandleTimeout = n * HandleTimeout + k * HandleTimeout
                         /\ k * HandleTimeout \in Nat
  BY <1>1
<1> QED
  BY <1>1, <1>2 DEF Span

LEMMA NeedFacts ==
    ASSUME TypeOK, NEW w \in Workers, NEW i \in 1..Len(batch[w])
    PROVE  Need(w, i) \in Nat /\ budget[w] \in Nat /\ Span(i - 1) \in Nat
<1>1. i \in Nat /\ i - 1 \in Nat
  BY HeldIds
<1>2. budget[w] \in Nat
  BY ConsumerAssumption DEF TypeOK
<1>3. Span(i) \in Nat /\ Span(i - 1) \in Nat
  BY <1>1, SpanFacts
<1> QED
  BY <1>2, <1>3 DEF Need

\* More than is needed covers less, and what is covered is not visible.
LEMMA CoverFacts ==
    ASSUME TypeOK, NEW d \in Delivery, NEW a \in Nat, NEW b \in Nat, a <= b, Covered(d, b)
    PROVE  Covered(d, a) /\ hidden[d.msg] > 0 /\ hidden[d.msg] \in Nat
<1>1. d.msg \in Msgs
  BY DEF Delivery
<1>2. hidden[d.msg] \in Nat
  BY <1>1, ConsumerAssumption DEF TypeOK
<1> QED
  BY <1>2 DEF Covered

\* A step that leaves the workers alone, and changes of the queue only what
\* nobody covers.
LEMMA QueueKeeps ==
    ASSUME TypeOK, Hands, UNCHANGED <<batch, pc, budget, late>>,
           \A m \in Msgs : /\ hidden[m] > 0 => hidden'[m] = hidden[m] /\ receives'[m] = receives[m]
                           /\ receives[m] <= receives'[m] /\ receives'[m] \in Nat
    PROVE  Hands'
<1>1. ASSUME NEW d \in Delivery, NEW n \in Nat, Covered(d, n) PROVE Covered(d, n)'
  <2>1. d.msg \in Msgs /\ hidden[d.msg] > 0
    BY <1>1, CoverFacts DEF Delivery
  <2> QED
    BY <1>1, <2>1 DEF Covered
<1>2. ASSUME NEW w \in Workers, NEW i \in 1..Len(batch[w]), ~Behind(batch[w][i])
      PROVE  Covered(batch[w][i], Need(w, i))'
  <2>1. batch[w][i] \in Delivery /\ Need(w, i) \in Nat
    BY HeldIds, NeedFacts
  <2>2. Covered(batch[w][i], Need(w, i))
    BY <1>2 DEF Hands, Own
  <2>3. Covered(batch[w][i], Need(w, i))' <=> (receives'[batch[w][i].msg] = batch[w][i].receipt
                                              /\ hidden'[batch[w][i].msg] > Need(w, i))
    BY DEF Covered, Need
  <2>4. batch[w][i].msg \in Msgs /\ hidden[batch[w][i].msg] > 0
    BY <2>1, <2>2, CoverFacts DEF Delivery
  <2> QED
    BY <2>2, <2>3, <2>4 DEF Covered
<1>3. ASSUME NEW w \in Workers, pc[w] # "loop", ~late[w]
      PROVE  receives'[Head1(w).msg] = Head1(w).receipt /\ hidden'[Head1(w).msg] > budget[w]
  <2>1. 1 \in 1..Len(batch[w])
    BY <1>3, HeldIds
  <2>2. Head1(w) \in Delivery /\ budget[w] \in Nat
    BY <2>1, HeldIds, NeedFacts DEF Head1
  <2>3. Covered(Head1(w), budget[w])
    BY <1>3 DEF Hands, Begun
  <2>4. Head1(w).msg \in Msgs /\ hidden[Head1(w).msg] > 0
    BY <2>2, <2>3, CoverFacts DEF Delivery
  <2> QED
    BY <2>3, <2>4 DEF Covered
<1>4. Own'
  BY <1>2 DEF Own, Behind
<1>5. Begun'
  BY <1>3 DEF Hands, Begun, Covered, Head1, Behind
<1>6. Apart'
  BY DEF Hands, Apart, Id
<1>7. Counted'
  <2> SUFFICES ASSUME NEW w \in Workers, NEW i \in 1..Len(batch[w])
               PROVE  batch[w][i].receipt <= receives'[batch[w][i].msg]
    BY DEF Counted
  <2>1. batch[w][i].msg \in Msgs /\ batch[w][i].receipt \in Nat
    BY HeldIds DEF Delivery
  <2>2. batch[w][i].receipt <= receives[batch[w][i].msg] /\ receives[batch[w][i].msg] \in Nat
    BY <2>1, ConsumerAssumption DEF Hands, Counted, TypeOK
  <2> QED
    BY <2>1, <2>2
<1> QED
  BY <1>4, <1>5, <1>6, <1>7 DEF Hands

\* What w goes on with was behind the head of its batch.
LEMMA AdvanceFacts ==
    ASSUME TypeOK, NEW w \in Workers, pc[w] # "loop", Advance(w)
    PROVE  /\ \A v \in Workers : v # w => /\ batch'[v] = batch[v] /\ pc'[v] = pc[v]
                                          /\ budget'[v] = budget[v] /\ late'[v] = late[v]
           /\ pc'[w] = "loop"
           /\ Len(batch[w]) \in Nat \ {0} /\ Len(batch'[w]) = Len(batch[w]) - 1
           /\ \A i \in 1..Len(batch'[w]) :
                 i + 1 \in 1..Len(batch[w]) /\ batch'[w][i] = batch[w][i + 1]
           /\ Head1(w) = batch[w][1] /\ Head1(w) \in Delivery
<1>1. /\ \A v \in Workers : v # w => batch'[v] = batch[v]
      /\ Len(batch[w]) \in Nat \ {0}
      /\ Len(batch'[w]) = Len(batch[w]) - 1
      /\ \A i \in 1..Len(batch'[w]) : batch'[w][i] = batch[w][i + 1]
      /\ Head1(w) \in Delivery
  BY AdvanceBatch DEF Advance, TypeOK
<1>2. /\ pc'[w] = "loop" /\ \A v \in Workers : v # w => pc'[v] = pc[v]
      /\ \A v \in Workers : v # w => budget'[v] = budget[v]
  BY DEF Advance, TypeOK
<1>3. \A v \in Workers : v # w => late'[v] = late[v]
  BY DEF Advance, TypeOK
<1> QED
  BY <1>1, <1>2, <1>3 DEF Head1

LEMMA AdvanceKeeps ==
    ASSUME TypeOK, Hands, NEW w \in Workers, pc[w] # "loop", Advance(w),
           UNCHANGED <<hidden, receives>>
    PROVE  Hands'
<1>1. /\ \A v \in Workers : v # w => /\ batch'[v] = batch[v] /\ pc'[v] = pc[v]
                                     /\ budget'[v] = budget[v] /\ late'[v] = late[v]
      /\ pc'[w] = "loop"
      /\ Len(batch[w]) \in Nat \ {0} /\ Len(batch'[w]) = Len(batch[w]) - 1
      /\ \A i \in 1..Len(batch'[w]) :
            i + 1 \in 1..Len(batch[w]) /\ batch'[w][i] = batch[w][i + 1]
  BY AdvanceFacts
<1>2. \A d, n : Covered(d, n)' <=> (receives[d'.msg] = d'.receipt /\ hidden[d'.msg] > n')
  BY DEF Covered
<1>3. ASSUME NEW v \in Workers, NEW i \in 1..Len(batch'[v]), ~Behind(batch'[v][i])
      PROVE  /\ receives[batch'[v][i].msg] = batch'[v][i].receipt
             /\ hidden[batch'[v][i].msg] > Need(v, i)'
  <2>1. CASE v # w
    <3>1. batch'[v] = batch[v] /\ Need(v, i)' = Need(v, i)
      BY <2>1, <1>1 DEF Need, Span
    <3> QED BY <3>1, <1>3 DEF Hands, Own, Covered
  <2>2. CASE v = w
    <3>1. i + 1 \in 1..Len(batch[w]) /\ batch'[w][i] = batch[w][i + 1] /\ i \in Nat
      BY <2>2, <1>1
    <3>2. Covered(batch[w][i + 1], Need(w, i + 1))
      BY <2>2, <3>1, <1>3 DEF Hands, Own
    <3>3. Need(w, i + 1) = budget[w] + Span(i) /\ Need(w, i)' = Span(i)
      BY <1>1, <3>1 DEF Need, Span
    <3>4. Span(i) \in Nat /\ budget[w] \in Nat
      BY <3>1, SpanFacts, NeedFacts
    <3>5. batch[w][i + 1] \in Delivery
      BY <3>1, HeldIds
    <3>6. Covered(batch[w][i + 1], Span(i))
      BY <3>2, <3>3, <3>4, <3>5, CoverFacts
    <3> QED BY <2>2, <3>1, <3>3, <3>6 DEF Covered
  <2> QED
    BY <2>1, <2>2
<1>4. Own'
  BY <1>3 DEF Own, Behind, Covered
<1>5. Begun'
  BY <1>1 DEF Hands, Begun, Covered, Behind, Head1
<1> DEFINE at(x, k) == IF x = w THEN k + 1 ELSE k
<1>6. ASSUME NEW v \in Workers, NEW i \in 1..Len(batch'[v])
      PROVE  at(v, i) \in 1..Len(batch[v]) /\ batch'[v][i] = batch[v][at(v, i)] /\ i \in Nat
  BY <1>1, HeldIds
<1>7. Apart'
  <2> SUFFICES ASSUME NEW u \in Workers, NEW v \in Workers,
                      NEW i \in 1..Len(batch'[u]), NEW j \in 1..Len(batch'[v]),
                      Id(batch'[u][i]) = Id(batch'[v][j])
               PROVE  u = v /\ i = j
    BY DEF Apart, Id
  <2>1. u = v /\ at(u, i) = at(v, j)
    <3>1. at(u, i) \in 1..Len(batch[u]) /\ batch'[u][i] = batch[u][at(u, i)]
      BY <1>6
    <3>2. at(v, j) \in 1..Len(batch[v]) /\ batch'[v][j] = batch[v][at(v, j)]
      BY <1>6
    <3> HIDE DEF at
    <3> QED BY <3>1, <3>2 DEF Hands, Apart
  <2> QED
    BY <2>1, <1>6
<1>8. Counted'
  <2> SUFFICES ASSUME NEW v \in Workers, NEW i \in 1..Len(batch'[v])
               PROVE  batch'[v][i].receipt <= receives[batch'[v][i].msg]
    BY DEF Counted
  <2>1. at(v, i) \in 1..Len(batch[v]) /\ batch'[v][i] = batch[v][at(v, i)]
    BY <1>6
  <2> HIDE DEF at
  <2> QED
    BY <2>1 DEF Hands, Counted
<1> QED
  BY <1>4, <1>5, <1>7, <1>8 DEF Hands

LEMMA ReceiveKeeps ==
    ASSUME TypeOK, Hands, NEW w \in Workers, NEW n, NEW s, Handed(w, n, s)
    PROVE  Hands'
<1>1. /\ n \in Nat \ {0} /\ pc[w] = "loop" /\ Len(batch[w]) = 0 /\ Len(batch'[w]) = n
      /\ \A v \in Workers : v # w => batch'[v] = batch[v]
      /\ UNCHANGED <<status, pc, budget, late>>
  BY DEF Handed
<1>2. \A i \in 1..n : /\ s[i] \in Msgs /\ hidden[s[i]] = 0
                      /\ batch'[w][i].msg = s[i]
                      /\ batch'[w][i].receipt = receives[s[i]] + 1
                      /\ batch'[w][i].place = i
  BY DEF Handed, Visible
<1>3. \A m \in Msgs : /\ receives[m] \in Nat /\ receives'[m] \in Nat
                      /\ receives[m] <= receives'[m]
                      /\ hidden[m] > 0 => receives'[m] = receives[m] /\ hidden'[m] = hidden[m]
                      /\ hidden[m] \in Nat
  <2> SUFFICES ASSUME NEW m \in Msgs
               PROVE  /\ receives[m] \in Nat /\ receives'[m] \in Nat
                      /\ receives[m] <= receives'[m]
                      /\ hidden[m] > 0 => receives'[m] = receives[m] /\ hidden'[m] = hidden[m]
                      /\ hidden[m] \in Nat
    OBVIOUS
  <2>1. receives[m] \in Nat /\ receives'[m] \in Nat /\ hidden[m] \in Nat
    BY ConsumerAssumption DEF Handed, TypeOK
  <2>2. \/ (\E i \in 1..n : s[i] = m) /\ receives'[m] = receives[m] + 1
        \/ hidden'[m] = hidden[m] /\ receives'[m] = receives[m]
    BY DEF Handed
  <2> QED
    BY <2>1, <2>2, <1>2
<1>4. \A i \in 1..n : hidden'[s[i]] = VisibilityTimeout /\ receives'[s[i]] = receives[s[i]] + 1
  BY <1>2 DEF Handed
<1>5. ASSUME NEW v \in Workers, v # w, NEW i \in 1..Len(batch[v])
      PROVE  /\ batch[v][i] \in Delivery /\ batch[v][i].msg \in Msgs
             /\ batch[v][i].receipt <= receives[batch[v][i].msg]
             /\ batch[v][i].receipt \in Nat
  BY <1>5, HeldIds DEF Hands, Counted, Delivery
<1>6. ASSUME NEW v \in Workers, NEW i \in 1..Len(batch'[v]), ~Behind(batch'[v][i])
      PROVE  /\ receives'[batch'[v][i].msg] = batch'[v][i].receipt
             /\ hidden'[batch'[v][i].msg] > Need(v, i)'
  <2>1. CASE v # w
    <3>1. batch'[v] = batch[v] /\ Need(v, i)' = Need(v, i)
      BY <2>1, <1>1 DEF Need
    <3>2. Covered(batch[v][i], Need(v, i)) /\ Need(v, i) \in Nat
      BY <3>1, <1>6, NeedFacts DEF Hands, Own
    <3>3. hidden[batch[v][i].msg] > 0 /\ batch[v][i].msg \in Msgs
      BY <2>1, <3>1, <3>2, <1>5, CoverFacts
    <3> QED BY <3>1, <3>2, <3>3, <1>3 DEF Covered
  <2>2. CASE v = w
    <3>1. i \in 1..n
      BY <2>2, <1>1
    <3>2. Need(w, i)' = Span(i)
      BY <1>1 DEF Need, Span
    <3>3. ~(i * HandleTimeout >= VisibilityTimeout)
      BY <2>2, <3>1, <1>2, <1>6 DEF Behind
    <3>4. VisibilityTimeout > Span(i)
      BY <3>1, <3>3, SpanFacts, ConsumerAssumption DEF Span
    <3> QED BY <2>2, <3>1, <3>2, <3>4, <1>2, <1>4
  <2> QED
    BY <2>1, <2>2
<1>7. Own'
  BY <1>6 DEF Own, Behind, Covered
<1>8. Begun'
  <2> SUFFICES ASSUME NEW v \in Workers, pc[v] # "loop"
               PROVE  /\ ~late[v] => /\ receives'[batch'[v][1].msg] = batch'[v][1].receipt
                                     /\ hidden'[batch'[v][1].msg] > budget[v]
                      /\ late[v] => Behind(batch'[v][1])
    BY <1>1 DEF Begun, Covered, Head1, Behind
  <2>1. v # w /\ batch'[v] = batch[v]
    BY <1>1
  <2>2. 1 \in 1..Len(batch[v])
    BY HeldIds
  <2>3. /\ ~late[v] => Covered(batch[v][1], budget[v])
        /\ late[v] => Behind(batch[v][1])
    BY DEF Hands, Begun, Head1
  <2>4. budget[v] \in Nat /\ batch[v][1] \in Delivery /\ batch[v][1].msg \in Msgs
    BY <2>1, <2>2, <1>5, NeedFacts
  <2>5. ~late[v] => hidden[batch[v][1].msg] > 0
    BY <2>3, <2>4, CoverFacts
  <2> QED
    BY <2>1, <2>3, <2>4, <2>5, <1>3 DEF Covered
<1>9. Counted'
  <2> SUFFICES ASSUME NEW v \in Workers, NEW i \in 1..Len(batch'[v])
               PROVE  batch'[v][i].receipt <= receives'[batch'[v][i].msg]
    BY DEF Counted
  <2>1. CASE v # w
    BY <2>1, <1>1, <1>3, <1>5
  <2>2. CASE v = w
    <3>1. i \in 1..n
      BY <2>2, <1>1
    <3>2. /\ batch'[w][i].msg = s[i] /\ batch'[w][i].receipt = receives[s[i]] + 1
          /\ receives'[s[i]] = receives[s[i]] + 1 /\ s[i] \in Msgs
      BY <3>1, <1>2, <1>4
    <3>3. receives'[s[i]] \in Nat
      BY <3>2, <1>3
    <3> QED BY <2>2, <3>2, <3>3
  <2> QED
    BY <2>1, <2>2
<1>10. Apart'
  <2> SUFFICES ASSUME NEW u \in Workers, NEW v \in Workers,
                      NEW i \in 1..Len(batch'[u]), NEW j \in 1..Len(batch'[v]),
                      Id(batch'[u][i]) = Id(batch'[v][j])
               PROVE  u = v /\ i = j
    BY DEF Apart, Id
  <2>0. batch'[u][i].msg = batch'[v][j].msg /\ batch'[u][i].receipt = batch'[v][j].receipt
    BY DEF Id
  <2>1. CASE u # w /\ v # w
    BY <2>1, <1>1 DEF Hands, Apart
  <2>2. CASE u = w /\ v = w
    <3>1. s[i] = s[j] /\ i \in 1..n /\ j \in 1..n
      BY <2>0, <2>2, <1>1, <1>2
    <3> QED BY <2>2, <3>1 DEF Handed
  <2>3. ASSUME NEW x \in Workers, x # w, NEW k \in 1..Len(batch[x]), NEW l \in 1..n,
               batch[x][k].msg = s[l], batch[x][k].receipt = receives[s[l]] + 1
        PROVE  FALSE
    <3>1. s[l] \in Msgs /\ receives[s[l]] \in Nat
      BY <1>2, <1>3
    <3>2. batch[x][k].receipt <= receives[batch[x][k].msg]
      BY <2>3, <1>5
    <3>3. receives[s[l]] + 1 <= receives[s[l]]
      BY <2>3, <3>2
    <3> QED BY <3>1, <3>3
  <2>4. CASE u = w /\ v # w
    <3>1. i \in 1..n /\ j \in 1..Len(batch[v]) /\ batch'[v] = batch[v]
      BY <2>4, <1>1
    <3> QED BY <2>0, <2>3, <2>4, <3>1, <1>2
  <2>5. CASE u # w /\ v = w
    <3>1. j \in 1..n /\ i \in 1..Len(batch[u]) /\ batch'[u] = batch[u]
      BY <2>5, <1>1
    <3> QED BY <2>0, <2>3, <2>5, <3>1, <1>2
  <2> QED
    BY <2>1, <2>2, <2>4, <2>5
<1> QED
  BY <1>7, <1>8, <1>9, <1>10 DEF Hands

LEMMA StartKeeps ==
    ASSUME TypeOK, Hands, NEW w \in Workers, Start(w)
    PROVE  Hands'
<1>1. /\ pc[w] = "loop" /\ pc'[w] = "handle" /\ budget'[w] = HandleTimeout
      /\ late'[w] = ~Covered(Head1(w), HandleTimeout)
      /\ \A v \in Workers : v # w => pc'[v] = pc[v] /\ budget'[v] = budget[v] /\ late'[v] = late[v]
      /\ UNCHANGED <<batch, hidden, receives>>
  BY DEF Start, queueVars, TypeOK
<1>2. 1 \in 1..Len(batch[w])
  <2>1. batch[w] \in Seq(Delivery) /\ batch[w] # <<>>
    BY DEF Start, TypeOK
  <2> QED BY <2>1, EmptySeq
<1>3. \A v \in Workers : \A i \in 1..Len(batch[v]) : Need(v, i)' = Need(v, i)
  <2> SUFFICES ASSUME NEW v \in Workers, NEW i \in 1..Len(batch[v])
               PROVE  Need(v, i)' = Need(v, i)
    OBVIOUS
  <2>1. CASE v # w
    BY <2>1, <1>1 DEF Need, Span
  <2>2. CASE v = w
    <3>1. i \in Nat \ {0}
      BY HeldIds
    <3>2. Span(i) = Span(i - 1) + HandleTimeout /\ Span(i - 1) \in Nat
      BY <3>1, SpanFacts, NeedFacts
    <3>3. Need(w, i) = Span(i) /\ Need(w, i)' = HandleTimeout + Span(i - 1)
      BY <1>1 DEF Need, Span
    <3> QED BY <2>2, <3>2, <3>3, ConsumerAssumption
  <2> QED BY <2>1, <2>2
<1>4. Own'
  BY <1>1, <1>3 DEF Hands, Own, Covered, Behind
<1>5. ~Behind(Head1(w)) => Covered(Head1(w), HandleTimeout)
  <2>1. ~Behind(batch[w][1]) => Covered(batch[w][1], Need(w, 1))
    BY <1>2 DEF Hands, Own
  <2>2. Need(w, 1) = HandleTimeout
    <3>1. Need(w, 1) = 1 * HandleTimeout
      BY <1>1 DEF Need, Span
    <3> QED BY <3>1, ConsumerAssumption
  <2> QED
    BY <2>1, <2>2 DEF Head1
<1>6. Begun'
  <2> SUFFICES ASSUME NEW v \in Workers, pc'[v] # "loop"
               PROVE  /\ ~late'[v] => Covered(Head1(v), budget'[v])
                      /\ late'[v] => Behind(Head1(v))
    BY <1>1 DEF Begun, Covered, Head1, Behind
  <2>1. CASE v # w
    BY <2>1, <1>1 DEF Hands, Begun
  <2>2. CASE v = w
    BY <2>2, <1>1, <1>5
  <2> QED BY <2>1, <2>2
<1>7. Apart' /\ Counted'
  BY <1>1 DEF Hands, Apart, Counted, Id
<1> QED
  BY <1>4, <1>6, <1>7 DEF Hands

LEMMA CrashKeeps ==
    ASSUME TypeOK, Hands, NEW W \in SUBSET Workers, Crash(W)
    PROVE  Hands'
<1>1. /\ \A w \in W : Len(batch'[w]) = 0 /\ pc'[w] = "loop"
      /\ \A w \in Workers \ W : /\ batch'[w] = batch[w] /\ pc'[w] = pc[w]
                                /\ budget'[w] = budget[w]
      /\ UNCHANGED <<hidden, receives>>
  BY EmptySeq DEF Crash, queueVars, TypeOK
<1>2. \A w \in Workers \ W : late'[w] = late[w]
  BY DEF Crash, TypeOK
<1>3. \A w \in Workers : \A i \in 1..Len(batch'[w]) : w \in Workers \ W
  BY <1>1
<1>4. Own'
  <2> SUFFICES ASSUME NEW w \in Workers, NEW i \in 1..Len(batch'[w]), ~Behind(batch'[w][i])
               PROVE  /\ receives[batch'[w][i].msg] = batch'[w][i].receipt
                      /\ hidden[batch'[w][i].msg] > Need(w, i)'
    BY <1>1 DEF Own, Behind, Covered
  <2>1. w \in Workers \ W /\ batch'[w] = batch[w] /\ Need(w, i)' = Need(w, i)
    BY <1>1, <1>3 DEF Need, Span
  <2> QED
    BY <2>1 DEF Hands, Own, Covered
<1>5. Begun'
  BY <1>1, <1>2 DEF Hands, Begun, Covered, Head1, Behind
<1>6. Apart'
  BY <1>1, <1>3 DEF Hands, Apart, Id
<1>7. Counted'
  BY <1>1, <1>3 DEF Hands, Counted
<1> QED
  BY <1>4, <1>5, <1>6, <1>7 DEF Hands

\* Time passes only while no worker pauses, so what covers goes on covering.
LEMMA TickKeeps ==
    ASSUME TypeOK, Hands, Tick
    PROVE  Hands'
<1>1. UNCHANGED <<batch, pc, late, receives>>
  BY DEF Tick
<1>2. ASSUME NEW w \in Workers, NEW i \in 1..Len(batch[w])
      PROVE  /\ pc[w] # "loop" /\ budget[w] \in Nat \ {0} /\ budget'[w] = budget[w] - 1
             /\ Span(i - 1) \in Nat
             /\ Need(w, i) = budget[w] + Span(i - 1)
             /\ Need(w, i)' = budget[w] - 1 + Span(i - 1)
  <2>1. batch[w] # <<>>
    BY EmptySeq
  <2>2. pc[w] # "loop" /\ budget[w] # 0
    BY <2>1 DEF Tick, Punctual, DeadlineHit
  <2>3. budget[w] \in Nat
    BY ConsumerAssumption DEF TypeOK
  <2>4. budget'[w] = budget[w] - 1
    BY <2>2 DEF Tick, Less1
  <2>5. Span(i - 1) \in Nat
    BY NeedFacts
  <2> QED
    BY <2>2, <2>3, <2>4, <2>5, <1>1 DEF Need, Span
<1>3. ASSUME NEW d \in Delivery, NEW n \in Nat \ {0}, Covered(d, n)
      PROVE  receives[d.msg] = d.receipt /\ hidden'[d.msg] > n - 1
  <2>1. d.msg \in Msgs /\ hidden[d.msg] \in Nat
    BY <1>3, CoverFacts DEF Delivery
  <2>2. hidden'[d.msg] = Less1(hidden[d.msg])
    BY <2>1 DEF Tick
  <2> QED
    BY <1>3, <2>1, <2>2 DEF Covered, Less1
<1>4. Own'
  <2> SUFFICES ASSUME NEW w \in Workers, NEW i \in 1..Len(batch[w]), ~Behind(batch[w][i])
               PROVE  /\ receives[batch[w][i].msg] = batch[w][i].receipt
                      /\ hidden'[batch[w][i].msg] > Need(w, i)'
    BY <1>1 DEF Own, Behind, Covered
  <2>1. Covered(batch[w][i], Need(w, i)) /\ batch[w][i] \in Delivery
    BY HeldIds DEF Hands, Own
  <2>2. Need(w, i) \in Nat \ {0} /\ Need(w, i)' = Need(w, i) - 1
    BY <1>2
  <2> QED
    BY <2>1, <2>2, <1>3
<1>5. Begun'
  <2> SUFFICES ASSUME NEW w \in Workers, pc[w] # "loop"
               PROVE  /\ ~late[w] => /\ receives[Head1(w).msg] = Head1(w).receipt
                                     /\ hidden'[Head1(w).msg] > budget'[w]
                      /\ late[w] => Behind(Head1(w))
    BY <1>1 DEF Begun, Covered, Head1, Behind
  <2>1. 1 \in 1..Len(batch[w])
    BY HeldIds
  <2>2. Head1(w) \in Delivery
    BY <2>1, HeldIds DEF Head1
  <2>3. /\ ~late[w] => Covered(Head1(w), budget[w])
        /\ late[w] => Behind(Head1(w))
    BY DEF Hands, Begun
  <2>4. budget[w] \in Nat \ {0} /\ budget'[w] = budget[w] - 1
    BY <2>1, <1>2
  <2> QED
    BY <2>2, <2>3, <2>4, <1>3
<1>6. Apart' /\ Counted'
  BY <1>1 DEF Hands, Apart, Counted, Id
<1> QED
  BY <1>4, <1>5, <1>6 DEF Hands

LEMMA NextHands == TypeOK /\ Hands /\ Settled /\ [Next]_vars => Hands'
<1> SUFFICES ASSUME TypeOK, Hands, Settled, [Next]_vars PROVE Hands'
  OBVIOUS
<1>1. ASSUME NEW m \in Msgs, Send(m) \/ Redrive(m) \/ ReceiveLost(m) PROVE Hands'
  <2>1. UNCHANGED <<batch, pc, budget, late>>
    BY <1>1 DEF Send, Redrive, ReceiveLost, workerVars
  <2>2. \A k \in Msgs : receives[k] \in Nat /\ hidden[k] \in Nat
    BY ConsumerAssumption DEF TypeOK
  <2>3. CASE UNCHANGED <<hidden, receives>>
    BY <2>1, <2>2, <2>3, QueueKeeps
  <2>4. CASE ReceiveLost(m)
    <3>1. hidden[m] = 0 /\ HandOut({m})
      BY <2>4 DEF ReceiveLost, Receivable, Visible
    <3>2. \A k \in Msgs : /\ k # m => hidden'[k] = hidden[k] /\ receives'[k] = receives[k]
                          /\ receives'[k] \in Nat /\ receives[k] <= receives'[k]
      BY <2>2, <3>1 DEF HandOut
    <3> QED BY <2>1, <2>2, <3>1, <3>2, QueueKeeps
  <2> QED
    BY <1>1, <2>3, <2>4 DEF Send, Redrive
<1>2. ASSUME NEW w \in Workers, Receive(w) PROVE Hands'
  <2>0. PICK n \in 1..BatchSize : \E s \in Orders(n) : Handed(w, n, s)
    BY <1>2, ReceiveFacts
  <2>1. PICK s \in Orders(n) : Handed(w, n, s)
    BY <2>0
  <2> QED
    BY <2>1, ReceiveKeeps
<1>3. ASSUME NEW w \in Workers, Start(w) PROVE Hands'
  BY <1>3, StartKeeps
<1>4. ASSUME NEW w \in Workers, HandleOk(w) PROVE Hands'
  <2>1. /\ UNCHANGED <<batch, budget, late, hidden, receives>>
        /\ pc[w] # "loop" /\ \A v \in Workers : (pc'[v] = "loop") <=> (pc[v] = "loop")
    BY <1>4 DEF HandleOk, queueVars, TypeOK
  <2>2. Own'
    BY <2>1 DEF Hands, Own, Need, Span, Behind, Covered
  <2>3. Begun'
    BY <2>1 DEF Hands, Begun, Behind, Covered, Head1
  <2>4. Apart' /\ Counted'
    BY <2>1 DEF Hands, Apart, Counted, Id
  <2> QED
    BY <2>2, <2>3, <2>4 DEF Hands
<1>5. ASSUME NEW w \in Workers, HandleErr(w) \/ Delete(w) \/ DeleteErr(w) PROVE Hands'
  <2>1. pc[w] # "loop" /\ Advance(w) /\ UNCHANGED <<hidden, receives>>
    BY <1>5 DEF HandleErr, Delete, DeleteErr, LeaveOnQueue, queueVars
  <2> QED
    BY <2>1, AdvanceKeeps
<1>6. ASSUME NEW W \in SUBSET Workers, Crash(W) PROVE Hands'
  BY <1>6, CrashKeeps
<1>7. ASSUME Tick PROVE Hands'
  BY <1>7, TickKeeps
<1>8. ASSUME UNCHANGED vars PROVE Hands'
  <2>1. \A m \in Msgs : receives[m] \in Nat
    BY ConsumerAssumption DEF TypeOK
  <2> QED
    BY <1>8, <2>1, QueueKeeps DEF vars
<1> QED
  BY <1>1, <1>2, <1>3, <1>4, <1>5, <1>6, <1>7, <1>8 DEF Next, WorkerStep

LEMMA NextSettled ==
    ASSUME TypeOK, Settled, [Next]_vars PROVE Settled'
<1>0. \A m \in Msgs : receives[m] \in Nat /\ hidden[m] \in Nat
  BY ConsumerAssumption DEF TypeOK
<1>1. ASSUME NEW m \in Msgs, Send(m) PROVE Settled'
  BY <1>1 DEF Send, Settled, TypeOK
<1>2. ASSUME NEW m \in Msgs, Redrive(m) PROVE Settled'
  BY <1>2 DEF Redrive, Visible, Settled, TypeOK
<1>3. ASSUME NEW m \in Msgs, ReceiveLost(m) PROVE Settled'
  BY <1>3 DEF ReceiveLost, Receivable, Visible, HandOut, Settled, TypeOK
<1>4. ASSUME NEW w \in Workers, Receive(w) PROVE Settled'
  <2>0. PICK n \in 1..BatchSize : \E s \in Orders(n) : Handed(w, n, s)
    BY <1>4, ReceiveFacts
  <2>1. PICK s \in Orders(n) : Handed(w, n, s)
    BY <2>0
  <2>2. \A m \in Msgs : status[m] # "queued" =>
           hidden'[m] = hidden[m] /\ receives'[m] = receives[m]
    <3>1. \A i \in 1..n : status[s[i]] = "queued"
      BY <2>1 DEF Handed, Visible
    <3>2. \A m \in Msgs : \/ \E i \in 1..n : s[i] = m
                          \/ hidden'[m] = hidden[m] /\ receives'[m] = receives[m]
      BY <2>1 DEF Handed
    <3> QED BY <3>1, <3>2
  <2>3. UNCHANGED status
    BY <2>1 DEF Handed
  <2> QED
    BY <2>2, <2>3 DEF Settled
<1>5. ASSUME UNCHANGED queueVars PROVE Settled'
  BY <1>5 DEF queueVars, Settled
<1>6. ASSUME NEW w \in Workers, Delete(w) PROVE Settled'
  BY <1>6 DEF Delete, Settled, TypeOK
<1>7. ASSUME Tick PROVE Settled'
  BY <1>7, <1>0 DEF Tick, Less1, Settled
<1> QED
  BY <1>1, <1>2, <1>3, <1>4, <1>5, <1>6, <1>7
     DEF Next, WorkerStep, Start, HandleOk, HandleErr, DeleteErr, LeaveOnQueue, Crash,
         vars, queueVars

LEMMA Ownership == Spec => []IInv
<1>1. Init => IInv
  <2> SUFFICES ASSUME Init PROVE IInv
    OBVIOUS
  <2>1. \A w \in Workers : Len(batch[w]) = 0
    BY EmptySeq DEF Init
  <2>2. Own /\ Apart /\ Counted
    BY <2>1 DEF Own, Apart, Counted
  <2>3. Begun /\ Settled /\ Sent
    BY <2>1 DEF Init, Begun, Settled, Sent
  <2> QED
    BY <2>2, <2>3, InitType DEF IInv, RInv, Hands
<1>2. IInv /\ [Next]_vars => IInv'
  <2> SUFFICES ASSUME IInv, [Next]_vars PROVE IInv'
    OBVIOUS
  <2>1. RInv /\ Hands /\ Settled /\ TypeOK
    BY DEF IInv, RInv
  <2> QED
    BY <2>1, NextSent, NextHands, NextSettled DEF IInv
<1> QED
  BY <1>1, <1>2, PTL DEF Spec

(* A handler that began with its budget to spare owns its message until    *)
(* the worker is done with it, and only a message behind others in its     *)
(* batch begins later: whatever the batch size and the timeouts.           *)
THEOREM WorkerOwnsItsMessage == Spec => []TimelyHandlerOwns
<1>1. IInv => TimelyHandlerOwns
  <2> SUFFICES ASSUME IInv, NEW w \in Workers, pc[w] # "loop"
               PROVE  /\ ~late[w] => /\ status[Head1(w).msg] \in {"queued", "deleted"}
                                     /\ Covered(Head1(w), 0)
                      /\ late[w] => Behind(Head1(w))
    BY DEF TimelyHandlerOwns
  <2>0. TypeOK /\ Begun /\ Sent /\ Settled
    BY DEF IInv, RInv, Hands
  <2>1. 1 \in 1..Len(batch[w])
    BY <2>0, HeldIds
  <2>2. Head1(w) \in Delivery /\ Head1(w).msg \in Msgs /\ budget[w] \in Nat
    BY <2>0, <2>1, HeldIds, NeedFacts DEF Head1
  <2>3. status[Head1(w).msg] \in {"unsent", "queued", "deleted", "dead"} \ {"unsent"}
    BY <2>0, <2>1, <2>2 DEF Sent, Head1, TypeOK
  <2>4. ASSUME ~late[w]
        PROVE  status[Head1(w).msg] \in {"queued", "deleted"} /\ Covered(Head1(w), 0)
    <3>1. Covered(Head1(w), budget[w])
      BY <2>0, <2>4 DEF Begun
    <3>2. Covered(Head1(w), 0) /\ hidden[Head1(w).msg] > 0
      BY <3>1, <2>0, <2>2, CoverFacts
    <3>3. status[Head1(w).msg] # "dead"
      BY <3>2, <2>0, <2>2 DEF Settled
    <3> QED BY <2>3, <3>2, <3>3
  <2> QED
    BY <2>0, <2>4 DEF Begun
<1> QED
  BY <1>1, Ownership, PTL

(* Two workers, of any task, have the same message in their hands only     *)
(* when one of them began it too late, behind slow batch mates.            *)
THEOREM HandlingIsExclusive == Spec => []ExclusiveHandling
<1>1. IInv => ExclusiveHandling
  <2> SUFFICES ASSUME IInv, NEW v \in Workers, NEW w \in Workers, NEW m \in Msgs,
                      Holds(v, m), Holds(w, m), ~late[v], ~late[w]
               PROVE  v = w
    BY DEF ExclusiveHandling
  <2>0. TypeOK /\ Begun /\ Apart
    BY DEF IInv, RInv, Hands
  <2>1. 1 \in 1..Len(batch[v]) /\ 1 \in 1..Len(batch[w])
    BY <2>0, HeldIds DEF Holds
  <2>2. receives[m] = batch[v][1].receipt /\ receives[m] = batch[w][1].receipt
    BY <2>0 DEF Begun, Covered, Holds, Head1
  <2>3. Id(batch[v][1]) = Id(batch[w][1])
    BY <2>2 DEF Id, Holds, Head1
  <2> QED
    BY <2>0, <2>1, <2>3 DEF Apart
<1> QED
  BY <1>1, Ownership, PTL
-----------------------------------------------------------------------------
(***************************************************************************)
(* Dead letters.  The argument: every receive of a message is lost, or it  *)
(* is the latest one, hidden, and in a worker's hands.                     *)
(***************************************************************************)
Lost(m, r) == <<m, r>> \in failed \cup expired

InHand(m, r) == \E w \in Workers : \E i \in 1..Len(batch[w]) : Id(batch[w][i]) = <<m, r>>

Out(m, r) == status[m] = "queued" /\ r = receives[m] /\ hidden[m] > 0 /\ InHand(m, r)

Tally == \A m \in Msgs : status[m] \in {"queued", "dead"} =>
            \A r \in 1..receives[m] : Lost(m, r) \/ Out(m, r)

LEMMA AdvanceTally ==
    ASSUME IInv, Tally, NEW w \in Workers, pc[w] # "loop", Advance(w),
           UNCHANGED <<hidden, receives, expired>>, failed \subseteq failed',
           \A m \in Msgs : status'[m] = status[m] \/ status'[m] = "deleted",
           Id(Head1(w)) \in failed' \/ (/\ status[Head1(w).msg] = "queued"
                                        /\ receives[Head1(w).msg] = Head1(w).receipt
                                        => status'[Head1(w).msg] = "deleted")
    PROVE  Tally'
<1>0. TypeOK
  BY DEF IInv, RInv
<1>1. /\ \A v \in Workers : v # w => batch'[v] = batch[v]
      /\ Len(batch[w]) \in Nat \ {0} /\ Len(batch'[w]) = Len(batch[w]) - 1
      /\ \A i \in 1..Len(batch'[w]) : batch'[w][i] = batch[w][i + 1]
      /\ Head1(w) = batch[w][1]
  BY <1>0, AdvanceFacts
<1> SUFFICES ASSUME NEW m \in Msgs, status'[m] \in {"queued", "dead"},
                    NEW r \in 1..receives[m], ~Lost(m, r), ~Lost(m, r)'
             PROVE  Out(m, r)'
  BY DEF Tally, Lost
<1>2. status'[m] = status[m] /\ Out(m, r)
  BY DEF Tally
<1>3. PICK v \in Workers : \E i \in 1..Len(batch[v]) : Id(batch[v][i]) = <<m, r>>
  BY <1>2 DEF Out, InHand
<1>4. PICK i \in 1..Len(batch[v]) : Id(batch[v][i]) = <<m, r>>
  BY <1>3
<1>5. CASE v # w
  BY <1>1, <1>2, <1>4, <1>5 DEF Out, InHand, Id
<1>6. CASE v = w /\ i = 1
  BY <1>1, <1>2, <1>4, <1>6 DEF Out, Lost, Id
<1>7. CASE v = w /\ i # 1
  <2>1. i - 1 \in 1..Len(batch'[w]) /\ batch'[w][i - 1] = batch[w][i]
    BY <1>1, <1>7
  <2> QED
    BY <2>1, <1>2, <1>4, <1>7 DEF Out, InHand, Id
<1> QED
  BY <1>5, <1>6, <1>7

LEMMA NextTally ==
    ASSUME IInv, Tally, [Next]_vars
    PROVE  Tally'
<1>0. TypeOK /\ Hands /\ Settled
  BY DEF IInv, RInv
<1>a. \A m \in Msgs : receives[m] \in Nat /\ hidden[m] \in Nat
  BY <1>0, ConsumerAssumption DEF TypeOK
<1>1. ASSUME NEW m \in Msgs, Send(m) \/ Redrive(m) PROVE Tally'
  <2>1. /\ UNCHANGED <<hidden, receives, batch, failed, expired>>
        /\ \A k \in Msgs : k # m => status'[k] = status[k]
    BY <1>1, <1>0 DEF Send, Redrive, workerVars, lossVars, TypeOK
  <2>2. ASSUME NEW k \in Msgs, k # m, NEW r \in 1..receives[k], status[k] \in {"queued", "dead"}
        PROVE  (Lost(k, r) \/ Out(k, r))'
    BY <2>1, <2>2 DEF Tally, Lost, Out, InHand, Id
  <2>3. ASSUME NEW r \in 1..receives[m] PROVE Lost(m, r)'
    <3>1. CASE Send(m)
      BY <3>1, <2>3, <1>0 DEF Send, Settled
    <3>2. CASE Redrive(m)
      BY <3>2, <2>1 DEF Redrive, Visible, Tally, Out, Lost
    <3> QED BY <1>1, <3>1, <3>2
  <2> QED
    BY <2>1, <2>2, <2>3 DEF Tally
<1>2. ASSUME NEW m \in Msgs, ReceiveLost(m) PROVE Tally'
  <2>1. /\ UNCHANGED <<status, batch, expired>> /\ hidden[m] = 0 /\ status[m] = "queued"
        /\ failed' = failed \cup {<<m, receives[m] + 1>>}
        /\ receives'[m] = receives[m] + 1
        /\ \A k \in Msgs : k # m => hidden'[k] = hidden[k] /\ receives'[k] = receives[k]
    BY <1>2, <1>0 DEF ReceiveLost, Receivable, Visible, HandOut, Lose, workerVars, TypeOK
  <2>2. ASSUME NEW k \in Msgs, k # m, NEW r \in 1..receives[k], status[k] \in {"queued", "dead"}
        PROVE  (Lost(k, r) \/ Out(k, r))'
    BY <2>1, <2>2 DEF Tally, Lost, Out, InHand, Id
  <2>3. ASSUME NEW r \in 1..receives'[m] PROVE Lost(m, r)'
    <3>1. r \in 1..receives[m] \/ r = receives[m] + 1
      BY <2>1, <1>a
    <3>2. r \in 1..receives[m] => Lost(m, r)
      BY <2>1 DEF Tally, Out
    <3> QED BY <2>1, <3>1, <3>2 DEF Lost
  <2> QED
    BY <2>1, <2>2, <2>3 DEF Tally
<1>3. ASSUME NEW w \in Workers, Receive(w) PROVE Tally'
  <2>0. PICK n \in 1..BatchSize : \E s \in Orders(n) : Handed(w, n, s)
    BY <1>0, <1>3, ReceiveFacts
  <2>1. PICK s \in Orders(n) : Handed(w, n, s)
    BY <2>0
  <2>2. /\ UNCHANGED <<status, failed, expired>>
        /\ Len(batch[w]) = 0 /\ Len(batch'[w]) = n
        /\ \A v \in Workers : v # w => batch'[v] = batch[v]
    BY <2>1 DEF Handed
  <2>3. ASSUME NEW m \in Msgs, NEW r \in 1..receives'[m], status[m] \in {"queued", "dead"}
        PROVE  (Lost(m, r) \/ Out(m, r))'
    <3>1. CASE \E i \in 1..n : s[i] = m
      <4>1. PICK i \in 1..n : s[i] = m
        BY <3>1
      <4>2. /\ hidden[m] = 0 /\ status[m] = "queued"
            /\ batch'[w][i].msg = m /\ batch'[w][i].receipt = receives[m] + 1
        BY <2>1, <4>1 DEF Handed, Visible
      <4>3. hidden'[m] = VisibilityTimeout /\ receives'[m] = receives[m] + 1
        BY <2>1, <4>1 DEF Handed
      <4>4. r \in 1..receives[m] \/ r = receives[m] + 1
        BY <4>3, <1>a
      <4>5. CASE r \in 1..receives[m]
        BY <4>2, <4>5, <2>2 DEF Tally, Out, Lost
      <4>6. CASE r = receives[m] + 1
        <5>1. InHand(m, r)'
          BY <4>2, <4>6, <2>2 DEF InHand, Id
        <5> QED BY <4>2, <4>3, <4>6, <5>1, <2>2, ConsumerAssumption DEF Out
      <4> QED BY <4>4, <4>5, <4>6
    <3>2. CASE \A i \in 1..n : s[i] # m
      <4>1. hidden'[m] = hidden[m] /\ receives'[m] = receives[m]
        BY <2>1, <3>2 DEF Handed
      <4>2. Lost(m, r) \/ Out(m, r)
        BY <4>1, <2>3 DEF Tally
      <4>3. ASSUME InHand(m, r) PROVE InHand(m, r)'
        <5>1. PICK v \in Workers : \E i \in 1..Len(batch[v]) : Id(batch[v][i]) = <<m, r>>
          BY <4>3 DEF InHand
        <5>2. v # w
          BY <5>1, <2>2
        <5> QED BY <5>1, <5>2, <2>2 DEF InHand, Id
      <4> QED BY <4>1, <4>2, <4>3, <2>2 DEF Lost, Out
    <3> QED BY <3>1, <3>2
  <2> QED
    BY <2>2, <2>3 DEF Tally
<1>4. ASSUME UNCHANGED <<queueVars, batch, failed, expired>> PROVE Tally'
  BY <1>4 DEF queueVars, Tally, Lost, Out, InHand, Id
<1>5. ASSUME NEW w \in Workers, HandleErr(w) \/ DeleteErr(w) PROVE Tally'
  <2>1. /\ pc[w] # "loop" /\ Advance(w) /\ UNCHANGED queueVars
        /\ failed' = failed \cup {Id(Head1(w))} /\ UNCHANGED expired
    BY <1>5 DEF HandleErr, DeleteErr, LeaveOnQueue, Lose
  <2> QED
    BY <2>1, AdvanceTally DEF queueVars
<1>6. ASSUME NEW w \in Workers, Delete(w) PROVE Tally'
  <2> DEFINE m == Head1(w).msg
  <2>1. /\ pc[w] # "loop" /\ Advance(w) /\ UNCHANGED <<hidden, receives, failed, expired>>
    BY <1>6 DEF Delete, lossVars
  <2>2. m \in Msgs
    BY <2>1, <1>0, AdvanceFacts DEF Delivery
  <2>3. \A k \in Msgs : status'[k] = status[k] \/ status'[k] = "deleted"
    BY <1>6, <1>0 DEF Delete, TypeOK
  <2>4. status[m] = "queued" /\ receives[m] = Head1(w).receipt => status'[m] = "deleted"
    BY <1>6, <1>0, <2>2 DEF Delete, TypeOK
  <2> QED
    BY <2>1, <2>3, <2>4, AdvanceTally
<1>7. ASSUME NEW W \in SUBSET Workers, Crash(W) PROVE Tally'
  <2> DEFINE D == UNION {{Id(d) : d \in Held(w)} : w \in W}
  <2>1. /\ \A w \in Workers \ W : batch'[w] = batch[w]
        /\ failed' = failed \cup D /\ UNCHANGED <<queueVars, expired>>
    BY <1>7, <1>0 DEF Crash, Lose, TypeOK
  <2>2. ASSUME NEW w \in W, NEW i \in 1..Len(batch[w]) PROVE Id(batch[w][i]) \in D
    <3>1. batch[w][i] \in Held(w)
      BY <1>0, HeldIds DEF Held
    <3> QED BY <3>1
  <2> HIDE DEF D
  <2>3. ASSUME NEW m \in Msgs, NEW r \in 1..receives[m], Lost(m, r) \/ Out(m, r)
        PROVE  (Lost(m, r) \/ Out(m, r))'
    <3>1. CASE Lost(m, r)
      BY <3>1, <2>1 DEF Lost
    <3>2. CASE Out(m, r)
      <4>1. PICK w \in Workers : \E i \in 1..Len(batch[w]) : Id(batch[w][i]) = <<m, r>>
        BY <3>2 DEF Out, InHand
      <4>2. CASE w \in W
        BY <4>1, <4>2, <2>1, <2>2 DEF Lost
      <4>3. CASE w \notin W
        <5>1. InHand(m, r)'
          BY <4>1, <4>3, <2>1 DEF InHand, Id
        <5> QED BY <3>2, <5>1, <2>1 DEF Out, queueVars
      <4> QED BY <4>2, <4>3
    <3> QED BY <2>3, <3>1, <3>2
  <2> QED
    BY <2>1, <2>3 DEF Tally, queueVars
<1>8. ASSUME Tick PROVE Tally'
  <2> DEFINE late1(w) == {Id(batch[w][i]) : i \in {k \in DOMAIN batch[w] : RunsOut(w, k)}}
  <2>1. /\ UNCHANGED <<status, receives, batch, pc, late, failed>>
        /\ \A m \in Msgs : hidden'[m] = Less1(hidden[m])
    BY <1>8 DEF Tick
  <2>2. expired' = expired \cup UNION {late1(w) : w \in Workers}
    BY <1>8 DEF Tick
  <2>3. ASSUME NEW w \in Workers, NEW i \in 1..Len(batch[w]), RunsOut(w, i)
        PROVE  Id(batch[w][i]) \in expired'
    <3>1. i \in DOMAIN batch[w]
      BY <1>0, HeldIds
    <3>2. Id(batch[w][i]) \in late1(w)
      BY <2>3, <3>1
    <3> HIDE DEF late1
    <3> QED BY <2>2, <3>2
  <2> HIDE DEF late1
  <2>4. ASSUME NEW m \in Msgs, NEW r \in 1..receives[m], Out(m, r)
        PROVE  (Lost(m, r) \/ Out(m, r))'
    <3>1. CASE hidden[m] # 1
      <4>1. hidden'[m] > 0
        BY <3>1, <2>1, <2>4, <1>a DEF Out, Less1
      <4> QED BY <4>1, <2>1, <2>4 DEF Out, InHand, Id
    <3>2. CASE hidden[m] = 1
      <4>1. PICK w \in Workers : \E i \in 1..Len(batch[w]) : Id(batch[w][i]) = <<m, r>>
        BY <2>4 DEF Out, InHand
      <4>2. PICK i \in 1..Len(batch[w]) : Id(batch[w][i]) = <<m, r>>
        BY <4>1
      <4>3. batch[w][i].msg = m /\ batch[w][i].receipt = receives[m]
        BY <4>2, <2>4 DEF Id, Out
      <4>4. pc[w] # "loop" /\ budget[w] \in Nat \ {0} /\ Span(i - 1) \in Nat
        <5>1. batch[w] # <<>>
          BY EmptySeq
        <5> QED BY <5>1, <1>0, <1>8, NeedFacts DEF Tick, Punctual, DeadlineHit
      <4>5. Behind(batch[w][i])
        <5>1. ~Behind(batch[w][i]) => hidden[m] > Need(w, i)
          BY <4>3, <1>0 DEF Hands, Own, Covered
        <5>2. Need(w, i) = budget[w] + Span(i - 1)
          BY <4>4 DEF Need
        <5> QED BY <4>4, <5>1, <5>2, <3>2
      <4>6. i > 1 \/ late[w]
        <5>1. CASE i = 1
          <6>1. ~late[w] => hidden[m] > budget[w]
            BY <4>3, <4>4, <5>1, <1>0 DEF Hands, Begun, Covered, Head1
          <6> QED BY <4>4, <6>1, <3>2
        <5>2. CASE i # 1
          BY <5>2, <1>0, HeldIds
        <5> QED BY <5>1, <5>2
      <4>7. RunsOut(w, i)
        BY <4>3, <4>5, <4>6, <3>2 DEF RunsOut
      <4> QED BY <4>2, <4>7, <2>3 DEF Lost
    <3> QED BY <3>1, <3>2
  <2>5. ASSUME NEW m \in Msgs, NEW r \in 1..receives[m], Lost(m, r) PROVE Lost(m, r)'
    BY <2>1, <2>2, <2>5 DEF Lost
  <2> QED
    BY <2>1, <2>4, <2>5 DEF Tally
<1> QED
  BY <1>1, <1>2, <1>3, <1>4, <1>5, <1>6, <1>7, <1>8
     DEF Next, WorkerStep, Start, HandleOk, queueVars, lossVars, vars

(* A message ends in the dead letter queue only when each of its           *)
(* MaxReceive deliveries was lost to a failure, or outlived its visibility *)
(* behind slow batch mates before its handler could begin in time.         *)
THEOREM DeadLettersLost == Spec => []DeadMeansLost
<1>1. Init => Tally
  BY DEF Init, Tally
<1>2. IInv /\ Tally /\ [Next]_vars => Tally'
  BY NextTally
<1>3. IInv /\ Tally => DeadMeansLost
  <2> SUFFICES ASSUME IInv, Tally, NEW m \in Msgs, status[m] = "dead",
                      NEW r \in 1..MaxReceive
               PROVE  Lost(m, r)
    BY DEF DeadMeansLost, Lost
  <2>1. receives[m] = MaxReceive
    BY DEF IInv, Settled
  <2> QED
    BY <2>1 DEF Tally, Out
<1> QED
  BY <1>1, <1>2, <1>3, Ownership, PTL DEF Spec
=============================================================================
