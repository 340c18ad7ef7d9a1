-------------------------- MODULE AtLeastOnceQueue --------------------------
(***************************************************************************)
(* What the rest of the system may assume of a queue drained by            *)
(* ingest.Consumer: a message that was sent is handled by some worker one  *)
(* or more times, possibly by two workers at once and possibly again after *)
(* it left the queue, and it leaves the queue either because Handle        *)
(* returned nil for it or because the redrive policy moved it to the dead  *)
(* letter queue.  Consumer.tla implements this module; EventIngest.tla is  *)
(* written against it.                                                     *)
(***************************************************************************)
CONSTANTS Msgs,      \* messages that may be sent
          Workers,   \* worker goroutines, of every running task
          None       \* "no message"

VARIABLES status,    \* status[m]: where the queue has m
          active,    \* active[w]: the message w's handler is applying
          applied    \* messages Handle has returned nil for

qvars == <<status, active, applied>>

Status == {"unsent", "queued", "deleted", "dead"}

QTypeOK == /\ status \in [Msgs -> Status]
           /\ active \in [Workers -> Msgs \cup {None}]
           /\ applied \subseteq Msgs

QInit == /\ status = [m \in Msgs |-> "unsent"]
         /\ active = [w \in Workers |-> None]
         /\ applied = {}

QSend(m) == /\ status[m] = "unsent"
            /\ status' = [status EXCEPT ![m] = "queued"]
            /\ UNCHANGED <<active, applied>>

\* A worker starts on a message it received at some earlier time: by now the
\* message may be deleted or dead.
QBegin(w, m) == /\ active[w] = None
                /\ status[m] # "unsent"
                /\ active' = [active EXCEPT ![w] = m]
                /\ UNCHANGED <<status, applied>>

QSucceed(w) == /\ active[w] # None
               /\ applied' = applied \cup {active[w]}
               /\ active' = [active EXCEPT ![w] = None]
               /\ UNCHANGED status

\* Handle returned an error, or the task stopped: any set of workers at once.
QAbandon(W) == /\ active' = [w \in Workers |-> IF w \in W THEN None ELSE active[w]]
               /\ UNCHANGED <<status, applied>>

QDelete(m) == /\ status[m] = "queued"
              /\ m \in applied
              /\ status' = [status EXCEPT ![m] = "deleted"]
              /\ UNCHANGED <<active, applied>>

QRedrive(m) == /\ status[m] = "queued"
               /\ status' = [status EXCEPT ![m] = "dead"]
               /\ UNCHANGED <<active, applied>>

QNext == \/ \E m \in Msgs : QSend(m) \/ QDelete(m) \/ QRedrive(m)
         \/ \E w \in Workers : QSucceed(w) \/ \E m \in Msgs : QBegin(w, m)
         \/ \E W \in SUBSET Workers : QAbandon(W)

QSpec == QInit /\ [][QNext]_qvars
=============================================================================
