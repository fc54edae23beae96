-------------------------- MODULE GatewayInvariant --------------------------
(***************************************************************************)
(* The inductive invariant behind the gateway's safety properties: what    *)
(* the ledger, the lock holder's memory and the external system have to do *)
(* with each other at every point of a call.                               *)
(***************************************************************************)
EXTENDS GovernedActionGateway

Unsent(a) == effects[a] = NoContent /\ ~InFlight(a)

\* A thread is inside a critical section iff it holds the lock.
LockInv == \A t \in Threads : pc[t] \in HeldPCs <=> lock = t

\* What a thread is serving, by where it is.
Serving(t) ==
  /\ pc[t] \notin {"idle", "recover"} => call[t].id \in Actions
  /\ pc[t] \in {"execute", "resume", "evaluate", "intent", "hook", "commit", "await"}
       => call[t].content \in Contents
  /\ pc[t] \in {"execute", "evaluate", "intent", "hook", "handler"} => call[t].op = "execute"
  /\ pc[t] \in {"reconcile", "lookup"} => call[t].op = "reconcile"
  /\ pc[t] \in {"commit", "await", "finish"} => call[t].op \in {"execute", "reconcile"}

CallInv == \A t \in Threads : Serving(t)

\* A ledger row is whole: a state, a digest, and that digest's payload if any.
RowInv ==
  \A a \in Actions :
    /\ store[a].state = "ABSENT" <=> store[a].digest = NoContent
    /\ store[a].payload \in {store[a].digest, NoContent}

\* The record the lock holder carries is the ledger's, and the ledger shows
\* how far the holder is: nobody else can have changed it.
RecAgrees(t) ==
  LET row == store[call[t].id] IN
  /\ pc[t] \in HeldPCs => rec[t].digest = row.digest /\ rec[t].payload = row.payload
  /\ pc[t] \in {"evaluate", "intent", "hook", "commit", "await"}
       => row.digest = call[t].content
  /\ pc[t] \in {"evaluate", "intent"} => row.state = "VALIDATING"
  /\ pc[t] \in {"hook", "commit", "await"} => row.state = "COMMITTING"
  /\ pc[t] = "lookup" => row.state \in Pending /\ row.state = rec[t].state
  /\ pc[t] \in {"finish", "handler"} => row.state \in {"VALIDATING"} \cup Pending

RecInv == \A t \in Threads : RecAgrees(t)

\* What the lock holder is about to do is warranted: the intent is for a cleared
\* proposal, the connector has not been called for it yet, and what _finish is
\* about to record is true of the external system.
Warranted(t) ==
  LET a == call[t].id IN
  /\ pc[t] = "intent" => [id |-> a, content |-> call[t].content] \in cleared
  /\ pc[t] \in {"hook", "commit"} => Unsent(a)
  /\ pc[t] = "finish" =>
       \/ goal[t] \in {"APPROVAL_REQUIRED", "REJECTED"} /\ store[a].state = "VALIDATING"
       \/ goal[t] \in {"COMMITTED", "COMMIT_OUTCOME_UNKNOWN", "FAILED"} /\ store[a].state \in Pending
  /\ pc[t] = "finish" /\ goal[t] = "COMMITTED" => effects[a] # NoContent
  /\ pc[t] = "handler" => goal[t] \in Refused
  /\ pc[t] \in {"finish", "handler"} /\ goal[t] \in Refused => StoreMayFail \/ Unsent(a)

WarrantInv == \A t \in Threads : Warranted(t)

\* A commit intent in the ledger is for a proposal that was cleared.
IntentInv ==
  \A a \in Actions :
    store[a].state \in Pending => [id |-> a, content |-> store[a].digest] \in cleared

\* What holds between the ledger and the external system alone, whatever the
\* threads are doing.
LedgerInv ==
  /\ RowInv
  /\ IntentInv
  /\ Mediated
  /\ EffectIsOnRecord
  /\ CommittedIsReal
  /\ StoreMayFail \/ RefusedHasNoEffect

IInv ==
  /\ TypeOK
  /\ LockInv
  /\ CallInv
  /\ RecInv
  /\ WarrantInv
  /\ LedgerInv

=============================================================================
