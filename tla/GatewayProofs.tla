---------------------------- MODULE GatewayProofs ----------------------------
(***************************************************************************)
(* The gateway's safety for every set of actions, contents and threads,    *)
(* every number of crashes, and a ledger whose writes may or may not fail: *)
(* the invariant of GatewayInvariant is inductive, and the properties      *)
(* GovernedActionGateway states follow from it.                            *)
(***************************************************************************)
EXTENDS GatewayInvariant, TLAPS

USE ActionsAssumption, SentinelsAssumption, BoundsAssumption
    DEF Threads, NoAction, Proposals, Refused, Settled, Pending, ActionStates,
        RecordStates, Outcomes, Decisions, RecordsIn, NoRow, InitialRow, Ops, Calls,
        NoCall, Ask, Reconcile, FreePCs, HeldPCs

-----------------------------------------------------------------------------
(* Why one thread at a time is enough.                                     *)

\* A step of t, during which nobody but t can hold the lock, only has to be
\* right for t: the other threads are outside the lock and stay as they were.
LEMMA LockedStep ==
  ASSUME IInv, NEW t \in Threads, TypeOK',
         lock \in {t, NoThread}, lock' \in {t, NoThread},
         pc'[t] \in HeldPCs <=> lock' = t,
         \A u \in Threads \ {t} : pc'[u] = pc[u] /\ call'[u] = call[u],
         Serving(t)', RecAgrees(t)', Warranted(t)'
  PROVE  LockInv' /\ CallInv' /\ RecInv' /\ WarrantInv'
<1>1. \A u \in Threads \ {t} : pc'[u] \notin HeldPCs
  BY DEF IInv, LockInv
<1>2. LockInv'
  BY <1>1 DEF LockInv
<1>3. CallInv'
  BY DEF IInv, CallInv, Serving
<1>4. RecInv'
  BY <1>1 DEF RecInv, RecAgrees
<1>5. WarrantInv'
  BY <1>1 DEF WarrantInv, Warranted
<1> QED
  BY <1>2, <1>3, <1>4, <1>5

\* A step of t that is, and stays, outside the lock and leaves ledger and
\* external system alone: whoever holds the lock is not affected.
LEMMA UnlockedStep ==
  ASSUME IInv, NEW t \in Threads, TypeOK', UNCHANGED <<durable, lock, rec, goal>>,
         pc[t] \in FreePCs, pc'[t] \in FreePCs,
         \A u \in Threads \ {t} : pc'[u] = pc[u] /\ call'[u] = call[u],
         Serving(t)'
  PROVE  LockInv' /\ CallInv' /\ RecInv' /\ WarrantInv'
<1>1. LockInv'
  BY DEF IInv, LockInv
<1>2. CallInv'
  BY DEF IInv, CallInv, Serving
<1>3. ASSUME NEW u \in Threads PROVE RecAgrees(u)' /\ Warranted(u)'
  <2>1. CASE u = t
    BY <2>1 DEF RecAgrees, Warranted
  <2>2. CASE u # t
    <3>1. RecAgrees(u) /\ Warranted(u)
      BY DEF IInv, RecInv, WarrantInv
    <3>2. UNCHANGED <<pc[u], call[u], rec[u], goal[u], store, effects, inflight, cleared>>
      BY <2>2 DEF durable
    <3> QED
      BY <3>1, <3>2 DEF RecAgrees, Warranted, Unsent, InFlight
  <2> QED
    BY <2>1, <2>2
<1> QED
  BY <1>1, <1>2, <1>3 DEF RecInv, WarrantInv

\* What holds between ledger and external system does not depend on threads.
LEMMA LedgerFrame ==
  ASSUME IInv, UNCHANGED durable
  PROVE  LedgerInv'
  BY DEF IInv, LedgerInv, RowInv, IntentInv, Mediated, EffectIsOnRecord,
         CommittedIsReal, RefusedHasNoEffect, Sent, InFlight, durable

\* A call that ends, in whichever way, leaves its thread outside the lock.
LEMMA EndOfCall ==
  ASSUME IInv, NEW t \in Threads, lock \in {t, NoThread},
         NEW place \in {"idle", "recover"}, EndCall(t, place), TypeOK'
  PROVE  LockInv' /\ CallInv' /\ RecInv' /\ WarrantInv'
<1>1. /\ pc'[t] = place
      /\ lock' = NoThread
      /\ \A u \in Threads \ {t} : pc'[u] = pc[u] /\ call'[u] = call[u]
  BY DEF EndCall, Goto, IInv, TypeOK
<1>2. Serving(t)' /\ RecAgrees(t)' /\ Warranted(t)'
  BY <1>1 DEF Serving, RecAgrees, Warranted
<1> QED
  BY <1>1, <1>2, LockedStep

\* What ends a call keeps the types of what it changes.
LEMMA EndCallType ==
  ASSUME IInv, NEW t \in Threads, NEW place \in {"idle", "recover"}, EndCall(t, place)
  PROVE  /\ lock' \in Threads \cup {NoThread}
         /\ pc' \in [Threads -> FreePCs \cup HeldPCs]
         /\ call' \in [Threads -> Calls]
         /\ rec' \in [Threads -> RecordsIn(RecordStates)]
         /\ goal' \in [Threads -> ActionStates \cup {"ABSENT"}]
  BY DEF IInv, TypeOK, EndCall, Goto

\* A record of a known state is stored with another one.
LEMMA RecordWithState ==
  ASSUME NEW r \in RecordsIn(RecordStates), NEW state \in ActionStates
  PROVE  /\ [r EXCEPT !.state = state] \in RecordsIn(ActionStates)
         /\ [r EXCEPT !.state = state].digest = r.digest
         /\ [r EXCEPT !.state = state].payload = r.payload
         /\ [r EXCEPT !.state = state].state = state
  OBVIOUS

\* An id whose row does not show a commit has no effect and nothing in flight.
LEMMA NotYetSent ==
  ASSUME IInv, NEW a \in Actions, store[a].state \notin Pending \cup Settled
  PROVE  Unsent(a)
<1>1. effects[a] = NoContent
  <2>1. SUFFICES ASSUME effects[a] # NoContent PROVE FALSE
    OBVIOUS
  <2>2. [id |-> a, content |-> effects[a]] \in Sent
    BY <2>1 DEF IInv, TypeOK, Sent
  <2> QED
    BY <2>2 DEF IInv, LedgerInv, EffectIsOnRecord
<1>2. ~InFlight(a)
  BY DEF IInv, TypeOK, LedgerInv, EffectIsOnRecord, Sent, InFlight
<1> QED
  BY <1>1, <1>2 DEF Unsent

-----------------------------------------------------------------------------
(* Steps that leave the ledger and the external system alone.              *)

LEMMA CallExecuteKeeps ==
  ASSUME IInv, NEW t \in Threads, NEW p \in Proposals, CallExecute(t, p)
  PROVE  IInv'
<1>1. TypeOK'
  BY DEF IInv, TypeOK, CallExecute, Goto, durable
<1>2. LockInv' /\ CallInv' /\ RecInv' /\ WarrantInv'
  <2>1. Serving(t)'
    BY DEF IInv, TypeOK, CallExecute, Goto, Serving
  <2> QED
    BY <1>1, <2>1, UnlockedStep DEF IInv, TypeOK, CallExecute, Goto
<1>3. LedgerInv'
  BY LedgerFrame DEF CallExecute
<1> QED
  BY <1>1, <1>2, <1>3 DEF IInv


LEMMA CallResumeKeeps ==
  ASSUME IInv, NEW t \in Threads, NEW p \in Proposals, CallResume(t, p)
  PROVE  IInv'
<1>1. TypeOK'
  BY DEF IInv, TypeOK, CallResume, Goto, durable
<1>2. Serving(t)'
  BY DEF IInv, TypeOK, CallResume, Goto, Serving
<1>3. LockInv' /\ CallInv' /\ RecInv' /\ WarrantInv'
  BY <1>1, <1>2, UnlockedStep DEF IInv, TypeOK, CallResume, Goto
<1>4. LedgerInv'
  BY LedgerFrame DEF CallResume
<1> QED
  BY <1>1, <1>3, <1>4 DEF IInv

LEMMA CallReconcileKeeps ==
  ASSUME IInv, NEW t \in Threads, NEW a \in Actions, CallReconcile(t, a)
  PROVE  IInv'
<1>1. TypeOK'
  BY DEF IInv, TypeOK, CallReconcile, Goto, durable
<1>2. Serving(t)'
  BY DEF IInv, TypeOK, CallReconcile, Goto, Serving
<1>3. LockInv' /\ CallInv' /\ RecInv' /\ WarrantInv'
  BY <1>1, <1>2, UnlockedStep DEF IInv, TypeOK, CallReconcile, Goto
<1>4. LedgerInv'
  BY LedgerFrame DEF CallReconcile
<1> QED
  BY <1>1, <1>3, <1>4 DEF IInv

LEMMA CallRecoverKeeps ==
  ASSUME IInv, NEW t \in Threads, CallRecover(t)
  PROVE  IInv'
<1>1. TypeOK'
  BY DEF IInv, TypeOK, CallRecover, Goto, durable, PendingCommits
<1>2. Serving(t)'
  BY DEF IInv, TypeOK, CallRecover, Goto, Serving
<1>3. LockInv' /\ CallInv' /\ RecInv' /\ WarrantInv'
  BY <1>1, <1>2, UnlockedStep DEF IInv, TypeOK, CallRecover, Goto
<1>4. LedgerInv'
  BY LedgerFrame DEF CallRecover
<1> QED
  BY <1>1, <1>3, <1>4 DEF IInv

LEMMA RecoverNextKeeps ==
  ASSUME IInv, NEW t \in Threads, RecoverNext(t)
  PROVE  IInv'
<1>1. TypeOK'
  BY DEF IInv, TypeOK, RecoverNext, Goto, durable
<1>2. Serving(t)'
  BY DEF IInv, TypeOK, RecoverNext, Goto, Serving
<1>3. LockInv' /\ CallInv' /\ RecInv' /\ WarrantInv'
  BY <1>1, <1>2, UnlockedStep DEF IInv, TypeOK, RecoverNext, Goto
<1>4. LedgerInv'
  BY LedgerFrame DEF RecoverNext
<1> QED
  BY <1>1, <1>3, <1>4 DEF IInv

-----------------------------------------------------------------------------
(* Steps that end a call without writing to the ledger.                    *)

LEMMA ClaimRefusedKeeps ==
  ASSUME IInv, NEW t \in Threads, ClaimRefused(t)
  PROVE  IInv'
<1>1. PICK place \in {"idle", "recover"} : EndCall(t, place)
  BY DEF ClaimRefused, Return
<1>2. lock \in {t, NoThread}
  BY DEF IInv, LockInv, ClaimRefused, LockFree
<1>3. TypeOK'
  BY <1>1, EndCallType DEF IInv, TypeOK, ClaimRefused, Return, durable
<1>4. LockInv' /\ CallInv' /\ RecInv' /\ WarrantInv'
  BY <1>1, <1>2, <1>3, EndOfCall
<1>5. LedgerInv'
  BY LedgerFrame DEF ClaimRefused
<1> QED
  BY <1>3, <1>4, <1>5 DEF IInv

LEMMA ResumeRefusedKeeps ==
  ASSUME IInv, NEW t \in Threads, ResumeRefused(t)
  PROVE  IInv'
<1>1. PICK place \in {"idle", "recover"} : EndCall(t, place)
  BY DEF ResumeRefused, Return
<1>2. lock \in {t, NoThread}
  BY DEF IInv, LockInv, ResumeRefused, LockFree
<1>3. TypeOK'
  BY <1>1, EndCallType DEF IInv, TypeOK, ResumeRefused, Return, durable
<1>4. LockInv' /\ CallInv' /\ RecInv' /\ WarrantInv'
  BY <1>1, <1>2, <1>3, EndOfCall
<1>5. LedgerInv'
  BY LedgerFrame DEF ResumeRefused
<1> QED
  BY <1>3, <1>4, <1>5 DEF IInv

LEMMA ReconcileRefusedKeeps ==
  ASSUME IInv, NEW t \in Threads, ReconcileRefused(t)
  PROVE  IInv'
<1>1. PICK place \in {"idle", "recover"} : EndCall(t, place)
  BY DEF ReconcileRefused, Raise
<1>2. lock \in {t, NoThread}
  BY DEF IInv, LockInv, ReconcileRefused, LockFree
<1>3. TypeOK'
  BY <1>1, EndCallType DEF IInv, TypeOK, ReconcileRefused, Raise, durable
<1>4. LockInv' /\ CallInv' /\ RecInv' /\ WarrantInv'
  BY <1>1, <1>2, <1>3, EndOfCall
<1>5. LedgerInv'
  BY LedgerFrame DEF ReconcileRefused
<1> QED
  BY <1>3, <1>4, <1>5 DEF IInv

LEMMA LookupRaisesKeeps ==
  ASSUME IInv, NEW t \in Threads, LookupRaises(t)
  PROVE  IInv'
<1>1. PICK place \in {"idle", "recover"} : EndCall(t, place)
  BY DEF LookupRaises, Raise
<1>2. lock \in {t, NoThread}
  BY DEF IInv, LockInv, LookupRaises, LockFree
<1>3. TypeOK'
  BY <1>1, EndCallType DEF IInv, TypeOK, LookupRaises, Raise, durable
<1>4. LockInv' /\ CallInv' /\ RecInv' /\ WarrantInv'
  BY <1>1, <1>2, <1>3, EndOfCall
<1>5. LedgerInv'
  BY LedgerFrame DEF LookupRaises
<1> QED
  BY <1>3, <1>4, <1>5 DEF IInv

-----------------------------------------------------------------------------
(* Steps inside the lock that write neither to the ledger nor outside.     *)

LEMMA EvaluateRaisesKeeps ==
  ASSUME IInv, NEW t \in Threads, NEW state \in Refused, EvaluateRaises(t, state)
  PROVE  IInv'
<1>1. TypeOK'
  BY DEF IInv, TypeOK, EvaluateRaises, FinishAs, Goto, durable
<1>2. lock = t /\ lock' = t /\ pc'[t] \in HeldPCs
  BY DEF IInv, TypeOK, LockInv, EvaluateRaises, FinishAs, Goto
<1>3. Serving(t)'
  BY DEF IInv, TypeOK, CallInv, Serving, EvaluateRaises, FinishAs, Goto
<1>4. RecAgrees(t)'
  BY DEF IInv, TypeOK, RecInv, RecAgrees, EvaluateRaises, FinishAs, Goto, durable
<1>5. Warranted(t)'
  <2>1. Unsent(call[t].id)
    BY NotYetSent DEF IInv, CallInv, Serving, RecInv, RecAgrees, EvaluateRaises
  <2> QED
    BY <2>1 DEF IInv, TypeOK, Warranted, EvaluateRaises, FinishAs, Goto, durable,
                Unsent, InFlight
<1>6. LockInv' /\ CallInv' /\ RecInv' /\ WarrantInv'
  BY <1>1, <1>2, <1>3, <1>4, <1>5, LockedStep DEF EvaluateRaises, FinishAs, Goto, IInv, TypeOK
<1>7. LedgerInv'
  BY LedgerFrame DEF EvaluateRaises
<1> QED
  BY <1>1, <1>6, <1>7 DEF IInv

LEMMA PersistIntentFailsKeeps ==
  ASSUME IInv, NEW t \in Threads, PersistIntentFails(t)
  PROVE  IInv'
<1>1. TypeOK'
  BY DEF IInv, TypeOK, PersistIntentFails, FinishAs, Goto, durable
<1>2. lock = t /\ lock' = t /\ pc'[t] \in HeldPCs
  BY DEF IInv, TypeOK, LockInv, PersistIntentFails, FinishAs, Goto
<1>3. Serving(t)'
  BY DEF IInv, TypeOK, CallInv, Serving, PersistIntentFails, FinishAs, Goto
<1>4. RecAgrees(t)'
  BY DEF IInv, TypeOK, RecInv, RecAgrees, PersistIntentFails, FinishAs, Goto, durable
<1>5. Warranted(t)'
  BY DEF IInv, TypeOK, CallInv, Serving, RecInv, RecAgrees, WarrantInv, Warranted,
         LedgerInv, PersistIntentFails, FinishAs, Goto, durable, Unsent, InFlight, EffectIsOnRecord, Sent
<1>6. LockInv' /\ CallInv' /\ RecInv' /\ WarrantInv'
  BY <1>1, <1>2, <1>3, <1>4, <1>5, LockedStep DEF PersistIntentFails, FinishAs, Goto, IInv, TypeOK
<1>7. LedgerInv'
  BY LedgerFrame DEF PersistIntentFails
<1> QED
  BY <1>1, <1>6, <1>7 DEF IInv

LEMMA BeforeConnectorKeeps ==
  ASSUME IInv, NEW t \in Threads, BeforeConnector(t)
  PROVE  IInv'
<1>1. TypeOK'
  BY DEF IInv, TypeOK, BeforeConnector, FinishAs, Goto, durable
<1>2. lock = t /\ lock' = t /\ pc'[t] \in HeldPCs
  BY DEF IInv, TypeOK, LockInv, BeforeConnector, FinishAs, Goto
<1>3. Serving(t)'
  BY DEF IInv, TypeOK, CallInv, Serving, BeforeConnector, FinishAs, Goto
<1>4. RecAgrees(t)'
  BY DEF IInv, TypeOK, RecInv, RecAgrees, BeforeConnector, FinishAs, Goto, durable
<1>5. Warranted(t)'
  BY DEF IInv, TypeOK, WarrantInv, Warranted, BeforeConnector, Goto, durable,
         Unsent, InFlight
<1>6. LockInv' /\ CallInv' /\ RecInv' /\ WarrantInv'
  BY <1>1, <1>2, <1>3, <1>4, <1>5, LockedStep DEF BeforeConnector, FinishAs, Goto, IInv, TypeOK
<1>7. LedgerInv'
  BY LedgerFrame DEF BeforeConnector
<1> QED
  BY <1>1, <1>6, <1>7 DEF IInv

LEMMA BeforeConnectorRaisesKeeps ==
  ASSUME IInv, NEW t \in Threads, NEW state \in Refused, BeforeConnectorRaises(t, state)
  PROVE  IInv'
<1>1. TypeOK'
  BY DEF IInv, TypeOK, BeforeConnectorRaises, FinishAs, Goto, durable
<1>2. lock = t /\ lock' = t /\ pc'[t] \in HeldPCs
  BY DEF IInv, TypeOK, LockInv, BeforeConnectorRaises, FinishAs, Goto
<1>3. Serving(t)'
  BY DEF IInv, TypeOK, CallInv, Serving, BeforeConnectorRaises, FinishAs, Goto
<1>4. RecAgrees(t)'
  BY DEF IInv, TypeOK, RecInv, RecAgrees, BeforeConnectorRaises, FinishAs, Goto, durable
<1>5. Warranted(t)'
  <2>1. Unsent(call[t].id)
    BY DEF IInv, WarrantInv, Warranted, BeforeConnectorRaises
  <2> QED
    BY <2>1 DEF IInv, TypeOK, Warranted, BeforeConnectorRaises, FinishAs, Goto, durable,
                Unsent, InFlight
<1>6. LockInv' /\ CallInv' /\ RecInv' /\ WarrantInv'
  BY <1>1, <1>2, <1>3, <1>4, <1>5, LockedStep DEF BeforeConnectorRaises, FinishAs, Goto, IInv, TypeOK
<1>7. LedgerInv'
  BY LedgerFrame DEF BeforeConnectorRaises
<1> QED
  BY <1>1, <1>6, <1>7 DEF IInv

LEMMA CommitReturnsKeeps ==
  ASSUME IInv, NEW t \in Threads, NEW outcome \in Outcomes, CommitReturns(t, outcome)
  PROVE  IInv'
<1>1. TypeOK'
  BY DEF IInv, TypeOK, CommitReturns, FinishAs, Goto, durable, StateFor, MayAnswer
<1>2. lock = t /\ lock' = t /\ pc'[t] \in HeldPCs
  BY DEF IInv, TypeOK, LockInv, CommitReturns, FinishAs, Goto
<1>3. Serving(t)'
  BY DEF IInv, TypeOK, CallInv, Serving, CommitReturns, FinishAs, Goto, MayAnswer
<1>4. RecAgrees(t)'
  BY DEF IInv, TypeOK, RecInv, RecAgrees, CommitReturns, FinishAs, Goto, durable
<1>5. Warranted(t)'
  BY DEF IInv, TypeOK, CallInv, Serving, RecInv, RecAgrees, WarrantInv, Warranted,
         LedgerInv, CommitReturns, FinishAs, Goto, durable, Unsent, InFlight, StateFor, MayAnswer
<1>6. LockInv' /\ CallInv' /\ RecInv' /\ WarrantInv'
  BY <1>1, <1>2, <1>3, <1>4, <1>5, LockedStep DEF CommitReturns, FinishAs, Goto, IInv, TypeOK
<1>7. LedgerInv'
  BY LedgerFrame DEF CommitReturns
<1> QED
  BY <1>1, <1>6, <1>7 DEF IInv

\* A verdict moves the holder on; only a proposal that passes is cleared.
LEMMA EvaluateKeeps ==
  ASSUME IInv, NEW t \in Threads, NEW decision \in Decisions, NEW approved \in BOOLEAN,
         Evaluate(t, decision, approved)
  PROVE  IInv'
<1> DEFINE a == call[t].id
<1>1. /\ lock = t /\ lock' = t /\ pc'[t] \in {"finish", "intent"}
      /\ UNCHANGED <<store, effects, inflight, call>>
      /\ \A u \in Threads \ {t} : pc'[u] = pc[u]
      /\ cleared \subseteq cleared'
  BY DEF IInv, TypeOK, LockInv, Evaluate, FinishAs, Goto
<1>2. /\ a \in Actions /\ call[t].content \in Contents /\ call[t].op = "execute"
      /\ store[a].state = "VALIDATING" /\ Unsent(a)
      /\ rec[t].digest = store[a].digest /\ rec[t].payload = store[a].payload
      /\ store[a].digest = call[t].content
  BY NotYetSent DEF IInv, TypeOK, CallInv, Serving, RecInv, RecAgrees, Evaluate
<1>3. TypeOK'
  <2>1. cleared' \subseteq Proposals
    BY <1>2 DEF IInv, TypeOK, Evaluate
  <2>2. rec' \in [Threads -> RecordsIn(RecordStates)]
    <3>1. rec' = rec \/ rec' = [rec EXCEPT ![t] = [@ EXCEPT !.state = "RESERVED"]]
      BY DEF Evaluate, FinishAs
    <3>2. rec[t] \in RecordsIn(RecordStates) /\ rec \in [Threads -> RecordsIn(RecordStates)]
      BY DEF IInv, TypeOK
    <3>3. [rec[t] EXCEPT !.state = "RESERVED"] \in RecordsIn(RecordStates)
      BY <3>2
    <3> QED
      BY <3>1, <3>2, <3>3
  <2>3. pc' \in [Threads -> FreePCs \cup HeldPCs]
    <3>1. pc' = [pc EXCEPT ![t] = "finish"] \/ pc' = [pc EXCEPT ![t] = "intent"]
      BY DEF Evaluate, FinishAs, Goto
    <3> QED
      BY <3>1 DEF IInv, TypeOK
  <2>4. goal' \in [Threads -> ActionStates \cup {"ABSENT"}]
    <3>1. \/ goal' = goal
          \/ goal' = [goal EXCEPT ![t] = "REJECTED"]
          \/ goal' = [goal EXCEPT ![t] = "APPROVAL_REQUIRED"]
      BY DEF Evaluate, FinishAs, Goto
    <3> QED
      BY <3>1 DEF IInv, TypeOK
  <2> QED
    BY <1>1, <2>1, <2>2, <2>3, <2>4 DEF IInv, TypeOK, Evaluate
<1>4. Serving(t)'
  BY <1>1, <1>2 DEF Serving
<1>5. RecAgrees(t)'
  <2>1. rec'[t].digest = rec[t].digest /\ rec'[t].payload = rec[t].payload
    BY DEF IInv, TypeOK, Evaluate
  <2> QED
    BY <1>1, <1>2, <2>1 DEF RecAgrees
<1>6. Warranted(t)'
  <2>1. CASE pc'[t] = "intent"
    BY <1>1, <1>2, <2>1 DEF Warranted, Evaluate, FinishAs, Goto, IInv, TypeOK, Passes
  <2>2. CASE pc'[t] = "finish"
    <3>1. goal'[t] \in {"REJECTED", "APPROVAL_REQUIRED"}
      BY <2>2 DEF Evaluate, FinishAs, Goto, IInv, TypeOK
    <3> QED
      BY <1>1, <1>2, <2>2, <3>1 DEF Warranted, Unsent, InFlight
  <2> QED
    BY <1>1, <2>1, <2>2
<1>7. LockInv' /\ CallInv' /\ RecInv' /\ WarrantInv'
  BY <1>1, <1>3, <1>4, <1>5, <1>6, LockedStep
<1>8. LedgerInv'
  BY <1>1 DEF IInv, LedgerInv, RowInv, IntentInv, Mediated, EffectIsOnRecord,
              CommittedIsReal, RefusedHasNoEffect, Sent, InFlight
<1> QED
  BY <1>3, <1>7, <1>8 DEF IInv

\* A connector that is not asked, or asked about a pending row.
LEMMA ReconcileStartKeeps ==
  ASSUME IInv, NEW t \in Threads, ReconcileStart(t)
  PROVE  IInv'
<1>1. call[t].id \in Actions /\ call[t].op = "reconcile"
  BY DEF IInv, CallInv, Serving, ReconcileStart
<1>2. store[call[t].id] \in RecordsIn(RecordStates)
  <2>1. store[call[t].id] \in RecordsIn(ActionStates)
    BY <1>1 DEF IInv, TypeOK
  <2> QED
    BY <2>1
<1>3. TypeOK'
  BY <1>2 DEF IInv, TypeOK, ReconcileStart, Goto, durable
<1>4. /\ lock = NoThread /\ lock' = t /\ pc'[t] = "lookup" /\ UNCHANGED <<call, store>>
      /\ \A u \in Threads \ {t} : pc'[u] = pc[u]
      /\ rec'[t] = store[call[t].id] /\ store[call[t].id].state \in Pending
  BY DEF IInv, TypeOK, ReconcileStart, Goto, durable, LockFree
<1>5. Serving(t)' /\ RecAgrees(t)' /\ Warranted(t)'
  BY <1>1, <1>4 DEF Serving, RecAgrees, Warranted
<1>6. LockInv' /\ CallInv' /\ RecInv' /\ WarrantInv'
  BY <1>3, <1>4, <1>5, LockedStep
<1>7. LedgerInv'
  BY LedgerFrame DEF ReconcileStart
<1> QED
  BY <1>3, <1>6, <1>7 DEF IInv

\* The connector's answer leads to another commit only for an id it does not
\* know, and otherwise to a record of that answer.
LEMMA LookupKeeps ==
  ASSUME IInv, NEW t \in Threads, NEW outcome \in Outcomes, Lookup(t, outcome)
  PROVE  IInv'
<1> DEFINE a == call[t].id
<1>1. /\ a \in Actions /\ lock = t /\ pc[t] = "lookup" /\ call[t].op = "reconcile"
      /\ store[a].state \in Pending /\ store[a].state = rec[t].state
      /\ rec[t].digest = store[a].digest /\ rec[t].payload = store[a].payload
      /\ rec[t] \in RecordsIn(RecordStates)
  BY DEF IInv, TypeOK, LockInv, CallInv, Serving, RecInv, RecAgrees, Lookup
<1>2. UNCHANGED durable /\ UNCHANGED <<store, effects, inflight, cleared, crashes>>
  BY DEF Lookup, durable
<1>3. CASE Recommits(rec[t], outcome) /\ Recoverable(rec[t])
  <2>1. /\ call' = [call EXCEPT ![t].content = rec[t].payload]
        /\ pc' = [pc EXCEPT ![t] = "commit"] /\ UNCHANGED <<lock, rec, goal, queue>>
    BY <1>3 DEF Lookup, Goto
  <2>2. rec[t].payload \in Contents /\ rec[t].payload = store[a].digest
        /\ store[a].state = "COMMITTING" /\ Unsent(a)
    BY <1>1, <1>3 DEF Recommits, Recoverable, Lookup, MayAnswer, Unsent
  <2>3. TypeOK'
    <3>1. call[t] \in Calls
      BY DEF IInv, TypeOK
    <3>2. [call[t] EXCEPT !.content = rec[t].payload] \in Calls
      BY <2>2, <3>1
    <3> QED
      BY <1>2, <2>1, <3>2 DEF IInv, TypeOK
  <2>4. /\ call'[t].id = a /\ call'[t].op = "reconcile" /\ call'[t].content = store[a].digest
        /\ pc'[t] = "commit"
        /\ \A u \in Threads \ {t} : pc'[u] = pc[u] /\ call'[u] = call[u]
    BY <1>1, <2>1, <2>2 DEF IInv, TypeOK
  <2>5. Serving(t)'
    BY <1>1, <1>2, <2>2, <2>4 DEF Serving
  <2>6. RecAgrees(t)'
    <3>1. store'[call'[t].id] = store[a] /\ rec'[t] = rec[t]
      BY <1>2, <2>1, <2>4
    <3> QED
      BY <1>1, <2>2, <2>4, <3>1 DEF RecAgrees
  <2>7. Warranted(t)'
    BY <1>1, <1>2, <2>2, <2>4 DEF Warranted, Unsent, InFlight
  <2>8. LockInv' /\ CallInv' /\ RecInv' /\ WarrantInv'
    BY <1>1, <2>1, <2>3, <2>4, <2>5, <2>6, <2>7, LockedStep
  <2> QED
    BY <1>2, <2>3, <2>8, LedgerFrame DEF IInv
<1>4. CASE Recommits(rec[t], outcome) /\ ~Recoverable(rec[t])
  <2>1. Raise(t)
    BY <1>4 DEF Lookup
  <2>2. TypeOK'
    BY <1>2, <2>1, EndCallType DEF Raise, IInv, TypeOK
  <2> QED
    BY <1>1, <1>2, <2>1, <2>2, EndOfCall, LedgerFrame DEF Raise, IInv
<1>5. CASE ~Recommits(rec[t], outcome)
  <2>1. /\ pc' = [pc EXCEPT ![t] = "finish"] /\ goal' = [goal EXCEPT ![t] = StateFor(outcome)]
        /\ UNCHANGED <<lock, call, rec, queue>>
    BY <1>5 DEF Lookup, FinishAs, Goto
  <2>2. TypeOK'
    BY <1>2, <2>1 DEF IInv, TypeOK, StateFor
  <2>3. pc'[t] = "finish" /\ goal'[t] = StateFor(outcome)
        /\ \A u \in Threads \ {t} : pc'[u] = pc[u] /\ call'[u] = call[u]
    BY <2>1 DEF IInv, TypeOK
  <2>4. Serving(t)' /\ RecAgrees(t)'
    BY <1>1, <1>2, <2>1, <2>3 DEF Serving, RecAgrees
  <2>5. Warranted(t)'
    BY <1>1, <1>2, <2>1, <2>3 DEF Warranted, StateFor, Lookup, MayAnswer, Unsent, InFlight
  <2>6. LockInv' /\ CallInv' /\ RecInv' /\ WarrantInv'
    BY <1>1, <2>1, <2>2, <2>3, <2>4, <2>5, LockedStep
  <2> QED
    BY <1>2, <2>2, <2>6, LedgerFrame DEF IInv
<1> QED
  BY <1>3, <1>4, <1>5

LEMMA FinishFailsKeeps ==
  ASSUME IInv, NEW t \in Threads, NEW state \in Refused, FinishFails(t, state)
  PROVE  IInv'
<1>1. lock = t /\ pc[t] \in {"finish", "handler"} /\ UNCHANGED durable /\ StoreMayFail
  BY DEF IInv, TypeOK, LockInv, FinishFails
<1>2. CASE Raise(t)
  <2>1. TypeOK'
    BY <1>1, <1>2, EndCallType DEF Raise, IInv, TypeOK, FinishFails, durable
  <2> QED
    BY <1>1, <1>2, <2>1, EndOfCall, LedgerFrame DEF Raise, IInv
<1>3. CASE /\ call[t].op = "execute" /\ FinishAs(t, "handler", state)
           /\ UNCHANGED <<lock, call, rec, queue>>
  <2>1. TypeOK'
    BY <1>1, <1>3 DEF IInv, TypeOK, FinishAs, Goto, FinishFails, durable
  <2>2. pc'[t] = "handler" /\ goal'[t] = state
        /\ \A u \in Threads \ {t} : pc'[u] = pc[u] /\ call'[u] = call[u]
    BY <1>3 DEF IInv, TypeOK, FinishAs, Goto
  <2>3. Serving(t)' /\ RecAgrees(t)'
    BY <1>1, <1>3, <2>2 DEF IInv, CallInv, RecInv, Serving, RecAgrees, durable
  <2>4. Warranted(t)'
    BY <1>1, <2>2 DEF Warranted
  <2>5. LockInv' /\ CallInv' /\ RecInv' /\ WarrantInv'
    BY <1>1, <1>3, <2>1, <2>2, <2>3, <2>4, LockedStep
  <2> QED
    BY <1>1, <2>1, <2>5, LedgerFrame DEF IInv
<1> QED
  BY <1>2, <1>3 DEF FinishFails

-----------------------------------------------------------------------------
(* Steps that write to the ledger.                                         *)

\* What the row of one action may become, for all the ledger promises to hold.
LEMMA WriteRow ==
  ASSUME IInv, NEW a \in Actions, NEW row \in RecordsIn(ActionStates),
         store' = [store EXCEPT ![a] = row], UNCHANGED <<effects, inflight, cleared>>,
         row.state = "ABSENT" <=> row.digest = NoContent,
         row.payload \in {row.digest, NoContent},
         row.state \in Pending => [id |-> a, content |-> row.digest] \in cleared,
         \/ Unsent(a)
         \/ row.digest = store[a].digest /\ row.state \in Pending \cup Settled,
         row.state = "COMMITTED" => effects[a] # NoContent,
         row.state \in Refused => StoreMayFail \/ Unsent(a)
  PROVE  LedgerInv'
<1>1. store'[a] = row /\ \A b \in Actions \ {a} : store'[b] = store[b]
  BY DEF IInv, TypeOK
<1>2. RowInv' /\ IntentInv'
  <2>1. RowInv /\ IntentInv
    BY DEF IInv, LedgerInv
  <2>2. RowInv'
    BY <1>1, <2>1 DEF RowInv
  <2>3. IntentInv'
    BY <1>1, <2>1 DEF IntentInv
  <2> QED
    BY <2>2, <2>3
<1>3. Mediated'
  BY DEF IInv, LedgerInv, Mediated, Sent
<1>4. EffectIsOnRecord'
  <2> SUFFICES ASSUME NEW p \in Sent
               PROVE  store'[p.id].digest = p.content
                      /\ store'[p.id].state \in Pending \cup Settled
    BY DEF EffectIsOnRecord, Sent
  <2>1. p.id \in Actions /\ p.content \in Contents
    BY DEF Sent, IInv, TypeOK
  <2>2. store[p.id].digest = p.content
        /\ store[p.id].state \in Pending \cup Settled
    BY DEF IInv, LedgerInv, EffectIsOnRecord
  <2>3. p.id = a => ~Unsent(a)
    BY <2>1 DEF Sent, Unsent, InFlight
  <2> QED
    BY <1>1, <2>1, <2>2, <2>3
<1>5. CommittedIsReal'
  <2> SUFFICES ASSUME NEW b \in Actions, store'[b].state = "COMMITTED"
               PROVE  effects[b] = store'[b].digest /\ effects[b] # NoContent
    BY DEF CommittedIsReal
  <2>1. CASE b = a
    <3>1. effects[a] \in Contents /\ ~Unsent(a)
      BY <1>1, <2>1 DEF IInv, TypeOK, Unsent
    <3>2. [id |-> a, content |-> effects[a]] \in Sent
      BY <3>1 DEF Sent
    <3> QED
      BY <1>1, <2>1, <3>1, <3>2 DEF IInv, LedgerInv, EffectIsOnRecord
  <2>2. CASE b # a
    BY <1>1, <2>2 DEF IInv, LedgerInv, CommittedIsReal
  <2> QED
    BY <2>1, <2>2
<1>6. StoreMayFail \/ RefusedHasNoEffect'
  BY <1>1 DEF IInv, LedgerInv, RefusedHasNoEffect, Unsent, InFlight
<1> QED
  BY <1>2, <1>3, <1>4, <1>5, <1>6 DEF LedgerInv

LEMMA ClaimKeeps ==
  ASSUME IInv, NEW t \in Threads, Claim(t)
  PROVE  IInv'
<1> DEFINE a == call[t].id
           c == call[t].content
<1>1. /\ a \in Actions /\ c \in Contents /\ call[t].op = "execute"
      /\ lock = NoThread /\ lock' = t /\ pc' = [pc EXCEPT ![t] = "evaluate"]
      /\ store[a].state = "ABSENT" /\ store' = [store EXCEPT ![a] = InitialRow(c)]
      /\ rec' = [rec EXCEPT ![t] = InitialRow(c)]
      /\ UNCHANGED <<effects, inflight, cleared, crashes, call, goal, queue>>
  BY DEF IInv, CallInv, Serving, Claim, Goto, LockFree
<1>2. TypeOK'
  BY <1>1 DEF IInv, TypeOK
<1>3. /\ pc'[t] = "evaluate" /\ store'[a] = InitialRow(c) /\ rec'[t] = InitialRow(c)
      /\ \A u \in Threads \ {t} : pc'[u] = pc[u]
  BY <1>1 DEF IInv, TypeOK
<1>4. Serving(t)' /\ RecAgrees(t)' /\ Warranted(t)'
  BY <1>1, <1>3 DEF Serving, RecAgrees, Warranted
<1>5. LockInv' /\ CallInv' /\ RecInv' /\ WarrantInv'
  BY <1>1, <1>2, <1>3, <1>4, LockedStep
<1>6. LedgerInv'
  <2> DEFINE row == InitialRow(c)
  <2>1. Unsent(a)
    BY <1>1, NotYetSent
  <2>2. /\ row \in RecordsIn(ActionStates) /\ row.state = "VALIDATING"
        /\ row.digest = c /\ row.payload = c /\ row.digest # NoContent
    BY <1>1
  <2>3. /\ a \in Actions /\ store' = [store EXCEPT ![a] = row]
        /\ UNCHANGED <<effects, inflight, cleared>>
    BY <1>1
  <2> HIDE DEF row
  <2> QED
    BY <2>1, <2>2, <2>3, WriteRow
<1> QED
  BY <1>2, <1>5, <1>6 DEF IInv

LEMMA PersistIntentKeeps ==
  ASSUME IInv, NEW t \in Threads, PersistIntent(t)
  PROVE  IInv'
<1> DEFINE a == call[t].id
           row == [rec[t] EXCEPT !.state = "COMMITTING"]
<1>1. /\ a \in Actions /\ call[t].content \in Contents /\ call[t].op = "execute"
      /\ lock = t /\ pc' = [pc EXCEPT ![t] = "hook"] /\ store' = [store EXCEPT ![a] = row]
      /\ UNCHANGED <<effects, inflight, cleared, crashes, lock, call, rec, goal, queue>>
  BY DEF IInv, LockInv, CallInv, Serving, PersistIntent, Put, Goto
<1>2. /\ store[a].state = "VALIDATING" /\ store[a].digest = call[t].content
      /\ rec[t].digest = store[a].digest /\ rec[t].payload = store[a].payload
      /\ [id |-> a, content |-> call[t].content] \in cleared
      /\ Unsent(a)
  BY <1>1, NotYetSent DEF IInv, RecInv, RecAgrees, WarrantInv, Warranted, PersistIntent
<1>3. /\ row \in RecordsIn(ActionStates) /\ row.state = "COMMITTING"
      /\ row.digest = store[a].digest /\ row.payload = store[a].payload
  <2>1. rec[t] \in RecordsIn(RecordStates) /\ "COMMITTING" \in ActionStates
    BY DEF IInv, TypeOK
  <2> QED
    BY <1>2, <2>1, RecordWithState
<1> HIDE DEF row
<1>4. TypeOK'
  BY <1>1, <1>3 DEF IInv, TypeOK
<1>5. /\ pc'[t] = "hook" /\ store'[a] = row
      /\ \A u \in Threads \ {t} : pc'[u] = pc[u]
  BY <1>1 DEF IInv, TypeOK
<1>6. Serving(t)' /\ RecAgrees(t)' /\ Warranted(t)'
  BY <1>1, <1>2, <1>3, <1>5 DEF Serving, RecAgrees, Warranted, Unsent, InFlight
<1>7. LockInv' /\ CallInv' /\ RecInv' /\ WarrantInv'
  BY <1>1, <1>4, <1>5, <1>6, LockedStep
<1>8. LedgerInv'
  <2>1. row.payload \in {row.digest, NoContent}
    BY <1>1, <1>3 DEF IInv, LedgerInv, RowInv
  <2> QED
    BY <1>1, <1>2, <1>3, <2>1, WriteRow
<1> QED
  BY <1>4, <1>7, <1>8 DEF IInv

\* Whatever _finish records, the warrant of its goal makes it true.
LEMMA FinishKeeps ==
  ASSUME IInv, NEW t \in Threads, Finish(t)
  PROVE  IInv'
<1> DEFINE a == call[t].id
           row == [rec[t] EXCEPT !.state = goal[t]]
<1>1. /\ lock = t /\ store' = [store EXCEPT ![a] = row]
      /\ pc[t] \in {"finish", "handler"} /\ a \in Actions
      /\ UNCHANGED <<effects, inflight, cleared, crashes, queue>>
  BY DEF IInv, LockInv, CallInv, Serving, Finish, Put, Return
<1>2. /\ goal[t] \in {"APPROVAL_REQUIRED", "REJECTED", "COMMITTED",
                      "COMMIT_OUTCOME_UNKNOWN", "FAILED"}
      /\ goal[t] = "APPROVAL_REQUIRED" => store[a].state = "VALIDATING"
      /\ goal[t] \in Pending => store[a].state \in Pending
      /\ goal[t] = "COMMITTED" => effects[a] # NoContent
      /\ goal[t] \in Refused => StoreMayFail \/ Unsent(a)
  BY <1>1 DEF IInv, WarrantInv, Warranted
<1>3. /\ store[a].state \in {"VALIDATING"} \cup Pending
      /\ rec[t].digest = store[a].digest /\ rec[t].payload = store[a].payload
  BY <1>1 DEF IInv, RecInv, RecAgrees
<1>4. /\ row \in RecordsIn(ActionStates) /\ row.state = goal[t]
      /\ row.digest = store[a].digest /\ row.payload = store[a].payload
  <2>1. rec[t] \in RecordsIn(RecordStates) /\ goal[t] \in ActionStates
    BY <1>2 DEF IInv, TypeOK
  <2> QED
    BY <1>3, <2>1, RecordWithState
<1> HIDE DEF row
<1>5. PICK place \in {"idle", "recover"} : EndCall(t, place)
  BY DEF Finish, Return
<1>6. TypeOK'
  <2>1. store' \in [Actions -> RecordsIn(ActionStates)]
    BY <1>1, <1>4 DEF IInv, TypeOK
  <2> QED
    BY <1>1, <1>5, <2>1, EndCallType DEF IInv, TypeOK
<1>7. LockInv' /\ CallInv' /\ RecInv' /\ WarrantInv'
  BY <1>1, <1>5, <1>6, EndOfCall
<1>8. LedgerInv'
  <2>1. row.payload \in {row.digest, NoContent} /\ row.digest # NoContent
    BY <1>1, <1>3, <1>4 DEF IInv, LedgerInv, RowInv
  <2>2. row.state \in Pending => [id |-> a, content |-> row.digest] \in cleared
    BY <1>1, <1>2, <1>4 DEF IInv, LedgerInv, IntentInv
  <2>3. Unsent(a) \/ row.state \in Pending \cup Settled
    BY <1>1, <1>2, <1>4, NotYetSent
  <2>4. row.state \in ActionStates
    BY <1>2, <1>4
  <2> QED
    BY <1>1, <1>2, <1>4, <2>1, <2>2, <2>3, <2>4, WriteRow
<1> QED
  BY <1>6, <1>7, <1>8 DEF IInv

\* Only a waiting row goes, and a waiting row has sent nothing.
LEMMA ResumeKeeps ==
  ASSUME IInv, NEW t \in Threads, Resume(t)
  PROVE  IInv'
<1> DEFINE a == call[t].id
<1>1. /\ a \in Actions /\ call[t].content \in Contents /\ lock = NoThread
      /\ store[a].state = "APPROVAL_REQUIRED" /\ store' = [store EXCEPT ![a] = NoRow]
      /\ call' = [call EXCEPT ![t] = [@ EXCEPT !.op = "execute"]]
      /\ pc' = [pc EXCEPT ![t] = "execute"]
      /\ UNCHANGED <<effects, inflight, cleared, crashes, lock, rec, goal, queue>>
  BY DEF IInv, CallInv, Serving, Resume, Goto, LockFree
<1>2. call[t] \in Calls
  BY DEF IInv, TypeOK
<1>3. /\ [call[t] EXCEPT !.op = "execute"] \in Calls
      /\ [call[t] EXCEPT !.op = "execute"].id = a
      /\ [call[t] EXCEPT !.op = "execute"].op = "execute"
      /\ [call[t] EXCEPT !.op = "execute"].content = call[t].content
  BY <1>2
<1>4. TypeOK'
  BY <1>1, <1>3 DEF IInv, TypeOK
<1>5. /\ pc'[t] = "execute" /\ call'[t] = [call[t] EXCEPT !.op = "execute"]
      /\ \A u \in Threads \ {t} : pc'[u] = pc[u] /\ call'[u] = call[u]
  BY <1>1 DEF IInv, TypeOK
<1>6. Serving(t)' /\ RecAgrees(t)' /\ Warranted(t)'
  BY <1>1, <1>3, <1>5 DEF Serving, RecAgrees, Warranted
<1>7. LockInv' /\ CallInv' /\ RecInv' /\ WarrantInv'
  BY <1>1, <1>4, <1>5, <1>6, LockedStep
<1>8. LedgerInv'
  <2> DEFINE row == NoRow
  <2>1. Unsent(a)
    BY <1>1, NotYetSent
  <2>2. /\ row \in RecordsIn(ActionStates) /\ row.state = "ABSENT"
        /\ row.digest = NoContent /\ row.payload = NoContent
    OBVIOUS
  <2>3. store' = [store EXCEPT ![a] = row]
    BY <1>1
  <2> HIDE DEF row
  <2> QED
    BY <1>1, <2>1, <2>2, <2>3, WriteRow
<1> QED
  BY <1>4, <1>7, <1>8 DEF IInv

-----------------------------------------------------------------------------
(* Steps that touch the external system, and the crash.                    *)

\* The commit goes out for a cleared proposal that was not sent before, and the
\* ledger already shows the intent.
LEMMA CommitCalledKeeps ==
  ASSUME IInv, NEW t \in Threads, CommitCalled(t)
  PROVE  IInv'
<1> DEFINE a == call[t].id
           m == [id |-> a, content |-> call[t].content]
<1>1. /\ a \in Actions /\ call[t].content \in Contents /\ m \in Proposals
      /\ call[t].op \in {"execute", "reconcile"} /\ lock = t /\ pc[t] = "commit"
      /\ pc' = [pc EXCEPT ![t] = "await"] /\ inflight' = [inflight EXCEPT ![m] = @ + 1]
      /\ UNCHANGED <<store, effects, cleared, crashes, lock, call, rec, goal, queue>>
  BY DEF IInv, LockInv, CallInv, Serving, CommitCalled, Goto
<1>2. /\ store[a].state = "COMMITTING" /\ store[a].digest = call[t].content
      /\ m \in cleared
  BY <1>1 DEF IInv, RecInv, RecAgrees, LedgerInv, IntentInv
<1>3. TypeOK'
  <2>1. inflight \in [Proposals -> Nat] /\ inflight[m] + 1 \in Nat
    <3>1. inflight \in [Proposals -> Nat]
      BY DEF IInv, TypeOK
    <3>2. inflight[m] \in Nat
      BY <1>1, <3>1
    <3> QED
      BY <3>1, <3>2
  <2>2. inflight' \in [Proposals -> Nat]
    BY <1>1, <2>1
  <2> QED
    BY <1>1, <2>2 DEF IInv, TypeOK
<1>4. pc'[t] = "await" /\ \A u \in Threads \ {t} : pc'[u] = pc[u]
  BY <1>1 DEF IInv, TypeOK
<1>5. Serving(t)' /\ RecAgrees(t)' /\ Warranted(t)'
  <2>1. rec[t].digest = store[a].digest /\ rec[t].payload = store[a].payload
    BY <1>1 DEF IInv, RecInv, RecAgrees
  <2> QED
    BY <1>1, <1>2, <1>4, <2>1 DEF Serving, RecAgrees, Warranted
<1>6. LockInv' /\ CallInv' /\ RecInv' /\ WarrantInv'
  BY <1>1, <1>3, <1>4, <1>5, LockedStep
<1>7. inflight'[m] > 0 /\ \A n \in Proposals \ {m} : inflight'[n] = inflight[n]
  <2>1. inflight \in [Proposals -> Nat]
    BY DEF IInv, TypeOK
  <2>2. inflight[m] \in Nat /\ inflight'[m] = inflight[m] + 1
    BY <1>1, <2>1
  <2>3. \A n \in Proposals \ {m} : inflight'[n] = inflight[n]
    BY <1>1, <2>1
  <2> QED
    BY <2>2, <2>3
<1>8. LedgerInv'
  <2>1. Sent' = Sent \cup {m}
    BY <1>1, <1>7 DEF Sent
  <2>2. Mediated' /\ EffectIsOnRecord'
    BY <1>1, <1>2, <2>1 DEF IInv, LedgerInv, Mediated, EffectIsOnRecord
  <2>3. RowInv' /\ IntentInv' /\ CommittedIsReal'
    BY <1>1 DEF IInv, LedgerInv, RowInv, IntentInv, CommittedIsReal
  <2>4. StoreMayFail \/ RefusedHasNoEffect'
    <3>1. \A b \in Actions \ {a} : InFlight(b)' <=> InFlight(b)
      BY <1>1, <1>7 DEF InFlight
    <3> QED
      BY <1>1, <1>2, <3>1 DEF IInv, LedgerInv, RefusedHasNoEffect
  <2> QED
    BY <2>2, <2>3, <2>4 DEF LedgerInv
<1> QED
  BY <1>3, <1>6, <1>8 DEF IInv

\* A step of the network that sends nothing new, undoes no effect and leaves
\* an id that was not sent alone disturbs neither the ledger nor a thread.
LEMMA NetworkStep ==
  ASSUME IInv, TypeOK', UNCHANGED <<store, cleared, lock, locals>>,
         Sent' \subseteq Sent,
         \A a \in Actions : Unsent(a) => Unsent(a)',
         \A a \in Actions : effects[a] # NoContent => effects'[a] = effects[a]
  PROVE  IInv'
<1>1. UNCHANGED <<pc, call, rec, goal, queue>>
  BY DEF locals
<1>2. LockInv' /\ CallInv' /\ RecInv'
  BY <1>1 DEF IInv, LockInv, CallInv, Serving, RecInv, RecAgrees
<1>3. WarrantInv'
  <2> SUFFICES ASSUME NEW t \in Threads PROVE Warranted(t)'
    BY DEF WarrantInv
  <2>1. Warranted(t) /\ (pc[t] \notin {"idle", "recover"} => call[t].id \in Actions)
    BY DEF IInv, WarrantInv, CallInv, Serving
  <2> QED
    BY <1>1, <2>1 DEF Warranted
<1>4. RowInv' /\ IntentInv' /\ Mediated' /\ EffectIsOnRecord' /\ CommittedIsReal'
  BY DEF IInv, LedgerInv, RowInv, IntentInv, Mediated, EffectIsOnRecord, CommittedIsReal
<1>5. StoreMayFail \/ RefusedHasNoEffect'
  BY DEF IInv, LedgerInv, RefusedHasNoEffect, Unsent
<1> QED
  BY <1>2, <1>3, <1>4, <1>5 DEF IInv, LedgerInv

\* A request that leaves the network is one that was sent, and none is added.
LEMMA RequestLeaves ==
  ASSUME IInv, NEW m \in Proposals, inflight[m] > 0,
         inflight' = [inflight EXCEPT ![m] = @ - 1]
  PROVE  /\ m \in Sent
         /\ inflight' \in [Proposals -> Nat]
         /\ \A n \in Proposals : inflight'[n] > 0 => inflight[n] > 0
         /\ \A n \in Proposals : ~(inflight'[n] > inflight[n])
<1>1. inflight \in [Proposals -> Nat]
  BY DEF IInv, TypeOK
<1>2. inflight'[m] = inflight[m] - 1 /\ \A n \in Proposals \ {m} : inflight'[n] = inflight[n]
  BY <1>1
<1>3. inflight[m] \in Nat /\ inflight[m] - 1 \in Nat
  <2>1. inflight[m] \in Nat
    BY <1>1
  <2> QED
    BY <2>1
<1>4. inflight' \in [Proposals -> Nat]
  BY <1>1, <1>3
<1> QED
  BY <1>1, <1>2, <1>3, <1>4 DEF Sent

LEMMA ApplyKeeps ==
  ASSUME IInv, NEW m \in Proposals, Apply(m)
  PROVE  IInv'
<1>1. m.id \in Actions /\ m.content \in Contents /\ m = [id |-> m.id, content |-> m.content]
  OBVIOUS
<1>2. /\ m \in Sent /\ inflight' \in [Proposals -> Nat]
      /\ \A n \in Proposals : inflight'[n] > 0 => inflight[n] > 0
  BY RequestLeaves DEF Apply
<1>3. \A a \in Actions : effects'[a] = IF a = m.id /\ effects[a] = NoContent
                                       THEN m.content ELSE effects[a]
  BY <1>1 DEF IInv, TypeOK, Apply
<1>4. TypeOK'
  <2>1. effects' \in [Actions -> Contents \cup {NoContent}]
    BY <1>1 DEF IInv, TypeOK, Apply
  <2> QED
    BY <1>2, <2>1 DEF IInv, TypeOK, Apply, locals
<1>5. Sent' \subseteq Sent
  <2> SUFFICES ASSUME NEW p \in Proposals, effects'[p.id] = p.content, p.id = m.id,
                      effects[m.id] = NoContent
               PROVE  p \in Sent
    BY <1>2, <1>3 DEF Sent
  <2>1. p = m
    BY <1>1, <1>3
  <2> QED
    BY <1>2, <2>1
<1>6. \A a \in Actions : Unsent(a) => Unsent(a)'
  <2>1. InFlight(m.id)
    BY DEF InFlight, Apply
  <2> QED
    BY <1>2, <1>3, <2>1 DEF Unsent, InFlight
<1> QED
  BY <1>3, <1>4, <1>5, <1>6, NetworkStep DEF Apply

LEMMA LoseKeeps ==
  ASSUME IInv, NEW m \in Proposals, Lose(m)
  PROVE  IInv'
<1>1. /\ inflight' \in [Proposals -> Nat]
      /\ \A n \in Proposals : inflight'[n] > 0 => inflight[n] > 0
  BY RequestLeaves DEF Lose
<1>2. TypeOK'
  BY <1>1 DEF IInv, TypeOK, Lose, locals
<1>3. Sent' \subseteq Sent /\ \A a \in Actions : Unsent(a) => Unsent(a)'
  BY <1>1 DEF Sent, Unsent, InFlight, Lose
<1> QED
  BY <1>2, <1>3, NetworkStep DEF Lose

\* A call that is cut short releases the lock and leaves the ledger as it is.
LEMMA AbandonKeeps ==
  ASSUME IInv, NEW t \in Threads, Abandon(t)
  PROVE  IInv'
<1>1. lock = t /\ EndCall(t, "idle")
  BY DEF IInv, LockInv, Abandon, Raise
<1>2. TypeOK'
  BY <1>1, EndCallType DEF IInv, TypeOK, Abandon, Raise, durable
<1>3. LockInv' /\ CallInv' /\ RecInv' /\ WarrantInv'
  BY <1>1, <1>2, EndOfCall
<1>4. LedgerInv'
  BY LedgerFrame DEF Abandon
<1> QED
  BY <1>2, <1>3, <1>4 DEF IInv

\* A new process knows the ledger and nothing else.
LEMMA CrashKeeps ==
  ASSUME IInv, Crash
  PROVE  IInv'
<1>1. TypeOK'
  BY DEF IInv, TypeOK, Crash, durable
<1>2. LockInv' /\ CallInv' /\ RecInv' /\ WarrantInv'
  BY DEF LockInv, CallInv, Serving, RecInv, RecAgrees, WarrantInv, Warranted, Crash
<1>3. LedgerInv'
  BY LedgerFrame DEF Crash
<1> QED
  BY <1>1, <1>2, <1>3 DEF IInv

-----------------------------------------------------------------------------
(* The invariant is inductive.                                             *)

LEMMA InitInv == Init => IInv
<1> SUFFICES ASSUME Init PROVE IInv
  OBVIOUS
<1>1. \A a \in Actions :
        \/ a \notin LegacyActions /\ store[a] = NoRow
        \/ a \in LegacyActions /\ \E c \in Contents : store[a] = LegacyRow(c)
  <2>1. /\ store \in [Actions -> {NoRow} \cup {LegacyRow(c) : c \in Contents}]
        /\ \A a \in Actions : store[a] # NoRow <=> a \in LegacyActions
    BY DEF Init
  <2> QED
    BY <2>1
<1>2. \A a \in Actions :
        /\ store[a] \in RecordsIn(ActionStates)
        /\ \/ /\ a \notin LegacyActions /\ store[a].state = "ABSENT"
              /\ store[a].digest = NoContent /\ store[a].payload = NoContent
           \/ /\ a \in LegacyActions /\ store[a].state = "COMMITTING"
              /\ store[a].digest \in Contents /\ store[a].payload = NoContent
  <2> SUFFICES ASSUME NEW a \in Actions
               PROVE  /\ store[a] \in RecordsIn(ActionStates)
                      /\ \/ /\ a \notin LegacyActions /\ store[a].state = "ABSENT"
                            /\ store[a].digest = NoContent /\ store[a].payload = NoContent
                         \/ /\ a \in LegacyActions /\ store[a].state = "COMMITTING"
                            /\ store[a].digest \in Contents /\ store[a].payload = NoContent
    OBVIOUS
  <2>1. CASE a \notin LegacyActions
    BY <1>1, <2>1
  <2>2. CASE a \in LegacyActions
    <3>1. PICK c \in Contents : store[a] = LegacyRow(c)
      BY <1>1, <2>2
    <3> QED
      BY <2>2, <3>1 DEF LegacyRow
  <2> QED
    BY <2>1, <2>2
<1>3. store \in [Actions -> RecordsIn(ActionStates)]
  BY <1>2 DEF Init
<1>4. /\ cleared \subseteq Proposals
      /\ \A a \in LegacyActions : [id |-> a, content |-> store[a].digest] \in cleared
  <2>1. cleared = {[id |-> a, content |-> store[a].digest] : a \in LegacyActions}
    BY DEF Init
  <2> QED
    BY <1>2, <2>1
<1>5. TypeOK
  <2>1. inflight \in [Proposals -> Nat] /\ effects \in [Actions -> Contents \cup {NoContent}]
    <3>1. inflight \in [Proposals -> {0, 1}] /\ effects \in [Actions -> Contents \cup {NoContent}]
      BY DEF Init
    <3> QED
      BY <3>1
  <2>2. crashes \in 0 .. MaxCrashes /\ lock \in Threads \cup {NoThread}
    BY DEF Init
  <2>3. pc \in [Threads -> FreePCs \cup HeldPCs] /\ call \in [Threads -> Calls]
    BY DEF Init
  <2>4. rec \in [Threads -> RecordsIn(RecordStates)]
    BY DEF Init
  <2>5. goal \in [Threads -> ActionStates \cup {"ABSENT"}] /\ queue \in [Threads -> SUBSET Actions]
    BY DEF Init
  <2> QED
    BY <1>3, <1>4, <2>1, <2>2, <2>3, <2>4, <2>5 DEF TypeOK
<1>6. LockInv /\ CallInv /\ RecInv /\ WarrantInv
  BY DEF Init, LockInv, CallInv, Serving, RecInv, RecAgrees, WarrantInv, Warranted
<1>7. \A p \in Sent : p.id \in LegacyActions /\ store[p.id].digest = p.content
  <2> SUFFICES ASSUME NEW p \in Proposals, inflight[p] > 0 \/ effects[p.id] = p.content
               PROVE  p.id \in LegacyActions /\ store[p.id].digest = p.content
    BY DEF Sent
  <2>1. p.id \in Actions /\ p.content \in Contents
    OBVIOUS
  <2>2. effects[p.id] \in {NoContent, store[p.id].digest}
    BY <2>1 DEF Init
  <2>3. inflight[p] \in {0, 1} /\ (inflight[p] = 1 => store[p.id].digest = p.content)
    BY DEF Init
  <2>4. store[p.id].digest = p.content
    BY <2>1, <2>2, <2>3
  <2> QED
    BY <1>2, <2>1, <2>4
<1>8. RowInv /\ CommittedIsReal /\ RefusedHasNoEffect
  BY <1>2 DEF RowInv, CommittedIsReal, RefusedHasNoEffect
<1>9. IntentInv
  BY <1>2, <1>4 DEF IntentInv
<1>10. Mediated
  <2> SUFFICES ASSUME NEW p \in Sent PROVE p \in cleared
    BY DEF Mediated
  <2>1. p = [id |-> p.id, content |-> p.content]
    BY DEF Sent
  <2> QED
    BY <1>4, <1>7, <2>1
<1>11. EffectIsOnRecord
  <2> SUFFICES ASSUME NEW p \in Sent
               PROVE  store[p.id].digest = p.content /\ store[p.id].state \in Pending \cup Settled
    BY DEF EffectIsOnRecord
  <2>1. p.id \in Actions
    BY DEF Sent
  <2> QED
    BY <1>2, <1>7, <2>1
<1> QED
  BY <1>5, <1>6, <1>8, <1>9, <1>10, <1>11 DEF IInv, LedgerInv

LEMMA NextInv == IInv /\ [Next]_vars => IInv'
<1> SUFFICES ASSUME IInv, [Next]_vars PROVE IInv'
  OBVIOUS
<1>1. ASSUME NEW t \in Clients, ClientCalls(t) PROVE IInv'
  BY <1>1, CallExecuteKeeps, CallResumeKeeps, CallReconcileKeeps DEF ClientCalls
<1>2. ASSUME NEW t \in Workers, CallRecover(t) PROVE IInv'
  BY <1>2, CallRecoverKeeps
<1>3. ASSUME NEW t \in Threads, Enters(t) PROVE IInv'
  BY <1>3, ClaimKeeps, ClaimRefusedKeeps, ResumeKeeps, ResumeRefusedKeeps,
     ReconcileStartKeeps, ReconcileRefusedKeeps DEF Enters
<1>4. ASSUME NEW t \in Threads, Proceeds(t) PROVE IInv'
  BY <1>4, EvaluateKeeps, EvaluateRaisesKeeps, PersistIntentKeeps, PersistIntentFailsKeeps,
     BeforeConnectorKeeps, BeforeConnectorRaisesKeeps, CommitCalledKeeps, CommitReturnsKeeps,
     LookupKeeps, LookupRaisesKeeps, FinishKeeps, FinishFailsKeeps, RecoverNextKeeps
     DEF Proceeds
<1>5. CASE Network
  BY <1>5, ApplyKeeps, LoseKeeps DEF Network
<1>6. CASE Crash \/ \E t \in Threads : Abandon(t)
  BY <1>6, CrashKeeps, AbandonKeeps
<1>7. CASE UNCHANGED vars
  <2>1. UNCHANGED <<store, effects, inflight, cleared, crashes, lock, pc, call, rec, goal, queue>>
    BY <1>7 DEF vars, durable, locals
  <2>2. TypeOK'
    BY <2>1 DEF IInv, TypeOK
  <2>3. LockInv' /\ CallInv' /\ RecInv'
    BY <2>1 DEF IInv, LockInv, CallInv, Serving, RecInv, RecAgrees
  <2>4. WarrantInv'
    BY <2>1 DEF IInv, WarrantInv, Warranted, Unsent, InFlight
  <2>5. LedgerInv'
    BY <2>1, LedgerFrame DEF durable
  <2> QED
    BY <2>2, <2>3, <2>4, <2>5 DEF IInv
<1> QED
  BY <1>1, <1>2, <1>3, <1>4, <1>5, <1>6, <1>7 DEF Next

\* The ledger, the lock holder and the external system agree at every point.
THEOREM InductiveInvariant == Spec => []IInv
<1>1. Init => IInv
  BY InitInv
<1>2. IInv /\ [Next]_vars => IInv'
  BY NextInv
<1> QED
  BY <1>1, <1>2, PTL DEF Spec

-----------------------------------------------------------------------------
(* What follows for the gateway.                                           *)

\* Every variable keeps its type, whatever the instance.
THEOREM TypeCorrect == Spec => []TypeOK
<1>1. IInv => TypeOK
  BY DEF IInv
<1> QED
  BY <1>1, InductiveInvariant, PTL

\* Complete mediation: what reaches the connector passed every check.
THEOREM MediationHolds == Spec => []Mediated
<1>1. IInv => Mediated
  BY DEF IInv, LedgerInv
<1> QED
  BY <1>1, InductiveInvariant, PTL

\* No orphan effect, across crashes and failing ledger writes.
THEOREM EffectStaysOnRecord == Spec => []EffectIsOnRecord
<1>1. IInv => EffectIsOnRecord
  BY DEF IInv, LedgerInv
<1> QED
  BY <1>1, InductiveInvariant, PTL

\* COMMITTED is only recorded of an effect that is there.
THEOREM CommittedIsNoGuess == Spec => []CommittedIsReal
<1>1. IInv => CommittedIsReal
  BY DEF IInv, LedgerInv
<1> QED
  BY <1>1, InductiveInvariant, PTL

\* A refused action has no effect, as long as the ledger's writes do not fail.
\* The premise is needed: with failing writes a run finds a FAILED row of an
\* action that was carried out.
THEOREM RefusalHolds == ~StoreMayFail => (Spec => []RefusedHasNoEffect)
<1> SUFFICES ASSUME ~StoreMayFail PROVE Spec => []RefusedHasNoEffect
  OBVIOUS
<1>1. IInv => RefusedHasNoEffect
  BY DEF IInv, LedgerInv
<1> QED
  BY <1>1, InductiveInvariant, PTL

\* The four operations that write to the ledger, and what they find there.
LEMMA LedgerWrites ==
  ASSUME IInv, [Next]_vars
  PROVE  \/ UNCHANGED store
         \/ \E t \in Threads :
              /\ call[t].id \in Actions
              /\ Claim(t) \/ PersistIntent(t) \/ Finish(t) \/ Resume(t)
<1>1. ASSUME NEW t \in Threads, Claim(t) \/ PersistIntent(t) \/ Finish(t) \/ Resume(t)
      PROVE  call[t].id \in Actions
  BY <1>1 DEF IInv, CallInv, Serving, Claim, PersistIntent, Finish, Resume
<1>2. ASSUME NEW t \in Threads, ClientCalls(t) \/ CallRecover(t) PROVE UNCHANGED store
  BY <1>2 DEF ClientCalls, CallExecute, CallResume, CallReconcile, CallRecover, durable
<1>3. ASSUME NEW t \in Threads, Enters(t), ~Claim(t), ~Resume(t) PROVE UNCHANGED store
  BY <1>3 DEF Enters, ClaimRefused, ResumeRefused, ReconcileStart, ReconcileRefused, durable
<1>4. ASSUME NEW t \in Threads, Proceeds(t), ~PersistIntent(t), ~Finish(t)
      PROVE  UNCHANGED store
  BY <1>4 DEF Proceeds, Evaluate, EvaluateRaises, BeforeConnectorRaises, PersistIntentFails,
              BeforeConnector, CommitCalled, CommitReturns, Lookup, LookupRaises,
              FinishFails, RecoverNext, durable
<1>5. Network \/ Crash \/ (\E t \in Threads : Abandon(t)) \/ UNCHANGED vars => UNCHANGED store
  BY DEF Network, Apply, Lose, Crash, Abandon, vars, durable
<1> QED
  BY <1>1, <1>2, <1>3, <1>4, <1>5 DEF Next

\* What each of them does to the row it finds.
LEMMA ClaimWrites ==
  ASSUME IInv, NEW t \in Threads, Claim(t), NEW a \in Actions, a = call[t].id
  PROVE  /\ \A b \in Actions \ {a} : store'[b] = store[b]
         /\ store[a].state = "ABSENT" /\ store'[a].state = "VALIDATING"
         /\ call[t].content \in Contents /\ store'[a].digest = call[t].content
<1>1. store' = [store EXCEPT ![a] = InitialRow(call[t].content)] /\ store[a] = NoRow
  BY DEF Claim
<1>2. call[t].content \in Contents
  BY DEF IInv, CallInv, Serving, Claim
<1>3. store'[a] = InitialRow(call[t].content) /\ \A b \in Actions \ {a} : store'[b] = store[b]
  BY <1>1 DEF IInv, TypeOK
<1> QED
  BY <1>1, <1>2, <1>3

LEMMA PersistIntentWrites ==
  ASSUME IInv, NEW t \in Threads, PersistIntent(t), NEW a \in Actions, a = call[t].id
  PROVE  /\ \A b \in Actions \ {a} : store'[b] = store[b]
         /\ store[a].state = "VALIDATING" /\ store'[a].state = "COMMITTING"
         /\ store'[a].digest = store[a].digest
<1>1. lock = t /\ rec[t] \in RecordsIn(RecordStates) /\ "COMMITTING" \in ActionStates
  BY DEF IInv, TypeOK, LockInv, PersistIntent
<1>2. store[a].state = "VALIDATING" /\ rec[t].digest = store[a].digest
  BY <1>1 DEF IInv, RecInv, RecAgrees, PersistIntent
<1>3. /\ store'[a] = [rec[t] EXCEPT !.state = "COMMITTING"]
      /\ \A b \in Actions \ {a} : store'[b] = store[b]
  BY DEF IInv, TypeOK, PersistIntent, Put
<1> QED
  BY <1>1, <1>2, <1>3, RecordWithState

LEMMA FinishWrites ==
  ASSUME IInv, NEW t \in Threads, Finish(t), NEW a \in Actions, a = call[t].id
  PROVE  /\ \A b \in Actions \ {a} : store'[b] = store[b]
         /\ store'[a].state = goal[t] /\ store'[a].digest = store[a].digest
         /\ \/ store[a].state = "VALIDATING" /\ goal[t] \in Refused \cup {"APPROVAL_REQUIRED"}
            \/ store[a].state \in Pending /\ goal[t] \in Settled \cup {"COMMIT_OUTCOME_UNKNOWN"}
         /\ goal[t] = "COMMITTED" => effects[a] # NoContent
         /\ goal[t] \in Refused => StoreMayFail \/ Unsent(a)
<1>1. /\ lock = t /\ rec[t] \in RecordsIn(RecordStates) /\ goal[t] \in ActionStates \cup {"ABSENT"}
      /\ pc[t] \in {"finish", "handler"}
  BY DEF IInv, TypeOK, LockInv, Finish
<1>2. /\ \/ store[a].state = "VALIDATING" /\ goal[t] \in Refused \cup {"APPROVAL_REQUIRED"}
         \/ store[a].state \in Pending /\ goal[t] \in Settled \cup {"COMMIT_OUTCOME_UNKNOWN"}
      /\ goal[t] = "COMMITTED" => effects[a] # NoContent
      /\ goal[t] \in Refused => StoreMayFail \/ Unsent(a)
      /\ rec[t].digest = store[a].digest
  <2>1. Warranted(t) /\ RecAgrees(t)
    BY DEF IInv, WarrantInv, RecInv
  <2> QED
    BY <1>1, <2>1 DEF Warranted, RecAgrees
<1>3. /\ store'[a] = [rec[t] EXCEPT !.state = goal[t]]
      /\ \A b \in Actions \ {a} : store'[b] = store[b]
  BY DEF IInv, TypeOK, Finish, Put
<1>4. goal[t] \in ActionStates
  BY <1>2
<1> QED
  BY <1>1, <1>2, <1>3, <1>4, RecordWithState

LEMMA ResumeWrites ==
  ASSUME IInv, NEW t \in Threads, Resume(t), NEW a \in Actions, a = call[t].id
  PROVE  /\ \A b \in Actions \ {a} : store'[b] = store[b]
         /\ store[a].state = "APPROVAL_REQUIRED" /\ store'[a].state = "ABSENT"
         /\ store'[a].digest = NoContent
<1>1. store[a].state = "APPROVAL_REQUIRED" /\ store' = [store EXCEPT ![a] = NoRow]
  BY DEF Resume
<1>2. store'[a] = NoRow /\ \A b \in Actions \ {a} : store'[b] = store[b]
  BY <1>1 DEF IInv, TypeOK
<1> QED
  BY <1>1, <1>2

\* A write changes one row, one that is not settled; it takes a pending row to a
\* pending or a settled one, and leaves no row out but one that waits.
LEMMA WritesAreLegal ==
  ASSUME IInv, [Next]_vars, NEW a \in Actions, store'[a] # store[a]
  PROVE  /\ store[a].state \notin Settled
         /\ store[a].state \in Pending => store'[a].state \in Pending \cup Settled
         /\ store[a].state \notin {"ABSENT", "APPROVAL_REQUIRED"} => store'[a].state # "ABSENT"
<1>1. PICK t \in Threads : /\ call[t].id \in Actions
                           /\ Claim(t) \/ PersistIntent(t) \/ Finish(t) \/ Resume(t)
  BY LedgerWrites
<1>2. CASE Claim(t)
  BY <1>1, <1>2, ClaimWrites
<1>3. CASE PersistIntent(t)
  BY <1>1, <1>3, PersistIntentWrites
<1>4. CASE Finish(t)
  <2>1. \A b \in Actions \ {call[t].id} : store'[b] = store[b]
    <3>1. call[t].id \in Actions
      BY <1>1
    <3> QED
      BY <1>4, <3>1, FinishWrites
  <2>2. /\ store'[a].state = goal[t]
        /\ \/ store[a].state = "VALIDATING"
           \/ store[a].state \in Pending /\ goal[t] \in Settled \cup {"COMMIT_OUTCOME_UNKNOWN"}
        /\ goal[t] # "ABSENT"
    <3>1. a = call[t].id
      BY <2>1
    <3> QED
      BY <1>4, <3>1, FinishWrites
  <2> QED
    BY <2>2
<1>5. CASE Resume(t)
  BY <1>1, <1>5, ResumeWrites
<1> QED
  BY <1>1, <1>2, <1>3, <1>4, <1>5

\* A commit is called only for an id that has no effect and nothing in flight: a
\* call made a second time would raise the count of the requests of its id.
THEOREM CommitsAreNotRepeated == Spec => NoSecondCommit
<1> DEFINE Step == \A m \in Proposals :
                     inflight'[m] > inflight[m] => effects[m.id] = NoContent /\ ~InFlight(m.id)
<1>1. IInv /\ [Next]_vars => [Step]_vars
  <2> SUFFICES ASSUME IInv, [Next]_vars PROVE Step \/ UNCHANGED vars
    OBVIOUS
  <2>0. inflight \in [Proposals -> Nat] /\ \A m \in Proposals : inflight[m] \in Nat
    <3>1. inflight \in [Proposals -> Nat]
      BY DEF IInv, TypeOK
    <3> QED
      BY <3>1
  <2>1. ASSUME NEW t \in Threads, CommitCalled(t) PROVE Step
    <3>1. Unsent(call[t].id) /\ call[t].id \in Actions
      BY <2>1 DEF IInv, WarrantInv, Warranted, CallInv, Serving, CommitCalled
    <3>2. \A m \in Proposals : inflight'[m] # inflight[m] => m.id = call[t].id
      BY <2>0, <2>1, <3>1 DEF CommitCalled
    <3>3. \A m \in Proposals : inflight'[m] > inflight[m] => inflight'[m] # inflight[m]
      BY <2>0
    <3> QED
      BY <3>1, <3>2, <3>3 DEF Unsent
  <2>2. ASSUME NEW t \in Threads, ClientCalls(t) \/ CallRecover(t) \/ Enters(t)
        PROVE  UNCHANGED inflight
    BY <2>2 DEF ClientCalls, CallExecute, CallResume, CallReconcile, CallRecover, Enters,
                Claim, ClaimRefused, Resume, ResumeRefused, ReconcileStart,
                ReconcileRefused, durable
  <2>3. ASSUME NEW t \in Threads, Proceeds(t), ~CommitCalled(t) PROVE UNCHANGED inflight
    BY <2>3 DEF Proceeds, Evaluate, EvaluateRaises, BeforeConnectorRaises, PersistIntent,
                PersistIntentFails, BeforeConnector, CommitReturns, Lookup, LookupRaises,
                Finish, FinishFails, RecoverNext, durable
  <2>4. Crash \/ (\E t \in Threads : Abandon(t)) => UNCHANGED inflight
    BY DEF Crash, Abandon, durable
  <2>5. CASE Network
    BY <2>5, RequestLeaves DEF Network, Apply, Lose
  <2>6. UNCHANGED inflight => Step
    <3>1. \A m \in Proposals : ~(inflight[m] > inflight[m])
      BY <2>0
    <3> QED
      BY <3>1
  <2> QED
    BY <2>1, <2>2, <2>3, <2>4, <2>5, <2>6 DEF Next
<1> QED
  BY <1>1, InductiveInvariant, PTL DEF Spec, NoSecondCommit

\* COMMITTED, FAILED and REJECTED rows are never rewritten.
THEOREM SettledStays == Spec => SettledIsFinal
<1> DEFINE Step == \A a \in Actions : store[a].state \in Settled => store'[a] = store[a]
<1>1. IInv /\ [Next]_vars => [Step]_vars
  BY WritesAreLegal
<1> QED
  BY <1>1, InductiveInvariant, PTL DEF Spec, SettledIsFinal

\* A row leaves the ledger only while it waits for approval, and a pending
\* intent stays pending or is settled.
THEOREM IntentsStay == Spec => IntentIsNeverDropped
<1> DEFINE Step ==
      \A a \in Actions :
        /\ store[a].state \notin {"ABSENT", "APPROVAL_REQUIRED"} => store'[a] # NoRow
        /\ store[a].state \in Pending => store'[a].state \in Pending \cup Settled
<1>1. IInv /\ [Next]_vars => [Step]_vars
  <2> SUFFICES ASSUME IInv, [Next]_vars, NEW a \in Actions
               PROVE  /\ store[a].state \notin {"ABSENT", "APPROVAL_REQUIRED"} => store'[a] # NoRow
                      /\ store[a].state \in Pending => store'[a].state \in Pending \cup Settled
    OBVIOUS
  <2>1. CASE store'[a] = store[a]
    BY <2>1
  <2>2. CASE store'[a] # store[a]
    BY <2>2, WritesAreLegal
  <2> QED
    BY <2>1, <2>2
<1> QED
  BY <1>1, InductiveInvariant, PTL DEF Spec, IntentIsNeverDropped

=============================================================================
