-------------------------- MODULE GatewayRefinement --------------------------
(***************************************************************************)
(* The gateway implements the promise of GovernedAction when the ledger's  *)
(* writes do not fail: its initial states map to initial states, and each  *)
(* of its steps to a step of the promise or to a stutter.  Ten of its      *)
(* operations are stutters; the ledger's four writes and the external      *)
(* system's one are the steps of the promise.                              *)
(***************************************************************************)
EXTENDS GatewayProofs

USE ActionsAssumption, SentinelsAssumption, BoundsAssumption
    DEF Threads, NoAction, Proposals, Refused, Settled, Pending, ActionStates,
        RecordStates, Outcomes, Decisions, RecordsIn, NoRow, InitialRow, Ops, Calls,
        NoCall, Ask, Reconcile, FreePCs, HeldPCs

\* The phase of every state of the ledger.
LEMMA Phases ==
  /\ PhaseOf("ABSENT") = "unbound"
  /\ PhaseOf("VALIDATING") = "open"
  /\ PhaseOf("APPROVAL_REQUIRED") = "waiting"
  /\ PhaseOf("COMMITTED") = "done"
  /\ PhaseOf("COMMITTING") = "intent"
  /\ \A state \in Pending : PhaseOf(state) = "intent"
  /\ \A state \in Refused : PhaseOf(state) = "refused"
  BY DEF PhaseOf

\* The abstract state when the ledger and the effects are left alone.
LEMMA Stutter ==
  UNCHANGED <<store, effects>> => UNCHANGED Promise!promiseVars
  BY DEF Promise!promiseVars, BindingOf, PhaseMap

\* The abstract state when one row of the ledger is written.
LEMMA RowMoves ==
  ASSUME NEW a \in Actions, \A b \in Actions \ {a} : store'[b] = store[b],
         UNCHANGED effects
  PROVE  /\ PhaseMap[a] = PhaseOf(store[a].state)
         /\ PhaseMap' = [PhaseMap EXCEPT ![a] = PhaseOf(store'[a].state)]
         /\ BindingOf[a] = store[a].digest
         /\ BindingOf' = [BindingOf EXCEPT ![a] = store'[a].digest]
         /\ store'[a].digest = store[a].digest => BindingOf' = BindingOf
<1>1. /\ PhaseMap[a] = PhaseOf(store[a].state)
      /\ PhaseMap' = [PhaseMap EXCEPT ![a] = PhaseOf(store'[a].state)]
  BY DEF PhaseMap
<1>2. /\ BindingOf[a] = store[a].digest
      /\ BindingOf' = [BindingOf EXCEPT ![a] = store'[a].digest]
  BY DEF BindingOf
<1>3. store'[a].digest = store[a].digest => BindingOf' = BindingOf
  BY DEF BindingOf
<1> QED
  BY <1>1, <1>2, <1>3

LEMMA InitMaps == Init => Promise!Init
<1> SUFFICES ASSUME Init PROVE Promise!Init
  OBVIOUS
<1>1. \A a \in Actions :
        \/ store[a].state = "ABSENT" /\ store[a].digest = NoContent
        \/ store[a].state = "COMMITTING" /\ store[a].digest \in Contents
  <2> SUFFICES ASSUME NEW a \in Actions
               PROVE  \/ store[a].state = "ABSENT" /\ store[a].digest = NoContent
                      \/ store[a].state = "COMMITTING" /\ store[a].digest \in Contents
    OBVIOUS
  <2>1. CASE store[a] = NoRow
    BY <2>1
  <2>2. ASSUME NEW c \in Contents, store[a] = LegacyRow(c)
        PROVE  store[a].state = "COMMITTING" /\ store[a].digest \in Contents
    BY <2>2 DEF LegacyRow
  <2> QED
    BY <2>1, <2>2 DEF Init
<1>2. \A a \in Actions :
        /\ PhaseMap[a] \in {"unbound", "intent"}
        /\ BindingOf[a] \in Contents \cup {NoContent}
        /\ BindingOf[a] = NoContent <=> PhaseMap[a] = "unbound"
  BY <1>1, Phases DEF PhaseMap, BindingOf
<1>3. PhaseMap \in [Actions -> {"unbound", "intent"}]
  BY <1>2 DEF PhaseMap
<1>4. BindingOf \in [Actions -> Contents \cup {NoContent}]
  BY <1>2 DEF BindingOf
<1>5. /\ effects \in [Actions -> Contents \cup {NoContent}]
      /\ \A a \in Actions : effects[a] \in {NoContent, BindingOf[a]}
  BY DEF Init, BindingOf
<1> QED
  BY <1>2, <1>3, <1>4, <1>5 DEF Promise!Init

\* Writes of the ledger.
LEMMA WriteMaps ==
  ASSUME IInv, ~StoreMayFail, NEW t \in Threads, NEW a \in Actions, a = call[t].id,
         Claim(t) \/ PersistIntent(t) \/ Finish(t) \/ Resume(t)
  PROVE  Promise!Next \/ UNCHANGED Promise!promiseVars
<1>1. UNCHANGED effects
  BY DEF Claim, PersistIntent, Finish, Resume
<1>2. \A b \in Actions \ {a} : store'[b] = store[b]
  <2>1. CASE Claim(t)
    BY <2>1, ClaimWrites
  <2>2. CASE PersistIntent(t)
    BY <2>2, PersistIntentWrites
  <2>3. CASE Finish(t)
    BY <2>3, FinishWrites
  <2>4. CASE Resume(t)
    BY <2>4, ResumeWrites
  <2> QED
    BY <2>1, <2>2, <2>3, <2>4
<1>3. /\ PhaseMap[a] = PhaseOf(store[a].state)
      /\ PhaseMap' = [PhaseMap EXCEPT ![a] = PhaseOf(store'[a].state)]
      /\ BindingOf[a] = store[a].digest
      /\ BindingOf' = [BindingOf EXCEPT ![a] = store'[a].digest]
      /\ store'[a].digest = store[a].digest => BindingOf' = BindingOf
  BY <1>1, <1>2, RowMoves
<1>4. CASE Claim(t)
  <2>1. /\ store[a].state = "ABSENT" /\ store'[a].state = "VALIDATING"
        /\ call[t].content \in Contents /\ store'[a].digest = call[t].content
    BY <1>4, ClaimWrites
  <2>2. PhaseMap[a] = "unbound" /\ PhaseMap' = [PhaseMap EXCEPT ![a] = "open"]
    BY <1>3, <2>1, Phases
  <2>3. Promise!Bind(a, call[t].content)
    BY <1>1, <1>3, <2>1, <2>2 DEF Promise!Bind, Promise!Move
  <2> QED
    BY <2>1, <2>3 DEF Promise!Next
<1>5. CASE PersistIntent(t)
  <2>1. /\ store[a].state = "VALIDATING" /\ store'[a].state = "COMMITTING"
        /\ store'[a].digest = store[a].digest
    BY <1>5, PersistIntentWrites
  <2>2. PhaseMap[a] = "open" /\ PhaseMap' = [PhaseMap EXCEPT ![a] = "intent"]
    BY <1>3, <2>1, Phases
  <2>3. Promise!Intend(a)
    BY <1>1, <1>3, <2>1, <2>2 DEF Promise!Intend, Promise!Move
  <2> QED
    BY <2>3 DEF Promise!Next
<1>6. CASE Finish(t)
  <2>1. /\ store'[a].state = goal[t] /\ store'[a].digest = store[a].digest
        /\ \/ store[a].state = "VALIDATING" /\ goal[t] \in Refused \cup {"APPROVAL_REQUIRED"}
           \/ store[a].state \in Pending /\ goal[t] \in Settled \cup {"COMMIT_OUTCOME_UNKNOWN"}
        /\ goal[t] = "COMMITTED" => effects[a] # NoContent
        /\ goal[t] \in Refused => Unsent(a)
    BY <1>6, FinishWrites
  <2>2. BindingOf' = BindingOf
    BY <1>3, <2>1
  <2>3. CASE goal[t] = "APPROVAL_REQUIRED"
    <3>1. store[a].state = "VALIDATING" /\ store'[a].state = "APPROVAL_REQUIRED"
      BY <2>1, <2>3
    <3>2. PhaseMap[a] = "open"
      BY <1>3, <3>1, Phases
    <3>3. PhaseMap' = [PhaseMap EXCEPT ![a] = "waiting"]
      BY <1>3, <3>1, Phases
    <3>4. Promise!Wait(a)
      BY <1>1, <2>2, <3>2, <3>3 DEF Promise!Wait, Promise!Move
    <3> QED
      BY <3>4 DEF Promise!Next
  <2>4. CASE goal[t] \in Refused
    <3>1. PhaseMap[a] \in {"open", "intent"}
      BY <1>3, <2>1, <2>4, Phases
    <3>2. PhaseMap' = [PhaseMap EXCEPT ![a] = "refused"]
      BY <1>3, <2>1, <2>4, Phases
    <3>3. Promise!Refuse(a)
      BY <1>1, <2>1, <2>2, <2>4, <3>1, <3>2 DEF Promise!Refuse, Promise!Move, Unsent
    <3> QED
      BY <3>3 DEF Promise!Next
  <2>5. CASE goal[t] = "COMMITTED"
    <3>1. effects[a] = BindingOf[a]
      <4>1. [id |-> a, content |-> effects[a]] \in Sent
        BY <2>1, <2>5 DEF IInv, TypeOK, Sent
      <4> QED
        BY <1>3, <4>1 DEF IInv, LedgerInv, EffectIsOnRecord
    <3>2. store[a].state \in Pending /\ store'[a].state = "COMMITTED"
      BY <2>1, <2>5
    <3>3. PhaseMap[a] = "intent"
      BY <1>3, <3>2, Phases
    <3>4. PhaseMap' = [PhaseMap EXCEPT ![a] = "done"]
      BY <1>3, <3>2, Phases
    <3>5. Promise!Confirm(a)
      BY <1>1, <2>2, <3>1, <3>3, <3>4 DEF Promise!Confirm, Promise!Move
    <3> QED
      BY <3>5 DEF Promise!Next
  <2>6. CASE goal[t] = "COMMIT_OUTCOME_UNKNOWN"
    <3>1. store[a].state \in Pending /\ store'[a].state \in Pending
      BY <2>1, <2>6
    <3>2. \A b \in Actions : PhaseOf(store'[b].state) = PhaseOf(store[b].state)
      BY <1>2, <3>1, Phases
    <3>3. PhaseMap' = PhaseMap
      BY <3>2 DEF PhaseMap
    <3> QED
      BY <1>1, <2>2, <3>3 DEF Promise!promiseVars
  <2> QED
    BY <2>1, <2>3, <2>4, <2>5, <2>6
<1>7. CASE Resume(t)
  <2>1. /\ store[a].state = "APPROVAL_REQUIRED" /\ store'[a].state = "ABSENT"
        /\ store'[a].digest = NoContent
    BY <1>7, ResumeWrites
  <2>2. PhaseMap[a] = "waiting" /\ PhaseMap' = [PhaseMap EXCEPT ![a] = "unbound"]
    BY <1>3, <2>1, Phases
  <2>3. Promise!Unbind(a)
    BY <1>1, <1>3, <2>1, <2>2 DEF Promise!Unbind, Promise!Move
  <2> QED
    BY <2>3 DEF Promise!Next
<1> QED
  BY <1>4, <1>5, <1>6, <1>7

\* The one step of the external system that shows: a request takes effect, and
\* the ledger has a pending intent for it.
LEMMA ApplyMaps ==
  ASSUME IInv, ~StoreMayFail, NEW m \in Proposals, Apply(m)
  PROVE  Promise!Next \/ UNCHANGED Promise!promiseVars
<1>1. /\ m \in Proposals /\ m.id \in Actions /\ m.content \in Contents /\ m \in Sent
      /\ effects \in [Actions -> Contents \cup {NoContent}] /\ UNCHANGED store
  BY DEF IInv, TypeOK, Sent, Apply
<1>2. CASE effects[m.id] # NoContent
  BY <1>1, <1>2, Stutter DEF Apply
<1>3. CASE effects[m.id] = NoContent
  <2>0. InFlight(m.id)
    BY DEF InFlight, Apply
  <2>1. store[m.id].digest = m.content /\ store[m.id].state \in Pending
    BY <1>1, <1>3, <2>0 DEF IInv, LedgerInv, EffectIsOnRecord, CommittedIsReal,
                            RefusedHasNoEffect
  <2>2. PhaseMap[m.id] = "intent" /\ BindingOf[m.id] = m.content
    BY <1>1, <2>1, Phases DEF PhaseMap, BindingOf
  <2>3. UNCHANGED <<PhaseMap, BindingOf>>
    BY <1>1 DEF PhaseMap, BindingOf
  <2>4. Promise!Perform(m.id)
    BY <1>3, <2>2, <2>3 DEF Apply, Promise!Perform
  <2> QED
    BY <1>1, <2>4 DEF Promise!Next
<1> QED
  BY <1>2, <1>3

LEMMA EffectsChange ==
  ASSUME IInv, [Next]_vars, effects' # effects
  PROVE  \E m \in Proposals : Apply(m)
<1>1. ASSUME NEW t \in Threads PROVE ClientCalls(t) \/ CallRecover(t) \/ Enters(t) => UNCHANGED effects
  BY DEF ClientCalls, CallExecute, CallResume, CallReconcile, CallRecover, Enters, Claim,
         ClaimRefused, Resume, ResumeRefused, ReconcileStart, ReconcileRefused, durable
<1>2. ASSUME NEW t \in Threads, Proceeds(t) PROVE UNCHANGED effects
  BY <1>2 DEF Proceeds, Evaluate, EvaluateRaises, BeforeConnectorRaises, PersistIntent,
              PersistIntentFails, BeforeConnector, CommitCalled, CommitReturns, Lookup,
              LookupRaises, Finish, FinishFails, RecoverNext, durable
<1>3. Crash \/ (\E t \in Threads : Abandon(t)) \/ UNCHANGED vars => UNCHANGED effects
  BY DEF Crash, Abandon, vars, durable
<1> QED
  BY <1>1, <1>2, <1>3 DEF Next, Network, Lose

\* Every behaviour of the gateway, seen through the ledger's states, digests and
\* the effects, is one the promise allows, for every instance in which the
\* ledger's writes do not fail.
THEOREM GatewayKeepsPromise == ~StoreMayFail => (Spec => KeepsPromise)
<1> SUFFICES ASSUME ~StoreMayFail PROVE Spec => KeepsPromise
  OBVIOUS
<1>1. Init => Promise!Init
  BY InitMaps
<1>2. IInv /\ [Next]_vars => [Promise!Next]_(Promise!promiseVars)
  <2> SUFFICES ASSUME IInv, [Next]_vars PROVE Promise!Next \/ UNCHANGED Promise!promiseVars
    OBVIOUS
  <2>1. CASE UNCHANGED <<store, effects>>
    BY <2>1, Stutter
  <2>2. CASE effects' # effects
    BY <2>2, EffectsChange, ApplyMaps
  <2>3. CASE store' # store
    BY <2>3, LedgerWrites, WriteMaps
  <2> QED
    BY <2>1, <2>2, <2>3
<1> QED
  BY <1>1, <1>2, InductiveInvariant, PTL DEF Spec, Promise!Spec, KeepsPromise

=============================================================================
