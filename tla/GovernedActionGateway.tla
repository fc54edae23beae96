----------------------- MODULE GovernedActionGateway -----------------------
(***************************************************************************)
(* The Governed Action Gateway (gateway.py) over its durable ledger        *)
(* (persistence.py) and one protected connector.                           *)
(*                                                                         *)
(* Client threads call execute, resume_approved and reconcile; worker      *)
(* threads call recover_pending.  Everything a call does to the ledger     *)
(* happens under the gateway's lock, with three exceptions the model       *)
(* keeps: resume_approved releases the lock between deleting the waiting   *)
(* record and re-entering execute, recover_pending takes its snapshot      *)
(* outside the lock, and a crash may fall between any two steps.  The      *)
(* ledger and the external system outlive the process; threads do not.     *)
(***************************************************************************)
EXTENDS Naturals

CONSTANTS
  Actions,          \* action ids, ordered as the ledger orders them
  Contents,         \* what a proposal asks for, up to its digest
  NoContent,
  Clients,          \* threads that submit, resume and reconcile
  Workers,          \* threads that run recover_pending
  NoThread,
  LegacyActions,    \* intents stored before the ledger kept a payload
  StoreMayFail,     \* may the ledger, or signing what it stores, raise?
  MaxCrashes        \* how often the process, or one call, may be cut short

ASSUME ActionsAssumption ==
  /\ Actions \subseteq Nat \ {0}
  /\ LegacyActions \subseteq Actions

ASSUME SentinelsAssumption ==
  /\ NoContent \notin Contents
  /\ NoThread \notin Clients \cup Workers

ASSUME BoundsAssumption ==
  /\ MaxCrashes \in Nat
  /\ StoreMayFail \in BOOLEAN

VARIABLES
  store,      \* the durable ledger: a row per action id
  effects,    \* the external system: the content each id was carried out with
  inflight,   \* commit requests sent and neither applied nor lost yet, counted
  cleared,    \* history: proposals that passed kernel, policy and approval
  crashes,    \* how often the process, or one call, was cut short
  lock,       \* the thread that holds the gateway's lock
  pc,         \* where each thread is
  call,       \* the call a thread is serving, with its proposal
  rec,        \* the record a thread carries in memory
  goal,       \* the state _finish is about to record
  queue       \* what is left of a recover_pending snapshot

durable == <<store, effects, inflight, cleared>>
locals  == <<pc, call, rec, goal, queue>>
vars    == <<durable, crashes, lock, locals>>

-----------------------------------------------------------------------------
(* Data.                                                                   *)

Threads   == Clients \cup Workers
NoAction  == 0
Proposals == [id : Actions, content : Contents]

\* ActionState; PROPOSED and AUTHORIZED are never assigned and RESERVED never
\* reaches the ledger (RecordStates).  ABSENT stands for "no record".
Refused      == {"REJECTED", "FAILED"}
Settled      == Refused \cup {"COMMITTED"}
Pending      == {"COMMITTING", "COMMIT_OUTCOME_UNKNOWN"}
ActionStates == Settled \cup Pending \cup {"VALIDATING", "APPROVAL_REQUIRED"}
RecordStates == ActionStates \cup {"RESERVED"}
Outcomes     == {"COMMITTED", "NOT_COMMITTED", "UNKNOWN"}
Decisions    == {"ALLOW", "APPROVAL_REQUIRED", "BLOCK"}

\* A record: the proposal's digest, its stored payload and the state.  A
\* digest stands for the content it is computed from.
RecordsIn(states) == [digest  : Contents \cup {NoContent},
                      payload : Contents \cup {NoContent},
                      state   : states \cup {"ABSENT"}]
NoRow == [digest |-> NoContent, payload |-> NoContent, state |-> "ABSENT"]
InitialRow(c) == [digest |-> c, payload |-> c, state |-> "VALIDATING"]
LegacyRow(c)  == [digest |-> c, payload |-> NoContent, state |-> "COMMITTING"]

Ops   == {"none", "execute", "resume", "reconcile"}
Calls == [op : Ops, id : Actions \cup {NoAction}, content : Contents \cup {NoContent}]
NoCall == [op |-> "none", id |-> NoAction, content |-> NoContent]
Ask(op, p) == [op |-> op, id |-> p.id, content |-> p.content]
Reconcile(a) == [op |-> "reconcile", id |-> a, content |-> NoContent]

\* The places of a thread.  At the "Free" ones it does not hold the lock.
FreePCs == {"idle", "execute", "resume", "reconcile", "recover"}
HeldPCs == {"evaluate", "intent", "hook", "commit", "await", "lookup",
            "finish", "handler"}

-----------------------------------------------------------------------------
(* What every handler is built from.                                       *)

LockFree == lock = NoThread

Goto(t, place) == pc' = [pc EXCEPT ![t] = place]

\* _finish starts: sign a receipt for a state and store the record with it.
FinishAs(t, place, state) ==
  /\ Goto(t, place)
  /\ goal' = [goal EXCEPT ![t] = state]

\* A call ends and its thread lets go of the lock; "place" is what is next.
EndCall(t, place) ==
  /\ Goto(t, place)
  /\ lock' = NoThread
  /\ call' = [call EXCEPT ![t] = NoCall]
  /\ rec'  = [rec EXCEPT ![t] = NoRow]
  /\ goal' = [goal EXCEPT ![t] = "ABSENT"]

\* A call returns; recover_pending goes on with its snapshot.
Return(t) ==
  /\ EndCall(t, IF queue[t] = {} THEN "idle" ELSE "recover")
  /\ UNCHANGED queue

\* A call raises; recover_pending does not catch it and is over as well.
Raise(t) ==
  /\ EndCall(t, "idle")
  /\ queue' = [queue EXCEPT ![t] = {}]

\* The ledger's update writes the caller's whole record; a missing row is
\* an error, which PutHits excludes.
PutHits(a) == store[a] # NoRow
Put(a, r, state) == store' = [store EXCEPT ![a] = [r EXCEPT !.state = state]]

\* Variant: recovery looks for interrupted commits only.
CommittingOnly == {a \in Actions : store[a].state = "COMMITTING"}

\* pending_commits.
PendingCommits == {a \in Actions : store[a].state \in Pending}

-----------------------------------------------------------------------------
(* The protected connector.                                                *)

InFlight(a) == \E m \in Proposals : m.id = a /\ inflight[m] > 0

\* What commit and reconcile may answer for an id: COMMITTED only once the
\* effect is there, NOT_COMMITTED only when it is neither there nor on its way,
\* UNKNOWN (or an exception) at any time.
MayAnswer(a, outcome) ==
  \/ (outcome = "COMMITTED" /\ effects[a] # NoContent)
  \/ (outcome = "NOT_COMMITTED" /\ effects[a] = NoContent /\ ~InFlight(a))
  \/ outcome = "UNKNOWN"

\* Variants: the outcome's name is stored; an unknown outcome is taken for
\* success; it is taken for failure.
StateIsOutcome(outcome) ==
  IF outcome = "UNKNOWN" THEN "COMMIT_OUTCOME_UNKNOWN" ELSE outcome
UnknownIsSuccess(outcome) ==
  IF outcome = "NOT_COMMITTED" THEN "FAILED" ELSE "COMMITTED"
UnknownIsFailure(outcome) ==
  IF outcome = "COMMITTED" THEN "COMMITTED" ELSE "FAILED"

\* _apply_connector_result: the state that records an outcome.
StateFor(outcome) ==
  CASE outcome = "COMMITTED"     -> "COMMITTED"
    [] outcome = "UNKNOWN"       -> "COMMIT_OUTCOME_UNKNOWN"
    [] outcome = "NOT_COMMITTED" -> "FAILED"

\* A request takes effect; the action id is its idempotency key.
Apply(m) ==
  /\ inflight[m] > 0
  /\ inflight' = [inflight EXCEPT ![m] = @ - 1]
  /\ effects' = [effects EXCEPT ![m.id] = IF @ = NoContent THEN m.content ELSE @]
  /\ UNCHANGED <<store, cleared, crashes, lock, locals>>

\* A request is lost for good.
Lose(m) ==
  /\ inflight[m] > 0
  /\ inflight' = [inflight EXCEPT ![m] = @ - 1]
  /\ UNCHANGED <<store, effects, cleared, crashes, lock, locals>>

-----------------------------------------------------------------------------
(* execute.                                                                *)

CallExecute(t, p) ==
  /\ pc[t] = "idle"
  /\ Goto(t, "execute")
  /\ call' = [call EXCEPT ![t] = Ask("execute", p)]
  /\ UNCHANGED <<durable, crashes, lock, rec, goal, queue>>

\* Variant: the claim replaces the row of an action that waits for approval.
ClaimReplaces(t) ==
  LET a == call[t].id  c == call[t].content IN
  /\ pc[t] = "execute"
  /\ LockFree
  /\ store[a].state \in {"ABSENT", "APPROVAL_REQUIRED"}
  /\ store' = [store EXCEPT ![a] = InitialRow(c)]
  /\ rec' = [rec EXCEPT ![t] = InitialRow(c)]
  /\ lock' = t
  /\ Goto(t, "evaluate")
  /\ UNCHANGED <<effects, inflight, cleared, crashes, call, goal, queue>>

\* The lock is taken and a free id is bound to this proposal.
Claim(t) ==
  LET a == call[t].id  c == call[t].content IN
  /\ pc[t] = "execute"
  /\ LockFree
  /\ store[a] = NoRow
  /\ store' = [store EXCEPT ![a] = InitialRow(c)]
  /\ rec' = [rec EXCEPT ![t] = InitialRow(c)]
  /\ lock' = t
  /\ Goto(t, "evaluate")
  /\ UNCHANGED <<effects, inflight, cleared, crashes, call, goal, queue>>

\* The id is taken: the recorded state is returned, or another proposal's
\* use of the id is refused; or the ledger raises.  Nothing changes.
ClaimRefused(t) ==
  /\ pc[t] = "execute"
  /\ LockFree
  /\ store[call[t].id] # NoRow \/ StoreMayFail
  /\ Return(t)
  /\ UNCHANGED <<durable, crashes>>

\* Variant: whatever is not blocked passes.
PassesUnlessBlocked(decision, approved) == decision # "BLOCK"

\* The proposal passes when no policy blocks it and an approval that is
\* required is there.
Passes(decision, approved) ==
  decision = "ALLOW" \/ (decision = "APPROVAL_REQUIRED" /\ approved)

\* Kernel verifier, policies, CARM and the approval verifier, in this order
\* and without an exception.  Their verdict is an input of the gateway.
Evaluate(t, decision, approved) ==
  /\ pc[t] = "evaluate"
  /\ \/ /\ decision = "BLOCK"
        /\ FinishAs(t, "finish", "REJECTED")
        /\ UNCHANGED rec
     \/ /\ decision = "APPROVAL_REQUIRED" /\ ~approved
        /\ FinishAs(t, "finish", "APPROVAL_REQUIRED")
        /\ UNCHANGED rec
     \/ /\ Passes(decision, approved)
        /\ Goto(t, "intent")
        /\ rec' = [rec EXCEPT ![t].state = "RESERVED"]
        /\ UNCHANGED goal
  /\ cleared' = IF decision # "BLOCK" /\ (decision = "APPROVAL_REQUIRED" => approved)
                THEN cleared \cup {[id |-> call[t].id, content |-> call[t].content]}
                ELSE cleared
  /\ UNCHANGED <<store, effects, inflight, crashes, lock, call, queue>>

\* The kernel, a policy or the approval verifier raises: a GCPError is a
\* rejection, any other exception a failure.
EvaluateRaises(t, state) ==
  /\ pc[t] = "evaluate"
  /\ FinishAs(t, "handler", state)
  /\ UNCHANGED <<durable, crashes, lock, call, rec, queue>>

\* Variant: the connector is called before the intent is stored.
IntentNotStored(t) ==
  /\ pc[t] = "intent"
  /\ Goto(t, "hook")
  /\ UNCHANGED <<durable, crashes, lock, call, rec, goal, queue>>

\* The commit intent is made durable before the connector is called.
PersistIntent(t) ==
  /\ pc[t] = "intent"
  /\ PutHits(call[t].id)
  /\ Put(call[t].id, rec[t], "COMMITTING")
  /\ Goto(t, "hook")
  /\ UNCHANGED <<effects, inflight, cleared, crashes, lock, call, rec, goal, queue>>

PersistIntentFails(t) ==
  /\ StoreMayFail
  /\ pc[t] = "intent"
  /\ FinishAs(t, "handler", "FAILED")
  /\ UNCHANGED <<durable, crashes, lock, call, rec, queue>>

BeforeConnector(t) ==
  /\ pc[t] = "hook"
  /\ Goto(t, "commit")
  /\ UNCHANGED <<durable, crashes, lock, call, rec, goal, queue>>

BeforeConnectorRaises(t, state) ==
  /\ pc[t] = "hook"
  /\ FinishAs(t, "handler", state)
  /\ UNCHANGED <<durable, crashes, lock, call, rec, queue>>

-----------------------------------------------------------------------------
(* _commit_safely and _finish, shared by execute and reconcile.            *)

\* Each call of commit is one more request, also of what is still on its way.
CommitCalled(t) ==
  /\ pc[t] = "commit"
  /\ inflight' = [inflight EXCEPT ![[id |-> call[t].id, content |-> call[t].content]] = @ + 1]
  /\ Goto(t, "await")
  /\ UNCHANGED <<store, effects, cleared, crashes, lock, call, rec, goal, queue>>

\* The connector's answer; an exception counts as UNKNOWN.
CommitReturns(t, outcome) ==
  /\ pc[t] = "await"
  /\ MayAnswer(call[t].id, outcome)
  /\ FinishAs(t, "finish", StateFor(outcome))
  /\ UNCHANGED <<durable, crashes, lock, call, rec, queue>>

Finish(t) ==
  /\ pc[t] \in {"finish", "handler"}
  /\ PutHits(call[t].id)
  /\ Put(call[t].id, rec[t], goal[t])
  /\ Return(t)
  /\ UNCHANGED <<effects, inflight, cleared, crashes>>

\* Signing or storing raises.  Inside the try block of execute that is one
\* more exception to record, as a rejection when it is a GCPError (a result
\* that cannot be signed) and as a failure when not; elsewhere it reaches the
\* caller.
FinishFails(t, state) ==
  /\ StoreMayFail
  /\ \/ /\ pc[t] = "finish" /\ call[t].op = "execute"
        /\ FinishAs(t, "handler", state)
        /\ UNCHANGED <<lock, call, rec, queue>>
     \/ /\ pc[t] = "handler" \/ (pc[t] = "finish" /\ call[t].op = "reconcile")
        /\ Raise(t)
  /\ UNCHANGED <<durable, crashes>>

-----------------------------------------------------------------------------
(* resume_approved.                                                        *)

CallResume(t, p) ==
  /\ pc[t] = "idle"
  /\ Goto(t, "resume")
  /\ call' = [call EXCEPT ![t] = Ask("resume", p)]
  /\ UNCHANGED <<durable, crashes, lock, rec, goal, queue>>

\* Variant: any row that is not settled is taken up again.
ResumeUnsettled(t) ==
  /\ pc[t] = "resume"
  /\ LockFree
  /\ store[call[t].id].state \notin Settled
  /\ store' = [store EXCEPT ![call[t].id] = NoRow]
  /\ call' = [call EXCEPT ![t].op = "execute"]
  /\ Goto(t, "execute")
  /\ UNCHANGED <<effects, inflight, cleared, crashes, lock, rec, goal, queue>>

\* The approval is there: the waiting record goes, the lock is let go, and
\* the caller's proposal starts over as an execute call.
Resume(t) ==
  /\ pc[t] = "resume"
  /\ LockFree
  /\ store[call[t].id].state = "APPROVAL_REQUIRED"
  /\ store' = [store EXCEPT ![call[t].id] = NoRow]
  /\ call' = [call EXCEPT ![t].op = "execute"]
  /\ Goto(t, "execute")
  /\ UNCHANGED <<effects, inflight, cleared, crashes, lock, rec, goal, queue>>

\* No approval yet, a verifier or ledger that raises, or no waiting record.
ResumeRefused(t) ==
  /\ pc[t] = "resume"
  /\ LockFree
  /\ Return(t)
  /\ UNCHANGED <<durable, crashes>>

-----------------------------------------------------------------------------
(* reconcile and recover_pending.                                          *)

CallReconcile(t, a) ==
  /\ pc[t] = "idle"
  /\ Goto(t, "reconcile")
  /\ call' = [call EXCEPT ![t] = Reconcile(a)]
  /\ UNCHANGED <<durable, crashes, lock, rec, goal, queue>>

\* The snapshot of the pending intents, taken without the gateway's lock.
CallRecover(t) ==
  /\ pc[t] = "idle"
  /\ PendingCommits # {}
  /\ queue' = [queue EXCEPT ![t] = PendingCommits]
  /\ Goto(t, "recover")
  /\ UNCHANGED <<durable, crashes, lock, call, rec, goal>>

\* The next id of the snapshot, in the ledger's order.
RecoverNext(t) ==
  /\ pc[t] = "recover"
  /\ \E a \in queue[t] :
       /\ \A b \in queue[t] : a <= b
       /\ queue' = [queue EXCEPT ![t] = @ \ {a}]
       /\ call' = [call EXCEPT ![t] = Reconcile(a)]
  /\ Goto(t, "reconcile")
  /\ UNCHANGED <<durable, crashes, lock, rec, goal>>

\* Variants: the row's state is not looked at; the lock is not waited for.
ReconcileAny(t) ==
  LET row == store[call[t].id] IN
  /\ pc[t] = "reconcile"
  /\ LockFree
  /\ row # NoRow
  /\ rec' = [rec EXCEPT ![t] = row]
  /\ lock' = t
  /\ Goto(t, "lookup")
  /\ UNCHANGED <<durable, crashes, call, goal, queue>>
ReconcileUnlocked(t) ==
  LET row == store[call[t].id] IN
  /\ pc[t] = "reconcile"
  /\ row.state \in Pending
  /\ rec' = [rec EXCEPT ![t] = row]
  /\ Goto(t, "lookup")
  /\ UNCHANGED <<durable, crashes, lock, call, goal, queue>>

\* The record is read under the lock and has to be a pending one.
ReconcileStart(t) ==
  LET row == store[call[t].id] IN
  /\ pc[t] = "reconcile"
  /\ LockFree
  /\ row.state \in Pending
  /\ rec' = [rec EXCEPT ![t] = row]
  /\ lock' = t
  /\ Goto(t, "lookup")
  /\ UNCHANGED <<durable, crashes, call, goal, queue>>

ReconcileRefused(t) ==
  /\ pc[t] = "reconcile"
  /\ LockFree
  /\ store[call[t].id].state \notin Pending \/ StoreMayFail
  /\ Raise(t)
  /\ UNCHANGED <<durable, crashes>>

\* _proposal_from_record: a payload is there and has the recorded digest.
Recoverable(r) == r.payload # NoContent /\ r.payload = r.digest

\* Variant: whatever is not known to be committed is committed again.
RecommitsUnlessDone(r, outcome) == outcome # "COMMITTED" /\ r.state = "COMMITTING"

\* An intent the connector does not know is committed again; an unknown
\* outcome it does not know is over.
Recommits(r, outcome) == outcome = "NOT_COMMITTED" /\ r.state = "COMMITTING"

\* The connector is asked what became of the action id.
Lookup(t, outcome) ==
  /\ pc[t] = "lookup"
  /\ MayAnswer(call[t].id, outcome)
  /\ \/ /\ Recommits(rec[t], outcome) /\ Recoverable(rec[t])
        /\ call' = [call EXCEPT ![t].content = rec[t].payload]
        /\ Goto(t, "commit")
        /\ UNCHANGED <<lock, rec, goal, queue>>
     \/ /\ Recommits(rec[t], outcome) /\ ~Recoverable(rec[t])
        /\ Raise(t)
     \/ /\ ~Recommits(rec[t], outcome)
        /\ FinishAs(t, "finish", StateFor(outcome))
        /\ UNCHANGED <<lock, call, rec, queue>>
  /\ UNCHANGED <<durable, crashes>>

LookupRaises(t) ==
  /\ pc[t] = "lookup"
  /\ Raise(t)
  /\ UNCHANGED <<durable, crashes>>

-----------------------------------------------------------------------------
(* The process stops and a new one opens the same ledger, or a             *)
(* BaseException, which no handler catches, unwinds one call.              *)

Abandon(t) ==
  /\ crashes < MaxCrashes
  /\ pc[t] \in HeldPCs
  /\ crashes' = crashes + 1
  /\ Raise(t)
  /\ UNCHANGED durable

Crash ==
  /\ crashes < MaxCrashes
  /\ crashes' = crashes + 1
  /\ lock' = NoThread
  /\ pc' = [t \in Threads |-> "idle"]
  /\ call' = [t \in Threads |-> NoCall]
  /\ rec' = [t \in Threads |-> NoRow]
  /\ goal' = [t \in Threads |-> "ABSENT"]
  /\ queue' = [t \in Threads |-> {}]
  /\ UNCHANGED durable

-----------------------------------------------------------------------------
(* The specification.                                                      *)

\* A new ledger, or one whose legacy intents a newer program now opens; the
\* process that stored such an intent may have called commit before it stopped.
Init ==
  /\ store \in [Actions -> {NoRow} \cup {LegacyRow(c) : c \in Contents}]
  /\ \A a \in Actions : store[a] # NoRow <=> a \in LegacyActions
  /\ cleared = {[id |-> a, content |-> store[a].digest] : a \in LegacyActions}
  /\ effects \in [Actions -> Contents \cup {NoContent}]
  /\ \A a \in Actions : effects[a] \in {NoContent, store[a].digest}
  /\ inflight \in [Proposals -> {0, 1}]
  /\ \A m \in Proposals :
       inflight[m] = 1 => store[m.id].digest = m.content /\ effects[m.id] = NoContent
  /\ crashes = 0
  /\ lock = NoThread
  /\ pc = [t \in Threads |-> "idle"]
  /\ call = [t \in Threads |-> NoCall]
  /\ rec = [t \in Threads |-> NoRow]
  /\ goal = [t \in Threads |-> "ABSENT"]
  /\ queue = [t \in Threads |-> {}]

\* A new call of a client.
ClientCalls(t) ==
  \/ \E p \in Proposals : CallExecute(t, p) \/ CallResume(t, p)
  \/ \E a \in Actions : CallReconcile(t, a)

\* A step that has to get the lock, and a step of a call that has it.
Enters(t) ==
  \/ Claim(t) \/ ClaimRefused(t)
  \/ Resume(t) \/ ResumeRefused(t)
  \/ ReconcileStart(t) \/ ReconcileRefused(t)

Proceeds(t) ==
  \/ \E decision \in Decisions, approved \in BOOLEAN : Evaluate(t, decision, approved)
  \/ \E state \in Refused : EvaluateRaises(t, state) \/ BeforeConnectorRaises(t, state)
  \/ PersistIntent(t) \/ PersistIntentFails(t)
  \/ BeforeConnector(t)
  \/ CommitCalled(t)
  \/ \E outcome \in Outcomes : CommitReturns(t, outcome) \/ Lookup(t, outcome)
  \/ LookupRaises(t)
  \/ Finish(t)
  \/ \E state \in Refused : FinishFails(t, state)
  \/ RecoverNext(t)

Network == \E m \in Proposals : Apply(m) \/ Lose(m)

Next ==
  \/ \E t \in Clients : ClientCalls(t)
  \/ \E t \in Workers : CallRecover(t)
  \/ \E t \in Threads : Enters(t) \/ Proceeds(t)
  \/ Network
  \/ \E t \in Threads : Abandon(t)
  \/ Crash

Spec == Init /\ [][Next]_vars

\* A running thread keeps running and a request in flight is settled; a
\* worker runs recover_pending again whenever something is pending, gets the
\* lock in the end, and the connector is not unsure of an action for ever.
\* No client ever has to call, and nothing forces or forbids a crash.
DefiniteLookup(t) == \E outcome \in Outcomes \ {"UNKNOWN"} : Lookup(t, outcome)

Fairness ==
  /\ \A t \in Threads : WF_vars(Proceeds(t))
  /\ \A t \in Workers :
       /\ SF_vars(CallRecover(t))
       /\ SF_vars(Enters(t))
       /\ SF_vars(DefiniteLookup(t))
  /\ WF_vars(Network)

FairSpec == Spec /\ Fairness

-----------------------------------------------------------------------------
(* Properties.                                                             *)

\* Every variable has its type.
TypeOK ==
  /\ store \in [Actions -> RecordsIn(ActionStates)]
  /\ effects \in [Actions -> Contents \cup {NoContent}]
  /\ inflight \in [Proposals -> Nat]
  /\ cleared \subseteq Proposals
  /\ crashes \in 0 .. MaxCrashes
  /\ lock \in Threads \cup {NoThread}
  /\ pc \in [Threads -> FreePCs \cup HeldPCs]
  /\ call \in [Threads -> Calls]
  /\ rec \in [Threads -> RecordsIn(RecordStates)]
  /\ goal \in [Threads -> ActionStates \cup {"ABSENT"}]
  /\ queue \in [Threads -> SUBSET Actions]

\* What has reached, or may still reach, the external system.
Sent == {p \in Proposals : inflight[p] > 0 \/ effects[p.id] = p.content}

\* Complete mediation: nothing reaches the connector, from execute, from a
\* reconcile or from a recovery after a restart, that has not passed the kernel,
\* the policies and, where required, the approval.
Mediated == Sent \subseteq cleared

\* No orphan effect: whatever was sent is the content its ledger row is bound
\* to, and the row is pending or settled.  A crash, a failed write or a resumed
\* action never leaves an effect the ledger has forgotten, or an id that could
\* be claimed or resumed once more after its effect.
EffectIsOnRecord ==
  \A p \in Sent :
    /\ store[p.id].digest = p.content
    /\ store[p.id].state \in Pending \cup Settled

\* COMMITTED is never a guess: the row's own content has taken effect.
CommittedIsReal ==
  \A a \in Actions :
    store[a].state = "COMMITTED" => effects[a] = store[a].digest /\ effects[a] # NoContent

\* A refused action has no effect and never will: REJECTED and FAILED are only
\* recorded when nothing was or can still be carried out.
RefusedHasNoEffect ==
  \A a \in Actions :
    store[a].state \in Refused => effects[a] = NoContent /\ ~InFlight(a)

\* A commit is called only for an id without an effect and without a request
\* still on its way, so the gateway never leans on the connector's idempotency.
NoSecondCommit ==
  [][\A m \in Proposals :
       inflight'[m] > inflight[m] => effects[m.id] = NoContent /\ ~InFlight(m.id)]_vars

\* COMMITTED, FAILED and REJECTED are final: no late answer, recovery or retry
\* rewrites such a row.
SettledIsFinal ==
  [][\A a \in Actions : store[a].state \in Settled => store'[a] = store[a]]_vars

\* A row leaves the ledger only while it waits for approval, and a pending
\* intent never goes back to a state from which it could be dropped, whoever
\* else executes, resumes or reconciles its id.
IntentIsNeverDropped ==
  [][\A a \in Actions :
       /\ store[a].state \notin {"ABSENT", "APPROVAL_REQUIRED"} => store'[a] # NoRow
       /\ store[a].state \in Pending => store'[a].state \in Pending \cup Settled]_vars

\* The comment on resume_approved: the waiting record is removed for a proposal
\* that carries the binding the record has.
ResumeKeepsBinding ==
  [][\A a \in Actions :
       store[a] # NoRow /\ store'[a] = NoRow
         => \E t \in Threads : /\ pc[t] = "resume" /\ pc'[t] = "execute"
                               /\ call[t].id = a
                               /\ call[t].content = store[a].digest]_vars

\* Every durable commit intent is settled in the end by recovery alone.
IntentIsSettled ==
  \A a \in Actions : store[a].state \in Pending ~> store[a].state \in Settled

\* The docstring of recover_pending: it reconciles every durable intent, so an
\* intent that cannot be recovered does not keep the others from being settled.
OthersAreSettled ==
  \A a \in Actions \ LegacyActions :
    store[a].state \in Pending ~> store[a].state \in Settled

\* The gateway implements the promise: the ledger's state is the phase, the
\* recorded digest the binding.
PhaseOf(state) ==
  CASE state = "ABSENT"            -> "unbound"
    [] state = "VALIDATING"        -> "open"
    [] state = "APPROVAL_REQUIRED" -> "waiting"
    [] state \in Pending           -> "intent"
    [] state = "COMMITTED"         -> "done"
    [] state \in Refused           -> "refused"

BindingOf == [a \in Actions |-> store[a].digest]
PhaseMap  == [a \in Actions |-> PhaseOf(store[a].state)]

Promise == INSTANCE GovernedAction WITH
  binding <- BindingOf, phase <- PhaseMap, effect <- effects

KeepsPromise == Promise!Spec

=============================================================================
