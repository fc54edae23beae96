------------------------- MODULE CapsuleUsesProofs -------------------------
(***************************************************************************)
(* Proofs about CapsuleUses: the accounting of uses and the limits that    *)
(* follow from it, for any number of threads, verifiers and registries.    *)
(***************************************************************************)
EXTENDS CapsuleUses, FiniteSetTheorems, TLAPS

\* The place of a thread tells what kind of call it is in.
LEMMA PlaceOfCall ==
  ASSUME UsesInv, NEW t \in Threads
  PROVE  /\ call[t].op \in Ops
         /\ pc[t] \in {"lock", "bind"} => call[t].op = "verify"
         /\ pc[t] = "open" => call[t].op = "accept"
         /\ pc[t] # "idle" => call[t].op # "none"
<1>1. Proper(t) /\ call[t] \in Calls
  BY DEF UsesInv, CallInv, TypeOK
<1>2. call[t].op \in Ops
  BY <1>1 DEF Calls
<1> QED
  BY <1>1, <1>2 DEF Proper, Ops

\* Only threads that bind matter to what is charged, apart from the bindings.
LEMMA ChargedSame ==
  ASSUME UNCHANGED bindings, NEW d \in Capsules,
         \A u \in Threads : (pc'[u] = "bind" \/ pc[u] = "bind") => pc'[u] = pc[u] /\ call'[u] = call[u]
  PROVE  \A r \in Registries : Charged(r, d)' = Charged(r, d)
<1>1. \A v \in Verifiers, a \in Actions : BindingNow(v, a, d)' <=> BindingNow(v, a, d)
  BY DEF BindingNow
<1> QED
  BY <1>1 DEF Charged

LEMMA ChargedFrame ==
  ASSUME UsesInv, UNCHANGED bindings, NEW d \in Capsules, counts' = counts,
         \A u \in Threads : (pc'[u] = "bind" \/ pc[u] = "bind") => pc'[u] = pc[u] /\ call'[u] = call[u]
  PROVE  \A r \in Registries : counts'[r][d] = Cardinality(Charged(r, d)')
<1>1. \A r \in Registries : Charged(r, d)' = Charged(r, d)
  BY ChargedSame
<1> QED
  BY <1>1 DEF UsesInv, UsesAreAccountedFor

LEMMA ChargedFinite ==
  ASSUME NEW r \in Registries, NEW d \in Capsules
  PROVE  IsFiniteSet(Charged(r, d))
<1>1. IsFiniteSet(Verifiers \X Actions)
  BY SetsAssumption, FS_Product
<1>2. Charged(r, d) \in SUBSET (Verifiers \X Actions)
  BY DEF Charged
<1> QED
  BY <1>1, <1>2, FS_Subset

\* What a thread has read in a registry's lock stays so while that count does.
LEMMA ReadingFrame ==
  ASSUME UsesInv, NEW u \in Threads, pc[u] = "count",
         UNCHANGED <<call[u], previous[u], counts[call[u].registry][call[u].key]>>
  PROVE  /\ previous'[u] = counts'[call'[u].registry][call'[u].key]
         /\ ~Exhausted(call[u])'
<1>1. previous[u] = counts[call[u].registry][call[u].key] /\ ~Exhausted(call[u])
  BY DEF UsesInv, LockInv
<1>2. call'[u] = call[u] /\ previous'[u] = previous[u]
      /\ counts'[call[u].registry][call[u].key] = counts[call[u].registry][call[u].key]
  OBVIOUS
<1>3. Limit(call[u])' = Limit(call[u])
  BY <1>2 DEF Limit
<1> QED
  BY <1>1, <1>2, <1>3 DEF Exhausted

\* A step that is inside no lock before or after it, and changes no count,
\* binding or verifier, keeps what the locks protect.
LEMMA OutsideLocks ==
  ASSUME UsesInv, NEW t \in Threads,
         UNCHANGED <<registries, verifiers, granted>>,
         ~Spending(t), pc[t] # "count", ~Spending(t)', pc'[t] \notin {"count", "bind", "open"},
         \A u \in Threads \ {t} : pc'[u] = pc[u] /\ call'[u] = call[u]
  PROVE  LockInv' /\ NonceInv' /\ UsesAreAccountedFor'
<1>1. UNCHANGED <<counts, holder, previous, capsuleOf, nonceOf, bindings, vlock, granted>>
  BY DEF registries, verifiers
<1>2. \A u \in Threads : Spending(u)' <=> Spending(u)
  BY DEF Spending
<1>3. LockInv'
  <2>1. \A v \in Verifiers, u \in Threads :
          vlock'[v] = u <=> Spending(u)' /\ call'[u].verifier = v
    BY <1>1, <1>2 DEF UsesInv, LockInv
  <2>2. \A r \in Registries, u \in Threads :
          holder'[r] = u <=> pc'[u] = "count" /\ call'[u].registry = r
    BY <1>1 DEF UsesInv, LockInv
  <2>3. \A u \in Threads : Spending(u)' => Binding(u)' = None
    BY <1>1, <1>2 DEF UsesInv, LockInv, Binding
  <2>4. \A u \in Threads : pc'[u] = "count" =>
          /\ previous'[u] = counts'[call'[u].registry][call'[u].key]
          /\ ~Exhausted(call[u])'
    <3> SUFFICES ASSUME NEW u \in Threads, pc'[u] = "count"
                 PROVE  /\ previous'[u] = counts'[call'[u].registry][call'[u].key]
                        /\ ~Exhausted(call[u])'
      OBVIOUS
    <3>1. u # t /\ pc[u] = "count" /\ call'[u] = call[u]
      OBVIOUS
    <3> QED
      BY <1>1, <3>1, ReadingFrame
  <2> QED
    BY <2>1, <2>2, <2>3, <2>4 DEF LockInv
<1>4. NonceInv'
  BY <1>1 DEF UsesInv, NonceInv, Opening
<1>5. UsesAreAccountedFor'
  <2>1. pc[t] # "bind"
    BY PlaceOfCall DEF Spending
  <2> QED
    BY <1>1, <2>1, ChargedFrame DEF UsesAreAccountedFor
<1> QED
  BY <1>3, <1>4, <1>5

\* Such a step that is local to its thread keeps the whole invariant, if it
\* leaves the thread at a proper place.
LEMMA LocalStep ==
  ASSUME UsesInv, NEW t \in Threads, NEW c \in Calls, NEW at \in PCs,
         pc' = [pc EXCEPT ![t] = at], call' = [call EXCEPT ![t] = c],
         UNCHANGED <<registries, verifiers, history>>, Proper(t)',
         ~Spending(t), pc[t] # "count", ~Spending(t)', at \notin {"count", "bind", "open"}
  PROVE  UsesInv'
<1>1. UNCHANGED <<counts, holder, previous, capsuleOf, admits, nonceOf, bindings, vlock, passed, granted>>
  BY DEF registries, verifiers, history
<1>2. /\ pc'[t] = at /\ call'[t] = c
      /\ \A u \in Threads \ {t} : pc'[u] = pc[u] /\ call'[u] = call[u]
  BY DEF UsesInv, TypeOK
<1>3. TypeOK'
  BY <1>1 DEF UsesInv, TypeOK
<1>4. CallInv'
  <2>1. \A u \in Threads \ {t} : Proper(u)'
    BY <1>1, <1>2 DEF UsesInv, CallInv, Proper
  <2> QED
    BY <2>1 DEF CallInv
<1>5. UseInv'
  BY <1>1 DEF UsesInv, UseInv
<1>6. LockInv' /\ NonceInv' /\ UsesAreAccountedFor'
  BY <1>1, <1>2, OutsideLocks
<1> QED
  BY <1>3, <1>4, <1>5, <1>6 DEF UsesInv

LEMMA NoCallIsCall == NoCall \in Calls
BY DEF NoCall, NewCall, Calls, Ops

LEMMA CallingKeeps ==
  ASSUME UsesInv, NEW t \in Threads, Calling(t)
  PROVE  UsesInv'
<1>1. pc[t] = "idle" /\ ~Spending(t)
  BY DEF Calling, CallVerify, CallAccept, CallConsume, CallCommitCapsule, Begin, Spending
<1>2. CASE \E v \in Verifiers, a \in Actions : CallVerify(t, v, a)
  <2>1. PICK v \in Verifiers, a \in Actions : CallVerify(t, v, a)
    BY <1>2
  <2> DEFINE c == NewCall("verify", RegistryOf[v], capsuleOf[v], v, capsuleOf[v], a)
  <2>2. capsuleOf[v] \in Capsules /\ RegistryOf[v] \in Registries
    BY <2>1, ConfigurationAssumption DEF UsesInv, TypeOK, CallVerify
  <2>3. c \in Calls
    BY <2>2 DEF NewCall, Calls, Ops, Identifiers
  <2>4. Begin(t, c, "checks")
    BY <2>1 DEF CallVerify
  <2>5. pc'[t] = "checks" /\ call'[t] = c /\ UNCHANGED capsuleOf
    BY <2>4 DEF Begin, UsesInv, TypeOK, verifiers
  <2>6. Proper(t)' /\ ~Spending(t)'
    BY <2>2, <2>3, <2>5 DEF Proper, Spending, NewCall
  <2> HIDE DEF c
  <2> QED
    BY <1>1, <2>3, <2>4, <2>6, LocalStep DEF Begin, PCs
<1>3. CASE \E e \in Envelopes : CallAccept(t, e)
  <2>1. PICK e \in Envelopes : CallAccept(t, e)
    BY <1>3
  <2> DEFINE c == NewCall("accept", TransportReplay, e.nonce, None, e.capsule, e.action)
  <2>2. e.nonce \in Nonces /\ e.capsule \in Capsules /\ e.action \in Actions
        /\ TransportReplay \in Registries
    BY ConfigurationAssumption DEF Transports
  <2>3. c \in Calls
    BY <2>2 DEF NewCall, Calls, Ops, Identifiers
  <2>4. Begin(t, c, "checks")
    BY <2>1 DEF CallAccept
  <2>5. pc'[t] = "checks" /\ call'[t] = c
    BY <2>4 DEF Begin, UsesInv, TypeOK
  <2>6. Proper(t)' /\ ~Spending(t)'
    BY <2>2, <2>3, <2>5 DEF Proper, Spending, NewCall
  <2> HIDE DEF c
  <2> QED
    BY <1>1, <2>3, <2>4, <2>6, LocalStep DEF Begin, PCs
<1>4. CASE \E p \in Approvals : CallConsume(t, p)
  <2>1. PICK p \in Approvals : CallConsume(t, p)
    BY <1>4
  <2> DEFINE c == NewCall("consume", ApprovalUses, p, None, None, None)
  <2>2. c \in Calls
    BY ConfigurationAssumption DEF NewCall, Calls, Ops, Identifiers
  <2>3. Begin(t, c, "checks")
    BY <2>1 DEF CallConsume
  <2>4. pc'[t] = "checks" /\ call'[t] = c
    BY <2>3 DEF Begin, UsesInv, TypeOK
  <2>5. Proper(t)' /\ ~Spending(t)'
    BY <2>2, <2>4 DEF Proper, Spending, NewCall
  <2> HIDE DEF c
  <2> QED
    BY <1>1, <2>2, <2>3, <2>5, LocalStep DEF Begin, PCs
<1>5. CASE \E r \in Counting, d \in Capsules : CallCommitCapsule(t, r, d)
  <2>1. PICK r \in Counting, d \in Capsules : CallCommitCapsule(t, r, d)
    BY <1>5
  <2> DEFINE c == NewCall("commit_capsule", r, IdOf[d], None, d, None)
  <2>2. r \in Registries /\ IdOf[d] \in CapsuleIds
    BY ConfigurationAssumption
  <2>3. c \in Calls
    BY <2>2 DEF NewCall, Calls, Ops, Identifiers
  <2>4. Begin(t, c, "commit")
    BY <2>1 DEF CallCommitCapsule
  <2>5. pc'[t] = "commit" /\ call'[t] = c
    BY <2>4 DEF Begin, UsesInv, TypeOK
  <2>6. Proper(t)' /\ ~Spending(t)'
    BY <2>2, <2>3, <2>5 DEF Proper, Spending, NewCall
  <2> HIDE DEF c
  <2> QED
    BY <1>1, <2>3, <2>4, <2>6, LocalStep DEF Begin, PCs
<1> QED
  BY <1>2, <1>3, <1>4, <1>5 DEF Calling

\* A call that ends without having spent anything.
LEMMA EndsLocally ==
  ASSUME UsesInv, NEW t \in Threads, Return(t), pc[t] \in {"checks", "open"},
         UNCHANGED <<registries, verifiers, history>>
  PROVE  UsesInv'
<1>1. pc'[t] = "idle" /\ call'[t] = NoCall /\ ~Spending(t)
  BY DEF Return, UsesInv, TypeOK, Spending
<1>2. Proper(t)' /\ ~Spending(t)'
  BY <1>1 DEF Proper, Spending, NoCall, NewCall
<1> QED
  BY <1>1, <1>2, NoCallIsCall, LocalStep DEF Return, PCs

LEMMA ChecksPassKeeps ==
  ASSUME UsesInv, NEW t \in Threads, ChecksPass(t)
  PROVE  UsesInv'
<1> DEFINE at == IF call[t].op = "verify" THEN "lock" ELSE "commit"
<1>1. pc[t] = "checks" /\ pc' = [pc EXCEPT ![t] = at] /\ UNCHANGED <<call, registries, verifiers, history>>
  BY DEF ChecksPass, Goto
<1>2. pc'[t] = at /\ UNCHANGED capsuleOf /\ call[t] \in Calls /\ call' = [call EXCEPT ![t] = call[t]]
  BY <1>1 DEF UsesInv, TypeOK, verifiers
<1>3. Proper(t)
  BY DEF UsesInv, CallInv
<1>4. Proper(t)' /\ ~Spending(t)' /\ ~Spending(t)
  BY <1>1, <1>2, <1>3, PlaceOfCall DEF Proper, Spending, Ops
<1> QED
  BY <1>1, <1>2, <1>4, LocalStep DEF PCs

LEMMA AlreadyBoundKeeps ==
  ASSUME UsesInv, NEW t \in Threads, AlreadyBound(t)
  PROVE  UsesInv'
<1>1. /\ pc[t] = "lock" /\ ~Spending(t) /\ call[t].op = "verify"
      /\ call[t].verifier \in Verifiers /\ call[t].action \in Actions
  BY PlaceOfCall DEF AlreadyBound, Spending, UsesInv, CallInv, Proper
<1>2. /\ pc'[t] = "idle" /\ call'[t] = NoCall
      /\ \A u \in Threads \ {t} : pc'[u] = pc[u] /\ call'[u] = call[u]
      /\ UNCHANGED <<counts, holder, previous, capsuleOf, admits, nonceOf, bindings, vlock, granted>>
  BY DEF AlreadyBound, Return, UsesInv, TypeOK, registries, verifiers
<1>3. LockInv' /\ NonceInv' /\ UsesAreAccountedFor'
  <2>1. ~Spending(t)'
    BY <1>2 DEF Spending
  <2> QED
    BY <1>1, <1>2, <2>1, OutsideLocks DEF AlreadyBound
<1>4. TypeOK'
  BY <1>1, NoCallIsCall DEF UsesInv, TypeOK, AlreadyBound, Return, Pass, PCs, registries, verifiers
<1>5. CallInv'
  <2>1. Proper(t)'
    BY <1>2 DEF Proper, NoCall, NewCall
  <2>2. \A u \in Threads \ {t} : Proper(u)'
    BY <1>2 DEF UsesInv, CallInv, Proper
  <2> QED
    BY <2>1, <2>2 DEF CallInv
<1>6. UseInv'
  <2>1. \A p \in passed' : bindings[p[1]][p[2]] # None
    BY DEF UsesInv, UseInv, AlreadyBound, Pass, Binding
  <2> QED
    BY <1>2, <2>1 DEF UsesInv, UseInv
<1> QED
  BY <1>3, <1>4, <1>5, <1>6 DEF UsesInv

\* A verifier's lock is taken only while the action is unbound.
LEMMA LocksKeeps ==
  ASSUME UsesInv, NEW t \in Threads, Locks(t)
  PROVE  UsesInv'
<1> DEFINE v == call[t].verifier
<1>1. /\ pc[t] = "lock" /\ call[t].op = "verify" /\ v \in Verifiers /\ vlock[v] = None
      /\ Binding(t) = None /\ Proper(t) /\ ~Spending(t)
  BY PlaceOfCall DEF Locks, UsesInv, CallInv, Proper, Spending
<1>2. /\ pc' = [pc EXCEPT ![t] = "commit"] /\ vlock' = [vlock EXCEPT ![v] = t]
      /\ UNCHANGED <<counts, holder, previous, capsuleOf, admits, nonceOf, bindings, call, passed, granted>>
  BY DEF Locks, Goto, registries, history
<1>3. pc'[t] = "commit" /\ \A u \in Threads \ {t} : pc'[u] = pc[u]
  BY <1>2 DEF UsesInv, TypeOK
<1>4. TypeOK'
  BY <1>1, <1>2 DEF UsesInv, TypeOK, PCs
<1>5. CallInv'
  <2>1. Proper(t)'
    BY <1>1, <1>2, <1>3 DEF Proper
  <2>2. \A u \in Threads \ {t} : Proper(u)'
    BY <1>2, <1>3 DEF UsesInv, CallInv, Proper
  <2> QED
    BY <2>1, <2>2 DEF CallInv
<1>6. LockInv'
  <2>1. Spending(t)' /\ \A u \in Threads \ {t} : Spending(u)' <=> Spending(u)
    BY <1>1, <1>2, <1>3 DEF Spending
  <2>2. \A w \in Verifiers, u \in Threads : vlock'[w] = u <=> Spending(u)' /\ call'[u].verifier = w
    <3> SUFFICES ASSUME NEW w \in Verifiers, NEW u \in Threads
                 PROVE  vlock'[w] = u <=> Spending(u)' /\ call'[u].verifier = w
      OBVIOUS
    <3>1. vlock[w] = u <=> Spending(u) /\ call[u].verifier = w
      BY DEF UsesInv, LockInv
    <3>2. vlock'[w] = IF w = v THEN t ELSE vlock[w]
      BY <1>2 DEF UsesInv, TypeOK
    <3>3. vlock[v] # u
      BY <1>1, SetsAssumption
    <3> QED
      BY <1>1, <1>2, <2>1, <3>1, <3>2, <3>3
  <2>3. \A r \in Registries, u \in Threads :
          holder'[r] = u <=> pc'[u] = "count" /\ call'[u].registry = r
    BY <1>1, <1>2, <1>3 DEF UsesInv, LockInv
  <2>4. \A u \in Threads : Spending(u)' => Binding(u)' = None
    BY <1>1, <1>2, <2>1 DEF UsesInv, LockInv, Binding
  <2>5. \A u \in Threads : pc'[u] = "count" =>
          /\ previous'[u] = counts'[call'[u].registry][call'[u].key]
          /\ ~Exhausted(call[u])'
    BY <1>2, <1>3, ReadingFrame
  <2> QED
    BY <2>2, <2>3, <2>4, <2>5 DEF LockInv
<1>7. NonceInv'
  BY <1>1, <1>2, <1>3 DEF UsesInv, NonceInv, Opening
<1>8. UseInv'
  BY <1>2 DEF UsesInv, UseInv
<1>9. UsesAreAccountedFor'
  BY <1>1, <1>2, <1>3, ChargedFrame DEF UsesAreAccountedFor
<1> QED
  BY <1>4, <1>5, <1>6, <1>7, <1>8, <1>9 DEF UsesInv

\* Release frees exactly the verifier whose lock the thread held.
LEMMA ReleaseFrees ==
  ASSUME UsesInv, NEW t \in Threads, Release(t)
  PROVE  \A w \in Verifiers, u \in Threads : vlock'[w] = u <=> vlock[w] = u /\ u # t
BY SetsAssumption DEF Release

LEMMA RefusedKeeps ==
  ASSUME UsesInv, NEW t \in Threads, Refused(t)
  PROVE  UsesInv'
<1>1. pc[t] = "commit"
  BY DEF Refused
<1>2. /\ pc'[t] = "idle" /\ call'[t] = NoCall
      /\ \A u \in Threads \ {t} : pc'[u] = pc[u] /\ call'[u] = call[u]
      /\ UNCHANGED <<counts, holder, previous, capsuleOf, admits, nonceOf, bindings, passed, granted>>
  BY DEF Refused, Return, UsesInv, TypeOK, registries, history
<1>3. TypeOK'
  BY NoCallIsCall DEF UsesInv, TypeOK, Refused, Return, Release, PCs, registries, history
<1>4. CallInv'
  <2>1. Proper(t)'
    BY <1>2 DEF Proper, NoCall, NewCall
  <2>2. \A u \in Threads \ {t} : Proper(u)'
    BY <1>2 DEF UsesInv, CallInv, Proper
  <2> QED
    BY <2>1, <2>2 DEF CallInv
<1>5. LockInv'
  <2>1. ~Spending(t)' /\ \A u \in Threads \ {t} : Spending(u)' <=> Spending(u)
    BY <1>2 DEF Spending
  <2>2. \A w \in Verifiers, u \in Threads : vlock'[w] = u <=> Spending(u)' /\ call'[u].verifier = w
    BY <1>2, <2>1, ReleaseFrees DEF UsesInv, LockInv, Refused
  <2>3. \A r \in Registries, u \in Threads :
          holder'[r] = u <=> pc'[u] = "count" /\ call'[u].registry = r
    BY <1>1, <1>2 DEF UsesInv, LockInv
  <2>4. \A u \in Threads : Spending(u)' => Binding(u)' = None
    BY <1>2, <2>1 DEF UsesInv, LockInv, Binding
  <2>5. \A u \in Threads : pc'[u] = "count" =>
          /\ previous'[u] = counts'[call'[u].registry][call'[u].key]
          /\ ~Exhausted(call[u])'
    BY <1>2, ReadingFrame
  <2> QED
    BY <2>2, <2>3, <2>4, <2>5 DEF LockInv
<1>6. NonceInv'
  BY <1>2 DEF UsesInv, NonceInv, Opening
<1>7. UseInv'
  BY <1>2 DEF UsesInv, UseInv
<1>8. UsesAreAccountedFor'
  BY <1>1, <1>2, ChargedFrame DEF UsesAreAccountedFor
<1> QED
  BY <1>3, <1>4, <1>5, <1>6, <1>7, <1>8 DEF UsesInv

\* What a thread reads inside a registry's lock is the count it is about to raise.
LEMMA CommitStartsKeeps ==
  ASSUME UsesInv, NEW t \in Threads, CommitStarts(t)
  PROVE  UsesInv'
<1> DEFINE r == call[t].registry
<1>1. /\ pc[t] = "commit" /\ holder[r] = None /\ ~Exhausted(call[t]) /\ Proper(t)
      /\ r \in Registries /\ call[t].key \in Identifiers
  BY PlaceOfCall, ConfigurationAssumption
     DEF CommitStarts, UsesInv, CallInv, Proper, Identifiers, Ops
<1>2. /\ pc' = [pc EXCEPT ![t] = "count"] /\ holder' = [holder EXCEPT ![r] = t]
      /\ previous' = [previous EXCEPT ![t] = counts[r][call[t].key]]
      /\ UNCHANGED <<counts, capsuleOf, admits, nonceOf, bindings, vlock, call, passed, granted>>
  BY DEF CommitStarts, Goto, verifiers, history
<1>3. /\ pc'[t] = "count" /\ previous'[t] = counts[r][call[t].key]
      /\ \A u \in Threads \ {t} : pc'[u] = pc[u] /\ previous'[u] = previous[u]
  BY <1>2 DEF UsesInv, TypeOK
<1>4. TypeOK'
  <2>1. counts[r][call[t].key] \in Nat
    BY <1>1 DEF UsesInv, TypeOK
  <2> QED
    BY <1>2, <2>1 DEF UsesInv, TypeOK, PCs
<1>5. CallInv'
  <2>1. Proper(t)'
    BY <1>1, <1>2, <1>3 DEF Proper
  <2>2. \A u \in Threads \ {t} : Proper(u)'
    BY <1>2, <1>3 DEF UsesInv, CallInv, Proper
  <2> QED
    BY <2>1, <2>2 DEF CallInv
<1>6. LockInv'
  <2>1. \A u \in Threads : Spending(u)' <=> Spending(u)
    BY <1>1, <1>2, <1>3 DEF Spending
  <2>2. \A w \in Verifiers, u \in Threads : vlock'[w] = u <=> Spending(u)' /\ call'[u].verifier = w
    BY <1>2, <2>1 DEF UsesInv, LockInv
  <2>3. \A q \in Registries, u \in Threads :
          holder'[q] = u <=> pc'[u] = "count" /\ call'[u].registry = q
    <3> SUFFICES ASSUME NEW q \in Registries, NEW u \in Threads
                 PROVE  holder'[q] = u <=> pc'[u] = "count" /\ call'[u].registry = q
      OBVIOUS
    <3>1. holder[q] = u <=> pc[u] = "count" /\ call[u].registry = q
      BY DEF UsesInv, LockInv
    <3>2. holder'[q] = IF q = r THEN t ELSE holder[q]
      BY <1>2 DEF UsesInv, TypeOK
    <3>3. holder[r] # u
      BY <1>1, SetsAssumption
    <3> QED
      BY <1>1, <1>2, <1>3, <3>1, <3>2, <3>3
  <2>4. \A u \in Threads : Spending(u)' => Binding(u)' = None
    BY <1>2, <2>1 DEF UsesInv, LockInv, Binding
  <2>5. \A u \in Threads : pc'[u] = "count" =>
          /\ previous'[u] = counts'[call'[u].registry][call'[u].key]
          /\ ~Exhausted(call[u])'
    <3> SUFFICES ASSUME NEW u \in Threads, pc'[u] = "count"
                 PROVE  /\ previous'[u] = counts'[call'[u].registry][call'[u].key]
                        /\ ~Exhausted(call[u])'
      OBVIOUS
    <3>1. CASE u = t
      <4>1. Limit(call[t])' = Limit(call[t])
        BY <1>2 DEF Limit
      <4> QED
        BY <1>1, <1>2, <1>3, <3>1, <4>1 DEF Exhausted
    <3>2. CASE u # t
      BY <1>2, <1>3, <3>2, ReadingFrame
    <3> QED
      BY <3>1, <3>2
  <2> QED
    BY <2>2, <2>3, <2>4, <2>5 DEF LockInv
<1>7. NonceInv'
  BY <1>1, <1>2, <1>3 DEF UsesInv, NonceInv, Opening
<1>8. UseInv'
  BY <1>2 DEF UsesInv, UseInv
<1>9. UsesAreAccountedFor'
  BY <1>1, <1>2, <1>3, ChargedFrame DEF UsesAreAccountedFor
<1> QED
  BY <1>4, <1>5, <1>6, <1>7, <1>8, <1>9 DEF UsesInv

\* The write of a count raises it by one, and no other thread's reading is of
\* that registry.
LEMMA CommitEndsCounts ==
  ASSUME UsesInv, NEW t \in Threads, CommitEnds(t)
  PROVE  LET r == call[t].registry
             k == call[t].key
         IN  /\ pc[t] = "count" /\ Proper(t) /\ r \in Registries /\ k \in Identifiers
             /\ counts[r][k] \in Nat /\ counts'[r][k] = counts[r][k] + 1
             /\ Limit(call[t]) = None \/ counts[r][k] < Limit(call[t])
             /\ \A q \in Registries, j \in Identifiers :
                  q # r \/ j # k => counts'[q][j] = counts[q][j]
             /\ \A u \in Threads : pc[u] = "count" /\ call[u].registry = r => u = t
<1> DEFINE r == call[t].registry
           k == call[t].key
<1>1. pc[t] = "count" /\ Proper(t) /\ r \in Registries /\ k \in Identifiers
  BY PlaceOfCall, ConfigurationAssumption
     DEF CommitEnds, UsesInv, CallInv, Proper, Identifiers, Ops
<1>2. previous[t] = counts[r][k] /\ ~Exhausted(call[t])
  BY <1>1 DEF UsesInv, LockInv
<1>3. counts[r][k] \in Nat
  BY <1>1 DEF UsesInv, TypeOK
<1>4. /\ counts'[r][k] = counts[r][k] + 1
      /\ \A q \in Registries, j \in Identifiers : q # r \/ j # k => counts'[q][j] = counts[q][j]
  BY <1>1, <1>2 DEF UsesInv, TypeOK, CommitEnds
<1>5. Limit(call[t]) = None \/ counts[r][k] < Limit(call[t])
  <2>1. Limit(call[t]) \in Nat \cup {None}
    BY <1>1, ConfigurationAssumption, PlaceOfCall
       DEF Limit, VerifierLimit, CapsuleLimit, Proper, Ops
  <2> QED
    BY <1>2, <1>3, <2>1 DEF Exhausted
<1>6. \A u \in Threads : pc[u] = "count" /\ call[u].registry = r => u = t
  BY <1>1 DEF UsesInv, LockInv
<1> QED
  BY <1>1, <1>3, <1>4, <1>5, <1>6

\* Where the thread goes next, and what else changes.
LEMMA CommitEndsMoves ==
  ASSUME UsesInv, NEW t \in Threads, CommitEnds(t)
  PROVE  /\ \A u \in Threads \ {t} : /\ pc'[u] = pc[u] /\ call'[u] = call[u]
                                     /\ previous'[u] = previous[u]
         /\ UNCHANGED <<capsuleOf, admits, nonceOf, bindings, vlock, passed>>
         /\ \/ call[t].op = "verify" /\ pc'[t] = "bind" /\ call'[t] = call[t] /\ UNCHANGED granted
            \/ call[t].op = "accept" /\ pc'[t] = "open" /\ call'[t] = call[t] /\ UNCHANGED granted
            \/ /\ call[t].op = "consume" /\ pc'[t] = "idle" /\ call'[t] = NoCall
               /\ granted' = [granted EXCEPT ![call[t].key] = @ + 1]
            \/ call[t].op = "commit_capsule" /\ pc'[t] = "idle" /\ call'[t] = NoCall /\ UNCHANGED granted
<1>1. call[t].op \in {"verify", "accept", "consume", "commit_capsule"}
  BY PlaceOfCall DEF CommitEnds, Ops
<1>2. UNCHANGED <<capsuleOf, admits, nonceOf, bindings, vlock, passed>>
  BY DEF CommitEnds, verifiers
<1>3. \A u \in Threads \ {t} : previous'[u] = previous[u]
  BY DEF CommitEnds, UsesInv, TypeOK
<1>4. CASE call[t].op = "verify"
  BY <1>2, <1>3, <1>4 DEF CommitEnds, Goto, UsesInv, TypeOK
<1>5. CASE call[t].op = "accept"
  BY <1>2, <1>3, <1>5 DEF CommitEnds, Goto, UsesInv, TypeOK
<1>6. CASE call[t].op = "consume"
  BY <1>2, <1>3, <1>6 DEF CommitEnds, Return, UsesInv, TypeOK
<1>7. CASE call[t].op = "commit_capsule"
  BY <1>2, <1>3, <1>7 DEF CommitEnds, Return, UsesInv, TypeOK
<1> QED
  BY <1>1, <1>4, <1>5, <1>6, <1>7

LEMMA CommitEndsLocal ==
  ASSUME UsesInv, NEW t \in Threads, CommitEnds(t)
  PROVE  TypeOK' /\ CallInv' /\ LockInv'
<1> DEFINE r == call[t].registry
           k == call[t].key
<1> USE CommitEndsMoves, CommitEndsCounts
<1>1. TypeOK'
  <2>1. counts' \in [Registries -> [Identifiers -> Nat]]
    <3>1. previous[t] + 1 \in Nat
      BY DEF UsesInv, TypeOK
    <3>2. counts' = [counts EXCEPT ![r][k] = previous[t] + 1]
      BY DEF CommitEnds
    <3> HIDE CommitEndsMoves, CommitEndsCounts
    <3> QED
      BY <3>1, <3>2 DEF UsesInv, TypeOK
  <2>2. /\ holder' \in [Registries -> Threads \cup {None}]
        /\ previous' \in [Threads -> Nat]
    BY DEF UsesInv, TypeOK, CommitEnds
  <2>3. /\ pc' \in {[pc EXCEPT ![t] = "bind"], [pc EXCEPT ![t] = "open"], [pc EXCEPT ![t] = "idle"]}
        /\ call' \in {call, [call EXCEPT ![t] = NoCall]}
        /\ granted' \in {granted, [granted EXCEPT ![k] = @ + 1]}
    <3>1. call[t].op \in {"verify", "accept", "consume", "commit_capsule"}
      OBVIOUS
    <3> HIDE CommitEndsMoves, CommitEndsCounts
    <3> QED
      BY <3>1 DEF CommitEnds, Goto, Return
  <2>4. pc' \in [Threads -> PCs] /\ call' \in [Threads -> Calls]
    <3> HIDE CommitEndsMoves, CommitEndsCounts
    <3>1. pc' \in [Threads -> PCs]
      BY <2>3 DEF UsesInv, TypeOK, PCs
    <3>2. call' \in [Threads -> Calls]
      BY <2>3, NoCallIsCall DEF UsesInv, TypeOK
    <3> QED
      BY <3>1, <3>2
  <2>5. granted' \in [Approvals -> Nat]
    BY <2>3 DEF UsesInv, TypeOK
  <2> QED
    BY <2>1, <2>2, <2>4, <2>5 DEF UsesInv, TypeOK
<1>2. CallInv'
  <2>1. Proper(t)'
    BY DEF Proper, NoCall, NewCall
  <2>2. \A u \in Threads \ {t} : Proper(u)'
    BY DEF UsesInv, CallInv, Proper
  <2> QED
    BY <2>1, <2>2 DEF CallInv
<1>3. LockInv'
  <2>1. \A u \in Threads : /\ Spending(u)' <=> Spending(u)
                           /\ Spending(u) => call'[u] = call[u]
    BY DEF Spending, NoCall, NewCall
  <2>2. \A w \in Verifiers, u \in Threads : vlock'[w] = u <=> Spending(u)' /\ call'[u].verifier = w
    BY <2>1 DEF UsesInv, LockInv
  <2>3. \A q \in Registries, u \in Threads :
          holder'[q] = u <=> pc'[u] = "count" /\ call'[u].registry = q
    <3> SUFFICES ASSUME NEW q \in Registries, NEW u \in Threads
                 PROVE  holder'[q] = u <=> pc'[u] = "count" /\ call'[u].registry = q
      OBVIOUS
    <3>1. holder[q] = u <=> pc[u] = "count" /\ call[u].registry = q
      BY DEF UsesInv, LockInv
    <3>2. holder'[q] = IF q = r THEN None ELSE holder[q]
      <4>1. holder' = [holder EXCEPT ![r] = None]
        BY DEF CommitEnds
      <4> HIDE CommitEndsMoves, CommitEndsCounts
      <4> QED
        BY <4>1 DEF UsesInv, TypeOK
    <3>3. u # None
      BY SetsAssumption
    <3> QED
      BY <3>1, <3>2, <3>3
  <2>4. \A u \in Threads : Spending(u)' => Binding(u)' = None
    BY <2>1 DEF UsesInv, LockInv, Binding
  <2>5. \A u \in Threads : pc'[u] = "count" =>
          /\ previous'[u] = counts'[call'[u].registry][call'[u].key]
          /\ ~Exhausted(call[u])'
    <3> SUFFICES ASSUME NEW u \in Threads, pc'[u] = "count"
                 PROVE  /\ previous'[u] = counts'[call'[u].registry][call'[u].key]
                        /\ ~Exhausted(call[u])'
      OBVIOUS
    <3>1. u # t /\ pc[u] = "count" /\ call'[u] = call[u] /\ previous'[u] = previous[u]
      OBVIOUS
    <3>2. call[u].registry # r
      BY <3>1
    <3>3. counts' = [counts EXCEPT ![r][k] = previous[t] + 1]
      BY DEF CommitEnds
    <3>4. counts'[call[u].registry] = counts[call[u].registry]
      <4> HIDE CommitEndsMoves, CommitEndsCounts
      <4> QED
        BY <3>2, <3>3 DEF UsesInv, TypeOK
    <3> QED
      BY <3>1, <3>4, ReadingFrame
  <2> QED
    BY <2>2, <2>3, <2>4, <2>5 DEF LockInv
<1> QED
  BY <1>1, <1>2, <1>3

\* Counts of the four kinds of identifier never meet, because the identifiers
\* do not.
LEMMA CommitEndsUses ==
  ASSUME UsesInv, NEW t \in Threads, CommitEnds(t)
  PROVE  UseInv' /\ NonceInv'
<1> DEFINE r == call[t].registry
           k == call[t].key
<1> USE CommitEndsMoves, CommitEndsCounts
<1>1. UseInv'
  <2>1. \A q \in Registries, d \in Capsules : counts'[q][d] <= VerifierLimit(d)
    <3> SUFFICES ASSUME NEW q \in Registries, NEW d \in Capsules
                 PROVE  counts'[q][d] <= VerifierLimit(d)
      OBVIOUS
    <3>1. counts[q][d] <= VerifierLimit(d)
      BY DEF UsesInv, UseInv
    <3>2. CASE q = r /\ d = k
      <4>1. call[t].op = "verify" /\ call[t].capsule = d
        BY <3>2, SetsAssumption DEF Proper
      <4>2. Limit(call[t]) = VerifierLimit(d) /\ VerifierLimit(d) \in Nat
        BY <4>1, ConfigurationAssumption DEF Limit, VerifierLimit
      <4> QED
        BY <3>2, <4>2, SetsAssumption
    <3>3. CASE ~(q = r /\ d = k)
      BY <3>1, <3>3 DEF Identifiers
    <3> QED
      BY <3>2, <3>3
  <2>2. \A p \in Approvals : granted'[p] = counts'[ApprovalUses][p] /\ granted'[p] <= MaxUses[p]
    <3> SUFFICES ASSUME NEW p \in Approvals
                 PROVE  granted'[p] = counts'[ApprovalUses][p] /\ granted'[p] <= MaxUses[p]
      OBVIOUS
    <3>1. /\ granted[p] = counts[ApprovalUses][p] /\ granted[p] <= MaxUses[p]
          /\ ApprovalUses \in Registries /\ p \in Identifiers
      BY ConfigurationAssumption DEF UsesInv, UseInv, Identifiers
    <3>2. CASE k = p
      <4>1. call[t].op = "consume" /\ r = ApprovalUses
        BY <3>2, SetsAssumption DEF Proper
      <4>2. Limit(call[t]) = MaxUses[p] /\ MaxUses[p] \in Nat
        BY <3>2, <4>1, ConfigurationAssumption DEF Limit
      <4>3. granted'[p] = granted[p] + 1
        BY <3>2, <4>1 DEF UsesInv, TypeOK
      <4> QED
        BY <3>1, <3>2, <4>1, <4>2, <4>3, SetsAssumption
    <3>3. CASE k # p
      <4>1. granted' = granted \/ granted' = [granted EXCEPT ![k] = @ + 1]
        OBVIOUS
      <4>2. granted'[p] = granted[p]
        <5> HIDE CommitEndsMoves, CommitEndsCounts
        <5>1. granted \in [Approvals -> Nat]
          BY DEF UsesInv, TypeOK
        <5> QED
          BY <3>3, <4>1, <5>1
      <4> QED
        BY <3>1, <3>3, <4>2
    <3> QED
      BY <3>2, <3>3
  <2> QED
    BY <2>1, <2>2 DEF UsesInv, UseInv
<1>2. NonceInv'
  <2> SUFFICES ASSUME NEW n \in Nonces
               PROVE  /\ counts'[TransportReplay][n] <= 1
                      /\ counts'[TransportReplay][n] = 0 =>
                           /\ \A u \in Threads : ~Opening(u, n)'
                           /\ \A v \in Verifiers : nonceOf'[v] # n
                      /\ \A u, w \in Threads : Opening(u, n)' /\ Opening(w, n)' => u = w
                      /\ \A u \in Threads, v \in Verifiers : Opening(u, n)' => nonceOf'[v] # n
                      /\ \A v, w \in Verifiers : nonceOf'[v] = n /\ nonceOf'[w] = n => v = w
    BY DEF NonceInv
  <2>1. TransportReplay \in Registries /\ n \in Identifiers /\ counts[TransportReplay][n] \in Nat
    BY ConfigurationAssumption DEF Identifiers, UsesInv, TypeOK
  <2>2. CASE k = n
    <3>1. call[t].op = "accept" /\ r = TransportReplay
      BY <2>2, SetsAssumption DEF Proper
    <3>2. counts[TransportReplay][n] = 0 /\ counts'[TransportReplay][n] = 1
      BY <2>1, <2>2, <3>1, SetsAssumption DEF Limit
    <3>3. \A u \in Threads \ {t} : ~Opening(u, n)'
      BY <3>2 DEF UsesInv, NonceInv, Opening
    <3> QED
      BY <3>2, <3>3 DEF UsesInv, NonceInv
  <2>3. CASE k # n
    <3>1. counts'[TransportReplay][n] = counts[TransportReplay][n]
      BY <2>1, <2>3
    <3>2. \A u \in Threads : Opening(u, n)' => Opening(u, n)
      BY <2>3 DEF Opening
    <3> QED
      BY <3>1, <3>2 DEF UsesInv, NonceInv
  <2> QED
    BY <2>2, <2>3
<1> QED
  BY <1>1, <1>2

\* A use is spent for one more action: not one that is bound already, because
\* the verifier's lock has been held since that was checked, and not one that
\* another thread is about to bind, because that thread would hold the lock.
LEMMA CommitEndsCharges ==
  ASSUME UsesInv, NEW t \in Threads, CommitEnds(t)
  PROVE  UsesAreAccountedFor'
<1> DEFINE r == call[t].registry
           k == call[t].key
           v == call[t].verifier
           a == call[t].action
<1>1. /\ pc[t] = "count" /\ Proper(t) /\ r \in Registries /\ k \in Identifiers
      /\ counts'[r][k] = counts[r][k] + 1
      /\ \A q \in Registries, j \in Identifiers : q # r \/ j # k => counts'[q][j] = counts[q][j]
  BY CommitEndsCounts
<1>2. /\ \A u \in Threads \ {t} : pc'[u] = pc[u] /\ call'[u] = call[u]
      /\ UNCHANGED bindings
      /\ pc'[t] = "bind" => call[t].op = "verify" /\ call'[t] = call[t]
      /\ call[t].op = "verify" => pc'[t] = "bind" /\ call'[t] = call[t]
  BY CommitEndsMoves
<1> SUFFICES ASSUME NEW q \in Registries, NEW d \in Capsules
             PROVE  counts'[q][d] = Cardinality(Charged(q, d)')
  BY DEF UsesAreAccountedFor
<1>3. counts[q][d] = Cardinality(Charged(q, d)) /\ d \in Identifiers
  BY DEF UsesInv, UsesAreAccountedFor, Identifiers
<1>4. CASE call[t].op # "verify"
  <2>1. d # k
    BY <1>1, <1>4, PlaceOfCall, SetsAssumption DEF Proper, Ops
  <2>2. Charged(q, d)' = Charged(q, d)
    BY <1>1, <1>2, <1>4, ChargedSame
  <2> QED
    BY <1>1, <1>3, <2>1, <2>2
<1>5. CASE call[t].op = "verify"
  <2>1. /\ v \in Verifiers /\ a \in Actions /\ k = call[t].capsule /\ k \in Capsules
        /\ r = RegistryOf[v] /\ Spending(t) /\ bindings[v][a] = None
    BY <1>1, <1>5 DEF Proper, Spending, UsesInv, LockInv, Binding
  <2>2. \A w \in Verifiers, b \in Actions :
          BindingNow(w, b, d)' <=> BindingNow(w, b, d) \/ (w = v /\ b = a /\ d = k)
    BY <1>1, <1>2, <1>5, <2>1 DEF BindingNow
  <2>3. CASE q = r /\ d = k
    <3>1. Charged(q, d)' = Charged(q, d) \cup {<<v, a>>}
      BY <1>2, <2>1, <2>2, <2>3 DEF Charged
    <3>2. <<v, a>> \notin Charged(q, d)
      <4>1. \A u \in Threads : pc[u] = "bind" /\ call[u].verifier = v => u = t
        BY <2>1, PlaceOfCall DEF UsesInv, LockInv, Spending
      <4>2. ~BindingNow(v, a, d)
        BY <1>1, <4>1 DEF BindingNow
      <4>3. bindings[v][a] # d
        BY <2>1, SetsAssumption DEF Identifiers
      <4> QED
        BY <4>2, <4>3 DEF Charged
    <3>3. Cardinality(Charged(q, d) \cup {<<v, a>>}) = Cardinality(Charged(q, d)) + 1
      BY <3>2, ChargedFinite, FS_AddElement
    <3> QED
      BY <1>1, <1>3, <2>3, <3>1, <3>3
  <2>4. CASE ~(q = r /\ d = k)
    <3>1. Charged(q, d)' = Charged(q, d)
      BY <1>2, <2>1, <2>2, <2>4 DEF Charged
    <3> QED
      BY <1>1, <1>3, <2>4, <3>1
  <2> QED
    BY <2>3, <2>4
<1> QED
  BY <1>4, <1>5

\* The use that was spent becomes the binding it was spent for.
LEMMA BindsKeeps ==
  ASSUME UsesInv, NEW t \in Threads, Binds(t)
  PROVE  UsesInv'
<1> DEFINE v == call[t].verifier
           a == call[t].action
           k == call[t].capsule
<1>1. /\ pc[t] = "bind" /\ call[t].op = "verify" /\ Spending(t) /\ Proper(t)
      /\ v \in Verifiers /\ a \in Actions /\ k \in Capsules /\ k = capsuleOf[v]
      /\ bindings[v][a] = None /\ vlock[v] = t
  BY PlaceOfCall DEF Binds, UsesInv, CallInv, Proper, LockInv, Spending, Binding
<1>2. /\ pc'[t] = "idle" /\ call'[t] = NoCall
      /\ \A u \in Threads \ {t} : pc'[u] = pc[u] /\ call'[u] = call[u]
      /\ UNCHANGED <<counts, holder, previous, capsuleOf, admits, nonceOf, granted>>
  BY DEF Binds, Return, UsesInv, TypeOK, registries
<1>3. /\ bindings'[v][a] = k
      /\ \A w \in Verifiers, b \in Actions : w # v \/ b # a => bindings'[w][b] = bindings[w][b]
      /\ passed' = passed \cup {<<v, a>>}
  BY <1>1 DEF Binds, Pass, UsesInv, TypeOK
<1>4. \A u \in Threads \ {t} : Spending(u) => call[u].verifier # v
  BY <1>1 DEF UsesInv, LockInv
<1>5. TypeOK'
  <2>1. bindings' \in [Verifiers -> [Actions -> Capsules \cup {None}]]
    BY <1>1 DEF Binds, UsesInv, TypeOK
  <2>2. vlock' \in [Verifiers -> Threads \cup {None}]
    BY DEF Binds, Release, UsesInv, TypeOK
  <2>3. pc' \in [Threads -> PCs] /\ call' \in [Threads -> Calls]
    BY NoCallIsCall DEF Binds, Return, UsesInv, TypeOK, PCs
  <2>4. passed' \subseteq Verifiers \X Actions
    BY <1>1, <1>3 DEF UsesInv, TypeOK
  <2> QED
    BY <1>2, <2>1, <2>2, <2>3, <2>4 DEF UsesInv, TypeOK
<1>6. CallInv'
  <2>1. Proper(t)'
    BY <1>2 DEF Proper, NoCall, NewCall
  <2>2. \A u \in Threads \ {t} : Proper(u)'
    BY <1>2 DEF UsesInv, CallInv, Proper
  <2> QED
    BY <2>1, <2>2 DEF CallInv
<1>7. LockInv'
  <2>1. ~Spending(t)' /\ \A u \in Threads \ {t} : Spending(u)' <=> Spending(u)
    BY <1>2 DEF Spending
  <2>2. \A w \in Verifiers, u \in Threads : vlock'[w] = u <=> Spending(u)' /\ call'[u].verifier = w
    BY <1>2, <2>1, ReleaseFrees DEF UsesInv, LockInv, Binds
  <2>3. \A r \in Registries, u \in Threads :
          holder'[r] = u <=> pc'[u] = "count" /\ call'[u].registry = r
    BY <1>1, <1>2 DEF UsesInv, LockInv
  <2>4. \A u \in Threads : Spending(u)' => Binding(u)' = None
    <3> SUFFICES ASSUME NEW u \in Threads, Spending(u)' PROVE Binding(u)' = None
      OBVIOUS
    <3>1. u # t /\ Spending(u) /\ call'[u] = call[u] /\ call[u].verifier # v
      BY <1>2, <1>4, <2>1
    <3>2. call[u].verifier \in Verifiers /\ call[u].action \in Actions /\ Binding(u) = None
      BY <3>1 DEF UsesInv, LockInv, CallInv, Proper, Spending
    <3> QED
      BY <1>3, <3>1, <3>2 DEF Binding
  <2>5. \A u \in Threads : pc'[u] = "count" =>
          /\ previous'[u] = counts'[call'[u].registry][call'[u].key]
          /\ ~Exhausted(call[u])'
    BY <1>2, ReadingFrame
  <2> QED
    BY <2>2, <2>3, <2>4, <2>5 DEF LockInv
<1>8. NonceInv'
  BY <1>2 DEF UsesInv, NonceInv, Opening
<1>9. UseInv'
  <2>1. \A w \in Verifiers, b \in Actions : bindings'[w][b] \in {None, capsuleOf'[w]}
    BY <1>1, <1>2, <1>3 DEF UsesInv, UseInv
  <2>2. \A p \in passed' : bindings'[p[1]][p[2]] # None
    <3>1. k # None
      BY <1>1, SetsAssumption DEF Identifiers
    <3>2. \A p \in passed : p[1] \in Verifiers /\ p[2] \in Actions /\ p = <<p[1], p[2]>>
      BY DEF UsesInv, TypeOK
    <3> QED
      BY <1>3, <3>1, <3>2 DEF UsesInv, UseInv
  <2> QED
    BY <1>2, <2>1, <2>2 DEF UsesInv, UseInv
<1>10. UsesAreAccountedFor'
  <2> SUFFICES ASSUME NEW r \in Registries, NEW d \in Capsules
               PROVE  counts'[r][d] = Cardinality(Charged(r, d)')
    BY DEF UsesAreAccountedFor
  <2>1. \A w \in Verifiers, b \in Actions :
          bindings'[w][b] = d \/ BindingNow(w, b, d)' <=> bindings[w][b] = d \/ BindingNow(w, b, d)
    <3> SUFFICES ASSUME NEW w \in Verifiers, NEW b \in Actions
                 PROVE  bindings'[w][b] = d \/ BindingNow(w, b, d)' <=> bindings[w][b] = d \/ BindingNow(w, b, d)
      OBVIOUS
    <3>1. d # None
      BY SetsAssumption DEF Identifiers
    <3>2. CASE w = v /\ b = a
      <4>1. bindings'[w][b] = k /\ bindings[w][b] = None
        BY <1>1, <1>3, <3>2
      <4>2. BindingNow(w, b, d) <=> d = k
        BY <1>1, <1>4, <3>2, PlaceOfCall DEF BindingNow, Spending
      <4>3. ~BindingNow(w, b, d)'
        BY <1>2, <1>4, <3>2, PlaceOfCall DEF BindingNow, Spending
      <4> QED
        BY <3>1, <4>1, <4>2, <4>3
    <3>3. CASE ~(w = v /\ b = a)
      <4>1. bindings'[w][b] = bindings[w][b]
        BY <1>3, <3>3
      <4>2. BindingNow(w, b, d)' <=> BindingNow(w, b, d)
        BY <1>1, <1>2, <3>3 DEF BindingNow
      <4> QED
        BY <4>1, <4>2
    <3> QED
      BY <3>2, <3>3
  <2>2. Charged(r, d)' = Charged(r, d)
    BY <2>1 DEF Charged
  <2> QED
    BY <1>2, <2>2 DEF UsesInv, UsesAreAccountedFor
<1> QED
  BY <1>5, <1>6, <1>7, <1>8, <1>9, <1>10 DEF UsesInv

\* A transport is opened with a verifier that nobody has used before.
LEMMA OpensKeeps ==
  ASSUME UsesInv, NEW t \in Threads, NEW v \in Boundary, Opens(t, v)
  PROVE  UsesInv'
<1> DEFINE n == call[t].key
<1>1. /\ pc[t] = "open" /\ ~Spending(t) /\ v \in Verifiers /\ capsuleOf[v] = None
      /\ call[t].op = "accept" /\ n \in Nonces
      /\ call[t].capsule \in Capsules /\ call[t].action \in Actions
  BY PlaceOfCall, SetsAssumption DEF Opens, Unbuilt, UsesInv, CallInv, Proper, Spending
<1>2. /\ pc'[t] = "idle" /\ call'[t] = NoCall
      /\ \A u \in Threads \ {t} : pc'[u] = pc[u] /\ call'[u] = call[u]
      /\ nonceOf'[v] = n /\ \A w \in Verifiers \ {v} : nonceOf'[w] = nonceOf[w] /\ capsuleOf'[w] = capsuleOf[w]
      /\ UNCHANGED <<counts, holder, previous, bindings, vlock, passed, granted>>
  BY <1>1 DEF Opens, Return, UsesInv, TypeOK, registries, history
<1>3. TypeOK'
  <2>1. /\ capsuleOf' \in [Verifiers -> Capsules \cup {None}]
        /\ admits' \in [Verifiers -> SUBSET Actions]
        /\ nonceOf' \in [Verifiers -> Nonces \cup {None}]
    BY <1>1 DEF Opens, UsesInv, TypeOK
  <2>2. pc' \in [Threads -> PCs] /\ call' \in [Threads -> Calls]
    BY NoCallIsCall DEF Opens, Return, UsesInv, TypeOK, PCs
  <2> QED
    BY <1>2, <2>1, <2>2 DEF UsesInv, TypeOK
<1>4. CallInv'
  <2>1. Proper(t)'
    BY <1>2 DEF Proper, NoCall, NewCall
  <2>2. ASSUME NEW u \in Threads \ {t} PROVE Proper(u)'
    <3>1. call[u].op = "verify" => call[u].verifier \in Verifiers \ {v}
      BY <1>1, SetsAssumption DEF UsesInv, CallInv, Proper, Identifiers
    <3> QED
      BY <1>2, <3>1 DEF UsesInv, CallInv, Proper
  <2> QED
    BY <2>1, <2>2 DEF CallInv
<1>5. LockInv'
  <2>1. \A u \in Threads : Spending(u)' <=> Spending(u)
    BY <1>1, <1>2 DEF Spending, NoCall, NewCall
  <2>2. \A w \in Verifiers, u \in Threads : vlock'[w] = u <=> Spending(u)' /\ call'[u].verifier = w
    BY <1>1, <1>2, <2>1 DEF UsesInv, LockInv
  <2>3. \A r \in Registries, u \in Threads :
          holder'[r] = u <=> pc'[u] = "count" /\ call'[u].registry = r
    BY <1>1, <1>2 DEF UsesInv, LockInv
  <2>4. \A u \in Threads : Spending(u)' => Binding(u)' = None
    BY <1>1, <1>2, <2>1 DEF UsesInv, LockInv, Binding
  <2>5. \A u \in Threads : pc'[u] = "count" =>
          /\ previous'[u] = counts'[call'[u].registry][call'[u].key]
          /\ ~Exhausted(call[u])'
    BY <1>2, ReadingFrame
  <2> QED
    BY <2>2, <2>3, <2>4, <2>5 DEF LockInv
<1>6. NonceInv'
  <2>1. Opening(t, n) /\ ~Opening(t, n)'
    BY <1>1, <1>2 DEF Opening
  <2>2. \A m \in Nonces, u \in Threads : Opening(u, m)' => u # t /\ Opening(u, m)
    BY <1>2 DEF Opening
  <2>3. counts[TransportReplay][n] # 0 /\ (\A w \in Verifiers : nonceOf[w] # n)
        /\ \A u \in Threads : Opening(u, n) => u = t
    BY <1>1, <2>1 DEF UsesInv, NonceInv
  <2> QED
    BY <1>1, <1>2, <2>2, <2>3 DEF UsesInv, NonceInv
<1>7. UseInv'
  <2>1. \A w \in Verifiers, a \in Actions : bindings'[w][a] \in {None, capsuleOf'[w]}
    BY <1>1, <1>2 DEF UsesInv, UseInv
  <2> QED
    BY <1>2, <2>1 DEF UsesInv, UseInv
<1>8. UsesAreAccountedFor'
  BY <1>1, <1>2, ChargedFrame DEF UsesAreAccountedFor
<1> QED
  BY <1>3, <1>4, <1>5, <1>6, <1>7, <1>8 DEF UsesInv

LEMMA UsesInit == Init => UsesInv
<1> SUFFICES ASSUME Init PROVE UsesInv
  OBVIOUS
<1>1. \A t \in Threads : call[t] = NoCall /\ pc[t] = "idle" /\ call[t].op = "none"
  BY DEF Init, NoCall, NewCall
<1>2. TypeOK
  <2>1. capsuleOf \in [Verifiers -> Capsules \cup {None}]
    BY ConfigurationAssumption DEF Init, Configured
  <2> QED
    BY <2>1, NoCallIsCall DEF Init, TypeOK, PCs
<1>3. CallInv
  BY <1>1 DEF CallInv, Proper
<1>4. LockInv
  BY <1>1, SetsAssumption DEF Init, LockInv, Spending
<1>5. UseInv
  <2>1. \A d \in Capsules : VerifierLimit(d) \in Nat
    BY ConfigurationAssumption DEF VerifierLimit
  <2>2. \A p \in Approvals : MaxUses[p] \in Nat /\ ApprovalUses \in Registries /\ p \in Identifiers
    BY ConfigurationAssumption DEF Identifiers
  <2> QED
    BY <2>1, <2>2 DEF Init, UseInv, Identifiers
<1>6. NonceInv
  BY <1>1, SetsAssumption, ConfigurationAssumption DEF Init, NonceInv, Opening, Identifiers
<1>7. UsesAreAccountedFor
  <2>1. \A r \in Registries, d \in Capsules : Charged(r, d) = {}
    BY <1>1, SetsAssumption DEF Init, Charged, BindingNow, Identifiers
  <2> QED
    BY <2>1, FS_EmptySet DEF Init, UsesAreAccountedFor, Identifiers
<1> QED
  BY <1>2, <1>3, <1>4, <1>5, <1>6, <1>7 DEF UsesInv

LEMMA StutterKeeps ==
  ASSUME UsesInv, UNCHANGED vars
  PROVE  UsesInv'
<1>1. UNCHANGED <<counts, holder, previous, capsuleOf, admits, nonceOf, bindings, vlock, pc,
                  call, passed, granted>>
  BY DEF vars, registries, verifiers, history
<1>2. TypeOK' /\ CallInv' /\ UseInv'
  BY <1>1 DEF UsesInv, TypeOK, CallInv, Proper, UseInv
<1>3. LockInv'
  <2>1. \A u \in Threads : pc'[u] = "count" =>
          /\ previous'[u] = counts'[call'[u].registry][call'[u].key]
          /\ ~Exhausted(call[u])'
    BY <1>1, ReadingFrame
  <2> QED
    BY <1>1, <2>1 DEF UsesInv, LockInv, Spending, Binding
<1>4. NonceInv'
  BY <1>1 DEF UsesInv, NonceInv, Opening
<1>5. UsesAreAccountedFor'
  BY <1>1, ChargedFrame DEF UsesAreAccountedFor
<1> QED
  BY <1>2, <1>3, <1>4, <1>5 DEF UsesInv

\* The invariant of locks, readings, bindings and counts is inductive: what a
\* verifier checks under its lock, and a registry under its own, stays true
\* until it acts on it.
THEOREM UsesInvariant == Spec => []UsesInv
<1>1. UsesInv /\ [Next]_vars => UsesInv'
  <2> SUFFICES ASSUME UsesInv, [Next]_vars PROVE UsesInv'
    OBVIOUS
  <2>1. ASSUME NEW t \in Threads, Calling(t) PROVE UsesInv'
    BY <2>1, CallingKeeps
  <2>2. ASSUME NEW t \in Threads, Proceeds(t) PROVE UsesInv'
    <3>1. CASE ChecksFail(t) \/ OpenFails(t)
      BY <3>1, EndsLocally DEF ChecksFail, OpenFails
    <3>2. CASE ChecksPass(t)
      BY <3>2, ChecksPassKeeps
    <3>3. CASE AlreadyBound(t) \/ Locks(t)
      BY <3>3, AlreadyBoundKeeps, LocksKeeps
    <3>4. CASE Refused(t) \/ CommitStarts(t)
      BY <3>4, RefusedKeeps, CommitStartsKeeps
    <3>5. CASE CommitEnds(t)
      BY <3>5, CommitEndsLocal, CommitEndsUses, CommitEndsCharges DEF UsesInv
    <3>6. CASE Binds(t)
      BY <3>6, BindsKeeps
    <3>7. CASE \E v \in Boundary : Opens(t, v)
      BY <3>7, OpensKeeps
    <3> QED
      BY <2>2, <3>1, <3>2, <3>3, <3>4, <3>5, <3>6, <3>7 DEF Proceeds
  <2> QED
    BY <2>1, <2>2, StutterKeeps DEF Next
<1> QED
  BY <1>1, UsesInit, PTL DEF Spec

\* Every variable keeps its type.
THEOREM UsesTypeCorrect == Spec => []TypeOK
<1>1. UsesInv => TypeOK
  BY DEF UsesInv
<1> QED
  BY <1>1, UsesInvariant, PTL

\* Every use was spent for exactly one action of one verifier.
THEOREM UsesAccounted == Spec => []UsesAreAccountedFor
<1>1. UsesInv => UsesAreAccountedFor
  BY DEF UsesInv
<1> QED
  BY <1>1, UsesInvariant, PTL

\* The verifiers that share a registry never let more actions through under a
\* capsule than it has uses: what has passed is bound, what is bound was
\* charged, and what was charged is counted.
THEOREM LimitHolds == Spec => []ActionsWithinLimit
<1>1. UsesInv => ActionsWithinLimit
  <2> SUFFICES ASSUME UsesInv, NEW r \in Registries, NEW d \in Capsules
               PROVE  Cardinality(PassedUnder(r, d)) <= VerifierLimit(d)
    BY DEF ActionsWithinLimit
  <2>1. PassedUnder(r, d) \in SUBSET Charged(r, d)
    <3> SUFFICES ASSUME NEW p \in PassedUnder(r, d) PROVE p \in Charged(r, d)
      OBVIOUS
    <3>1. p \in Verifiers \X Actions /\ p \in passed /\ RegistryOf[p[1]] = r /\ capsuleOf[p[1]] = d
      BY DEF PassedUnder, UsesInv, TypeOK
    <3>2. bindings[p[1]][p[2]] = d
      BY <3>1 DEF UsesInv, UseInv
    <3> QED
      BY <3>1, <3>2 DEF Charged
  <2>2. /\ IsFiniteSet(PassedUnder(r, d))
        /\ Cardinality(PassedUnder(r, d)) <= Cardinality(Charged(r, d))
    BY <2>1, ChargedFinite, FS_Subset
  <2>3. Cardinality(Charged(r, d)) = counts[r][d] /\ counts[r][d] <= VerifierLimit(d)
    BY DEF UsesInv, UsesAreAccountedFor, UseInv
  <2>4. /\ Cardinality(PassedUnder(r, d)) \in Nat /\ Cardinality(Charged(r, d)) \in Nat
        /\ VerifierLimit(d) \in Nat
    BY <2>2, ChargedFinite, FS_CardinalityType, ConfigurationAssumption DEF VerifierLimit
  <2> QED
    BY <2>2, <2>3, <2>4
<1> QED
  BY <1>1, UsesInvariant, PTL

\* A nonce opens at most one transport.
THEOREM NonceHolds == Spec => []OneTransportPerNonce
<1>1. UsesInv => OneTransportPerNonce
  BY SetsAssumption DEF UsesInv, TypeOK, NonceInv, OneTransportPerNonce
<1> QED
  BY <1>1, UsesInvariant, PTL

\* Consuming an approval succeeds at most max_uses times.
THEOREM ApprovalsHold == Spec => []ApprovalsWithinLimit
<1>1. UsesInv => ApprovalsWithinLimit
  BY DEF UsesInv, UseInv, ApprovalsWithinLimit
<1> QED
  BY <1>1, UsesInvariant, PTL

-----------------------------------------------------------------------------
(* The refinement.                                                         *)

\* A verifier that is not built has not been opened with a nonce either.
OpenedInv == \A v \in Verifiers : capsuleOf[v] = None => nonceOf[v] = None

LEMMA OpenedInvariant == Spec => []OpenedInv
<1>1. Init => OpenedInv
  BY DEF Init, OpenedInv
<1>2. UsesInv /\ OpenedInv /\ [Next]_vars => OpenedInv'
  <2> SUFFICES ASSUME UsesInv, OpenedInv, [Next]_vars PROVE OpenedInv'
    OBVIOUS
  <2>1. ASSUME NEW t \in Threads, NEW w \in Boundary, Opens(t, w) PROVE OpenedInv'
    <3>1. w \in Verifiers /\ call[t].capsule \in Capsules /\ call[t].capsule # None
      BY <2>1, PlaceOfCall, SetsAssumption DEF Opens, UsesInv, CallInv, Proper, Identifiers
    <3> QED
      BY <2>1, <3>1 DEF Opens, OpenedInv, UsesInv, TypeOK
  <2>2. CASE UNCHANGED <<capsuleOf, nonceOf>>
    BY <2>2 DEF OpenedInv
  <2>3. \/ \E t \in Threads, w \in Boundary : Opens(t, w)
        \/ UNCHANGED <<capsuleOf, nonceOf>>
    <3>1. ASSUME NEW t \in Threads, Calling(t) PROVE UNCHANGED <<capsuleOf, nonceOf>>
      BY <3>1 DEF verifiers, Calling, CallVerify, CallAccept, CallConsume, CallCommitCapsule, Begin
    <3>2. ASSUME NEW t \in Threads, Proceeds(t), ~ \E w \in Boundary : Opens(t, w)
          PROVE  UNCHANGED <<capsuleOf, nonceOf>>
      <4>1. CASE CommitEnds(t)
        BY <4>1 DEF CommitEnds, verifiers
      <4>2. CASE ~CommitEnds(t)
        BY <3>2, <4>2 DEF verifiers, Proceeds, ChecksFail, ChecksPass, AlreadyBound, Locks, Refused,
                          CommitStarts, Binds, OpenFails
      <4> QED
        BY <4>1, <4>2
    <3> QED
      BY <3>1, <3>2 DEF Next, vars, verifiers
  <2> QED
    BY <2>1, <2>2, <2>3
<1> QED
  BY <1>1, <1>2, UsesInvariant, PTL DEF Spec

\* A thread that binds does so for its verifier's capsule, which is not bound yet.
LEMMA BindingThread ==
  ASSUME UsesInv, NEW t \in Threads, pc[t] = "bind"
  PROVE  /\ call[t].verifier \in Verifiers /\ call[t].action \in Actions
         /\ call[t].capsule = capsuleOf[call[t].verifier] /\ call[t].capsule \in Capsules
         /\ Binding(t) = None
         /\ \A u \in Threads : pc[u] = "bind" /\ call[u].verifier = call[t].verifier => u = t
<1>1. \A u \in Threads : pc[u] = "bind" => /\ call[u].op = "verify" /\ Proper(u) /\ Spending(u)
                                          /\ call[u].verifier \in Verifiers
  BY PlaceOfCall DEF UsesInv, CallInv, Proper, Spending
<1>2. \A u \in Threads : pc[u] = "bind" => vlock[call[u].verifier] = u
  BY <1>1 DEF UsesInv, LockInv
<1> QED
  BY <1>1, <1>2 DEF Proper, UsesInv, LockInv

\* An action holds a use of a capsule iff that is what the registry charged.
LEMMA HeldIsCharged ==
  ASSUME UsesInv, NEW v \in Verifiers, NEW a \in Actions, NEW d \in Capsules
  PROVE  Held(v, a) = d <=> bindings[v][a] = d \/ BindingNow(v, a, d)
<1>1. d # None
  BY SetsAssumption DEF Identifiers
<1>2. CASE \E t \in Threads : pc[t] = "bind" /\ call[t].verifier = v /\ call[t].action = a
  <2>1. PICK t \in Threads : pc[t] = "bind" /\ call[t].verifier = v /\ call[t].action = a
    BY <1>2
  <2>2. bindings[v][a] = None /\ call[t].capsule = capsuleOf[v]
    BY <2>1, BindingThread DEF Binding
  <2>3. Held(v, a) = capsuleOf[v]
    BY <1>2 DEF Held
  <2>4. BindingNow(v, a, d) <=> capsuleOf[v] = d
    BY <2>1, <2>2, BindingThread DEF BindingNow
  <2> QED
    BY <1>1, <2>2, <2>3, <2>4
<1>3. CASE ~ \E t \in Threads : pc[t] = "bind" /\ call[t].verifier = v /\ call[t].action = a
  BY <1>3 DEF Held, BindingNow
<1> QED
  BY <1>2, <1>3

LEMMA SameCardinality ==
  ASSUME NEW S
  PROVE  Entitlements!Cardinality(S) = Cardinality(S)
BY Zenon DEF Entitlements!Cardinality, Cardinality

LEMMA UsersAreCounted ==
  ASSUME UsesInv, NEW r \in Registries, NEW d \in Capsules
  PROVE  Cardinality(Entitlements!Users(r, d)) = counts[r][d]
<1>1. Entitlements!Users(r, d) = Charged(r, d)
  <2>1. Entitlements!Users(r, d)
          = {p \in Verifiers \X Actions : RegistryOf[p[1]] = r /\ Held(p[1], p[2]) = d}
    BY DEF Entitlements!Users
  <2>2. \A p \in Verifiers \X Actions :
          Held(p[1], p[2]) = d <=> bindings[p[1]][p[2]] = d \/ BindingNow(p[1], p[2], d)
    BY HeldIsCharged
  <2> QED
    BY <2>1, <2>2 DEF Charged
<1> QED
  BY <1>1 DEF UsesInv, UsesAreAccountedFor

\* Only threads that bind matter to what is held, apart from the bindings.
LEMMA HeldSame ==
  ASSUME UNCHANGED <<bindings, capsuleOf>>,
         \A u \in Threads : (pc'[u] = "bind" \/ pc[u] = "bind") => pc'[u] = pc[u] /\ call'[u] = call[u]
  PROVE  \A v \in Verifiers, a \in Actions : Held(v, a)' = Held(v, a)
<1> SUFFICES ASSUME NEW v \in Verifiers, NEW a \in Actions PROVE Held(v, a)' = Held(v, a)
  OBVIOUS
<1>1. (\E t \in Threads : pc'[t] = "bind" /\ call'[t].verifier = v /\ call'[t].action = a)
        <=> \E t \in Threads : pc[t] = "bind" /\ call[t].verifier = v /\ call[t].action = a
  OBVIOUS
<1> QED
  BY <1>1 DEF Held

Entitled == [v \in Verifiers |-> [a \in Actions |-> Held(v, a)]]

LEMMA EntitledSame ==
  ASSUME \A v \in Verifiers, a \in Actions : Held(v, a)' = Held(v, a)
  PROVE  Entitled' = Entitled
BY DEF Entitled

\* Steps that hand out, bind and open nothing.
LEMMA OthersStutter ==
  ASSUME UsesInv, NEW t \in Threads,
         Calling(t) \/ ChecksFail(t) \/ ChecksPass(t) \/ Locks(t) \/ Refused(t)
           \/ CommitStarts(t) \/ OpenFails(t)
  PROVE  UNCHANGED Entitlements!vars
<1>1. UNCHANGED <<bindings, capsuleOf, nonceOf, passed, granted>>
  BY DEF verifiers, history, Calling, CallVerify, CallAccept, CallConsume, CallCommitCapsule, Begin,
         ChecksFail, ChecksPass, Locks, Refused, CommitStarts, OpenFails
<1>2. pc[t] # "bind" /\ pc'[t] # "bind" /\ \A u \in Threads \ {t} : pc'[u] = pc[u] /\ call'[u] = call[u]
  BY DEF Calling, CallVerify, CallAccept, CallConsume, CallCommitCapsule, Begin, UsesInv, TypeOK,
         ChecksFail, ChecksPass, Locks, Refused, CommitStarts, OpenFails, Return, Goto
<1>3. Entitled' = Entitled
  BY <1>1, <1>2, HeldSame, EntitledSame
<1> QED
  BY <1>1, <1>3 DEF Entitlements!vars, Entitled

LEMMA AlreadyBoundPasses ==
  ASSUME UsesInv, NEW t \in Threads, AlreadyBound(t)
  PROVE  [Entitlements!Next]_(Entitlements!vars)
<1> DEFINE v == call[t].verifier
           a == call[t].action
<1>1. /\ pc[t] = "lock" /\ v \in Verifiers /\ a \in Actions /\ bindings[v][a] # None
  BY PlaceOfCall DEF AlreadyBound, Binding, UsesInv, CallInv, Proper
<1>2. /\ UNCHANGED <<bindings, capsuleOf, nonceOf, granted>>
      /\ pc'[t] = "idle" /\ \A u \in Threads \ {t} : pc'[u] = pc[u] /\ call'[u] = call[u]
      /\ passed' = passed \cup {<<v, a>>} \/ UNCHANGED passed
  BY DEF AlreadyBound, Return, Pass, verifiers, UsesInv, TypeOK
<1>3. Entitled' = Entitled
  BY <1>1, <1>2, HeldSame, EntitledSame
<1>4. Held(v, a) # None
  BY <1>1, BindingThread DEF Held, Binding
<1>5. passed' = passed \cup {<<v, a>>} => Entitlements!Pass(v, a)
  BY <1>1, <1>2, <1>3, <1>4 DEF Entitlements!Pass, Entitled
<1> QED
  BY <1>1, <1>2, <1>3, <1>5 DEF Entitlements!Next, Entitlements!vars, Entitled

LEMMA BindsPasses ==
  ASSUME UsesInv, NEW t \in Threads, Binds(t)
  PROVE  Entitlements!Next
<1>0. pc[t] = "bind"
  BY DEF Binds
<1>1. PICK v \in Verifiers, a \in Actions, d \in Capsules :
        v = call[t].verifier /\ a = call[t].action /\ d = call[t].capsule
  BY <1>0, BindingThread
<1>2. /\ UNCHANGED <<capsuleOf, nonceOf, granted>> /\ passed' = passed \cup {<<v, a>>}
      /\ pc'[t] = "idle" /\ \A u \in Threads \ {t} : pc'[u] = pc[u] /\ call'[u] = call[u]
      /\ bindings'[v][a] = d
      /\ \A w \in Verifiers, b \in Actions : w # v \/ b # a => bindings'[w][b] = bindings[w][b]
  BY <1>1 DEF Binds, Return, Pass, UsesInv, TypeOK
<1>3. /\ d = capsuleOf[v] /\ d # None
      /\ \A u \in Threads : pc[u] = "bind" /\ call[u].verifier = v => u = t
  BY <1>0, <1>1, BindingThread, SetsAssumption DEF Identifiers
<1>4. Held(v, a) = d /\ Held(v, a)' = d
  <2>1. Held(v, a) = d
    BY <1>0, <1>1, <1>3 DEF Held
  <2>2. ~ \E u \in Threads : pc'[u] = "bind" /\ call'[u].verifier = v /\ call'[u].action = a
    BY <1>2, <1>3
  <2>3. Held(v, a)' = d
    BY <1>2, <2>2 DEF Held
  <2> QED
    BY <2>1, <2>3
<1>5. ASSUME NEW w \in Verifiers, NEW b \in Actions, w # v \/ b # a
      PROVE  Held(w, b)' = Held(w, b)
  <2>1. (\E u \in Threads : pc'[u] = "bind" /\ call'[u].verifier = w /\ call'[u].action = b)
          <=> \E u \in Threads : pc[u] = "bind" /\ call[u].verifier = w /\ call[u].action = b
    BY <1>1, <1>2, <1>5
  <2> QED
    BY <1>2, <1>5, <2>1 DEF Held
<1>6. Entitled' = Entitled
  BY <1>4, <1>5, EntitledSame
<1>7. Entitlements!Pass(v, a)
  BY <1>2, <1>3, <1>4, <1>6 DEF Entitlements!Pass, Entitled
<1> QED
  BY <1>7 DEF Entitlements!Next

\* The write of a count takes a use for an action that has none, and the count
\* that was read says that there is one left.
LEMMA CommitEndsEntitles ==
  ASSUME UsesInv, NEW t \in Threads, CommitEnds(t)
  PROVE  [Entitlements!Next]_(Entitlements!vars)
<1>1. /\ pc[t] = "count" /\ Proper(t) /\ call[t].registry \in Registries
      /\ Limit(call[t]) = None \/ counts[call[t].registry][call[t].key] < Limit(call[t])
  BY CommitEndsCounts
<1>2. /\ \A u \in Threads \ {t} : pc'[u] = pc[u] /\ call'[u] = call[u]
      /\ UNCHANGED <<capsuleOf, nonceOf, bindings, passed>>
      /\ \/ call[t].op = "verify" /\ pc'[t] = "bind" /\ call'[t] = call[t] /\ UNCHANGED granted
         \/ call[t].op = "accept" /\ pc'[t] = "open" /\ call'[t] = call[t] /\ UNCHANGED granted
         \/ /\ call[t].op = "consume" /\ pc'[t] = "idle" /\ call'[t] = NoCall
            /\ granted' = [granted EXCEPT ![call[t].key] = @ + 1]
         \/ call[t].op = "commit_capsule" /\ pc'[t] = "idle" /\ call'[t] = NoCall /\ UNCHANGED granted
  BY CommitEndsMoves
<1>3. ASSUME call[t].op # "verify" PROVE Entitled' = Entitled
  BY <1>1, <1>2, <1>3, HeldSame, EntitledSame
<1>4. CASE call[t].op \in {"accept", "commit_capsule"}
  BY <1>2, <1>3, <1>4 DEF Entitlements!vars, Entitled
<1>5. CASE call[t].op = "consume"
  <2>1. PICK p \in Approvals : p = call[t].key
    BY <1>1, <1>5 DEF Proper
  <2>2. granted[p] < MaxUses[p]
    <3>1. call[t].registry = ApprovalUses /\ Limit(call[t]) = MaxUses[p] /\ MaxUses[p] # None
      BY <1>1, <1>5, <2>1, ConfigurationAssumption DEF Proper, Limit
    <3> QED
      BY <1>1, <2>1, <3>1 DEF UsesInv, UseInv
  <2>3. Entitlements!Consume(p)
    BY <1>2, <1>3, <1>5, <2>1, <2>2 DEF Entitlements!Consume, Entitled
  <2> QED
    BY <2>3 DEF Entitlements!Next
<1>6. CASE call[t].op = "verify"
  <2>1. PICK v \in Verifiers, a \in Actions, d \in Capsules :
          v = call[t].verifier /\ a = call[t].action /\ d = call[t].capsule
    BY <1>1, <1>6 DEF Proper
  <2>2. /\ d = capsuleOf[v] /\ call[t].key = d /\ call[t].registry = RegistryOf[v]
        /\ RegistryOf[v] \in Registries /\ Spending(t) /\ bindings[v][a] = None
    BY <1>1, <1>6, <2>1 DEF Proper, Spending, UsesInv, LockInv, Binding
  <2>3. \A u \in Threads : pc[u] = "bind" => call[u].verifier # v
    <3>1. vlock[v] = t /\ pc[t] # "bind"
      BY <1>1, <2>1, <2>2 DEF UsesInv, LockInv
    <3>2. \A u \in Threads : pc[u] = "bind" => vlock[call[u].verifier] = u
      BY PlaceOfCall, BindingThread DEF UsesInv, LockInv, Spending
    <3> QED
      BY <3>1, <3>2
  <2>4. Held(v, a) = None /\ Held(v, a)' = d
    <3>1. Held(v, a) = None
      BY <2>2, <2>3 DEF Held
    <3>2. Held(v, a)' = d
      BY <1>2, <1>6, <2>1, <2>2 DEF Held
    <3> QED
      BY <3>1, <3>2
  <2>5. ASSUME NEW w \in Verifiers, NEW b \in Actions, w # v \/ b # a
        PROVE  Held(w, b)' = Held(w, b)
    <3>1. (\E u \in Threads : pc'[u] = "bind" /\ call'[u].verifier = w /\ call'[u].action = b)
            <=> \E u \in Threads : pc[u] = "bind" /\ call[u].verifier = w /\ call[u].action = b
      BY <1>1, <1>2, <1>6, <2>1, <2>5
    <3> QED
      BY <1>2, <3>1 DEF Held
  <2>6. Entitled' = [Entitled EXCEPT ![v][a] = d]
    BY <2>4, <2>5 DEF Entitled
  <2>7. Cardinality(Entitlements!Users(RegistryOf[v], d)) < VerifierLimit(d)
    <3>1. Limit(call[t]) = VerifierLimit(d) /\ VerifierLimit(d) \in Nat
      BY <1>6, <2>1, ConfigurationAssumption DEF Limit, VerifierLimit
    <3>2. VerifierLimit(d) # None
      BY <3>1, SetsAssumption
    <3>3. counts[RegistryOf[v]][d] < VerifierLimit(d)
      BY <1>1, <2>2, <3>1, <3>2
    <3> QED
      BY <2>2, <3>3, UsersAreCounted
  <2>8. Entitlements!Entitle(v, a, d)
    <3>1. Entitled[v][a] = None
      BY <2>4 DEF Entitled
    <3>2. Entitlements!Cardinality(Entitlements!Users(RegistryOf[v], d))
            < [k \in Capsules |-> VerifierLimit(k)][d]
      BY <2>7, SameCardinality
    <3>3. UNCHANGED <<passed, granted, nonceOf>>
      BY <1>2, <1>6
    <3> QED
      BY <2>6, <3>1, <3>2, <3>3 DEF Entitlements!Entitle, Entitled
  <2> QED
    BY <2>8 DEF Entitlements!Next
<1> QED
  BY <1>2, <1>4, <1>5, <1>6

\* A transport is opened with a nonce that has opened none.
LEMMA OpensOpens ==
  ASSUME UsesInv, OpenedInv, NEW t \in Threads, NEW v \in Boundary, Opens(t, v)
  PROVE  Entitlements!Next
<1>1. /\ pc[t] = "open" /\ v \in Verifiers /\ capsuleOf[v] = None /\ nonceOf[v] = None
      /\ call[t].op = "accept" /\ Proper(t)
  BY PlaceOfCall, SetsAssumption DEF Opens, Unbuilt, UsesInv, CallInv, OpenedInv
<1>2. PICK n \in Nonces : n = call[t].key
  BY <1>1 DEF Proper
<1>3. \A w \in Verifiers : nonceOf[w] # n
  BY <1>1, <1>2 DEF UsesInv, NonceInv, Opening
<1>4. /\ pc'[t] = "idle" /\ \A u \in Threads \ {t} : pc'[u] = pc[u] /\ call'[u] = call[u]
      /\ nonceOf' = [nonceOf EXCEPT ![v] = n]
      /\ \A w \in Verifiers \ {v} : capsuleOf'[w] = capsuleOf[w]
      /\ UNCHANGED <<bindings, passed, granted>>
  BY <1>1, <1>2 DEF Opens, Return, UsesInv, TypeOK, history
<1>5. \A u \in Threads : pc[u] = "bind" => call[u].verifier # v
  BY <1>1, BindingThread, SetsAssumption DEF Identifiers
<1>6. ASSUME NEW w \in Verifiers, NEW a \in Actions PROVE Held(w, a)' = Held(w, a)
  <2>1. (\E u \in Threads : pc'[u] = "bind" /\ call'[u].verifier = w /\ call'[u].action = a)
          <=> \E u \in Threads : pc[u] = "bind" /\ call[u].verifier = w /\ call[u].action = a
    BY <1>1, <1>4
  <2>2. CASE w = v
    BY <1>4, <1>5, <2>1, <2>2 DEF Held
  <2>3. CASE w # v
    BY <1>4, <2>1, <2>3 DEF Held
  <2> QED
    BY <2>2, <2>3
<1>7. Entitled' = Entitled
  BY <1>6, EntitledSame
<1>8. Entitlements!Open(v, n)
  BY <1>1, <1>3, <1>4, <1>7 DEF Entitlements!Open, Entitled
<1> QED
  BY <1>8 DEF Entitlements!Next

LEMMA InitEntitlements == Init => Entitlements!Init
<1> SUFFICES ASSUME Init PROVE Entitlements!Init
  OBVIOUS
<1>1. \A v \in Verifiers, a \in Actions : Held(v, a) = None
  BY DEF Init, Held
<1> QED
  BY <1>1 DEF Init, Entitlements!Init

\* Verifiers, registries, boundaries and their locks implement the entitlements:
\* every step of a thread takes one use, passes one action, opens one transport
\* or is not seen.
THEOREM UsesAreEntitlements == Spec => KeepsEntitlements
<1>1. UsesInv /\ OpenedInv /\ [Next]_vars => [Entitlements!Next]_(Entitlements!vars)
  <2> SUFFICES ASSUME UsesInv, OpenedInv, [Next]_vars
               PROVE  [Entitlements!Next]_(Entitlements!vars)
    OBVIOUS
  <2>1. ASSUME NEW t \in Threads, Calling(t) \/ Proceeds(t)
        PROVE  [Entitlements!Next]_(Entitlements!vars)
    BY <2>1, OthersStutter, AlreadyBoundPasses, BindsPasses, CommitEndsEntitles, OpensOpens DEF Proceeds
  <2>2. CASE UNCHANGED vars
    <3>1. UNCHANGED <<bindings, capsuleOf, nonceOf, passed, granted, pc, call>>
      BY <2>2 DEF vars, verifiers, history
    <3>2. Entitled' = Entitled
      BY <3>1, HeldSame, EntitledSame
    <3> QED
      BY <3>1, <3>2 DEF Entitlements!vars, Entitled
  <2> QED
    BY <2>1, <2>2 DEF Next
<1> QED
  BY <1>1, InitEntitlements, UsesInvariant, OpenedInvariant, PTL DEF Spec, KeepsEntitlements, Entitlements!Spec
=============================================================================
