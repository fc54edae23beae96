------------------------- MODULE DelegatedVerifier -------------------------
(***************************************************************************)
(* DelegatedCapsuleActionVerifier (action_kernel.py) over the revocation   *)
(* evaluator it shares with other verifiers (revocation.py).               *)
(*                                                                         *)
(* A thread holds one verifier and one proposal, and calls as often as it  *)
(* likes.  A call walks the delegation chain transition by transition,     *)
(* checks the leaf, reads the clock once, and then asks for the status of  *)
(* every capsule of the lineage in turn, from the root on.  The evaluator  *)
(* locks its cache for one read or one write at a time, so other calls,    *)
(* the authority and its notices get between any two of these steps.       *)
(* What a passed call costs of the capsule's uses is CapsuleUses.          *)
(***************************************************************************)
EXTENDS Delegation

CONSTANTS
  Threads,
  Calls,        \* a verifier's chain and settings, with the proposal it is called on
  MaxTime,      \* bound: the clock stops there
  Lag           \* how old a status may be when the provider hands it out

IsChain(ch) == /\ DOMAIN ch = 1..Len(ch) /\ Len(ch) \in Nat
               /\ \A i \in DOMAIN ch : ch[i].parent \in Capsules /\ ch[i].child \in Capsules

ASSUME CallsAssumption ==
  /\ \A k \in Calls : IsChain(k.chain) /\ k.proposal \in Proposals
  /\ MaxTime \in Nat /\ Lag \in Nat

VARIABLES
  clock,
  revoked,      \* the authority's records, per capsule: from when on it is revoked, and whether with its descendants
  cache,        \* the evaluator's: the status last heard of a capsule
  call,
  place,        \* where each thread is
  step,         \* the transition, or the capsule of the lineage, it is at
  now,          \* the time it read
  answer        \* what the provider told it

authority == <<clock, revoked>>
calls     == <<place, step, now, answer>>
dvars     == <<authority, cache, call, calls>>

Records  == [at : Nat, revoked : BOOLEAN, cascade : BOOLEAN]
NoAnswer == [at |-> 0, revoked |-> FALSE, cascade |-> FALSE]

-----------------------------------------------------------------------------
Chain(t) == call[t].chain

\* The ancestors from the first parent on, and the leaf.
Lineage(ch) == [i \in 1..(Len(ch) + 1) |-> IF i = 1 THEN ch[1].parent ELSE ch[i - 1].child]
Last(t)     == Len(Chain(t)) + 1
Leaf(t)     == Lineage(Chain(t))[Last(t)]
Item(t)     == Lineage(Chain(t))[step[t]]

Continuous(ch) ==
  /\ Len(ch) > 0
  /\ \A i \in 1..(Len(ch) - 1) : ch[i].child = ch[i + 1].parent

Goto(t, where) == place' = [place EXCEPT ![t] = where]
Turn(t, n)     == step' = [step EXCEPT ![t] = n]

-----------------------------------------------------------------------------
(* Construction and the chain.                                             *)

Resting(t) == place[t] \in {"idle", "passed", "refused"}

Call(t) ==
  /\ Resting(t)
  /\ Goto(t, IF Continuous(Chain(t)) THEN "lineage" ELSE "refused")
  /\ Turn(t, 1)
  /\ UNCHANGED <<authority, cache, call, now, answer>>

Ancestors(ch, i) == {Doc[ch[j].parent].id : j \in 1..(i - 1)}

TransitionHolds(ch, i) ==
  LET p == ch[i].parent
      c == ch[i].child
  IN  /\ p \in Genuine /\ c \in Genuine
      /\ ValidDelegation(p, c, Ancestors(ch, i))
      /\ ValidProof(ch[i].proof, p, c)

CheckTransition(t) ==
  /\ place[t] = "lineage" /\ step[t] < Last(t)
  /\ IF TransitionHolds(Chain(t), step[t])
     THEN Turn(t, step[t] + 1) /\ UNCHANGED place
     ELSE Goto(t, "refused") /\ UNCHANGED step
  /\ UNCHANGED <<authority, cache, call, now, answer>>

\* Mutant: the window of the leaf is not checked.
CheckAudience(t) ==
  /\ place[t] = "lineage" /\ step[t] = Last(t)
  /\ now' = [now EXCEPT ![t] = clock]
  /\ IF AudienceIs(Leaf(t), call[t].presenter)
     THEN Goto(t, "status") /\ Turn(t, 1)
     ELSE Goto(t, "refused") /\ UNCHANGED step
  /\ UNCHANGED <<authority, cache, call, answer>>

CheckLeaf(t) ==
  /\ place[t] = "lineage" /\ step[t] = Last(t)
  /\ now' = [now EXCEPT ![t] = clock]
  /\ IF AudienceIs(Leaf(t), call[t].presenter) /\ InForce(Leaf(t), clock)
     THEN Goto(t, "status") /\ Turn(t, 1)
     ELSE Goto(t, "refused") /\ UNCHANGED step
  /\ UNCHANGED <<authority, cache, call, answer>>

-----------------------------------------------------------------------------
(* The status of each capsule of the lineage.                              *)

Profile(t) == Doc[Item(t)].profile

\* A record stops the call if it is about the leaf, or cascades to it.
Stops(t, r) == r.revoked /\ (step[t] = Last(t) \/ r.cascade)

Proceed(t) ==
  IF step[t] = Last(t) THEN Goto(t, "grant") /\ UNCHANGED step
                       ELSE Goto(t, "status") /\ Turn(t, step[t] + 1)

Judge(t, r) == IF Stops(t, r) THEN Goto(t, "refused") /\ UNCHANGED step ELSE Proceed(t)

\* Mutant: a cached status never gets old.
EverFresh(t) == Item(t) \in DOMAIN cache

\* A status from the future of the time that was read counts as fresh.
Fresh(t) == Item(t) \in DOMAIN cache /\ now[t] <= cache[Item(t)].at + Doc[Item(t)].staleness

TakesCached(t) ==
  \/ Profile(t) = "offline-until-expiry" /\ call[t].offline
  \/ Profile(t) = "bounded-stale" /\ Fresh(t)

\* Offline, a capsule of which nothing was ever heard is let through.
UseCached(t) ==
  /\ place[t] = "status" /\ TakesCached(t)
  /\ IF Item(t) \in DOMAIN cache THEN Judge(t, cache[Item(t)]) ELSE Proceed(t)
  /\ UNCHANGED <<authority, cache, call, now, answer>>

NeedsLive(t) ==
  \/ Profile(t) = "online-strict"
  \/ Profile(t) = "bounded-stale" /\ ~Fresh(t)

AskStatus(t) ==
  /\ place[t] = "status" /\ NeedsLive(t) /\ call[t].live
  /\ Goto(t, "asked")
  /\ UNCHANGED <<authority, cache, call, step, now, answer>>

\* No provider, or a profile the receiver's policy does not permit.
NoStatus(t) ==
  /\ place[t] = "status" /\ ~TakesCached(t) /\ ~(NeedsLive(t) /\ call[t].live)
  /\ Goto(t, "refused")
  /\ UNCHANGED <<authority, cache, call, step, now, answer>>

\* The authority's status of c as of s: within the instant of the revocation
\* it may be from before or after it.
Truth(c, s) ==
  {r \in [at : {s}, revoked : BOOLEAN, cascade : BOOLEAN] :
     /\ r.revoked  => c \in DOMAIN revoked /\ revoked[c].at <= s /\ r.cascade = revoked[c].cascade
     /\ ~r.revoked => (c \in DOMAIN revoked => s <= revoked[c].at) /\ ~r.cascade}

Recent(s) == s <= clock /\ clock <= s + Lag

ProviderAnswers(t) ==
  /\ place[t] = "asked"
  /\ \E s \in 0..clock : Recent(s) /\ \E r \in Truth(Item(t), s) : answer' = [answer EXCEPT ![t] = r]
  /\ Goto(t, "answered")
  /\ UNCHANGED <<authority, cache, call, step, now>>

\* An exception, an answer about another capsule or one that is not authenticated.
ProviderFails(t) ==
  /\ place[t] = "asked"
  /\ Goto(t, "refused")
  /\ UNCHANGED <<authority, cache, call, step, now, answer>>

\* Mutant: the status that comes last is kept.
Overwritten(c, r) == r

\* What the cache holds of c after it was told r.
Merged(c, r) == IF c \in DOMAIN cache /\ r.at < cache[c].at THEN cache[c] ELSE r
Store(c, r)  == cache' = [d \in DOMAIN cache \cup {c} |-> IF d = c THEN Merged(c, r) ELSE cache[d]]

\* The call goes by the answer it got, whatever the cache makes of it.
FetchEnds(t) ==
  /\ place[t] = "answered"
  /\ Store(Item(t), answer[t])
  /\ Judge(t, answer[t])
  /\ answer' = [answer EXCEPT ![t] = NoAnswer]
  /\ UNCHANGED <<authority, call, now>>

Decide(t) ==
  /\ place[t] = "grant"
  /\ Goto(t, IF /\ Authorizes(Leaf(t), call[t].proposal)
                /\ \A o \in Due(Leaf(t)) : Discharges(o, call[t].proposal)
             THEN "passed" ELSE "refused")
  /\ UNCHANGED <<authority, cache, call, step, now, answer>>

Serve(t) == \/ CheckTransition(t) \/ CheckLeaf(t) \/ UseCached(t) \/ AskStatus(t) \/ NoStatus(t)
            \/ ProviderAnswers(t) \/ ProviderFails(t) \/ FetchEnds(t) \/ Decide(t)

-----------------------------------------------------------------------------
(* Around the calls.                                                       *)

Tick ==
  /\ clock < MaxTime
  /\ clock' = clock + 1
  /\ UNCHANGED <<revoked, cache, call, calls>>

\* A revocation is issued and takes effect at s, now or later.  One that names
\* a time in the past takes effect when it is issued: no status knew of it before.
Revoke(c, cascade, s) ==
  /\ c \notin DOMAIN revoked /\ clock <= s
  /\ revoked' = [d \in DOMAIN revoked \cup {c} |->
                   IF d = c THEN [at |-> s, cascade |-> cascade] ELSE revoked[d]]
  /\ UNCHANGED <<clock, cache, call, calls>>

\* A signed revocation arrives, possibly late, is verified and cached as the
\* status at s.
Notify(c, s) ==
  /\ c \in DOMAIN revoked /\ s <= clock
  /\ Store(c, [at |-> s, revoked |-> revoked[c].at <= s, cascade |-> revoked[c].cascade])
  /\ UNCHANGED <<authority, call, calls>>

Around == \/ Tick
          \/ \E c \in Capsules, b \in BOOLEAN : \E s \in clock..MaxTime : Revoke(c, b, s)
          \/ \E c \in Capsules : \E s \in 0..clock : Notify(c, s)

VerifierInit ==
  /\ clock = 0 /\ revoked = [c \in {} |-> 0] /\ cache = [c \in {} |-> NoAnswer]
  /\ call \in [Threads -> Calls]
  /\ place = [t \in Threads |-> "idle"] /\ step = [t \in Threads |-> 1]
  /\ now = [t \in Threads |-> 0] /\ answer = [t \in Threads |-> NoAnswer]

VerifierNext == Around \/ \E t \in Threads : Call(t) \/ Serve(t)
VerifierSpec == VerifierInit /\ [][VerifierNext]_dvars

-----------------------------------------------------------------------------
(* What it is all for.                                                     *)

AtStatus == {"status", "asked", "answered"}
Places   == {"idle", "lineage", "grant", "passed", "refused"} \cup AtStatus

VerifierTypeOK ==
  /\ clock \in Nat
  /\ DOMAIN revoked \subseteq Capsules
  /\ \A c \in DOMAIN revoked : revoked[c].at \in Nat /\ revoked[c].cascade \in BOOLEAN
  /\ DOMAIN cache \subseteq Capsules
  /\ \A c \in DOMAIN cache : cache[c].at \in Nat /\ cache[c].revoked \in BOOLEAN /\ cache[c].cascade \in BOOLEAN
  /\ call \in [Threads -> Calls] /\ place \in [Threads -> Places]
  /\ step \in [Threads -> Nat \ {0}] /\ now \in [Threads -> Nat]
  /\ answer \in [Threads -> Records]
  /\ \A t \in Threads : step[t] <= Last(t)

\* The first n capsules of a lineage: what an ancestor grants, its window and
\* budgets bound what each of its descendants has, its mandatory obligations
\* are all there, and the remaining depth falls with every generation.
Attenuates(a, d) ==
  /\ Doc[d].id # Doc[a].id
  /\ WindowKept(a, d) /\ AuthorityKept(a, d) /\ ObligationsKept(a, d) /\ BudgetKept(a, d)

Attenuated(ch, n) ==
  \A j \in 1..n : \A i \in 1..(j - 1) :
    /\ Attenuates(Lineage(ch)[i], Lineage(ch)[j])
    /\ Doc[Lineage(ch)[j]].depth + (j - i) <= Doc[Lineage(ch)[i]].depth

LineageVerified(t) == place[t] \in AtStatus \cup {"grant", "passed"}

\* The chain is checked one transition at a time, against the direct parent
\* only.  Still every capsule is within every ancestor once it is through.
LineageIsAttenuated == \A t \in Threads : LineageVerified(t) => Attenuated(Chain(t), Last(t))

\* What a capsule permits as far as the receiver can tell: of the constraints
\* it has a verifier for, the last of a name.  Where no name repeats that is all
\* a receiver can ask; a repeated one is asked of the leaf, not of an ancestor.
Permits(c, q) ==
  \E g \in Doc[c].authority :
    /\ Matches(g, q)
    /\ \A k \in Keys(g.constraints) \cap Registered : Verifies(Latest(g.constraints, k), q)

\* No action passes that an ancestor would not permit, or at a time at which
\* an ancestor is not in force, although only the leaf is asked.
AuthorityIsInherited ==
  \A t \in Threads : place[t] = "passed" =>
    \A i \in 1..Last(t) : LET c == Lineage(Chain(t))[i] IN
      Permits(c, call[t].proposal) /\ InForce(c, now[t])

\* Every obligation an ancestor demands before the action has been met.
ObligationsAreInherited ==
  \A t \in Threads : place[t] = "passed" =>
    \A i \in 1..Last(t) : \A o \in Due(Lineage(Chain(t))[i]) : Discharges(o, call[t].proposal)

Larger(m, n) == IF m < n THEN n ELSE m

\* By how much the receiver may miss the revocation of a capsule.  The age of a
\* live answer is never checked, so what the provider hands out counts as well.
Slack(c) == IF Doc[c].profile = "online-strict" THEN Lag ELSE Larger(Doc[c].staleness, Lag)

\* The i-th capsule of the lineage was not long revoked when t read the clock.
Applies(t, i, c)   == c \in DOMAIN revoked /\ (i = Last(t) \/ revoked[c].cascade)
InGoodTime(t, i)   == LET c == Lineage(Chain(t))[i] IN
  Applies(t, i, c) /\ Doc[c].profile # "offline-until-expiry" => now[t] <= revoked[c].at + Slack(c)

\* What the code does bound: an action passes under a revoked capsule, or one
\* below a cascading revocation, only so long after it as the age of a cached
\* status or of the provider's answer allows, however fetches, notices and other
\* calls interleave in the shared cache.
RevocationBites ==
  \A t \in Threads : place[t] = "passed" => \A i \in 1..Last(t) : InGoodTime(t, i)

\* Once the cache has a revocation, later than the instant it took effect, no
\* late answer or notice makes it forget.
Learned(c) == c \in DOMAIN cache /\ cache[c].revoked /\ cache[c].at > revoked[c].at
LearnedRevocationStays == [][\A c \in Capsules : Learned(c) => Learned(c)']_dvars

\* Section 5.1 of the formal model: no action begins after the receiver learns
\* an authenticated revocation of the capsule, or a cascading one of an ancestor.
Knows(t) == Continuous(Chain(t)) /\ \E i \in 1..Last(t) : LET c == Lineage(Chain(t))[i] IN
              Learned(c) /\ Doc[c].profile = "online-strict" /\ (i = Last(t) \/ cache[c].cascade)
LearnedRevocationBinds ==
  \A t \in Threads : [](place[t] = "idle" /\ Knows(t) => [](place[t] # "passed"))

\* An action that passes is one that each ancestor authorizes.
LeafWithinAncestors ==
  \A t \in Threads : place[t] = "passed" =>
    \A i \in 1..Last(t) : Authorizes(Lineage(Chain(t))[i], call[t].proposal)

\* The inductive invariant.  Of the chain, what has been checked is attenuated;
\* of the lineage, what has been asked about is in good time; and whatever the
\* cache or an answer says was true at the time it names.
Truthful(c, r) ==
  /\ r.at <= clock
  /\ r.revoked  => c \in DOMAIN revoked /\ revoked[c].at <= r.at /\ r.cascade = revoked[c].cascade
  /\ ~r.revoked => (c \in DOMAIN revoked => r.at <= revoked[c].at)

CacheTruthful == \A c \in DOMAIN cache : Truthful(c, cache[c])

CallInv(t) ==
  /\ now[t] <= clock
  /\ place[t] = "lineage" \/ LineageVerified(t) => Continuous(Chain(t))
  /\ place[t] = "lineage" => Attenuated(Chain(t), step[t])
  /\ LineageVerified(t) => Attenuated(Chain(t), Last(t)) /\ InForce(Leaf(t), now[t])
  /\ place[t] \in AtStatus => \A i \in 1..(step[t] - 1) : InGoodTime(t, i)
  /\ place[t] \in {"asked", "answered"} => Profile(t) # "offline-until-expiry"
  /\ place[t] = "answered" => /\ Truthful(Item(t), answer[t])
                              /\ now[t] <= answer[t].at + Lag
  /\ place[t] \in {"grant", "passed"} => \A i \in 1..Last(t) : InGoodTime(t, i)
  /\ place[t] = "passed" => /\ Authorizes(Leaf(t), call[t].proposal)
                            /\ \A o \in Due(Leaf(t)) : Discharges(o, call[t].proposal)

VerifierInv == VerifierTypeOK /\ CacheTruthful /\ \A t \in Threads : CallInv(t)
=============================================================================
