--------------------------- MODULE GovernedAction ---------------------------
(***************************************************************************)
(* What the Governed Action Gateway promises about one protected side      *)
(* effect per action id, with no threads, locks, crashes or messages: an   *)
(* action id is bound to one content, its effect may appear only after a   *)
(* durable intent to commit it, and it is reported as done only when the   *)
(* effect is there and as refused only when it never will be.              *)
(*                                                                         *)
(* GovernedActionGateway is shown to implement this module.                *)
(***************************************************************************)

CONSTANTS
  Actions,      \* action ids
  Contents,     \* what a proposal asks for, up to its digest
  NoContent     \* "nothing"

VARIABLES
  binding,      \* binding[a]: the content a is bound to, or NoContent
  phase,        \* phase[a]: how far the ledger has taken a
  effect        \* effect[a]: the content a was carried out with, or NoContent

promiseVars == <<binding, phase, effect>>

Phases == {"unbound", "open", "waiting", "intent", "done", "refused"}

\* A ledger may be opened with intents an earlier process left behind, carried
\* out or not.
Init ==
  /\ phase \in [Actions -> {"unbound", "intent"}]
  /\ binding \in [Actions -> Contents \cup {NoContent}]
  /\ \A a \in Actions : binding[a] = NoContent <=> phase[a] = "unbound"
  /\ effect \in [Actions -> Contents \cup {NoContent}]
  /\ \A a \in Actions : effect[a] \in {NoContent, binding[a]}

Move(a, from, to) ==
  /\ phase[a] \in from
  /\ phase' = [phase EXCEPT ![a] = to]

Bind(a, c) ==
  /\ Move(a, {"unbound"}, "open")
  /\ binding' = [binding EXCEPT ![a] = c]
  /\ UNCHANGED effect

Wait(a) ==
  /\ Move(a, {"open"}, "waiting")
  /\ UNCHANGED <<binding, effect>>

\* The waiting action is taken up again: its id becomes free.
Unbind(a) ==
  /\ Move(a, {"waiting"}, "unbound")
  /\ binding' = [binding EXCEPT ![a] = NoContent]
  /\ UNCHANGED effect

Intend(a) ==
  /\ Move(a, {"open"}, "intent")
  /\ UNCHANGED <<binding, effect>>

\* The one step that touches the outside world.
Perform(a) ==
  /\ phase[a] = "intent"
  /\ effect[a] = NoContent
  /\ effect' = [effect EXCEPT ![a] = binding[a]]
  /\ UNCHANGED <<binding, phase>>

Confirm(a) ==
  /\ effect[a] = binding[a]
  /\ Move(a, {"intent"}, "done")
  /\ UNCHANGED <<binding, effect>>

Refuse(a) ==
  /\ effect[a] = NoContent
  /\ Move(a, {"open", "intent"}, "refused")
  /\ UNCHANGED <<binding, effect>>

Next ==
  \E a \in Actions :
    \/ \E c \in Contents : Bind(a, c)
    \/ Wait(a)
    \/ Unbind(a)
    \/ Intend(a)
    \/ Perform(a)
    \/ Confirm(a)
    \/ Refuse(a)

Spec == Init /\ [][Next]_promiseVars

=============================================================================
