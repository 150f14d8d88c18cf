---------------------------- MODULE CallLifecycle ----------------------------
(***************************************************************************)
(* What the mesh promises of a call, whatever the breaker, the other calls *)
(* and the operator do: one policy for its life, one list of providers     *)
(* that it walks from the first to the last and never back, at each of     *)
(* them an allowance of tries, one announcement of the start and at most   *)
(* one of the end, and an answer to the caller that agrees with it.        *)
(***************************************************************************)
EXTENDS Naturals, Sequences

CONSTANTS Calls

VARIABLES
  phase,      \* where the call is
  allowance,  \* tries per provider, fixed when the call begins
  size,       \* providers of its list
  place,      \* the provider it is at
  tries,      \* tries made there, the present one included
  told,       \* what was announced of it
  result      \* what the caller got

fixed == <<allowance, size>>
vars == <<phase, fixed, place, tries, told, result>>

Init ==
  /\ phase = [c \in Calls |-> "new"]
  /\ allowance \in [Calls -> Nat \ {0}]
  /\ size = [c \in Calls |-> 0]
  /\ place = [c \in Calls |-> 0]
  /\ tries = [c \in Calls |-> 0]
  /\ told = [c \in Calls |-> <<>>]
  /\ result = [c \in Calls |-> "none"]

Go(c, next) == phase' = [phase EXCEPT ![c] = next]
Tell(c, event) == told' = [told EXCEPT ![c] = Append(@, event)]
End(c, answer) == Go(c, "over") /\ result' = [result EXCEPT ![c] = answer]

\* f changes at c only, to a value of S.
Becomes(f, g, c, S) == g[c] \in S /\ g = [f EXCEPT ![c] = g[c]]

Ask(c) ==
  /\ phase[c] = "new"
  /\ Go(c, "asking")
  /\ Becomes(allowance, allowance', c, Nat \ {0})
  /\ UNCHANGED <<size, place, tries, told, result>>

\* No provider is known: the call ends as if it had never been.
Refuse(c) ==
  /\ phase[c] = "asking"
  /\ End(c, "no-candidates")
  /\ UNCHANGED <<fixed, place, tries, told>>

\* The caller wanted the provider, not the answer.
Route(c) ==
  /\ phase[c] = "asking"
  /\ Becomes(size, size', c, Nat \ {0})
  /\ \/ /\ Becomes(place, place', c, 1..size'[c])
        /\ Tell(c, "mesh.route.resolved") /\ End(c, "resolved")
     \/ /\ UNCHANGED place
        /\ Tell(c, "mesh.route.blocked") /\ End(c, "blocked")
  /\ UNCHANGED <<allowance, tries>>

Learn(c) ==
  /\ phase[c] = "asking"
  /\ Go(c, "walking")
  /\ Becomes(size, size', c, Nat \ {0})
  /\ Tell(c, "mesh.invocation.started")
  /\ UNCHANGED <<allowance, place, tries, result>>

\* On to a later provider, never back.
Approach(c) ==
  /\ phase[c] \in {"walking", "deciding"}
  /\ Go(c, "trying")
  /\ Becomes(place, place', c, place[c] + 1 .. size[c])
  /\ tries' = [tries EXCEPT ![c] = 1]
  /\ UNCHANGED <<fixed, told, result>>

Miss(c) ==
  /\ phase[c] = "trying"
  /\ Go(c, "deciding")
  /\ UNCHANGED <<fixed, place, tries, told, result>>

TryAgain(c) ==
  /\ phase[c] = "deciding"
  /\ tries[c] < allowance[c]
  /\ Go(c, "trying")
  /\ tries' = [tries EXCEPT ![c] = @ + 1]
  /\ UNCHANGED <<fixed, place, told, result>>

Hit(c) ==
  /\ phase[c] = "trying"
  /\ Go(c, "ended")
  /\ Tell(c, "mesh.invocation.completed")
  /\ UNCHANGED <<fixed, place, tries, result>>

\* The whole list is behind the call.
GiveUp(c) ==
  /\ phase[c] \in {"walking", "deciding"}
  /\ Go(c, "ended")
  /\ place' = [place EXCEPT ![c] = size[c]]
  /\ Tell(c, "mesh.invocation.failed")
  /\ UNCHANGED <<fixed, tries, result>>

Break(c) ==
  /\ phase[c] = "trying"
  /\ End(c, "raised")
  /\ UNCHANGED <<fixed, place, tries, told>>

\* The caller gets what was announced last.
Return(c) ==
  /\ phase[c] = "ended"
  /\ End(c, IF told[c][Len(told[c])] = "mesh.invocation.completed"
            THEN "answered" ELSE "exhausted")
  /\ UNCHANGED <<fixed, place, tries, told>>

Next ==
  \E c \in Calls :
    \/ Ask(c) \/ Refuse(c) \/ Route(c) \/ Learn(c) \/ Approach(c) \/ Miss(c)
    \/ TryAgain(c) \/ Hit(c) \/ GiveUp(c) \/ Break(c) \/ Return(c)

Spec == Init /\ [][Next]_vars

=============================================================================
