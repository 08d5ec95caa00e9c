----------------------------- MODULE RateLimit -----------------------------
(***************************************************************************)
(* What a limiter of events promises: it lets an event of a key pass if    *)
(* and only if fewer than MaxPerWindow events of that key have passed in   *)
(* the window that ends now.  An event leaves the window when it is as old *)
(* as the window is long.  The promise answers from all it ever let pass;  *)
(* the limiters of the code keep less.  Both live as long as the process.  *)
(***************************************************************************)
EXTENDS Naturals, Sequences, FiniteSets

CONSTANTS Keys, WindowLength, MaxPerWindow

VARIABLES
  now,     \* the clock
  passed,  \* for each key, when its events passed
  answer   \* the last decision, and when it was made

vars == <<now, passed, answer>>

Nothing == [k \in Keys |-> <<>>]
NoAnswer == <<>>

Init == now \in Nat /\ passed = Nothing /\ answer = NoAnswer

Recent(k) == {i \in DOMAIN passed[k] : now < passed[k][i] + WindowLength}
Allowed(k) == Cardinality(Recent(k)) < MaxPerWindow

Event(k) ==
  /\ answer' = <<k, Allowed(k), now>>
  /\ passed' = IF Allowed(k) THEN [passed EXCEPT ![k] = Append(@, now)] ELSE passed
  /\ UNCHANGED now

Advance == now' > now /\ UNCHANGED <<passed, answer>>

\* The process ends: what passed is forgotten.
Forget == passed' = Nothing /\ answer' = NoAnswer /\ UNCHANGED now

Next == Advance \/ Forget \/ \E k \in Keys : Event(k)

Spec == Init /\ [][Next]_vars

=============================================================================
