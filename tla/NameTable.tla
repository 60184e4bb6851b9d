----------------------------- MODULE NameTable -----------------------------
(***************************************************************************)
(* What the symbol table promises: a finite map.  A name that is inserted  *)
(* is bound to its entry from then on, and nothing happens to the others.  *)
(***************************************************************************)
CONSTANTS Names, Values, Unbound

VARIABLE bound

Bind(name, value) == bound' = [bound EXCEPT ![name] = value]

Init == bound = [name \in Names |-> Unbound]

Next == \E name \in Names, value \in Values : Bind(name, value)

Spec == Init /\ [][Next]_bound

=============================================================================
