------------------------------- MODULE MCPool -------------------------------
(* Model values and bounds for SessionPool. *)
EXTENDS SessionPool, TLC

\* One lease per lane before a checkout opens beyond the reservation.
CapOne == [l \in Lanes |-> 1]

Symmetric == Permutations(Runs) \cup Permutations(LongOps) \cup Permutations(Sessions)
               \cup Permutations(EntryIds) \cup Permutations(Tunnels) \cup Permutations(Creds)
               \cup Permutations(Lanes)

\* A checkout ends, with a session or a refusal, and a session that comes back is parked or closed:
\* a full lane, a server that never answers and a reset that hangs end by their budgets (pool.rs
\* checkout, reset_in_background; SessionPool's CheckoutEnds and ReturnsSettle).
PoolSettles == CheckoutEnds /\ ReturnsSettle
=============================================================================
