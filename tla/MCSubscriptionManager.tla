----------------------- MODULE MCSubscriptionManager -----------------------
(***************************************************************************)
(* SubscriptionManager for TLC: which filter is a prefix of which, and     *)
(* which task uses which filter.                                           *)
(***************************************************************************)
EXTENDS SubscriptionManager, TLC

CONSTANTS f, g, t1, t2

\* No filter is a proper prefix of another one, as in the application.
Unrelated == {<<h, h>> : h \in Filters}

\* f is a proper prefix of g.
Nested == Unrelated \cup {<<f, g>>}

\* Every filter has one client, as in the application.
OwnFilters == [t \in Tasks |-> IF t = t1 THEN {f} ELSE {g}]

\* All tasks use all the filters.
SharedFilters == [t \in Tasks |-> Filters]

\* With SharedFilters and Unrelated, tasks and filters are interchangeable.
Interchangeable == Permutations(Tasks) \cup Permutations(Filters)

=============================================================================
