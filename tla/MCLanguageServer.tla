-------------------------- MODULE MCLanguageServer --------------------------
(* Small packages for LanguageServer: two entries that share a module. *)
EXTENDS LanguageServer

CONSTANTS a, b, m

\* a and b are entries, and both import the module m, which a's world serves.
TwoEntries == {a, b, m}
TwoEntriesLoads == [f \in TwoEntries |-> IF f = m THEN {m} ELSE {f, m}]
TwoEntriesPrimary == [f \in TwoEntries |-> IF f = m THEN a ELSE f]

\* The same package without b.
OneEntry == {a, m}
OneEntryLoads == [f \in OneEntry |-> TwoEntriesLoads[f]]
OneEntryPrimary == [f \in OneEntry |-> a]

=============================================================================
