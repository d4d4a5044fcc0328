------------------------------ MODULE MCRouted ------------------------------
(* Instances of Routed for TLC.                                            *)
EXTENDS Routed

CONSTANTS c1, c2

MCClients == {c1, c2}
MCInboxOf == [c \in MCClients |-> <<"INBOX", c>>]
MCAdvisory == <<"RT", "ADVISORY">>
\* No action reads the record of what was sent last.
RouterState == <<clients, inboxes, routes, tree, uses>>

Symmetry == Permutations(MCClients)

A   == <<"A">>
AB  == <<"A", "B">>
AC  == <<"A", "C">>
ABD == <<"A", "B", "D">>
ACD == <<"A", "C", "D">>
T   == <<"T">>
TI  == <<"T", "{i}">>
T1  == <<"T", "1">>
TIN == <<"T", "{i}", "N">>
T1N == <<"T", "1", "N">>

\* Listeners and aliases that share a branch of the tree.
OneBranch == [ids |-> {1, 2}, listeners |-> {AB, ABD}, aliases |-> {AC, ACD}, topics |-> {A, AC}]

\* Listeners and aliases at the same topics and above each other.
Above == [ids |-> {1}, listeners |-> {AB}, aliases |-> {A, AC}, topics |-> {A, AB, AC}]

\* A table, its rows and a column, and listeners of the advisory topic.
TableRows == [ids |-> {1, 2}, listeners |-> {T, TI, MCAdvisory}, aliases |-> {TIN},
              topics |-> {T, T1, T1N}]

AllWorkloads == {OneBranch, Above, TableRows}
BranchOnly   == {OneBranch}
=============================================================================
