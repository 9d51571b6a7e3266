----------------------------- MODULE MCApprovals -----------------------------
(***************************************************************************)
(* Values for the constants of Approvals.                                  *)
(***************************************************************************)
EXTENDS Approvals

CONSTANTS alice, bob, carol

\* Two and three distinct reviewers.
DistinctLists == {<<alice, bob>>, <<alice, bob, carol>>, <<>>}
PairList == {<<alice, bob>>}

\* The same reviewer named twice by the client.
RepeatedList == {<<alice, bob, alice>>}
AnyLists == DistinctLists \cup RepeatedList
=============================================================================
