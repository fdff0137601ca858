---------------------------- MODULE MCFederation ----------------------------
(***************************************************************************)
(* Federation for TLC: the issues of a remote store are interchangeable.    *)
(***************************************************************************)
EXTENDS Federation

IssueSymmetry == Permutations(RemoteIssues)
=============================================================================
