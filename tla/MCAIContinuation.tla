-------------------------- MODULE MCAIContinuation --------------------------
(***************************************************************************)
(* Instances of AIContinuation for TLC.                                    *)
(***************************************************************************)
EXTENDS AIContinuation, TLC

CONSTANTS l1, s1, s2, p1

OneLease == [l \in {l1} |-> s1]
LoneProvider == [l \in {l1} |-> p1]

\* The facts of a session without a lease are looked at by nobody: there it is
\* only the chats that matter, for the provider they hold.
OnlyLeasedSessionsMove == facts[s2] = 1

FirstLease == INSTANCE AuthorityLease
  WITH permission <- Permission(l1), spent <- accepted[l1]

\* Every step of the sidecar is, for the first lease, a step of AuthorityLease
\* or a stutter.
LeaseKeepsItsPromise == FirstLease!Spec
=============================================================================
