-------------------------- MODULE WorkspaceClaims --------------------------
(***************************************************************************)
(* A statement of the repository's own text about the deletion of a        *)
(* workspace that the code does not bear out, checked in a run that is     *)
(* expected to find a counterexample.                                      *)
(***************************************************************************)
EXTENDS MCWorkspace

\* requestTenantDeletion.ts:37-40 "Two calls in flight at the same time will both read
\* deletedAt === null then both write - that's OK, the second write is a no-op
\* (deletedAt was already set; we don't override deletionRequestedAt because that
\* would lose the original)": the time of the first request stays.  The update has
\* no condition on deletedAt, and the second one overwrites both stamps.
OriginalRequestStays ==
  [][\A t \in Tenants : tenants[t].requestedAt # 0
       => tenants'[t].requestedAt = tenants[t].requestedAt]_wsVars

=============================================================================
