------------------------------ MODULE WeekLease ------------------------------
(***************************************************************************)
(* The row of reporting.pipeline_publication_control that serialises the   *)
(* publications of one week (pipelines/concurrency.py).  The row holds the *)
(* lease (owner, expiry, fencing token) and the pointer to the last valid  *)
(* publication.  lease_expires_at is compared with clock_timestamp() only, *)
(* so the expiry is abstracted to one bit that time raises by itself.      *)
(*                                                                         *)
(* SELECT ... FOR UPDATE is the variable lockHolder: the run whose open    *)
(* business transaction holds the row.  Statements of other transactions   *)
(* that need the row wait until that transaction ends.                     *)
(***************************************************************************)
EXTENDS RunStore, Naturals

CONSTANT NoRun          \* SQL NULL in a run_id column

ASSUME NoRunAssumption == NoRun \notin Runs

VARIABLES ownerRun,     \* owner_run_id
          leaseExpired, \* lease_expires_at <= clock_timestamp()
          fencingToken, \* fencing_token
          lastValidRun, \* last_valid_publication_run_id
          lockHolder    \* run whose transaction holds the row lock

leaseVars == <<ownerRun, leaseExpired, fencingToken>>
controlVars == <<ownerRun, leaseExpired, fencingToken, lastValidRun, lockHolder>>

LeaseInit == /\ ownerRun = NoRun
             /\ leaseExpired = FALSE
             /\ fencingToken = 0
             /\ lastValidRun = NoRun
             /\ lockHolder = NoRun

RowIsFree == lockHolder = NoRun

\* Mutant: an expired lease is not recovered.
Grantable_OnlyIfReleased == ownerRun = NoRun

Grantable == ownerRun = NoRun \/ leaseExpired

\* Mutant: only the recovery of an expired lease advances the token.
GrantLease_KeepingToken(r) ==
  /\ RowIsFree
  /\ Grantable
  /\ ownerRun' = r
  /\ leaseExpired' = FALSE
  /\ fencingToken' = IF ownerRun = NoRun THEN fencingToken ELSE fencingToken + 1
  /\ UNCHANGED <<lastValidRun, lockHolder>>

\* acquire_week_lease when it grants; its own transaction commits the grant.
GrantLease(r) ==
  /\ RowIsFree
  /\ Grantable
  /\ ownerRun' = r
  /\ leaseExpired' = FALSE
  /\ fencingToken' = fencingToken + 1
  /\ UNCHANGED <<lastValidRun, lockHolder>>

\* The lease right that statements guarded by owner and token require.
OwnsLease(r, token) == ownerRun = r /\ fencingToken = token

\* verify_week_lease: owner, token and expiry, read under the row lock.
LeaseVerified(r, token) == OwnsLease(r, token) /\ ~leaseExpired

\* The row lock lives as long as the business transaction that took it.
LockRow(r) == RowIsFree /\ lockHolder' = r
UnlockRow(r) == lockHolder = r /\ lockHolder' = NoRun

\* record_valid_publication: unconditional, whatever the pointer held before.
RecordValidPublication(r) == lastValidRun' = r

\* release_week_lease: looks at owner and token, never at the expiry.
ReleaseLease(r, token) ==
  /\ OwnsLease(r, token)
  /\ ownerRun' = NoRun
  /\ leaseExpired' = FALSE
  /\ UNCHANGED fencingToken

\* The clock passes lease_expires_at, whoever holds the row lock.
ExpireLease ==
  /\ ownerRun # NoRun
  /\ ~leaseExpired
  /\ leaseExpired' = TRUE
  /\ UNCHANGED <<ownerRun, fencingToken, lastValidRun, lockHolder>>

LeaseTypeOK == /\ ownerRun \in Runs \cup {NoRun}
               /\ leaseExpired \in BOOLEAN
               /\ fencingToken \in Nat
               /\ lastValidRun \in Runs \cup {NoRun}
               /\ lockHolder \in Runs \cup {NoRun}
=============================================================================
