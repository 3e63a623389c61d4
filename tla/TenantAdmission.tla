-------------------------- MODULE TenantAdmission --------------------------
(***************************************************************************)
(* Admission of tenants into an organization (tenants/service.rs,          *)
(* quotas.rs, repositories/tenants.rs): a request reads the caller's       *)
(* membership and resolves the repository, then inserts the tenant in one  *)
(* transaction that locks the organization.  Meanwhile tenants are         *)
(* started, stopped and deleted by durable operations, repositories lose   *)
(* access, members lose their role and the organization may be deleted.    *)
(***************************************************************************)
EXTENDS Integers, FiniteSets

CONSTANTS TenantIds,    \* ids handed out, numbers from 1
          Repos,        \* GitHub repositories
          Requests,     \* concurrent creations
          max_tenants,  \* the quota row
          MaxChanges    \* bound: changes of access, role and organization

VARIABLES orgAt,       \* the organization's status
          membership,  \* the caller's role
          access,      \* repositories an active connection reaches
          tenantAt,    \* the tenants rows
          admission,   \* stage of each creation
          stopping,    \* tenant.stop operations: none, queued or calling Coder
          revived,     \* history: a stop finished on a tenant being deleted
          changes

vars == <<orgAt, membership, access, tenantAt, admission, stopping, revived, changes>>

None == [repo |-> "none", desired |-> "none", observed |-> "none"]
Waiting == [stage |-> "idle", repo |-> "none"]

Init == /\ orgAt = "ready" /\ membership = "developer" /\ access = Repos
        /\ tenantAt = [t \in TenantIds |-> None]
        /\ admission = [r \in Requests |-> Waiting]
        /\ stopping = [t \in TenantIds |-> "none"]
        /\ revived = FALSE /\ changes = 0

Rows == {t \in TenantIds : tenantAt[t] # None}

----------------------------------------------------------------------------
\* Mutant: a tenant being stopped does not count.
CountsRunning(t) == tenantAt[t].desired \in {"provisioning", "running"}

\* desired_state IN ('provisioning', 'running', 'paused').
Active(t) == tenantAt[t].desired \in {"provisioning", "running", "paused"}

check_and_reserve_tenant_in_tx == Cardinality({t \in TenantIds : Active(t)}) < max_tenants

\* Mutant: a name is free as soon as deletion is requested.
LiveUntilDeleting(t) == Active(t)

\* The unique indexes of migration 0005.
Live(t) == t \in Rows /\ (tenantAt[t].desired # "deleted" \/ tenantAt[t].observed # "deleted")

translate_tenant_insert(repo) == \A t \in TenantIds : Live(t) => tenantAt[t].repo # repo

\* create_tenant of routes and service, before the transaction: the policy reads the
\* current membership, a repository URL is resolved to an accessible id.
accessible_repository_id(repo) == repo \in access

create_tenant(r, repo) ==
    /\ admission[r] = Waiting
    /\ membership = "developer" /\ orgAt = "ready" /\ accessible_repository_id(repo)
    /\ admission' = [admission EXCEPT ![r] = [stage |-> "checked", repo |-> repo]]
    /\ UNCHANGED <<orgAt, membership, access, tenantAt, stopping, revived, changes>>

\* Mutant: the status read by the policy is relied on.
ReadyWhenChecked == TRUE

\* SELECT status FROM organizations ... FOR UPDATE.
StillReady == orgAt = "ready"

\* create_with_id_in_tx: the owned repository, the insert and its unique indexes.
create_with_id_in_tx(t, repo) ==
    tenantAt' = [tenantAt EXCEPT ![t] = [repo |-> repo, desired |-> "provisioning", observed |-> "provisioning"]]

\* The transaction; ids are handed out in order.
Admit(r) ==
    LET repo == admission[r].repo
        t == Cardinality(Rows) + 1 IN
    /\ admission[r].stage = "checked" /\ t \in TenantIds
    /\ IF StillReady /\ repo \in access /\ check_and_reserve_tenant_in_tx /\ translate_tenant_insert(repo)
       THEN create_with_id_in_tx(t, repo)
       ELSE UNCHANGED tenantAt
    /\ admission' = [admission EXCEPT ![r] = Waiting]
    /\ UNCHANGED <<orgAt, membership, access, stopping, revived, changes>>

----------------------------------------------------------------------------
(* Actions on a tenant, by request and by its worker.                      *)

SetDesired(t, d) == tenantAt' = [tenantAt EXCEPT ![t].desired = d]

MayAct == membership = "developer" /\ orgAt = "ready"

\* tenant.provision completes only while the tenant is still wanted.
ProvisionEnds(t) == /\ tenantAt[t].desired = "provisioning"
                    /\ tenantAt' = [tenantAt EXCEPT ![t].desired = "running", ![t].observed = "running"]
                    /\ UNCHANGED <<orgAt, membership, access, admission, stopping, revived, changes>>

start_tenant(t) == /\ MayAct /\ t \in Rows
                   /\ tenantAt[t].desired \notin {"deleting", "deleted", "provisioning", "running"}
                   /\ tenantAt[t].observed # "provisioning" /\ tenantAt[t].repo \in access
                   /\ SetDesired(t, "running")
                   /\ UNCHANGED <<orgAt, membership, access, admission, stopping, revived, changes>>

stop_tenant(t) == /\ MayAct /\ t \in Rows /\ stopping[t] = "none"
                  /\ tenantAt[t].desired \notin {"deleting", "deleted"}
                  /\ SetDesired(t, "paused")
                  /\ stopping' = [stopping EXCEPT ![t] = "queued"]
                  /\ UNCHANGED <<orgAt, membership, access, admission, revived, changes>>

\* stop of the worker: desired and observed become paused unless the tenant is deleted.
StopEnds(t) == /\ stopping[t] = "queued"
               /\ stopping' = [stopping EXCEPT ![t] = "none"]
               /\ IF tenantAt[t].desired = "deleted" THEN UNCHANGED <<tenantAt, revived>>
                  ELSE /\ tenantAt' = [tenantAt EXCEPT ![t].desired = "paused", ![t].observed = "paused"]
                       /\ revived' = (revived \/ tenantAt[t].desired = "deleting")
               /\ UNCHANGED <<orgAt, membership, access, admission, changes>>

delete_tenant(t) == /\ t \in Rows /\ tenantAt[t].desired \notin {"deleting", "deleted"}
                    /\ SetDesired(t, "deleting")
                    /\ UNCHANGED <<orgAt, membership, access, admission, stopping, revived, changes>>

\* The last transaction of tenant.delete.
DeleteEnds(t) == /\ tenantAt[t].desired = "deleting"
                 /\ tenantAt' = [tenantAt EXCEPT ![t].desired = "deleted", ![t].observed = "deleted"]
                 /\ UNCHANGED <<orgAt, membership, access, admission, stopping, revived, changes>>

----------------------------------------------------------------------------
Change == changes < MaxChanges /\ changes' = changes + 1

request_deletion == /\ Change /\ orgAt = "ready" /\ orgAt' = "deleting"
                    /\ UNCHANGED <<membership, access, tenantAt, admission, stopping, revived>>

RoleLost == /\ Change /\ membership = "developer" /\ membership' = "viewer"
            /\ UNCHANGED <<orgAt, access, tenantAt, admission, stopping, revived>>

AccessChanges == /\ Change /\ \E R \in SUBSET Repos : R # access /\ access' = R
                 /\ UNCHANGED <<orgAt, membership, tenantAt, admission, stopping, revived>>

Next == \/ \E r \in Requests : Admit(r) \/ \E repo \in Repos : create_tenant(r, repo)
        \/ \E t \in TenantIds : \/ ProvisionEnds(t) \/ start_tenant(t) \/ stop_tenant(t)
                              \/ StopEnds(t) \/ delete_tenant(t) \/ DeleteEnds(t)
        \/ request_deletion \/ RoleLost \/ AccessChanges

Spec == Init /\ [][Next]_vars

----------------------------------------------------------------------------
DesiredStates == {"none", "provisioning", "running", "paused", "deleting", "deleted"}

TypeOK == /\ orgAt \in {"ready", "deleting"} /\ membership \in {"developer", "viewer"}
          /\ access \subseteq Repos
          /\ tenantAt \in [TenantIds -> [repo : Repos \cup {"none"}, desired : DesiredStates,
                                       observed : DesiredStates]]
          /\ admission \in [Requests -> [stage : {"idle", "checked"}, repo : Repos \cup {"none"}]]
          /\ stopping \in [TenantIds -> {"none", "queued"}]
          /\ revived \in BOOLEAN /\ changes \in 0..MaxChanges

(* Concurrent creations never exceed the organization's tenant ceiling     *)
(* (quotas.rs:3-5).  Exception: a stop that finishes on a tenant being     *)
(* deleted makes it active again (tenant_worker.rs:330).                   *)
ActiveWithinLimit ==
    ~revived => Cardinality({t \in TenantIds : tenantAt[t].desired \in {"provisioning", "running", "paused"}})
                    <= max_tenants

(* No two tenants work on one repository, a tenant whose deletion has not  *)
(* finished its cleanup included.                                          *)
OneTenantPerRepository == \A t, u \in TenantIds :
    t # u /\ tenantAt[t].desired \notin {"none", "deleted"} /\ tenantAt[u].desired \notin {"none", "deleted"}
        => tenantAt[t].repo # tenantAt[u].repo

(* A creation that passed its first checks admits no tenant into an        *)
(* organization whose deletion was requested meanwhile, nor one for a      *)
(* repository that was lost meanwhile.                                     *)
NoLateAdmission == \A t \in TenantIds :
 tenantAt[t] = None /\ tenantAt'[t] # None => orgAt = "ready" /\ tenantAt'[t].repo \in access
=============================================================================
