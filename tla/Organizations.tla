----------------------------- MODULE Organizations -----------------------------
(***************************************************************************)
(* One organization of the manager (openflows-manager/src/organizations,   *)
(* routes/organizations.rs, routes/invitations.rs): its owner, members and *)
(* invitations, and the request to delete it.                              *)
(*                                                                         *)
(* Every mutation is a transaction that locks the organization row first   *)
(* (lock_policy), so its body is one step.  Its timestamps are PostgreSQL's*)
(* now(), the moment the transaction began, and it may wait for the lock:  *)
(* Begin and the body are two steps, and two transactions may commit in    *)
(* the other order than they began in.  What a request reads before its    *)
(* transaction only refuses it early.  Developers are viewers here: no     *)
(* operation of this module tells them apart; nor does any tell a ready    *)
(* organization from one that is being provisioned.  Every account is      *)
(* active: nothing suspends one.  Idempotency keys are the subject of      *)
(* Idempotency.  A timestamp is kept while it is read.                     *)
(***************************************************************************)
EXTENDS Integers, FiniteSets

CONSTANTS Users,        \* accounts, each with its own GitHub identity
          Founder,      \* who creates the organization
          Invites,      \* invitation rows
          Sessions,     \* concurrent transactions
          MaxTime       \* bound on the transactions begun

VARIABLES orgRow,   \* the organization's status and owner
          member,   \* memberships
          invite,   \* invitations
          began     \* when each open transaction began; 0: none is open

vars == <<orgRow, member, invite, began>>

Times == 0..MaxTime
Roles == {"admin", "viewer"}
Statuses == {"active", "suspended", "removed"}

\* time: transactions begun so far; deletions: org.delete operations.
\* An invitation also remembers when it was committed.
TypeOK ==
  /\ orgRow \in [status : {"ready", "deleting"}, owner : Users,
                 time : Times, deletions : 0..2]
  /\ member \in [Users -> [role : Roles, status : Statuses \cup {"none"}, at : Times]]
  /\ invite \in [Invites -> [state : {"none", "live", "expired", "accepted", "revoked"},
                             for : Users, role : Roles, at : Times, done : Times]]
  /\ began \in [Sessions -> Times]

Membership(role, status, now) ==
  [role |-> role, status |-> status, at |-> IF status = "removed" THEN now ELSE 0]

NoInvite == [state |-> "none", for |-> Founder, role |-> "viewer", at |-> 0, done |-> 0]

\* create_org: the organization, its founder's membership, in one transaction.
create_org ==
  /\ orgRow = [status |-> "ready", owner |-> Founder, time |-> 0, deletions |-> 0]
  /\ member = [u \in Users |-> IF u = Founder
                               THEN [role |-> "admin", status |-> "active", at |-> 0]
                               ELSE [role |-> "viewer", status |-> "none", at |-> 0]]

Init ==
  /\ create_org
  /\ invite = [i \in Invites |-> NoInvite]
  /\ began = [s \in Sessions |-> 0]

Begin(s) ==
  /\ began[s] = 0 /\ orgRow.time < MaxTime
  /\ orgRow' = [orgRow EXCEPT !.time = @ + 1]
  /\ began' = [began EXCEPT ![s] = orgRow.time + 1]
  /\ UNCHANGED <<member, invite>>

\* The transaction holds the organization's lock, and commits.
lock_policy(s) == began[s] > 0 /\ began' = [began EXCEPT ![s] = 0]

(***************************************************************************)
(* Policy.                                                                 *)
(***************************************************************************)
\* Mutant: every organization that exists accepts mutations.
AnyMutable == TRUE

require_mutable == orgRow.status # "deleting"

require_member(u) == member[u].status = "active"

require_admin(u) == require_member(u) /\ require_mutable /\ member[u].role = "admin"

require_owner(u) == require_member(u) /\ orgRow.owner = u

(***************************************************************************)
(* Members.                                                                *)
(***************************************************************************)
ActiveAdmin(u) == member[u].role = "admin" /\ member[u].status = "active"

\* Mutant: other admins are counted whether active or not.
AnyOtherAdmin(u) == \E v \in Users \ {u} : member[v].role = "admin"

OtherAdmin(u) == \E v \in Users \ {u} : ActiveAdmin(v)

\* Mutant: the owner may be suspended like anyone else.
AnyoneMayLeave(u, status) == TRUE

OwnerStays(u, status) == orgRow.owner = u => status = "active"

update_member_in_tx(s, u, role, status) ==
  /\ member[u].status # "none"
  /\ OwnerStays(u, status)
  /\ ActiveAdmin(u) /\ ~(role = "admin" /\ status = "active") => OtherAdmin(u)
  /\ member' = [member EXCEPT ![u] = Membership(role, status, began[s])]

\* Either may be left as it is.
update_member(s) ==
  /\ lock_policy(s)
  /\ \E caller, u \in Users : \E role \in Roles, status \in Statuses :
       /\ require_admin(caller)
       /\ update_member_in_tx(s, u, role, status)
  /\ UNCHANGED <<orgRow, invite>>

remove_member(s) ==
  /\ lock_policy(s)
  /\ \E caller, u \in Users : require_admin(caller) /\ update_member_in_tx(s, u, "viewer", "removed")
  /\ UNCHANGED <<orgRow, invite>>

transfer_ownership_in_tx(u) ==
  /\ member[u].status = "active"
  /\ orgRow' = [orgRow EXCEPT !.owner = u]

transfer_ownership(s) ==
  /\ lock_policy(s)
  /\ \E caller, u \in Users :
       /\ require_owner(caller) /\ require_mutable
       /\ transfer_ownership_in_tx(u)
  /\ UNCHANGED <<member, invite>>

(***************************************************************************)
(* Invitations.                                                            *)
(***************************************************************************)
\* An expired invitation to the same person makes room for the new one; a live
\* one refuses it (one_live_invitation_per_org_subject).
create_invitation_in_tx(s, i, u, role) ==
  LET old == {j \in Invites : invite[j].for = u /\ invite[j].state = "expired"}
  IN /\ invite[i].state = "none"
     /\ \A j \in Invites : ~(invite[j].for = u /\ invite[j].state = "live")
     /\ invite' = [j \in Invites |->
          CASE j = i -> [state |-> "live", for |-> u, role |-> role, at |-> began[s],
                         done |-> orgRow.time]
            [] j \in old -> [NoInvite EXCEPT !.state = "revoked"]
            [] OTHER -> invite[j]]

create_invitation(s) ==
  /\ lock_policy(s)
  /\ \E caller, u \in Users : \E i \in Invites, role \in Roles :
       /\ require_admin(caller)
       /\ create_invitation_in_tx(s, i, u, role)
  /\ UNCHANGED <<orgRow, member>>

revoke_invitation(s) ==
  /\ lock_policy(s)
  /\ \E caller \in Users, i \in Invites :
       /\ require_admin(caller)
       /\ invite[i].state \in {"live", "expired"}
       /\ invite' = [invite EXCEPT ![i] = [NoInvite EXCEPT !.state = "revoked"]]
  /\ UNCHANGED <<orgRow, member>>

\* Mutant: an invitation readmits whoever was removed, at whatever time.
ReadmitsAnyRemoved(u, i) == member[u].status \in {"none", "removed"}

\* Mutant: an invitation lifts whatever status the membership has.
LiftsAny(u, i) == member[u].status # "active"

\* The ON CONFLICT clause: the membership is new, or was removed before the
\* invitation was created.
MayJoin(u, i) ==
  \/ member[u].status = "none"
  \/ member[u].status = "removed" /\ member[u].at <= invite[i].at

accept_invitation_in_tx(s, u, i) ==
  /\ invite[i].for = u /\ invite[i].state = "live"
  /\ MayJoin(u, i)
  /\ invite' = [invite EXCEPT ![i] = [NoInvite EXCEPT !.state = "accepted"]]
  /\ member' = [member EXCEPT ![u] = Membership(invite[i].role, "active", began[s])]

accept_invitation(s) ==
  /\ lock_policy(s)
  /\ require_mutable
  /\ \E u \in Users, i \in Invites : accept_invitation_in_tx(s, u, i)
  /\ UNCHANGED orgRow

Expires(i) ==
  /\ invite[i].state = "live"
  /\ invite' = [invite EXCEPT ![i].state = "expired"]
  /\ UNCHANGED <<orgRow, member, began>>

(***************************************************************************)
(* The organization itself.                                                *)
(***************************************************************************)
\* A second request finds the first one's operation.
request_deletion_in_tx(caller) ==
  /\ require_owner(caller)
  /\ orgRow.status # "deleting" /\ require_mutable
  /\ orgRow' = [orgRow EXCEPT !.status = "deleting", !.deletions = @ + 1]

request_deletion(s) ==
  /\ lock_policy(s)
  /\ \E caller \in Users : request_deletion_in_tx(caller)
  /\ UNCHANGED <<member, invite>>

\* A request that is refused under the lock rolls back.
Refused(s) == lock_policy(s) /\ UNCHANGED <<orgRow, member, invite>>

(***************************************************************************)
(* The routes: they authenticate the caller, ask browsers for a CSRF token *)
(* and, for the owner's requests, for a recent authentication, and hand    *)
(* the request on.                                                         *)
(***************************************************************************)
member_routes(s) == update_member(s) \/ remove_member(s)

invitation_routes(s) == create_invitation(s) \/ revoke_invitation(s)

accept_route(s) == accept_invitation(s)

owner_routes(s) == transfer_ownership(s) \/ request_deletion(s)

Next ==
  \/ \E i \in Invites : Expires(i)
  \/ \E s \in Sessions : \/ Begin(s) \/ Refused(s) \/ member_routes(s)
                         \/ invitation_routes(s) \/ accept_route(s) \/ owner_routes(s)

Spec == Init /\ [][Next]_vars

(***************************************************************************)
(* Properties.                                                             *)
(***************************************************************************)
\* Whatever is transferred, demoted and accepted at the same time, the owner is
\* an active member and somebody can administer the organization
\* (update_member_in_tx, transfer_ownership_in_tx).
Governed == /\ member[orgRow.owner].status = "active"
            /\ \E u \in Users : ActiveAdmin(u)

\* "A suspended membership is not reactivated this way": only an admin's own
\* update lifts a suspension, no invitation does.
SuspensionStands ==
  \A u \in Users : member[u].status = "suspended" /\ member'[u].status = "active"
                     => invite' = invite

\* "Removing someone is not undone by an old, still-valid link": an invitation
\* that was there before the removal began does not readmit.  One that is
\* committed while the removal waits for the lock may: both carry the time
\* their transaction began.
RemovalStands ==
  \A u \in Users : member[u].status = "removed" /\ member'[u].status = "active"
     => \A i \in Invites : invite'[i].state = "accepted" /\ invite[i].state = "live"
                             => invite[i].done >= member[u].at

\* From the request to delete it on, the organization's members, invitations and
\* owner stay as they are (every mutation asks require_mutable under the lock).
DeletionFreezes ==
  orgRow.status = "deleting"
     => /\ orgRow'.status = "deleting" /\ orgRow'.owner = orgRow.owner
        /\ orgRow'.deletions = 1 /\ member' = member
=============================================================================
