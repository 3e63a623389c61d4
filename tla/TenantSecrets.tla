--------------------------- MODULE TenantSecrets ---------------------------
(***************************************************************************)
(* The runtime secrets of a tenant (runtime/tenant.rs, runtime/redis.rs,   *)
(* secrets.rs): the password of its Redis user, its hook key and the       *)
(* bundle mounted into its workspace, each kept in three places that no    *)
(* transaction spans: PostgreSQL rows, the secret provider and Redis.      *)
(* tenant.provision and tenant.delete attempts use them; a manager may     *)
(* crash between any two calls, an attempt that lost its lease may still   *)
(* be running, Redis restarts without its users, and the in-memory         *)
(* provider forgets everything when the manager restarts.  A secret's      *)
(* value is the number it was generated with, 0 when there is none.        *)
(***************************************************************************)
EXTENDS Integers, FiniteSets

CONSTANTS Attempts,    \* provisioning attempts that may overlap
          MaxSecrets,  \* bound: values generated
          MaxFaults    \* bound: crashes and restarts

VARIABLES provider,   \* "memory" or "durable"
          acl,        \* password of the tenant's Redis user
          row,        \* the tenant_redis_credentials and tenant_hook_keys rows
          secret,     \* what the provider stores under the two fixed names
          bundle,     \* the mounted workspace secret
          tenant,
          step,       \* stage and value in hand of each attempt
          deleter,    \* stage of the deletion
          made,
          overlapped, \* history: two attempts ran at once
          orphan,     \* history: an attempt ended between the provider and the row
          mishap

vars == <<provider, acl, row, secret, bundle, tenant, step, deleter, made, overlapped, orphan, mishap>>

Names == {"redis", "hook"}
NoRow == [state |-> "none", value |-> 0]
NoBundle == [redis |-> 0, hook |-> 0]
Rest == [stage |-> "idle", value |-> 0]

Init == /\ provider \in {"memory", "durable"}
        /\ acl = 0
        /\ row = [n \in Names |-> NoRow]
        /\ secret = [n \in Names |-> 0]
        /\ bundle = NoBundle
        /\ tenant = "provisioning"
        /\ step = [a \in Attempts |-> Rest]
        /\ deleter = "idle"
        /\ made = 0 /\ overlapped = FALSE /\ orphan = FALSE /\ mishap = 0

Goes(a, stage, value) == step' = [step EXCEPT ![a] = [stage |-> stage, value |-> value]]
Live(n) == row[n].state = "live"
Others(a) == \E o \in Attempts \ {a} : step[o] # Rest

----------------------------------------------------------------------------
(* tenant.provision.                                                       *)

\* Mutant: the user is set up again with a password of its own.
GeneratedPassword == (made + 1) % (MaxSecrets + 1)

ResolvedPassword == secret["redis"]

\* redis_credential, then the stored secret: a live one is put into Redis again, a
\* row whose secret is gone is given up.
ensure_redis_credential(a) ==
    /\ step[a] = Rest /\ tenant = "provisioning"
    /\ overlapped' = (overlapped \/ Others(a))
    /\ IF ~Live("redis") THEN Goes(a, "allocate redis", 0) /\ UNCHANGED acl
       ELSE IF secret["redis"] # 0
       THEN acl' = ResolvedPassword /\ Goes(a, "hook", 0)
       ELSE acl' = 0 /\ Goes(a, "revoke redis", 0)
    /\ UNCHANGED <<provider, row, secret, bundle, tenant, deleter, made, orphan, mishap>>

\* The row of a secret the provider has lost.
revoke_stale_row(a, n) ==
    /\ step[a].stage = (IF n = "redis" THEN "revoke redis" ELSE "revoke hook")
    /\ row' = IF Live(n) THEN [row EXCEPT ![n].state = "revoked"] ELSE row
    /\ Goes(a, IF n = "redis" THEN "allocate redis" ELSE "allocate hook", 0)
    /\ UNCHANGED <<provider, acl, secret, bundle, tenant, deleter, made, overlapped, orphan, mishap>>

\* ensure_tenant comes before the secret and the row.
allocate_redis_credential(a) ==
    /\ step[a].stage = "allocate redis" /\ made < MaxSecrets
    /\ made' = made + 1 /\ acl' = made + 1
    /\ Goes(a, "put redis", made + 1)
    /\ UNCHANGED <<provider, row, secret, bundle, tenant, deleter, overlapped, orphan, mishap>>

\* Mutant: a secret that exists is overwritten.
PutsOver(n) == TRUE

\* Every provider refuses a name that exists.
MayPut(n) == secret[n] = 0

put(a, n) ==
    /\ step[a].stage = (IF n = "redis" THEN "put redis" ELSE "allocate hook")
    /\ n = "hook" => made < MaxSecrets
    /\ LET v == IF n = "redis" THEN step[a].value ELSE made + 1 IN
       /\ made' = IF n = "redis" THEN made ELSE made + 1
       /\ IF MayPut(n)
          THEN /\ secret' = [secret EXCEPT ![n] = v]
               /\ Goes(a, IF n = "redis" THEN "insert redis" ELSE "insert hook", v)
          ELSE Goes(a, "idle", 0) /\ UNCHANGED secret
    /\ UNCHANGED <<provider, acl, row, bundle, tenant, deleter, overlapped, orphan, mishap>>

\* ON CONFLICT (tenant_id) DO UPDATE ... WHERE revoked_at IS NOT NULL.
MayUpsert(n) == ~Live(n)

\* The loser removes what it stored; for Redis it converges on the live row.
insert_row(a, n) ==
    /\ step[a].stage = (IF n = "redis" THEN "insert redis" ELSE "insert hook")
    /\ IF MayUpsert(n)
       THEN /\ row' = [row EXCEPT ![n] = [state |-> "live", value |-> step[a].value]]
            /\ Goes(a, IF n = "redis" THEN "hook" ELSE "bundle", 0)
            /\ UNCHANGED <<secret, acl>>
       ELSE /\ secret' = [secret EXCEPT ![n] = 0]
            /\ acl' = IF n = "redis" THEN 0 ELSE acl
            /\ Goes(a, IF n = "redis" THEN "hook" ELSE "idle", 0)
            /\ UNCHANGED row
    /\ UNCHANGED <<provider, bundle, tenant, deleter, made, overlapped, orphan, mishap>>

ensure_hook_key(a) ==
    /\ step[a].stage = "hook"
    /\ Goes(a, IF ~Live("hook") THEN "allocate hook"
               ELSE IF secret["hook"] # 0 THEN "bundle" ELSE "revoke hook", 0)
    /\ UNCHANGED <<provider, acl, row, secret, bundle, tenant, deleter, made, overlapped, orphan, mishap>>

\* The bundle is put or replaced, and its reference stored; a missing part fails the
\* attempt.  The runtime's first heartbeat then completes the provisioning.
prepare_workspace_secret(a) ==
    /\ step[a].stage = "bundle"
    /\ IF \A n \in Names : Live(n) /\ secret[n] # 0
       THEN /\ bundle' = [redis |-> secret["redis"], hook |-> secret["hook"]]
            /\ tenant' = IF tenant = "provisioning" THEN "running" ELSE tenant
       ELSE UNCHANGED <<bundle, tenant>>
    /\ Goes(a, "idle", 0)
    /\ UNCHANGED <<provider, acl, row, secret, deleter, made, overlapped, orphan, mishap>>

\* tenant.start writes the bundle again from the secrets there are.
StartAgain(a) == /\ tenant = "running" /\ step[a] = Rest
                 /\ Goes(a, "bundle", 0)
                 /\ overlapped' = (overlapped \/ Others(a))
                 /\ UNCHANGED <<provider, acl, row, secret, bundle, tenant, deleter, made, orphan, mishap>>

----------------------------------------------------------------------------
(* tenant.delete, and the faults.                                          *)

\* The request revokes both rows in its own transaction.
request_delete ==
    /\ tenant \in {"provisioning", "running"}
    /\ tenant' = "deleting"
    /\ row' = [n \in Names |-> IF Live(n) THEN [row[n] EXCEPT !.state = "revoked"] ELSE row[n]]
    /\ overlapped' = (overlapped \/ \E a \in Attempts : step[a] # Rest)
    /\ UNCHANGED <<provider, acl, secret, bundle, step, deleter, made, orphan, mishap>>

\* redis_credential_any: the user and the secret first, the row in a later step.
revoke_redis_credential ==
    /\ tenant = "deleting" /\ deleter = "idle"
    /\ IF row["redis"] = NoRow THEN UNCHANGED <<acl, secret>>
       ELSE acl' = 0 /\ secret' = [secret EXCEPT !["redis"] = 0]
    /\ deleter' = "revoked"
    /\ UNCHANGED <<provider, row, bundle, tenant, step, made, overlapped, orphan, mishap>>

\* Mutant: the objects are looked up after their row is marked.
NoObjects == {}

Objects == {n \in {"hook"} : row[n] # NoRow}

\* The hook key's object, the bundle's and, afterwards, the marks on the rows.
delete_tenant_secrets ==
    /\ deleter = "revoked"
    /\ row' = [n \in Names |-> IF Live(n) THEN [row[n] EXCEPT !.state = "revoked"] ELSE row[n]]
    /\ secret' = [n \in Names |-> IF n \in Objects THEN 0 ELSE secret[n]]
    /\ bundle' = NoBundle
    /\ deleter' = "deleted"
    /\ UNCHANGED <<provider, acl, tenant, step, made, overlapped, orphan, mishap>>

\* The last transaction removes the rows.
finish_delete == /\ deleter = "deleted"
                 /\ deleter' = "done" /\ tenant' = "deleted"
                 /\ row' = [n \in Names |-> NoRow]
                 /\ UNCHANGED <<provider, acl, secret, bundle, step, made, overlapped, orphan, mishap>>

InsertPending == \E a \in Attempts : step[a].stage \in {"put redis", "insert redis", "insert hook"}

\* restore_redis_credentials runs when the manager is up again.
restore_redis_credentials(kept) == IF Live("redis") /\ kept["redis"] # 0 THEN kept["redis"] ELSE acl

\* A crash ends every attempt in flight; an in-memory provider starts empty.
Restart == /\ mishap < MaxFaults /\ mishap' = mishap + 1
           /\ step' = [a \in Attempts |-> Rest]
           /\ deleter' = IF deleter = "done" THEN deleter ELSE "idle"
           /\ LET kept == IF provider = "memory" THEN [n \in Names |-> 0] ELSE secret IN
              secret' = kept /\ acl' = restore_redis_credentials(kept)
           /\ bundle' = IF provider = "memory" THEN NoBundle ELSE bundle
           /\ orphan' = (orphan \/ InsertPending)
           /\ UNCHANGED <<provider, row, tenant, made, overlapped>>

RedisRestart == /\ mishap < MaxFaults /\ mishap' = mishap + 1 /\ acl # 0
                /\ acl' = 0
                /\ UNCHANGED <<provider, row, secret, bundle, tenant, step, deleter, made, overlapped, orphan>>

Next == \/ \E a \in Attempts :
              \/ ensure_redis_credential(a) \/ allocate_redis_credential(a)
              \/ ensure_hook_key(a) \/ prepare_workspace_secret(a) \/ StartAgain(a)
              \/ \E n \in Names : revoke_stale_row(a, n) \/ put(a, n) \/ insert_row(a, n)
        \/ request_delete \/ revoke_redis_credential
        \/ delete_tenant_secrets \/ finish_delete \/ Restart \/ RedisRestart

Spec == Init /\ [][Next]_vars

----------------------------------------------------------------------------
Values == 0..MaxSecrets

TypeOK == /\ provider \in {"memory", "durable"} /\ acl \in Values
          /\ row \in [Names -> [state : {"none", "live", "revoked"}, value : Values]]
          /\ secret \in [Names -> Values]
          /\ bundle \in [redis : Values, hook : Values]
          /\ tenant \in {"provisioning", "running", "deleting", "deleted"}
          /\ step \in [Attempts -> [stage : {"idle", "revoke redis", "allocate redis", "put redis",
                                             "insert redis", "hook", "revoke hook", "allocate hook",
                                             "insert hook", "bundle"}, value : Values]]
          /\ deleter \in {"idle", "revoked", "deleted", "done"}
          /\ made \in Values /\ overlapped \in BOOLEAN /\ orphan \in BOOLEAN /\ mishap \in 0..MaxFaults

(* The provider never holds a value other than the one whose hash the live *)
(* row records, whatever attempts overlap, until the tenant is being       *)
(* deleted: put creates, and only a revoked row is replaced.               *)
SecretBelongsToRow == \A n \in Names :
    tenant \in {"provisioning", "running"} /\ Live(n) /\ secret[n] # 0
        => secret[n] = row[n].value

(* A tenant whose provisioning completed has the Redis password that its   *)
(* workspace mounts, through crashes and restarts of the manager.  Two     *)
(* exceptions: Redis lost its users, and two attempts ran at once          *)
(* (tenant.rs:165 sets the password before it can lose the race).          *)
MountedPasswordWorks ==
    tenant = "running" /\ deleter = "idle" /\ acl # 0 /\ bundle.redis # 0 /\ ~overlapped
        => bundle.redis = acl

(* A deleted tenant leaves no Redis user and no stored secret, although    *)
(* deletion may be interrupted anywhere and start again.  Exceptions: an   *)
(* attempt that ended between the provider and its row, which nothing      *)
(* records, and one that ran on under a lost lease.                        *)
DeletedLeavesNoSecret ==
    tenant = "deleted" /\ ~orphan /\ ~overlapped
        => acl = 0 /\ \A n \in Names : secret[n] = 0
=============================================================================
