--------------------------- MODULE InMemoryStore ---------------------------
(***************************************************************************)
(* The MemoryStore trait of src/memory.rs, in its in-process implementation *)
(* InMemoryStore: each call is one block under its mutex.  It says what a   *)
(* store of memories is, without connections and transactions.  A namespace *)
(* only selects among a tenant's memories, and is left out.                 *)
(***************************************************************************)
EXTENDS Naturals

CONSTANTS
    Ids,        \* what Uuid::new_v4 may return
    Tenants,
    Times,
    Forever,    \* valid_until: None
    Nobody      \* superseded_by: None

VARIABLE memories   \* the map from ids to memories

Memory == [tenant : Tenants, from : Times, until : Times \cup {Forever},
           successor : Ids \cup {Nobody}]

Init == memories = [id \in {} |-> {}]

Owned(tenant, id) == id \in DOMAIN memories /\ memories[id].tenant = tenant

Superseded(id) == id \in DOMAIN memories /\ memories[id].successor # Nobody

\* Memory::is_live
Live(memory, now) ==
    /\ memory.successor = Nobody
    /\ memory.from <= now
    /\ memory.until = Forever \/ memory.until > now

\* The calls that read.
Get(tenant, id) == {memory \in {memories[i] : i \in DOMAIN memories \cap {id}} : memory.tenant = tenant}

LiveMemories(tenant, now) == {id \in DOMAIN memories : Owned(tenant, id) /\ Live(memories[id], now)}

\* Whatever lies under the id is replaced: an earlier memory of the tenant, a
\* superseded one, even another tenant's.
Insert(tenant, id, memory) ==
    /\ memory.tenant = tenant
    /\ memories' = [i \in DOMAIN memories \cup {id} |-> IF i = id THEN memory ELSE memories[i]]

\* Nothing is asked of the successor, and an earlier one is overwritten; of a
\* memory that is not the tenant's the answer is NotFound.
Supersede(tenant, old, new) ==
    /\ Owned(tenant, old)
    /\ memories' = [memories EXCEPT ![old].successor = new]

Forget(tenant, id) ==
    /\ Owned(tenant, id)
    /\ memories' = [i \in DOMAIN memories \ {id} |-> memories[i]]

\* The calls that filter on the tenant before they change anything.
Retire(tenant, id) ==
    \/ \E new \in Ids : Supersede(tenant, id, new)
    \/ Forget(tenant, id)

CallOf(tenant) ==
    \E id \in Ids : Retire(tenant, id) \/ \E memory \in Memory : Insert(tenant, id, memory)

Next == \E tenant \in Tenants : CallOf(tenant)

Spec == Init /\ [][Next]_memories

(***************************************************************************)
(* The store under callers that insert a memory only under an id nothing    *)
(* lies under, as one made by Uuid::new_v4 is.  The store itself does not   *)
(* ask for it.                                                              *)
(***************************************************************************)
FreshCallOf(tenant) ==
    \E id \in Ids :
        \/ Retire(tenant, id)
        \/ id \notin DOMAIN memories /\ \E memory \in Memory : Insert(tenant, id, memory)

FreshNext == \E tenant \in Tenants : FreshCallOf(tenant)

FreshSpec == Init /\ [][FreshNext]_memories

-----------------------------------------------------------------------------
(* Properties. *)

TypeOK ==
    /\ DOMAIN memories \subseteq Ids
    /\ memories \in [DOMAIN memories -> Memory]

Overwrites(tenant, id) ==
    id \in DOMAIN memories /\ \E memory \in Memory : Insert(tenant, id, memory)

\* Of the store as it is (Spec).  A call of one tenant shows in what another gets
\* only if it inserts under the id of the other's memory: every method but insert
\* filters on the tenant it is given.
OnlyOverwritesCross ==
    [][\A tenant \in Tenants : CallOf(tenant) =>
           \A other \in Tenants \ {tenant}, id \in Ids :
               \/ Get(other, id)' = Get(other, id)
               \/ Owned(other, id) /\ Overwrites(tenant, id)]_memories

\* Of the store as it is (Spec).  A superseded memory stays superseded until it is
\* forgotten or a memory is inserted under its id: no call clears a successor.
OnlyOverwritesRevive ==
    [][\A id \in Ids : Superseded(id) =>
           \/ Superseded(id)' \/ id \notin DOMAIN memories'
           \/ \E tenant \in Tenants : Overwrites(tenant, id)]_memories

\* Under fresh ids (FreshSpec).  No call of one tenant adds, changes, supersedes
\* or forgets another's memory.
TenantsAreIsolated ==
    [][\A tenant \in Tenants : CallOf(tenant) =>
           \A other \in Tenants \ {tenant}, id \in Ids : Get(other, id)' = Get(other, id)]_memories

\* Under fresh ids (FreshSpec).  A superseded memory is never live again, at
\* whatever time it is looked at and in whatever order calls come: only what
\* superseded it may change.
SupersededIsOver ==
    [][\A id \in Ids : Superseded(id) => Superseded(id)' \/ id \notin DOMAIN memories']_memories
=============================================================================
