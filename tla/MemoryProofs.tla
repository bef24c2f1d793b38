---------------------------- MODULE MemoryProofs ----------------------------
(***************************************************************************)
(* Proofs about InMemoryStore, for every set of ids, tenants and times, and *)
(* about the trust that Trust derives.                                      *)
(*                                                                         *)
(* A call changes at most the memory under one id.  supersede and forget    *)
(* change only one that is the caller's; insert leaves one that is the      *)
(* caller's, whatever lay there.  So the overwriting insert is the only     *)
(* call that reaches across tenants or undoes a supersession, and what      *)
(* holds without it is stated for FreshSpec.  Type correctness is all the   *)
(* invariant this needs.                                                    *)
(***************************************************************************)
EXTENDS InMemoryStore, Trust, TLAPS

\* Each call keeps the store well-typed.
LEMMA CallTyped ==
    ASSUME TypeOK, NEW tenant \in Tenants, CallOf(tenant)
    PROVE  TypeOK'
<1>1. PICK id \in Ids : Retire(tenant, id) \/ \E memory \in Memory : Insert(tenant, id, memory)
  BY DEF CallOf
<1>2. CASE \E memory \in Memory : Insert(tenant, id, memory)
  BY <1>2 DEF Insert, TypeOK
<1>3. CASE \E new \in Ids : Supersede(tenant, id, new)
  <2>1. PICK new \in Ids : Supersede(tenant, id, new)
    BY <1>3
  <2>2. [memories[id] EXCEPT !.successor = new] \in Memory
    BY <2>1 DEF Supersede, Owned, TypeOK, Memory
  <2> QED
    BY <2>1, <2>2 DEF Supersede, Owned, TypeOK
<1>4. CASE Forget(tenant, id)
  BY <1>4 DEF Forget, TypeOK
<1> QED
  BY <1>1, <1>2, <1>3, <1>4 DEF Retire

\* The store is well-typed: in particular a map of memories by their ids.
THEOREM StoreTyped == Spec => []TypeOK
<1>1. Init => TypeOK
  BY DEF Init, TypeOK
<1>2. TypeOK /\ [Next]_memories => TypeOK'
  <2>1. TypeOK /\ UNCHANGED memories => TypeOK'
    BY DEF TypeOK
  <2> QED
    BY <2>1, CallTyped DEF Next
<1> QED
  BY <1>1, <1>2, PTL DEF Spec

\* Callers with fresh ids are callers.
LEMMA FreshIsACall == FreshSpec => Spec
<1>1. [FreshNext]_memories => [Next]_memories
  BY DEF FreshNext, FreshCallOf, Next, CallOf
<1> QED
  BY <1>1, PTL DEF FreshSpec, Spec

-----------------------------------------------------------------------------
(* Tenancy. *)

\* supersede and forget touch one memory, of the caller, which stays the caller's.
LEMMA RetireIsLocal ==
    ASSUME TypeOK, NEW tenant \in Tenants, NEW i \in Ids, Retire(tenant, i)
    PROVE  /\ Owned(tenant, i)
           /\ DOMAIN memories' \subseteq DOMAIN memories
           /\ \A id \in DOMAIN memories' : memories'[id].tenant = memories[id].tenant
           /\ \A id \in DOMAIN memories \ {i} :
                 id \in DOMAIN memories' /\ memories'[id] = memories[id]
<1>1. CASE \E new \in Ids : Supersede(tenant, i, new)
  BY <1>1 DEF Supersede, Owned, TypeOK, Memory
<1>2. CASE Forget(tenant, i)
  BY <1>2 DEF Forget, Owned
<1> QED
  BY <1>1, <1>2 DEF Retire

\* An insert is seen by another tenant only where it replaces that tenant's memory.
LEMMA CallCrosses ==
    ASSUME TypeOK, NEW tenant \in Tenants, CallOf(tenant),
           NEW other \in Tenants \ {tenant}, NEW id \in Ids,
           Get(other, id)' # Get(other, id)
    PROVE  Owned(other, id) /\ Overwrites(tenant, id)
<1>1. PICK i \in Ids : Retire(tenant, i) \/ \E memory \in Memory : Insert(tenant, i, memory)
  BY DEF CallOf
<1>2. CASE Retire(tenant, i)
  <2>1. CASE id = i
    BY <1>2, <2>1, RetireIsLocal DEF Get, Owned
  <2>2. CASE id # i
    BY <1>2, <2>2, RetireIsLocal DEF Get
  <2> QED
    BY <2>1, <2>2
<1>3. CASE \E memory \in Memory : Insert(tenant, i, memory)
  <2>1. PICK memory \in Memory : Insert(tenant, i, memory)
    BY <1>3
  <2>2. id = i
    BY <2>1 DEF Get, Insert
  <2>3. Owned(other, id)
    BY <2>1, <2>2 DEF Get, Insert, Owned
  <2> QED
    BY <2>1, <2>2, <2>3 DEF Overwrites, Owned
<1> QED
  BY <1>1, <1>2, <1>3

\* For the store as it is: insert under an id in use is the only call that reaches
\* another tenant, since every other one filters on the tenant it is given.
THEOREM StoreCrossesByOverwrite == Spec => OnlyOverwritesCross
<1>1. TypeOK => [\A tenant \in Tenants : CallOf(tenant) =>
           \A other \in Tenants \ {tenant}, id \in Ids :
               \/ Get(other, id)' = Get(other, id)
               \/ Owned(other, id) /\ Overwrites(tenant, id)]_memories
  BY CallCrosses
<1> QED
  BY <1>1, StoreTyped, PTL DEF OnlyOverwritesCross

\* And it does reach it: after an insert under the id of another tenant's memory
\* that tenant gets nothing where it got its memory.
LEMMA OverwriteTakesAway ==
    ASSUME NEW tenant \in Tenants, NEW other \in Tenants \ {tenant}, NEW id \in Ids,
           Owned(other, id), Overwrites(tenant, id)
    PROVE  Get(other, id) = {memories[id]} /\ Get(other, id)' = {}
<1>1. PICK memory \in Memory : Insert(tenant, id, memory)
  BY DEF Overwrites
<1>2. Get(other, id) = {memories[id]}
  BY DEF Get, Owned
<1>3. id \in DOMAIN memories' /\ memories'[id].tenant = tenant
  BY <1>1 DEF Insert
<1>4. Get(other, id)' = {}
  BY <1>3 DEF Get
<1> QED
  BY <1>2, <1>4

\* Under fresh ids tenants are isolated.
THEOREM StoreIsolates == FreshSpec => TenantsAreIsolated
<1>1. TypeOK /\ [FreshNext]_memories =>
        [\A tenant \in Tenants : CallOf(tenant) =>
           \A other \in Tenants \ {tenant}, id \in Ids : Get(other, id)' = Get(other, id)]_memories
  <2> SUFFICES ASSUME TypeOK, FreshNext,
                      NEW tenant \in Tenants, CallOf(tenant),
                      NEW other \in Tenants \ {tenant}, NEW id \in Ids,
                      Get(other, id)' # Get(other, id)
               PROVE  FALSE
    OBVIOUS
  <2>1. Owned(other, id) /\ Overwrites(tenant, id)
    BY CallCrosses
  <2>2. id \in DOMAIN memories' /\ memories'[id].tenant = tenant
    BY <2>1 DEF Overwrites, Insert
  <2>3. PICK t \in Tenants, i \in Ids :
          \/ Retire(t, i)
          \/ i \notin DOMAIN memories /\ \E memory \in Memory : Insert(t, i, memory)
    BY DEF FreshNext, FreshCallOf
  <2>4. memories'[id].tenant = memories[id].tenant
    <3>1. CASE Retire(t, i)
      BY <2>2, <3>1, RetireIsLocal
    <3>2. CASE i \notin DOMAIN memories /\ \E memory \in Memory : Insert(t, i, memory)
      BY <2>1, <3>2 DEF Owned, Insert
    <3> QED
      BY <2>3, <3>1, <3>2
  <2> QED
    BY <2>1, <2>2, <2>4 DEF Owned
<1>2. FreshSpec => []TypeOK
  BY FreshIsACall, StoreTyped, PTL
<1> QED
  BY <1>1, <1>2, PTL DEF FreshSpec, TenantsAreIsolated

-----------------------------------------------------------------------------
(* Supersession. *)

\* supersede and forget clear no successor.
LEMMA RetireIsFinal ==
    ASSUME TypeOK, Nobody \notin Ids, NEW tenant \in Tenants, NEW i \in Ids,
           Retire(tenant, i), NEW id \in Ids, Superseded(id), id \in DOMAIN memories'
    PROVE  Superseded(id)'
<1>1. CASE \E new \in Ids : Supersede(tenant, i, new)
  BY <1>1 DEF Supersede, Superseded, Owned, TypeOK, Memory
<1>2. CASE Forget(tenant, i)
  BY <1>2 DEF Forget, Superseded
<1> QED
  BY <1>1, <1>2 DEF Retire

\* For the store as it is: only an insert under its id brings a superseded memory's
\* id back to life, provided that "none" is not an id.
THEOREM StoreRevivesByOverwrite ==
    ASSUME Nobody \notin Ids
    PROVE  Spec => OnlyOverwritesRevive
<1>1. TypeOK /\ [Next]_memories =>
        [\A id \in Ids : Superseded(id) =>
           \/ Superseded(id)' \/ id \notin DOMAIN memories'
           \/ \E tenant \in Tenants : Overwrites(tenant, id)]_memories
  <2> SUFFICES ASSUME TypeOK, NEW tenant \in Tenants, CallOf(tenant),
                      NEW id \in Ids, Superseded(id), id \in DOMAIN memories'
               PROVE  Superseded(id)' \/ Overwrites(tenant, id)
    BY DEF Next
  <2>1. PICK i \in Ids : Retire(tenant, i) \/ \E memory \in Memory : Insert(tenant, i, memory)
    BY DEF CallOf
  <2>2. CASE Retire(tenant, i)
    BY <2>2, RetireIsFinal
  <2>3. CASE \E memory \in Memory : Insert(tenant, i, memory)
    <3>1. CASE id = i
      BY <2>3, <3>1 DEF Overwrites, Superseded
    <3>2. CASE id # i
      BY <2>3, <3>2 DEF Insert, Superseded
    <3> QED
      BY <3>1, <3>2
  <2> QED
    BY <2>1, <2>2, <2>3
<1> QED
  BY <1>1, StoreTyped, PTL DEF Spec, OnlyOverwritesRevive

\* Under fresh ids a superseded memory stays superseded until it is forgotten.
THEOREM SupersessionIsFinal ==
    ASSUME Nobody \notin Ids
    PROVE  FreshSpec => SupersededIsOver
<1>1. TypeOK /\ [FreshNext]_memories =>
        [\A id \in Ids : Superseded(id) => Superseded(id)' \/ id \notin DOMAIN memories']_memories
  <2> SUFFICES ASSUME TypeOK, NEW tenant \in Tenants, FreshCallOf(tenant),
                      NEW id \in Ids, Superseded(id), id \in DOMAIN memories'
               PROVE  Superseded(id)'
    BY DEF FreshNext
  <2>1. PICK i \in Ids :
          \/ Retire(tenant, i)
          \/ i \notin DOMAIN memories /\ \E memory \in Memory : Insert(tenant, i, memory)
    BY DEF FreshCallOf
  <2>2. CASE Retire(tenant, i)
    BY <2>2, RetireIsFinal
  <2>3. CASE i \notin DOMAIN memories /\ \E memory \in Memory : Insert(tenant, i, memory)
    BY <2>3 DEF Insert, Superseded
  <2> QED
    BY <2>1, <2>2, <2>3
<1>2. FreshSpec => []TypeOK
  BY FreshIsACall, StoreTyped, PTL
<1> QED
  BY <1>1, <1>2, PTL DEF FreshSpec, SupersededIsOver

-----------------------------------------------------------------------------
(* The trust of a memory, for any number of supporters and contests. *)

\* The four values a derivation starts with.
LEMMA BaseTrusts ==
    ASSUME NEW derivation \in Derivations
    PROVE  /\ derivation \in Decided => BaseTrust(derivation) = 90
           /\ derivation \in Claimed => BaseTrust(derivation) = 60
           /\ derivation \in Raw => BaseTrust(derivation) = 40
           /\ derivation = "none" => BaseTrust(derivation) = 50
  BY DEF BaseTrust, Decided, Claimed, Raw

\* A derived trust is within the CHECK of the table memories.
THEOREM TrustIsBounded ==
    ASSUME NEW derivation \in Derivations, NEW s \in Nat, NEW c \in Nat
    PROVE  TrustFrom(derivation, s, c) \in 0..100
<1>1. BaseTrust(derivation) \in Int
  BY BaseTrusts DEF Derivations
<1> QED
  BY <1>1 DEF TrustFrom, Unit, AtMost

\* Support never lowers a trust, and a contest never raises it.
THEOREM SignalsMoveTrust ==
    ASSUME NEW derivation \in Derivations, NEW s \in Nat, NEW c \in Nat,
           NEW more \in Nat
    PROVE  /\ TrustFrom(derivation, s, c) <= TrustFrom(derivation, s + more, c)
           /\ TrustFrom(derivation, s, c + more) <= TrustFrom(derivation, s, c)
<1>1. BaseTrust(derivation) \in Int
  BY BaseTrusts DEF Derivations
<1> QED
  BY <1>1 DEF TrustFrom, Unit, AtMost

\* No number of supporters makes a raw observation as trusted as what was decided
\* and is uncontested, and no number of contests makes what was decided
\* worthless.
THEOREM DecisionsOutweighNumbers ==
    ASSUME NEW raw \in Raw, NEW decided \in Decided, NEW s \in Nat, NEW c \in Nat
    PROVE  /\ TrustFrom(raw, s, c) < TrustFrom(decided, 0, 0)
           /\ TrustFrom(decided, s, c) >= 30
<1>1. BaseTrust(raw) = 40 /\ BaseTrust(decided) = 90
  BY BaseTrusts DEF Derivations
<1> QED
  BY <1>1 DEF TrustFrom, Unit, AtMost
=============================================================================
