--------------------------- MODULE RecordsProofs ---------------------------
(***************************************************************************)
(* Proofs about MemoryRecords, for any number of requests, connections,     *)
(* tenants and memories.                                                    *)
(*                                                                         *)
(* A write is examined where its statement runs and appears in the table    *)
(* where its transaction ends, which a request may not live to see; so the  *)
(* invariant follows the write: from the call, over the one connection      *)
(* that the call leases, to the table.                                      *)
(***************************************************************************)
EXTENDS MemoryRecords, TLAPS

\* A call that the middleware let through.
CallSound(call) ==
    /\ call.op = "create" => MayActFor(call.write.by, call.write.row.tenant)
    /\ call.op = "embed" => call.write.by = call.tenant

\* A write that the policies let through.
WriteSound(write) ==
    /\ write \in NewRow => MayActFor(write.by, write.row.tenant)
    /\ write \in NewEmbedding =>
          /\ write.embedding.memory \in DOMAIN rows
          /\ rows[write.embedding.memory].tenant = write.by

\* A request leases its connection, which does what the request asked for.
LeaseSound(w) ==
    reqs[w] \in Served =>
        /\ conns[reqs[w].conn].state = "leased"
        /\ reqs[w].phase = "bound" => conns[reqs[w].conn].bound = reqs[w].call.tenant
        /\ conns[reqs[w].conn].write =
              IF reqs[w].phase = "executed" THEN reqs[w].call.write ELSE NoWrite

\* Which request, and which transaction, is to create the memory id.
Makes(w, id) ==
    reqs[w] # Idle /\ reqs[w].call.op = "create" /\ reqs[w].call.write.id = id

Carries(c, id) == conns[c].write \in NewRow /\ conns[c].write.id = id

\* Each id is on its way at most once.
IdsAreNew ==
    /\ \A w \in Workers, id \in Ids : Makes(w, id) => id \in 1..made /\ id \notin DOMAIN rows
    /\ \A c \in Conns, id \in Ids : Carries(c, id) => id \in 1..made /\ id \notin DOMAIN rows
    /\ \A w, v \in Workers, id \in Ids : Makes(w, id) /\ Makes(v, id) => w = v
    /\ \A c, d \in Conns, id \in Ids : Carries(c, id) /\ Carries(d, id) => c = d
    /\ \A w \in Workers, c \in Conns, id \in Ids :
          Makes(w, id) /\ Carries(c, id) => reqs[w].phase = "executed" /\ reqs[w].conn = c

\* The inductive invariant.
IInv ==
    /\ TypeOK
    /\ IdsAreNew
    /\ \A w \in Workers : reqs[w] # Idle => CallSound(reqs[w].call)
    /\ \A w \in Workers : LeaseSound(w)
    /\ \A w, v \in Workers :
          w # v /\ reqs[w] \in Served /\ reqs[v] \in Served => reqs[w].conn # reqs[v].conn
    /\ \A c \in Conns : WriteSound(conns[c].write)
    /\ told \subseteq DOMAIN rows

-----------------------------------------------------------------------------
(* What the middleware and the rows promise. *)

\* What auth.rs lets pass is what the operator's configuration says may pass.
LEMMA AdmittedMayAct ==
    ASSUME env \in Environment, NEW headers \in Headers, NEW tenant \in Tenants,
           Admitted(env, headers), TenantAgrees(headers, tenant)
    PROVE  MayActFor(headers, tenant)
  BY AuthAssumption
     DEF Admitted, TenantAgrees, MayActFor, Enforced, SecretOf, Environment, Headers

\* The two kinds of writes are apart.
LEMMA WritesApart ==
    ASSUME NEW write \in NewRow
    PROVE  write \notin NewEmbedding
  BY DEF NewRow, NewEmbedding

\* What a request is at each phase.
LEMMA Phases ==
    ASSUME TypeOK, NEW w \in Workers
    PROVE  /\ reqs[w].phase = "waiting" => reqs[w] \in Unserved
           /\ reqs[w].phase \in {"begun", "bound", "executed"} => reqs[w] \in Served
           /\ reqs[w] \in Unserved \cup Served => reqs[w] # Idle /\ reqs[w].call \in Call
           /\ reqs[w] \in Served => reqs[w].conn \in Conns /\ reqs[w].phase \in {"begun", "bound", "executed"}
           /\ reqs[w] \in Unserved => reqs[w] \notin Served
  BY DEF TypeOK, Unserved, Served, Idle

\* What is lawful stays so while the environment stays, and no memory leaves the
\* table or changes its tenant.
LEMMA SoundLasts ==
    ASSUME UNCHANGED env, DOMAIN rows \subseteq DOMAIN rows',
           \A id \in DOMAIN rows : rows'[id].tenant = rows[id].tenant
    PROVE  /\ \A write : WriteSound(write) => WriteSound(write)'
           /\ \A call : CallSound(call) => CallSound(call)'
<1>1. \A headers, tenant : MayActFor(headers, tenant)' <=> MayActFor(headers, tenant)
  BY DEF MayActFor
<1>2. \A write : WriteSound(write) => WriteSound(write)'
  BY <1>1 DEF WriteSound
<1>3. \A call : CallSound(call) => CallSound(call)'
  BY <1>1 DEF CallSound
<1> QED
  BY <1>2, <1>3

-----------------------------------------------------------------------------
(* Every step keeps the invariant. *)

\* A step that only starts a request that leases nothing.
LEMMA CallKeeps ==
    ASSUME IInv, NEW w \in Workers, NEW call \in Call, CallSound(call),
           reqs[w] = Idle, reqs' = [reqs EXCEPT ![w] = Waiting(call)],
           UNCHANGED <<env, clock, rows, embeddings, conns, told>>,
           made' \in made..MaxMemories,
           call.op = "create" => call.write.id > made /\ call.write.id <= made'
    PROVE  IInv'
<1> DEFINE r == Waiting(call)
<1>1. r \in Unserved /\ r \notin Served /\ r # Idle /\ r.call = call
  BY DEF Waiting, Unserved, Served, Idle
<1>2. \A v \in Workers : reqs'[v] = IF v = w THEN r ELSE reqs[v]
  BY DEF IInv, TypeOK
<1>3. TypeOK'
  <2>1. made' \in 0..MaxMemories /\ DOMAIN rows' \subseteq 1..made'
    BY RecordsAssumption DEF IInv, TypeOK
  <2> QED
    BY <1>1, <2>1 DEF IInv, TypeOK
<1>4. (\A v \in Workers : reqs[v] # Idle => CallSound(reqs[v].call))'
  <2>1. CallSound(call)'
    BY SoundLasts
  <2>2. \A v \in Workers : reqs[v] # Idle => CallSound(reqs[v].call)
    BY DEF IInv
  <2>3. \A v \in Workers \ {w} : reqs[v] # Idle => CallSound(reqs[v].call)'
    BY <1>2, <2>2, SoundLasts
  <2>4. reqs'[w].call = call
    BY <1>1, <1>2
  <2>5. \A v \in Workers \ {w} : reqs'[v] = reqs[v]
    BY <1>2
  <2> QED
    BY <2>1, <2>3, <2>4, <2>5
<1>5. \A v \in Workers : LeaseSound(v)'
  BY <1>1, <1>2 DEF IInv, LeaseSound
<1>6. \A v, u \in Workers :
        v # u /\ reqs'[v] \in Served /\ reqs'[u] \in Served => reqs'[v].conn # reqs'[u].conn
  BY <1>1, <1>2 DEF IInv
<1>7. \A c \in Conns : WriteSound(conns[c].write)'
  <2>1. \A c \in Conns : WriteSound(conns[c].write)
    BY DEF IInv
  <2> QED
    BY <2>1, SoundLasts
<1>8. IdsAreNew'
  <2>1. \A v \in Workers, id \in Ids :
          Makes(v, id)' => IF v = w THEN call.op = "create" /\ call.write.id = id ELSE Makes(v, id)
    BY <1>1, <1>2 DEF Makes
  <2>2. \A v \in Workers, id \in Ids : Makes(v, id)' /\ v = w => id > made /\ id <= made'
    BY <2>1
  <2>3. \A c \in Conns, id \in Ids : Carries(c, id)' <=> Carries(c, id)
    BY DEF Carries
  <2>4. made \in Nat /\ made' \in Nat /\ made <= made' /\ DOMAIN rows \subseteq 1..made /\ Ids \subseteq Nat
    BY RecordsAssumption DEF IInv, TypeOK, Ids
  <2>5. \A v \in Workers, id \in Ids : Makes(v, id)' => id \in 1..made' /\ id \notin DOMAIN rows'
    BY <2>1, <2>2, <2>4 DEF IInv, IdsAreNew, Ids
  <2>6. \A c \in Conns, id \in Ids : Carries(c, id)' => id \in 1..made' /\ id \notin DOMAIN rows'
    BY <2>3, <2>4 DEF IInv, IdsAreNew
  <2>7. \A u, v \in Workers, id \in Ids : Makes(u, id)' /\ Makes(v, id)' => u = v
    BY <2>1, <2>2, <2>4 DEF IInv, IdsAreNew
  <2>8. \A c, d \in Conns, id \in Ids : Carries(c, id)' /\ Carries(d, id)' => c = d
    BY <2>3 DEF IInv, IdsAreNew
  <2>9. \A v \in Workers, c \in Conns, id \in Ids :
          Makes(v, id)' /\ Carries(c, id)' => reqs'[v].phase = "executed" /\ reqs'[v].conn = c
    BY <1>2, <2>1, <2>2, <2>3, <2>4 DEF IInv, IdsAreNew
  <2> QED
    BY <2>5, <2>6, <2>7, <2>8, <2>9 DEF IdsAreNew
<1> QED
  BY <1>3, <1>4, <1>5, <1>6, <1>7, <1>8 DEF IInv

\* A create_memory that is let through writes for the tenant its headers name.
LEMMA CreateMemoryKeeps ==
    ASSUME IInv, NEW w \in Workers, CreateMemory(w)
    PROVE  IInv'
<1>1. PICK headers \in SentHeaders, tenant \in Tenants, until \in Untils :
        /\ Admitted(env, headers) /\ TenantAgrees(headers, tenant)
        /\ reqs' = [reqs EXCEPT ![w] = Waiting(
              [op |-> "create", tenant |-> tenant, write |->
                  [id |-> made + 1, by |-> headers,
                   row |-> [tenant |-> tenant, until |-> until,
                            successor |-> Nobody, forgotten |-> FALSE]]])]
  BY DEF CreateMemory
<1> DEFINE row == [tenant |-> tenant, until |-> until, successor |-> Nobody, forgotten |-> FALSE]
           write == [id |-> made + 1, by |-> headers, row |-> row]
           call == [op |-> "create", tenant |-> tenant, write |-> write]
<1>2. made + 1 \in 1..MaxMemories /\ made' = made + 1 /\ made' \in made..MaxMemories
  BY RecordsAssumption DEF CreateMemory, IInv, TypeOK
<1>3. row \in Row
  BY RecordsAssumption DEF Row, Forever, Nobody, Time
<1>4. write \in NewRow
  BY <1>2, <1>3, RecordsAssumption DEF NewRow, Ids
<1>5. call \in Call
  BY <1>4 DEF Call
<1>6. MayActFor(headers, tenant)
  BY <1>1, AdmittedMayAct, RecordsAssumption DEF IInv, TypeOK
<1>7. CallSound(call)
  BY <1>6 DEF CallSound
<1>8. call.write.id > made /\ call.write.id <= made'
  BY <1>2 DEF IInv, TypeOK
<1> QED
  BY <1>1, <1>2, <1>5, <1>7, <1>8, CallKeeps DEF CreateMemory

\* The same for an embedding.
LEMMA UpsertEmbeddingKeeps ==
    ASSUME IInv, NEW w \in Workers, UpsertEmbedding(w)
    PROVE  IInv'
<1>1. PICK tenant \in Tenants, id \in 1..made, model \in Models :
        reqs' = [reqs EXCEPT ![w] = Waiting(
              [op |-> "embed", tenant |-> tenant, write |->
                  [embedding |-> [memory |-> id, model |-> model], by |-> tenant]])]
  BY DEF UpsertEmbedding
<1> DEFINE write == [embedding |-> [memory |-> id, model |-> model], by |-> tenant]
           call == [op |-> "embed", tenant |-> tenant, write |-> write]
<1>2. id \in Ids /\ made' \in made..MaxMemories
  BY RecordsAssumption DEF UpsertEmbedding, IInv, TypeOK, Ids
<1>3. call \in Call
  BY <1>2 DEF Call, NewEmbedding, Embedding
<1>4. CallSound(call)
  BY DEF CallSound
<1>5. call.op # "create"
  OBVIOUS
<1> QED
  BY <1>1, <1>2, <1>3, <1>4, <1>5, CallKeeps DEF UpsertEmbedding

\* The same for a search.
LEMMA SemanticCandidatesKeeps ==
    ASSUME IInv, NEW w \in Workers, SemanticCandidates(w)
    PROVE  IInv'
<1>1. PICK tenant \in Tenants, model \in Models, limit \in Limits :
        reqs' = [reqs EXCEPT ![w] = Waiting(
              [op |-> "search", tenant |-> tenant, write |-> NoWrite,
               model |-> model, limit |-> limit,
               barred |-> DOMAIN rows \ Book!LiveMemories(tenant, clock)])]
  BY DEF SemanticCandidates
<1> DEFINE barred == DOMAIN rows \ Book!LiveMemories(tenant, clock)
           call == [op |-> "search", tenant |-> tenant, write |-> NoWrite,
                    model |-> model, limit |-> limit, barred |-> barred]
<1>2. barred \subseteq Ids /\ made' \in made..MaxMemories
  <2>1. DOMAIN rows \subseteq Ids
    BY RecordsAssumption DEF IInv, TypeOK, Ids
  <2>2. barred \subseteq DOMAIN rows
    OBVIOUS
  <2>3. made' \in made..MaxMemories
    BY RecordsAssumption DEF SemanticCandidates, IInv, TypeOK
  <2> QED
    BY <2>1, <2>2, <2>3
<1>3. call \in Call
  <2> HIDE DEF barred
  <2> QED
    BY <1>2 DEF Call
<1>4. CallSound(call)
  BY DEF CallSound
<1>5. call.op # "create"
  OBVIOUS
<1> QED
  BY <1>1, <1>2, <1>3, <1>4, <1>5, CallKeeps DEF SemanticCandidates

\* A step of a request that leases a connection, until it ends.
LEMMA LeaseKeeps ==
    ASSUME IInv, NEW w \in Workers, reqs[w] # Idle,
           NEW r \in Served, r.call = reqs[w].call,
           NEW d \in Connection, d.state = "leased", WriteSound(d.write),
           r.phase = "bound" => d.bound = r.call.tenant,
           d.write = IF r.phase = "executed" THEN r.call.write ELSE NoWrite,
           d.write \in NewRow => Makes(w, d.write.id) /\ r.phase = "executed",
           \A c \in Conns, id \in Ids : Makes(w, id) => ~Carries(c, id),
           \A v \in Workers \ {w} : reqs[v] \in Served => reqs[v].conn # r.conn,
           reqs' = [reqs EXCEPT ![w] = r], conns' = [conns EXCEPT ![r.conn] = d],
           UNCHANGED <<env, clock, rows, embeddings, made, told>>
    PROVE  IInv'
<1>1. r.conn \in Conns /\ r # Idle
  BY DEF Served, Idle
<1>2. \A v \in Workers : reqs'[v] = IF v = w THEN r ELSE reqs[v]
  BY DEF IInv, TypeOK
<1>3. \A c \in Conns : conns'[c] = IF c = r.conn THEN d ELSE conns[c]
  BY <1>1 DEF IInv, TypeOK
<1>4. TypeOK'
  BY <1>1, <1>2, <1>3 DEF IInv, TypeOK
<1>5. (\A v \in Workers : reqs[v] # Idle => CallSound(reqs[v].call))'
  <2>1. \A v \in Workers : reqs'[v] # Idle => reqs[v] # Idle /\ reqs'[v].call = reqs[v].call
    BY <1>2
  <2>2. \A v \in Workers : reqs[v] # Idle => CallSound(reqs[v].call)
    BY DEF IInv
  <2> QED
    BY <2>1, <2>2, SoundLasts
<1>6. \A v \in Workers : LeaseSound(v)'
  <2>1. ASSUME NEW v \in Workers, v # w, reqs[v] \in Served
        PROVE  reqs[v].conn \in Conns /\ reqs[v].conn # r.conn
    BY <2>1 DEF Served
  <2> QED
    BY <1>1, <1>2, <1>3, <2>1 DEF IInv, LeaseSound
<1>7. \A v, u \in Workers :
        v # u /\ reqs'[v] \in Served /\ reqs'[u] \in Served => reqs'[v].conn # reqs'[u].conn
  BY <1>2 DEF IInv
<1>8. \A c \in Conns : WriteSound(conns[c].write)'
  <2>1. \A c \in Conns : WriteSound(conns[c].write)
    BY DEF IInv
  <2>2. \A c \in Conns : conns'[c].write = IF c = r.conn THEN d.write ELSE conns[c].write
    BY <1>3
  <2>3. \A c \in Conns : WriteSound(conns'[c].write)
    BY <2>1, <2>2
  <2> QED
    BY <2>3, SoundLasts
<1>9. IdsAreNew'
  <2>1. \A v \in Workers, id \in Ids : Makes(v, id)' <=> Makes(v, id)
    BY <1>1, <1>2 DEF Makes
  <2>2. \A c \in Conns, id \in Ids : Carries(c, id)' =>
          \/ c # r.conn /\ Carries(c, id)
          \/ c = r.conn /\ Makes(w, id) /\ r.phase = "executed"
    BY <1>3 DEF Carries
  <2>3. \A v \in Workers, c \in Conns, id \in Ids :
          Makes(v, id)' /\ Carries(c, id)' => reqs'[v].phase = "executed" /\ reqs'[v].conn = c
    BY <1>2, <2>1, <2>2 DEF IInv, IdsAreNew
  <2>4. \A c, e \in Conns, id \in Ids : Carries(c, id)' /\ Carries(e, id)' => c = e
    BY <2>2 DEF IInv, IdsAreNew
  <2>5. \A c \in Conns, id \in Ids : Carries(c, id)' => id \in 1..made' /\ id \notin DOMAIN rows'
    BY <2>2 DEF IInv, IdsAreNew
  <2> QED
    BY <2>1, <2>3, <2>4, <2>5 DEF IInv, IdsAreNew
<1> QED
  BY <1>4, <1>5, <1>6, <1>7, <1>8, <1>9 DEF IInv

\* A leased connection is taken from the pool.
LEMMA BeginKeeps ==
    ASSUME IInv, NEW w \in Workers, Begin(w)
    PROVE  IInv'
<1>1. PICK c \in Conns :
        /\ reqs[w].phase = "waiting" /\ conns[c] = Pooled
        /\ conns' = [conns EXCEPT ![c].state = "leased"]
        /\ reqs' = [reqs EXCEPT ![w] =
              [phase |-> "begun", call |-> reqs[w].call, conn |-> c, start |-> clock, found |-> {}]]
        /\ UNCHANGED <<env, clock, rows, embeddings, made, told>>
  BY DEF Begin
<1> DEFINE r == [phase |-> "begun", call |-> reqs[w].call, conn |-> c, start |-> clock, found |-> {}]
           d == [conns[c] EXCEPT !.state = "leased"]
<1>2. reqs[w] \in Unserved /\ reqs[w] # Idle /\ reqs[w].call \in Call
  BY <1>1, Phases DEF IInv
<1>3. r \in Served /\ r.call = reqs[w].call /\ r.phase = "begun" /\ r.conn = c
  BY <1>2 DEF Served, IInv, TypeOK
<1>4. d \in Connection /\ d.state = "leased" /\ d.write = NoWrite
  BY <1>1 DEF Connection, Pooled
<1>5. d.write \notin NewRow /\ WriteSound(d.write)
  BY <1>4, RecordsAssumption DEF WriteSound, Write
<1>9. d.write = IF r.phase = "executed" THEN r.call.write ELSE NoWrite
  BY <1>3, <1>4
<1>6. \A e \in Conns, id \in Ids : Makes(w, id) => ~Carries(e, id)
  BY <1>1 DEF IInv, IdsAreNew
<1>7. \A v \in Workers \ {w} : reqs[v] \in Served => reqs[v].conn # c
  BY <1>1 DEF IInv, LeaseSound, Pooled
<1>8. reqs' = [reqs EXCEPT ![w] = r] /\ conns' = [conns EXCEPT ![r.conn] = d]
  BY <1>1, <1>3
<1> QED
  BY <1>1, <1>2, <1>3, <1>4, <1>5, <1>6, <1>7, <1>8, <1>9, LeaseKeeps

\* The transaction binds its connection to the call's tenant.
LEMMA BindTenantKeeps ==
    ASSUME IInv, NEW w \in Workers, BindTenant(w)
    PROVE  IInv'
<1> DEFINE c == reqs[w].conn
           r == [reqs[w] EXCEPT !.phase = "bound"]
           d == [conns[c] EXCEPT !.bound = reqs[w].call.tenant]
<1>1. reqs[w].phase = "begun" /\ reqs[w] \in Served /\ reqs[w] # Idle /\ c \in Conns
  BY Phases DEF BindTenant, IInv
<1>2. r \in Served /\ r.call = reqs[w].call /\ r.phase = "bound" /\ r.conn = c
  BY <1>1 DEF Served
<1>3. reqs[w].call.tenant \in Tenants
  BY <1>1 DEF Served, Call
<1>4. conns[c].state = "leased" /\ conns[c] \in Connection
  BY <1>1 DEF IInv, LeaseSound, TypeOK
<1>5. d \in Connection /\ d.state = "leased" /\ d.bound = r.call.tenant /\ d.write = conns[c].write
  BY <1>2, <1>3, <1>4 DEF Connection
<1>6. d.write = NoWrite /\ d.write \notin NewRow /\ WriteSound(d.write)
  <2>1. d.write = NoWrite
    BY <1>1, <1>5 DEF IInv, LeaseSound
  <2> QED
    BY <1>1, <1>5, <2>1, RecordsAssumption DEF IInv, Write, WriteSound
<1>7. \A e \in Conns, id \in Ids : Makes(w, id) => ~Carries(e, id)
  BY <1>1 DEF IInv, IdsAreNew
<1>8. \A v \in Workers \ {w} : reqs[v] \in Served => reqs[v].conn # c
  BY <1>1 DEF IInv
<1>9. /\ reqs' = [reqs EXCEPT ![w] = r] /\ conns' = [conns EXCEPT ![r.conn] = d]
      /\ UNCHANGED <<env, clock, rows, embeddings, made, told>>
  BY <1>2 DEF BindTenant
<1>10. d.write = IF r.phase = "executed" THEN r.call.write ELSE NoWrite
  BY <1>2, <1>6
<1> QED
  BY <1>1, <1>2, <1>5, <1>6, <1>7, <1>8, <1>9, <1>10, LeaseKeeps

\* The statement writes what the call asks for.
LEMMA ExecuteKeeps ==
    ASSUME IInv, NEW w \in Workers, Execute(w)
    PROVE  IInv'
<1> DEFINE c == reqs[w].conn
           call == reqs[w].call
           d == [conns[c] EXCEPT !.write = call.write]
<1>1. reqs[w].phase = "bound" /\ reqs[w] \in Served /\ reqs[w] # Idle /\ c \in Conns /\ call \in Call
  BY Phases DEF Execute, IInv
<1>2. PICK found \in SUBSET Ids :
        reqs' = [reqs EXCEPT ![w].phase = "executed", ![w].found = found]
  BY DEF Execute
<1> DEFINE r == [reqs[w] EXCEPT !.phase = "executed", !.found = found]
<1>3. r \in Served /\ r.call = call /\ r.phase = "executed" /\ r.conn = c
  BY <1>1 DEF Served
<1>4. conns[c].state = "leased" /\ conns[c].bound = call.tenant /\ conns[c] \in Connection
  BY <1>1 DEF IInv, LeaseSound, TypeOK
<1>5. call.write \in Write \cup {NoWrite}
  BY <1>1 DEF Call, Write
<1>6. d \in Connection /\ d.state = "leased" /\ d.write = call.write
  BY <1>4, <1>5 DEF Connection
<1>7. call.write \in NewRow => call.op = "create"
  BY <1>1, WritesApart, RecordsAssumption DEF Call, Write
<1>8. call.write \in NewEmbedding => call.op = "embed"
  BY <1>1, WritesApart, RecordsAssumption DEF Call, Write
<1>9. WriteSound(d.write)
  <2>1. CallSound(call)
    BY <1>1 DEF IInv
  <2>2. PolicyAdmits(call.tenant, call)
    BY <1>4 DEF Execute
  <2> QED
    BY <1>6, <1>7, <1>8, <2>1, <2>2 DEF WriteSound, CallSound, PolicyAdmits
<1>10. d.write \in NewRow => Makes(w, d.write.id)
  BY <1>1, <1>6, <1>7 DEF Makes
<1>11. \A e \in Conns, id \in Ids : Makes(w, id) => ~Carries(e, id)
  BY <1>1 DEF IInv, IdsAreNew
<1>12. \A v \in Workers \ {w} : reqs[v] \in Served => reqs[v].conn # c
  BY <1>1 DEF IInv
<1>13. /\ reqs' = [reqs EXCEPT ![w] = r] /\ conns' = [conns EXCEPT ![r.conn] = d]
       /\ UNCHANGED <<env, clock, rows, embeddings, made, told>>
  BY <1>2, <1>3 DEF Execute
<1> QED
  BY <1>1, <1>3, <1>6, <1>9, <1>10, <1>11, <1>12, <1>13, LeaseKeeps

\* A request that ends without an answer leaves its transaction behind.
LEMMA LeaveKeeps ==
    ASSUME IInv, NEW w \in Workers, reqs[w] \in Served, Leave(w)
    PROVE  IInv'
<1> DEFINE c == reqs[w].conn
           d == Abandoned(conns[c])
<1>1. c \in Conns /\ reqs[w] # Idle /\ Idle \notin Served /\ Idle \notin Unserved
  BY Phases DEF IInv, Idle, Served, Unserved
<1>2. \A v \in Workers : reqs'[v] = IF v = w THEN Idle ELSE reqs[v]
  BY DEF Leave, IInv, TypeOK
<1>3. \A e \in Conns : conns'[e] = IF e = c THEN d ELSE conns[e]
  BY <1>1 DEF Leave, IInv, TypeOK
<1>4. d \in Connection /\ d.state = "abandoned" /\ d.write = conns[c].write
  <2>1. conns[c] \in Connection
    BY <1>1 DEF IInv, TypeOK
  <2> QED
    BY <2>1 DEF Abandoned, Connection
<1>5. TypeOK'
  BY <1>1, <1>2, <1>3, <1>4 DEF Leave, IInv, TypeOK
<1>6. (\A v \in Workers : reqs[v] # Idle => CallSound(reqs[v].call))'
  <2>1. \A v \in Workers : reqs'[v] # Idle => reqs[v] # Idle /\ reqs'[v] = reqs[v]
    BY <1>2
  <2>2. \A v \in Workers : reqs[v] # Idle => CallSound(reqs[v].call)
    BY DEF IInv
  <2> QED
    BY <2>1, <2>2, SoundLasts DEF Leave
<1>7. \A v \in Workers : LeaseSound(v)'
  <2>1. ASSUME NEW v \in Workers, v # w, reqs[v] \in Served
        PROVE  reqs[v].conn \in Conns /\ reqs[v].conn # c
    BY <2>1 DEF Served, IInv
  <2> QED
    BY <1>1, <1>2, <1>3, <2>1 DEF IInv, LeaseSound
<1>8. \A v, u \in Workers :
        v # u /\ reqs'[v] \in Served /\ reqs'[u] \in Served => reqs'[v].conn # reqs'[u].conn
  BY <1>1, <1>2 DEF IInv
<1>9. \A e \in Conns : WriteSound(conns[e].write)'
  <2>1. \A e \in Conns : WriteSound(conns[e].write)
    BY DEF IInv
  <2>2. \A e \in Conns : conns'[e].write = conns[e].write
    BY <1>3, <1>4
  <2> QED
    BY <2>1, <2>2, SoundLasts DEF Leave
<1>10. IdsAreNew'
  <2>1. \A v \in Workers, id \in Ids : Makes(v, id)' => v # w /\ Makes(v, id)
    BY <1>2 DEF Makes
  <2>2. \A e \in Conns, id \in Ids : Carries(e, id)' <=> Carries(e, id)
    BY <1>3, <1>4 DEF Carries
  <2> QED
    BY <1>2, <2>1, <2>2 DEF Leave, IInv, IdsAreNew
<1> QED
  BY <1>5, <1>6, <1>7, <1>8, <1>9, <1>10 DEF Leave, IInv

\* What the end of a transaction does to the table: its write comes to it, or not.
Publishes(write) == Publish(write) \/ UNCHANGED <<rows, embeddings>>

\* A commit adds a row, and takes none away.
LEMMA PublishGrows ==
    ASSUME TypeOK, NEW c \in Conns, IdsAreNew, WriteSound(conns[c].write), Publishes(conns[c].write)
    PROVE  /\ DOMAIN rows \subseteq DOMAIN rows'
           /\ \A id \in DOMAIN rows : rows'[id] = rows[id]
           /\ \A id \in DOMAIN rows' \ DOMAIN rows : Carries(c, id) /\ rows'[id] = conns[c].write.row
           /\ DOMAIN rows' \subseteq 1..made /\ \A id \in DOMAIN rows' : rows'[id] \in Row
           /\ embeddings' \subseteq Embedding
<1>1. CASE UNCHANGED <<rows, embeddings>>
  BY <1>1 DEF TypeOK
<1>2. CASE Publish(conns[c].write)
  <2> DEFINE write == conns[c].write
  <2>1. embeddings' \subseteq Embedding
    BY <1>2 DEF Publish, EmbeddingsWith, TypeOK
  <2>2. CASE write \in NewRow
    <3>1. rows' = [i \in DOMAIN rows \cup {write.id} |-> IF i = write.id THEN write.row ELSE rows[i]]
      BY <1>2, <2>2 DEF Publish, RowsWith
    <3>2. write.id \in Ids /\ write.row \in Row /\ Carries(c, write.id)
      BY <2>2 DEF NewRow, Carries
    <3>3. write.id \in 1..made /\ write.id \notin DOMAIN rows
      BY <3>2 DEF IdsAreNew
    <3> QED
      BY <2>1, <3>1, <3>2, <3>3 DEF TypeOK
  <2>3. CASE write \notin NewRow
    <3>1. rows' = rows
      BY <1>2, <2>3 DEF Publish, RowsWith
    <3> QED
      BY <2>1, <3>1 DEF TypeOK
  <2> QED
    BY <2>2, <2>3
<1> QED
  BY <1>1, <1>2 DEF Publishes

\* A transaction that ends gives its connection back; the request that has left
\* it, or leaves it now, is not there any more.
LEMMA EndKeeps ==
    ASSUME IInv, NEW c \in Conns, NEW idle \in SUBSET Workers,
           \A w \in Workers \ idle : reqs[w] \in Served => reqs[w].conn # c,
           reqs' = [w \in Workers |-> IF w \in idle THEN Idle ELSE reqs[w]],
           conns' = [conns EXCEPT ![c] = Pooled],
           Publishes(conns[c].write), UNCHANGED <<env, clock, made>>,
           told' \subseteq DOMAIN rows'
    PROVE  IInv'
<1>1. /\ DOMAIN rows \subseteq DOMAIN rows'
      /\ \A id \in DOMAIN rows : rows'[id] = rows[id]
      /\ \A id \in DOMAIN rows' \ DOMAIN rows : Carries(c, id) /\ rows'[id] = conns[c].write.row
      /\ DOMAIN rows' \subseteq 1..made /\ \A id \in DOMAIN rows' : rows'[id] \in Row
      /\ embeddings' \subseteq Embedding
  BY PublishGrows DEF IInv
<1>2. \A w \in Workers : reqs'[w] = IF w \in idle THEN Idle ELSE reqs[w]
  OBVIOUS
<1>3. \A e \in Conns : conns'[e] = IF e = c THEN Pooled ELSE conns[e]
  BY DEF IInv, TypeOK
<1>4. Pooled \in Connection /\ Pooled.write = NoWrite
  BY DEF Pooled, Connection
<1>5. Idle \notin Served /\ Idle \notin Unserved
  BY DEF Idle, Served, Unserved
<1>6. TypeOK'
  <2>1. told' \subseteq Ids
    BY <1>1, RecordsAssumption DEF IInv, TypeOK, Ids
  <2> QED
    BY <1>1, <1>2, <1>3, <1>4, <2>1 DEF IInv, TypeOK
<1>7. (\A w \in Workers : reqs[w] # Idle => CallSound(reqs[w].call))'
  <2>1. \A w \in Workers : reqs'[w] # Idle => reqs[w] # Idle /\ reqs'[w] = reqs[w]
    BY <1>2
  <2>2. \A w \in Workers : reqs[w] # Idle => CallSound(reqs[w].call)
    BY DEF IInv
  <2> QED
    BY <1>1, <2>1, <2>2, SoundLasts
<1>8. \A w \in Workers : LeaseSound(w)'
  <2>1. ASSUME NEW w \in Workers \ idle, reqs[w] \in Served
        PROVE  reqs[w].conn \in Conns /\ reqs[w].conn # c
    BY <2>1 DEF Served
  <2> QED
    BY <1>2, <1>3, <1>5, <2>1 DEF IInv, LeaseSound
<1>9. \A w, v \in Workers :
        w # v /\ reqs'[w] \in Served /\ reqs'[v] \in Served => reqs'[w].conn # reqs'[v].conn
  BY <1>2, <1>5 DEF IInv
<1>10. \A e \in Conns : WriteSound(conns[e].write)'
  <2>1. ASSUME NEW e \in Conns, e # c
        PROVE  WriteSound(conns[e].write)'
    <3>1. WriteSound(conns[e].write) /\ conns'[e] = conns[e]
      BY <1>3, <2>1 DEF IInv
    <3> QED
      BY <1>1, <3>1, SoundLasts
  <2>2. WriteSound(conns[c].write)'
    BY <1>3, <1>4, RecordsAssumption DEF WriteSound, Write
  <2> QED
    BY <2>1, <2>2
<1>11. IdsAreNew'
  <2>1. \A w \in Workers, id \in Ids : Makes(w, id)' => w \notin idle /\ Makes(w, id)
    BY <1>2 DEF Makes
  <2>2. \A e \in Conns, id \in Ids : Carries(e, id)' => e # c /\ Carries(e, id)
    BY <1>3, <1>4, RecordsAssumption DEF Carries, Write
  <2>3. \A w \in Workers, id \in Ids : Makes(w, id)' => ~Carries(c, id)
    <3> SUFFICES ASSUME NEW w \in Workers, NEW id \in Ids, Makes(w, id)', Carries(c, id)
                 PROVE  FALSE
      OBVIOUS
    <3>1. w \notin idle /\ reqs[w].phase = "executed" /\ reqs[w].conn = c
      BY <2>1 DEF IInv, IdsAreNew
    <3>2. reqs[w] \in Served
      BY <3>1, Phases DEF IInv
    <3> QED
      BY <3>1, <3>2
  <2>4. \A e \in Conns, id \in Ids : Carries(e, id)' => ~Carries(c, id)
    BY <2>2 DEF IInv, IdsAreNew
  <2> QED
    BY <1>1, <1>2, <2>1, <2>2, <2>3, <2>4 DEF IInv, IdsAreNew
<1> QED
  BY <1>6, <1>7, <1>8, <1>9, <1>10, <1>11 DEF IInv

\* A committed connection returns to the pool, bound to no tenant.
LEMMA CommitKeeps ==
    ASSUME IInv, NEW w \in Workers, Commit(w)
    PROVE  IInv'
<1> DEFINE c == reqs[w].conn
<1>1. reqs[w].phase = "executed" /\ reqs[w] \in Served /\ c \in Conns /\ reqs[w].call \in Call
  BY Phases DEF Commit, IInv
<1>2. \A v \in Workers \ {w} : reqs[v] \in Served => reqs[v].conn # c
  BY <1>1 DEF IInv
<1>3. reqs' = [v \in Workers |-> IF v \in {w} THEN Idle ELSE reqs[v]]
  BY DEF Commit, IInv, TypeOK
<1>4. Publishes(conns[c].write) /\ conns' = [conns EXCEPT ![c] = Pooled]
  BY DEF Commit, Publishes, Released
<1>5. told' \subseteq DOMAIN rows'
  <2>1. DOMAIN rows \subseteq DOMAIN rows'
    BY <1>1, <1>4, PublishGrows DEF IInv
  <2>2. Created(w) \subseteq DOMAIN rows'
    <3> SUFFICES ASSUME reqs[w].call.op = "create"
                 PROVE  reqs[w].call.write.id \in DOMAIN rows'
      BY DEF Created
    <3>1. conns[c].write = reqs[w].call.write
      BY <1>1 DEF IInv, LeaseSound
    <3>2. reqs[w].call.write \in NewRow
      BY <1>1 DEF Call
    <3> QED
      BY <3>1, <3>2 DEF Commit, Publish, RowsWith
  <2> QED
    BY <2>1, <2>2 DEF Commit, IInv
<1> QED
  <2> DEFINE idle == {w}
  <2>1. /\ idle \in SUBSET Workers /\ UNCHANGED <<env, clock, made>>
        /\ \A v \in Workers \ idle : reqs[v] \in Served => reqs[v].conn # c
        /\ reqs' = [v \in Workers |-> IF v \in idle THEN Idle ELSE reqs[v]]
    BY <1>2, <1>3 DEF Commit
  <2> HIDE DEF idle
  <2> QED
    BY <1>1, <1>4, <1>5, <2>1, EndKeeps

\* The same when the client has given up before.
LEMMA SettleKeeps ==
    ASSUME IInv, NEW c \in Conns, Settle(c)
    PROVE  IInv'
<1>1. \A w \in Workers : reqs[w] \in Served => reqs[w].conn # c
  BY DEF Settle, IInv, LeaseSound
<1>2. reqs' = [w \in Workers |-> IF w \in {} THEN Idle ELSE reqs[w]]
  BY DEF Settle, IInv, TypeOK
<1>3. Publishes(conns[c].write) /\ conns' = [conns EXCEPT ![c] = Pooled]
  BY DEF Settle, Publishes, Released
<1>4. told' \subseteq DOMAIN rows'
  BY <1>3, PublishGrows DEF Settle, IInv
<1> QED
  <2> DEFINE idle == {}
  <2>1. /\ idle \in SUBSET Workers /\ UNCHANGED <<env, clock, made>>
        /\ \A v \in Workers \ idle : reqs[v] \in Served => reqs[v].conn # c
        /\ reqs' = [v \in Workers |-> IF v \in idle THEN Idle ELSE reqs[v]]
    BY <1>1, <1>2 DEF Settle
  <2> HIDE DEF idle
  <2> QED
    BY <1>3, <1>4, <2>1, EndKeeps

\* Whoever waits for a connection may stop to.
LEMMA GiveUpKeeps ==
    ASSUME IInv, NEW w \in Workers, GiveUp(w)
    PROVE  IInv'
<1>1. \A v \in Workers : reqs'[v] = IF v = w THEN Idle ELSE reqs[v]
  BY DEF GiveUp, IInv, TypeOK
<1>2. Idle \notin Served
  BY DEF Idle, Served
<1>3. TypeOK'
  BY <1>1 DEF GiveUp, IInv, TypeOK
<1>4. (\A v \in Workers : reqs[v] # Idle => CallSound(reqs[v].call))'
  <2>1. \A v \in Workers : reqs'[v] # Idle => reqs[v] # Idle /\ reqs'[v] = reqs[v]
    BY <1>1
  <2>2. \A v \in Workers : reqs[v] # Idle => CallSound(reqs[v].call)
    BY DEF IInv
  <2> QED
    BY <2>1, <2>2, SoundLasts DEF GiveUp
<1>5. \A v \in Workers : LeaseSound(v)'
  BY <1>1, <1>2 DEF GiveUp, IInv, LeaseSound
<1>6. \A c \in Conns : WriteSound(conns[c].write)'
  <2>1. \A c \in Conns : WriteSound(conns[c].write)
    BY DEF IInv
  <2> QED
    BY <2>1, SoundLasts DEF GiveUp
<1>7. IdsAreNew'
  <2>1. \A v \in Workers, id \in Ids : Makes(v, id)' => v # w /\ Makes(v, id)
    BY <1>1 DEF Makes
  <2>2. \A c \in Conns, id \in Ids : Carries(c, id)' <=> Carries(c, id)
    BY DEF GiveUp, Carries
  <2> QED
    BY <1>1, <2>1, <2>2 DEF GiveUp, IInv, IdsAreNew
<1> QED
  BY <1>1, <1>2, <1>3, <1>4, <1>5, <1>6, <1>7 DEF GiveUp, IInv

\* Neither time nor the curators touch requests, connections or tenants.
LEMMA OutsideKeeps ==
    ASSUME IInv, UNCHANGED <<env, embeddings, conns, reqs, made, told>>, clock' \in Time,
           DOMAIN rows' = DOMAIN rows,
           \A id \in DOMAIN rows : rows'[id] \in Row /\ rows'[id].tenant = rows[id].tenant
    PROVE  IInv'
<1>1. TypeOK'
  BY DEF IInv, TypeOK
<1>2. (\A v \in Workers : reqs[v] # Idle => CallSound(reqs[v].call))'
  BY SoundLasts DEF IInv
<1>3. \A v \in Workers : LeaseSound(v)'
  BY DEF IInv, LeaseSound
<1>4. \A c \in Conns : WriteSound(conns[c].write)'
  BY SoundLasts DEF IInv
<1>5. IdsAreNew'
  BY DEF IInv, IdsAreNew, Makes, Carries
<1> QED
  BY <1>1, <1>2, <1>3, <1>4, <1>5 DEF IInv

\* What curators do to a row changes neither its tenant nor its id.
LEMMA CurateKeeps ==
    ASSUME IInv, Curate
    PROVE  IInv'
<1>1. PICK id \in DOMAIN rows :
        \/ rows' = [rows EXCEPT ![id].forgotten = TRUE]
        \/ \E new \in DOMAIN rows : rows' = [rows EXCEPT ![id].successor = new]
  BY DEF Curate
<1>2. rows[id] \in Row /\ DOMAIN rows \subseteq Ids
  BY RecordsAssumption DEF IInv, TypeOK, Ids
<1>3. DOMAIN rows' = DOMAIN rows
  BY <1>1
<1>4. \A i \in DOMAIN rows : rows'[i] \in Row /\ rows'[i].tenant = rows[i].tenant
  <2>1. CASE rows' = [rows EXCEPT ![id].forgotten = TRUE]
    BY <1>2, <2>1 DEF IInv, TypeOK, Row
  <2>2. CASE \E new \in DOMAIN rows : rows' = [rows EXCEPT ![id].successor = new]
    BY <1>2, <2>2 DEF IInv, TypeOK, Row
  <2> QED
    BY <1>1, <2>1, <2>2
<1> QED
  BY <1>3, <1>4, OutsideKeeps DEF Curate, IInv, TypeOK

\* Time passes.
LEMMA TickKeeps ==
    ASSUME IInv, Tick
    PROVE  IInv'
<1>1. clock' \in Time
  BY RecordsAssumption DEF Tick, IInv, TypeOK, Time
<1> QED
  BY <1>1, OutsideKeeps DEF Tick, IInv, TypeOK

\* Empty tables satisfy the invariant.
LEMMA InitHolds == Init => IInv
<1> SUFFICES ASSUME Init
             PROVE  IInv
  OBVIOUS
<1>1. 1 \in Time /\ DOMAIN rows = {}
  BY RecordsAssumption DEF Init, Time
<1>2. Pooled \in Connection /\ NoWrite \notin NewRow /\ NoWrite \notin NewEmbedding
  BY RecordsAssumption DEF Pooled, Connection, Write
<1>3. TypeOK
  BY <1>1, <1>2, RecordsAssumption DEF Init, TypeOK
<1>4. Idle \notin Served
  BY DEF Idle, Served
<1>5. \A c \in Conns : conns[c].write = NoWrite
  BY DEF Init, Pooled
<1>6. IdsAreNew
  BY <1>2, <1>5 DEF Init, IdsAreNew, Makes, Carries
<1> QED
  BY <1>2, <1>3, <1>4, <1>5, <1>6 DEF Init, IInv, LeaseSound, WriteSound

\* Every step keeps the invariant.
LEMMA StepKeeps == IInv /\ [Next]_vars => IInv'
<1> SUFFICES ASSUME IInv, [Next]_vars
             PROVE  IInv'
  OBVIOUS
<1>1. CASE UNCHANGED vars
  BY <1>1, OutsideKeeps DEF vars, IInv, TypeOK
<1>2. CASE \E w \in Handlers : CreateMemory(w)
  BY <1>2, CreateMemoryKeeps DEF Workers
<1>3. CASE \E w \in Callers : UpsertEmbedding(w) \/ SemanticCandidates(w)
  BY <1>3, UpsertEmbeddingKeeps, SemanticCandidatesKeeps DEF Workers
<1>4. CASE \E w \in Workers : Advance(w)
  <2>1. PICK w \in Workers : Advance(w)
    BY <1>4
  <2>2. CASE Begin(w)
    BY <2>2, BeginKeeps
  <2>3. CASE BindTenant(w)
    BY <2>3, BindTenantKeeps
  <2>4. CASE Execute(w)
    BY <2>4, ExecuteKeeps
  <2>5. CASE Refuse(w)
    BY <2>5, LeaveKeeps, Phases DEF Refuse, IInv
  <2>6. CASE Commit(w)
    BY <2>6, CommitKeeps
  <2> QED
    BY <2>1, <2>2, <2>3, <2>4, <2>5, <2>6 DEF Advance
<1>5. CASE \E w \in Workers : GiveUp(w)
  BY <1>5, GiveUpKeeps
<1>6. CASE \E w \in Workers : DropRequest(w)
  BY <1>6, LeaveKeeps, Phases DEF DropRequest, IInv
<1>7. CASE \E c \in Conns : Settle(c)
  BY <1>7, SettleKeeps
<1>8. CASE Tick
  BY <1>8, TickKeeps
<1>9. CASE Curate
  BY <1>9, CurateKeeps
<1> QED
  BY <1>1, <1>2, <1>3, <1>4, <1>5, <1>6, <1>7, <1>8, <1>9 DEF Next

-----------------------------------------------------------------------------
(* The theorems. *)

\* The inductive invariant: every write on its way has authority, is on its way
\* once, and belongs to the one request that leases its connection or to none.
THEOREM Invariant == Spec => []IInv
  BY InitHolds, StepKeeps, PTL DEF Spec

\* The tables, the pool and the requests are well-typed, and a connection in the
\* pool is bound to no tenant.
THEOREM RecordsTyped == Spec => []TypeOK
  BY Invariant, PTL DEF IInv

\* Whoever was answered 201 finds the memory in the table, for ever.
THEOREM StoredIsStored == Spec => []AnswersAreTrue
<1>1. IInv => AnswersAreTrue
  BY DEF IInv, AnswersAreTrue
<1> QED
  BY <1>1, Invariant, PTL

\* What a step may do to the tables: end one transaction, or curate.
LEMMA StepOnTables ==
    ASSUME IInv, [Next]_vars
    PROVE  \/ UNCHANGED <<rows, embeddings>>
           \/ \E c \in Conns : Publish(conns[c].write)
           \/ Curate
<1>1. CASE \E w \in Handlers : CreateMemory(w)
  BY <1>1 DEF CreateMemory
<1>2. CASE \E w \in Callers : UpsertEmbedding(w) \/ SemanticCandidates(w)
  BY <1>2 DEF UpsertEmbedding, SemanticCandidates
<1>3. CASE \E w \in Workers : Advance(w)
  <2>1. PICK w \in Workers : Advance(w)
    BY <1>3
  <2>2. CASE Commit(w)
    <3>1. reqs[w].conn \in Conns
      BY <2>2, Phases DEF Commit, IInv
    <3> QED
      BY <2>2, <3>1 DEF Commit
  <2>3. CASE Begin(w) \/ BindTenant(w) \/ Execute(w) \/ Refuse(w)
    BY <2>3 DEF Begin, BindTenant, Execute, Refuse, Leave
  <2> QED
    BY <2>1, <2>2, <2>3 DEF Advance
<1>4. CASE \E w \in Workers : GiveUp(w) \/ DropRequest(w)
  BY <1>4 DEF GiveUp, DropRequest, Leave
<1>5. CASE \E c \in Conns : Settle(c)
  BY <1>5 DEF Settle
<1>6. CASE Tick \/ UNCHANGED vars
  BY <1>6 DEF Tick, vars
<1> QED
  BY <1>1, <1>2, <1>3, <1>4, <1>5, <1>6 DEF Next

\* No row comes to be without authority, in whatever order requests overlap, are
\* dropped and share connections.
THEOREM AuthorityHolds == Spec => RowsHaveAuthority
<1> DEFINE NewRowsLawful == \A id \in DOMAIN rows' \ DOMAIN rows : \E c \in Conns :
               /\ conns[c].write \in NewRow /\ conns[c].write.id = id
               /\ MayActFor(conns[c].write.by, rows'[id].tenant)
           NewEmbeddingsLawful == \A e \in embeddings' \ embeddings : \E c \in Conns :
               /\ conns[c].write \in NewEmbedding /\ conns[c].write.embedding = e
               /\ e.memory \in DOMAIN rows /\ conns[c].write.by = rows[e.memory].tenant
<1>1. IInv /\ [Next]_vars => [NewRowsLawful /\ NewEmbeddingsLawful]_<<rows, embeddings>>
  <2> SUFFICES ASSUME IInv, [Next]_vars
               PROVE  (NewRowsLawful /\ NewEmbeddingsLawful) \/ UNCHANGED <<rows, embeddings>>
    OBVIOUS
  <2>1. CASE \E c \in Conns : Publish(conns[c].write)
    <3>1. PICK c \in Conns : Publish(conns[c].write)
      BY <2>1
    <3>2. WriteSound(conns[c].write)
      BY DEF IInv
    <3>3. \A id \in DOMAIN rows' \ DOMAIN rows : Carries(c, id) /\ rows'[id] = conns[c].write.row
      BY <3>1, <3>2, PublishGrows DEF Publishes, IInv
    <3>4. NewRowsLawful
      BY <3>2, <3>3 DEF Carries, WriteSound
    <3>5. NewEmbeddingsLawful
      BY <3>1, <3>2 DEF Publish, EmbeddingsWith, WriteSound
    <3> QED
      BY <3>4, <3>5
  <2>2. CASE Curate
    BY <2>2 DEF Curate
  <2> QED
    BY <2>1, <2>2, StepOnTables
<1> QED
  BY <1>1, Invariant, PTL DEF Spec, RowsHaveAuthority

\* A row as the abstract store has it.
Kept(row) == [tenant |-> row.tenant, from |-> 1, until |-> row.until, successor |-> row.successor]

\* A row is a memory of InMemoryStore.
LEMMA KeptIsMemory ==
    ASSUME NEW row \in Row
    PROVE  Kept(row) \in Book!Memory
  BY RecordsAssumption DEF Row, Kept, Book!Memory, Time

\* The table implements InMemoryStore under fresh ids: inserts are whole, under new
\* ids and at most once, and nothing else but the curators changes a memory.
THEOREM TableIsAStore == Spec => BookSpec
<1> DEFINE book == [id \in {i \in DOMAIN rows : ~rows[i].forgotten} |->
                       [tenant |-> rows[id].tenant, from |-> 1,
                        until |-> rows[id].until, successor |-> rows[id].successor]]
<1>1. Init => Book!Init
  BY DEF Init, Book!Init
<1>2. IInv /\ [Next]_vars => [Book!FreshNext]_book
  <2> SUFFICES ASSUME IInv, [Next]_vars
               PROVE  Book!FreshNext \/ book' = book
    OBVIOUS
  <2>0. /\ DOMAIN book = {i \in DOMAIN rows : ~rows[i].forgotten}
        /\ \A i \in DOMAIN book : book[i] = Kept(rows[i])
    BY DEF Kept
  <2>1. CASE \E c \in Conns : Publish(conns[c].write)
    <3>1. PICK c \in Conns : Publish(conns[c].write)
      BY <2>1
    <3> DEFINE write == conns[c].write
    <3>2. CASE write \notin NewRow
      <4>1. rows' = rows
        BY <3>1, <3>2 DEF Publish, RowsWith
      <4> QED
        BY <4>1
    <3>3. CASE write \in NewRow
      <4>1. rows' = [i \in DOMAIN rows \cup {write.id} |-> IF i = write.id THEN write.row ELSE rows[i]]
        BY <3>1, <3>3 DEF Publish, RowsWith
      <4>2. write.id \in Ids /\ write.row \in Row /\ write.row.tenant \in Tenants
        BY <3>3 DEF NewRow, Row
      <4>3. write.id \notin DOMAIN rows
        BY <3>3, <4>2 DEF IInv, IdsAreNew, Carries
      <4>4. CASE write.row.forgotten
        BY <4>1, <4>3, <4>4
      <4>5. CASE ~write.row.forgotten
        <5>1. book' = [i \in DOMAIN book \cup {write.id} |->
                         IF i = write.id THEN Kept(write.row) ELSE book[i]]
          BY <4>1, <4>3, <4>5 DEF Kept
        <5>2. PICK t \in Tenants, i \in Ids, memory \in Book!Memory :
                t = write.row.tenant /\ i = write.id /\ memory = Kept(write.row)
          BY <4>2, KeptIsMemory
        <5>3. Book!Insert(t, i, memory)
          BY <4>3, <5>1, <5>2 DEF Book!Insert, Kept
        <5>4. i \notin DOMAIN book
          BY <4>3, <5>2
        <5>5. Book!FreshCallOf(t)
          BY <5>3, <5>4 DEF Book!FreshCallOf
        <5> QED
          BY <5>5 DEF Book!FreshNext
      <4> QED
        BY <4>4, <4>5
    <3> QED
      BY <3>2, <3>3
  <2>2. CASE Curate
    <3>1. PICK id \in DOMAIN rows :
            /\ ~rows[id].forgotten
            /\ \/ rows' = [rows EXCEPT ![id].forgotten = TRUE]
               \/ \E new \in DOMAIN rows : rows' = [rows EXCEPT ![id].successor = new]
      BY <2>2 DEF Curate
    <3>2. rows[id] \in Row /\ rows[id].tenant \in Tenants /\ id \in Ids /\ DOMAIN rows \subseteq Ids
      BY RecordsAssumption DEF IInv, TypeOK, Ids, Row
    <3>3. id \in DOMAIN book /\ book[id].tenant = rows[id].tenant
      BY <3>1
    <3>4. CASE rows' = [rows EXCEPT ![id].forgotten = TRUE]
      <4>1. \A i \in DOMAIN rows : rows'[i] = IF i = id THEN [rows[id] EXCEPT !.forgotten = TRUE] ELSE rows[i]
        BY <3>4
      <4>2. book' = [i \in DOMAIN book \ {id} |-> book[i]]
        BY <3>2, <3>4, <4>1 DEF Row
      <4>3. Book!Forget(rows[id].tenant, id)
        BY <3>3, <4>2 DEF Book!Forget, Book!Owned
      <4> QED
        BY <3>2, <4>3 DEF Book!FreshNext, Book!FreshCallOf, Book!Retire
    <3>5. CASE \E new \in DOMAIN rows : rows' = [rows EXCEPT ![id].successor = new]
      <4>1. PICK new \in DOMAIN rows : rows' = [rows EXCEPT ![id].successor = new]
        BY <3>5
      <4>2. \A i \in DOMAIN rows : rows'[i] = IF i = id THEN [rows[id] EXCEPT !.successor = new] ELSE rows[i]
        BY <4>1
      <4>3. book' = [book EXCEPT ![id].successor = new]
        <5>1. DOMAIN rows' = DOMAIN rows
          BY <4>1
        <5>2. rows[id] \in Row /\ \A i \in DOMAIN rows : rows'[i].forgotten <=> rows[i].forgotten
          BY <3>2, <4>2 DEF Row
        <5>3. DOMAIN book' = DOMAIN book
          BY <5>1, <5>2
        <5>4. \A i \in DOMAIN book \ {id} : book'[i] = book[i]
          BY <4>2, <5>3
        <5>5. book'[id] = [book[id] EXCEPT !.successor = new]
          <6>1. /\ rows'[id].tenant = rows[id].tenant /\ rows'[id].until = rows[id].until
                /\ rows'[id].successor = new
            BY <3>2, <4>2 DEF Row
          <6>2. book'[id] = [tenant |-> rows[id].tenant, from |-> 1,
                             until |-> rows[id].until, successor |-> new]
            BY <3>3, <5>3, <6>1
          <6>3. book[id] = [tenant |-> rows[id].tenant, from |-> 1,
                            until |-> rows[id].until, successor |-> rows[id].successor]
            BY <3>3
          <6> HIDE DEF book
          <6> QED
            BY <6>2, <6>3
        <5>6. /\ book = [i \in DOMAIN book |-> book[i]]
              /\ book' = [i \in DOMAIN book' |-> book'[i]]
          OBVIOUS
        <5> HIDE DEF book
        <5> QED
          BY <3>3, <5>3, <5>4, <5>5, <5>6
      <4>4. Book!Supersede(rows[id].tenant, id, new)
        BY <3>3, <4>3 DEF Book!Supersede, Book!Owned
      <4> QED
        BY <3>2, <4>4 DEF Book!FreshNext, Book!FreshCallOf, Book!Retire
    <3> QED
      BY <3>1, <3>4, <3>5
  <2>3. CASE UNCHANGED <<rows, embeddings>>
    BY <2>3
  <2> QED
    BY <2>1, <2>2, <2>3, StepOnTables
<1> QED
  BY <1>1, <1>2, Invariant, PTL DEF Spec, BookSpec, Book!FreshSpec
-----------------------------------------------------------------------------
(* What searches find. *)

\* The memory id is none that a search for `tenant` may find at `time`, or later.
Excluded(id, tenant, time) ==
    /\ id \in DOMAIN rows
    /\ \/ rows[id].tenant # tenant
       \/ rows[id].forgotten
       \/ rows[id].successor # Nobody
       \/ rows[id].until # Forever /\ rows[id].until <= time

\* The memory id is the tenant's and embedded with the model.
Embedded(id, tenant, model) ==
    /\ id \in DOMAIN rows /\ rows[id].tenant = tenant
    /\ \E e \in embeddings : e.memory = id /\ e.model = model

\* What was barred when a search was called is excluded still when its statement
\* runs, at the time that its transaction began.
SearchSound(w) ==
    reqs[w] # Idle /\ reqs[w].call.op = "search" =>
        /\ \A id \in reqs[w].call.barred :
              Excluded(id, reqs[w].call.tenant,
                       IF reqs[w].phase = "waiting" THEN clock ELSE reqs[w].start)
        /\ reqs[w].phase = "executed" =>
              \A id \in reqs[w].found :
                  /\ id \notin reqs[w].call.barred
                  /\ Embedded(id, reqs[w].call.tenant, reqs[w].call.model)

\* What excludes a memory lasts, and so do embeddings: tenants and validity never
\* change, and no statement recalls, revives or removes.
LEMMA TablesLast ==
    ASSUME IInv, [Next]_vars
    PROVE  /\ \A id \in DOMAIN rows :
                /\ id \in DOMAIN rows'
                /\ rows'[id].tenant = rows[id].tenant /\ rows'[id].until = rows[id].until
                /\ rows[id].forgotten => rows'[id].forgotten
                /\ rows[id].successor # Nobody => rows'[id].successor # Nobody
           /\ embeddings \subseteq embeddings'
<1>1. CASE UNCHANGED <<rows, embeddings>>
  BY <1>1
<1>2. CASE \E c \in Conns : Publish(conns[c].write)
  <2>1. PICK c \in Conns : Publish(conns[c].write)
    BY <1>2
  <2>2. DOMAIN rows \subseteq DOMAIN rows' /\ \A id \in DOMAIN rows : rows'[id] = rows[id]
    BY <2>1, PublishGrows DEF Publishes, IInv
  <2>3. embeddings \subseteq embeddings'
    BY <2>1 DEF Publish, EmbeddingsWith
  <2> QED
    BY <2>2, <2>3
<1>3. CASE Curate
  <2>1. PICK i \in DOMAIN rows :
          \/ rows' = [rows EXCEPT ![i].forgotten = TRUE]
          \/ \E new \in DOMAIN rows : rows' = [rows EXCEPT ![i].successor = new]
    BY <1>3 DEF Curate
  <2>2. \A id \in DOMAIN rows : rows[id] \in Row /\ id # Nobody
    BY RecordsAssumption DEF IInv, TypeOK, Nobody
  <2>3. CASE rows' = [rows EXCEPT ![i].forgotten = TRUE]
    BY <1>3, <2>2, <2>3 DEF Row, Curate
  <2>4. CASE \E new \in DOMAIN rows : rows' = [rows EXCEPT ![i].successor = new]
    BY <1>3, <2>2, <2>4 DEF Row, Curate
  <2> QED
    BY <2>1, <2>3, <2>4
<1> QED
  BY <1>1, <1>2, <1>3, StepOnTables

\* What a step does to one request.
LEMMA StepOnRequest ==
    ASSUME IInv, [Next]_vars, NEW w \in Workers
    PROVE  \/ reqs'[w] = reqs[w] /\ clock <= clock' /\ clock' \in Time
           \/ reqs'[w] = Idle
           \/ CreateMemory(w) \/ UpsertEmbedding(w) \/ SemanticCandidates(w)
           \/ Begin(w) \/ BindTenant(w) \/ Execute(w)
<1>1. clock \in Time /\ Time \subseteq Nat
  BY RecordsAssumption DEF IInv, TypeOK, Time
<1>2. CASE UNCHANGED vars \/ Tick \/ Curate \/ \E c \in Conns : Settle(c)
  BY <1>1, <1>2, RecordsAssumption DEF vars, Tick, Curate, Settle, Time
<1>3. ASSUME NEW v \in Workers,
             \/ CreateMemory(v) \/ UpsertEmbedding(v) \/ SemanticCandidates(v)
             \/ Advance(v) \/ GiveUp(v) \/ DropRequest(v)
      PROVE  /\ v # w => reqs'[w] = reqs[w]
             /\ clock' = clock
  BY <1>3 DEF CreateMemory, UpsertEmbedding, SemanticCandidates, Advance, Begin, BindTenant,
              Execute, Refuse, Commit, GiveUp, DropRequest, Leave, IInv, TypeOK
<1>4. ASSUME Refuse(w) \/ Commit(w) \/ GiveUp(w) \/ DropRequest(w)
      PROVE  reqs'[w] = Idle
  BY <1>4 DEF Refuse, Commit, GiveUp, DropRequest, Leave, IInv, TypeOK
<1>5. Handlers \subseteq Workers /\ Callers \subseteq Workers
  BY DEF Workers
<1> QED
  BY <1>1, <1>2, <1>3, <1>4, <1>5 DEF Next, Advance

\* A search keeps what it was called with, and finds only what is still allowed.
LEMMA SearchKeeps ==
    ASSUME IInv, [Next]_vars, NEW w \in Workers, SearchSound(w)
    PROVE  SearchSound(w)'
<1>1. clock \in Nat /\ \A id \in DOMAIN rows : rows[id] \in Row /\ rows[id].until \in Nat
  BY RecordsAssumption DEF IInv, TypeOK, Time, Row, Forever
<1>2. CASE reqs'[w] = reqs[w] /\ clock <= clock' /\ clock' \in Time
  <2>1. clock' \in Nat
    BY <1>2, RecordsAssumption DEF Time
  <2> QED
    BY <1>1, <1>2, <2>1, TablesLast DEF SearchSound, Excluded, Embedded
<1>3. CASE reqs'[w] = Idle \/ CreateMemory(w) \/ UpsertEmbedding(w)
  BY <1>3 DEF CreateMemory, UpsertEmbedding, Waiting, IInv, TypeOK, SearchSound
<1>4. CASE SemanticCandidates(w)
  <2>1. PICK tenant \in Tenants, model \in Models, limit \in Limits :
          reqs' = [reqs EXCEPT ![w] = Waiting(
                [op |-> "search", tenant |-> tenant, write |-> NoWrite,
                 model |-> model, limit |-> limit,
                 barred |-> DOMAIN rows \ Book!LiveMemories(tenant, clock)])]
    BY <1>4 DEF SemanticCandidates
  <2> DEFINE barred == DOMAIN rows \ Book!LiveMemories(tenant, clock)
  <2>2. \A id \in barred : Excluded(id, tenant, clock)
    <3> SUFFICES ASSUME NEW id \in DOMAIN rows, ~Excluded(id, tenant, clock)
                 PROVE  id \in Book!LiveMemories(tenant, clock)
      OBVIOUS
    <3>1. /\ rows[id].tenant = tenant /\ ~rows[id].forgotten /\ rows[id].successor = Nobody
          /\ rows[id].until = Forever \/ rows[id].until > clock
      BY <1>1 DEF Excluded
    <3>2. 1 <= clock
      BY DEF IInv, TypeOK, Time
    <3> QED
      BY <3>1, <3>2 DEF Book!LiveMemories, Book!Owned, Book!Live
  <2>3. /\ reqs'[w].phase = "waiting" /\ reqs'[w].call.tenant = tenant
        /\ reqs'[w].call.barred = barred
    BY <2>1 DEF Waiting, IInv, TypeOK
  <2>4. UNCHANGED <<rows, clock>>
    BY <1>4 DEF SemanticCandidates
  <2> HIDE DEF barred
  <2> QED
    BY <2>2, <2>3, <2>4 DEF SearchSound, Excluded
<1>5. CASE Begin(w)
  <2>1. /\ reqs[w].phase = "waiting" /\ reqs[w] # Idle
        /\ reqs'[w].phase = "begun" /\ reqs'[w].call = reqs[w].call /\ reqs'[w].start = clock
        /\ UNCHANGED rows
    BY <1>5, Phases DEF Begin, IInv, TypeOK
  <2> QED
    BY <2>1 DEF SearchSound, Excluded
<1>6. CASE BindTenant(w)
  <2>1. reqs[w].phase = "begun" /\ reqs[w] \in Served /\ reqs[w] # Idle
    BY <1>6, Phases DEF BindTenant, IInv
  <2>2. /\ reqs'[w].phase = "bound" /\ reqs'[w].call = reqs[w].call
        /\ reqs'[w].start = reqs[w].start /\ UNCHANGED rows
    BY <1>6, <2>1 DEF BindTenant, IInv, TypeOK, Served
  <2> QED
    BY <2>1, <2>2 DEF SearchSound, Excluded
<1>7. CASE Execute(w)
  <2>1. reqs[w].phase = "bound" /\ reqs[w] \in Served /\ reqs[w] # Idle
    BY <1>7, Phases DEF Execute, IInv
  <2>2. PICK found \in SUBSET Ids :
          /\ Finds(conns[reqs[w].conn].bound, reqs[w].call, reqs[w].start, found)
          /\ reqs' = [reqs EXCEPT ![w].phase = "executed", ![w].found = found]
    BY <1>7 DEF Execute
  <2>3. /\ reqs'[w].phase = "executed" /\ reqs'[w].call = reqs[w].call
        /\ reqs'[w].start = reqs[w].start /\ reqs'[w].found = found
        /\ UNCHANGED <<rows, embeddings>>
    BY <1>7, <2>1, <2>2 DEF Execute, IInv, TypeOK, Served
  <2>4. ASSUME reqs[w].call.op = "search", NEW id \in found
        PROVE  /\ id \notin reqs[w].call.barred
               /\ Embedded(id, reqs[w].call.tenant, reqs[w].call.model)
    <3>1. id \in Usable(conns[reqs[w].conn].bound, reqs[w].call, reqs[w].start)
      BY <2>2, <2>4 DEF Finds
    <3>2. reqs[w].start \in Nat
      BY <2>1, RecordsAssumption DEF Served, Time
    <3>3. ~Excluded(id, reqs[w].call.tenant, reqs[w].start)
      BY <1>1, <3>1, <3>2 DEF Usable, Excluded
    <3> QED
      BY <2>1, <2>4, <3>1, <3>3 DEF SearchSound, Usable, Embedded
  <2> QED
    BY <2>1, <2>3, <2>4 DEF SearchSound, Excluded, Embedded
<1> QED
  BY <1>2, <1>3, <1>4, <1>5, <1>6, <1>7, StepOnRequest

\* Nobody finds a memory that was superseded, forgotten or expired, or another's,
\* when the search was called, however the table changes until it answers.
THEOREM CandidatesAreLive == Spec => []CandidatesWereLive
<1> DEFINE SearchesSound == \A w \in Workers : SearchSound(w)
<1>1. Init => SearchesSound
  BY DEF Init, SearchSound
<1>2. IInv /\ SearchesSound /\ [Next]_vars => SearchesSound'
  BY SearchKeeps
<1>3. IInv /\ SearchesSound => CandidatesWereLive
  <2> SUFFICES ASSUME IInv, SearchesSound, NEW w \in Workers,
                      reqs[w].phase = "executed", reqs[w].call.op = "search"
               PROVE  \A id \in reqs[w].found :
                          /\ id \notin reqs[w].call.barred
                          /\ Embedded(id, reqs[w].call.tenant, reqs[w].call.model)
    BY DEF CandidatesWereLive, Embedded
  <2>1. reqs[w] # Idle
    BY Phases DEF IInv
  <2> QED
    BY <2>1 DEF SearchSound
<1> HIDE DEF SearchesSound
<1> QED
  BY <1>1, <1>2, <1>3, Invariant, PTL DEF Spec
=============================================================================
