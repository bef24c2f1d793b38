------------------------ MODULE LedgerServiceProofs ------------------------
(***************************************************************************)
(* Proofs about LedgerService, for every value of its constants.            *)
(*                                                                         *)
(* A claim travels from the ledger through a request, and perhaps through a *)
(* transaction nobody waits for, into the table.  The invariant orders the  *)
(* copies of it on the way: none is newer than the ledger of its session,   *)
(* and, with clients that wait for their answers, none that may still be    *)
(* written is older than the row it would replace.                          *)
(***************************************************************************)
EXTENDS LedgerService, ClaimProofs

\* d is c or what later calls of the same session have made of it.
Later(c, d) ==
    /\ d.version >= c.version
    /\ d.version = c.version => SignalsStand(c, d)
    /\ IsTerminal(c.status) => d = c

\* The upsert of c takes the row forward: it lowers no version, takes no signal
\* from one and changes no verdict.
Ahead(row, c) ==
    /\ c.version >= row.version
    /\ c.version = row.version => SignalsStand(row, c)
    /\ IsTerminal(row.status) => Upserted(row, c) = row

Busy(w) == pc[w] # "idle"
Sent(w) == pc[w] \in {"executed", "abandoned"}
Served(w) == pc[w] \in {"mirroring", "executed"}

ClaimsAreSound ==
    /\ \A k \in Key : claims[k] # NoClaim => Sound(claims[k])
    /\ \A w \in Workers : Busy(w) => Sound(call[w].claim)
    /\ \A w \in Workers : Sent(w) => call[w].claim.confidence \in ValidConfidences

\* Only a transaction can outlive its session, and it still holds its row.
SessionsAreOrdered ==
    /\ \A w \in Workers : Served(w) => call[w].session = session
    /\ \A w \in Workers : call[w].session <= session
    /\ \A k \in Key : writtenIn[k] <= session
    /\ \A w \in Workers : Sent(w) => writtenIn[call[w].key] <= call[w].session

RowsAreLocked ==
    \A v, w \in Workers : Sent(v) /\ Sent(w) /\ call[v].key = call[w].key => v = w

\* No copy is newer than the ledger of its session.
LedgerIsLatest ==
    /\ \A w \in Workers :
          Busy(w) /\ call[w].session = session =>
             /\ claims[call[w].key] # NoClaim
             /\ Later(call[w].claim, claims[call[w].key])
    /\ \A k \in Key :
          mirror[k] # NoRow /\ writtenIn[k] = session =>
             claims[k] # NoClaim /\ Ahead(mirror[k], claims[k])

\* What waiting clients see to: one request about a key at a time, whose claim
\* is ahead of the row and of every claim that an abandoned transaction holds.
OneByOne ==
    oneAtATime =>
        /\ \A v, w \in Workers :
              Served(v) /\ Served(w) /\ call[v].key = call[w].key => v = w
        /\ \A w \in Workers :
              LET k == call[w].key IN
              Busy(w) /\ mirror[k] # NoRow /\ writtenIn[k] = call[w].session
                 => Ahead(mirror[k], call[w].claim)
        /\ \A v, w \in Workers :
              /\ pc[v] = "abandoned" /\ pc[w] = "mirroring"
              /\ call[v].key = call[w].key /\ call[v].session = call[w].session
              => Later(call[v].claim, call[w].claim)

AnswersAreKept ==
    oneAtATime => \A k \in Key : answered[k] # {} =>
        /\ writtenIn[k] = session
        /\ mirror[k] # NoRow
        /\ IsTerminal(mirror[k].status)
        /\ \A verdict \in answered[k] : verdict = Verdict(mirror[k])

\* The inductive invariant.
IInv ==
    /\ TypeOK
    /\ RowsAreCoherent
    /\ ClaimsAreSound
    /\ SessionsAreOrdered
    /\ RowsAreLocked
    /\ LedgerIsLatest
    /\ OneByOne
    /\ AnswersAreKept

\* The inductive invariant of a service where nothing fails.
Quiet ==
    /\ oneAtATime
    /\ \A w \in Workers : pc[w] # "abandoned"
    /\ \A w \in Workers : Busy(w) => call[w].claim = claims[call[w].key]
    /\ \A k \in Key : claims[k] # NoClaim =>
          Mirrored(k) \/ \E w \in Workers : Busy(w) /\ call[w].key = k

-----------------------------------------------------------------------------
(* Copies of one claim. *)

\* Signals that stand in what they still stand in, stand.
LEMMA SignalsTransitive ==
    ASSUME NEW c \in Claim \cup Row, NEW d \in Claim, NEW e \in Claim,
           SignalsStand(c, d), SignalsStand(d, e)
    PROVE  SignalsStand(c, e)
<1>1. \A agent \in Agents : /\ c.supporters[agent] \in Nat
                            /\ d.supporters[agent] \in Nat /\ e.supporters[agent] \in Nat
  BY DEF Claim, Row
<1>2. \A agent \in Agents : e.supporters[agent] >= c.supporters[agent]
  BY <1>1 DEF SignalsStand
<1>3. \A agent \in Agents, reason \in Reasons : c.contests[agent][reason] > 0 =>
         \E other \in Reasons : e.contests[agent][other] > 0
  BY DEF SignalsStand
<1> QED
  BY <1>2, <1>3 DEF SignalsStand

\* A claim is as late as itself.
LEMMA LaterReflexive ==
    ASSUME NEW c \in Claim
    PROVE  Later(c, c)
<1>1. c.version \in Nat /\ \A agent \in Agents : c.supporters[agent] \in Nat
  BY DEF Claim
<1>2. SignalsStand(c, c)
  BY <1>1 DEF SignalsStand
<1> QED
  BY <1>1, <1>2 DEF Later

\* What is later than a later one is later.
LEMMA LaterTransitive ==
    ASSUME NEW c \in Claim, NEW d \in Claim, NEW e \in Claim, Later(c, d), Later(d, e)
    PROVE  Later(c, e)
<1>1. c.version \in Nat /\ d.version \in Nat /\ e.version \in Nat
  BY DEF Claim
<1>2. e.version >= c.version /\ (IsTerminal(c.status) => e = c)
  BY <1>1 DEF Later
<1>3. ASSUME e.version = c.version PROVE SignalsStand(c, e)
  <2>1. d.version = c.version /\ e.version = d.version
    BY <1>1, <1>3 DEF Later
  <2> QED
    BY <2>1, SignalsTransitive DEF Later
<1> QED
  BY <1>2, <1>3 DEF Later

\* What an upsert writes: the claim's columns, but for the row's own id and the
\* author of its insert.
LEMMA UpsertedColumns ==
    ASSUME NEW c \in Claim, NEW row \in Row \cup {NoRow}
    PROVE  LET new == Upserted(row, c)
           IN  /\ new \in Row
               /\ new # NoRow
               /\ new.value = c.value
               /\ new.confidence = c.confidence
               /\ new.status = c.status
               /\ new.supporters = c.supporters
               /\ new.contests = c.contests
               /\ new.resolvedBy = c.resolvedBy
               /\ new.supersededBy = c.supersededBy
               /\ new.version = c.version
<1>1. CASE row = NoRow
  <2> DEFINE author == IF c.author \in UuidAgents THEN c.author ELSE Nobody
  <2>1. Upserted(row, c) = [c EXCEPT !.author = author]
    BY <1>1 DEF Upserted
  <2>2. author \in UuidAgents \cup {Nobody}
    OBVIOUS
  <2> HIDE DEF author
  <2>3. [c EXCEPT !.author = author] \in Row
    BY <2>2 DEF Claim, Row
  <2> QED
    BY <2>1, <2>3, NoRowAssumption DEF Claim
<1>2. CASE row \in Row /\ row # NoRow
  <2>1. Upserted(row, c) = [c EXCEPT !.id = row.id, !.author = row.author]
    BY <1>2 DEF Upserted
  <2>2. row.id \in Nat \ {0} /\ row.author \in UuidAgents \cup {Nobody}
    BY <1>2 DEF Row
  <2> DEFINE id == row.id
             author == row.author
  <2>3. Upserted(row, c) = [c EXCEPT !.id = id, !.author = author]
    BY <2>1
  <2> HIDE DEF id, author
  <2>4. id \in Nat \ {0} /\ author \in UuidAgents \cup {Nobody}
    BY <2>2 DEF id, author
  <2>5. [c EXCEPT !.id = id, !.author = author] \in Row
    BY <2>4 DEF Claim, Row
  <2> QED
    BY <2>3, <2>5, NoRowAssumption DEF Claim
<1> QED
  BY <1>1, <1>2

\* Writing the same claim twice is writing it once.
LEMMA UpsertedAgain ==
    ASSUME NEW c \in Claim, NEW row \in Row \cup {NoRow}
    PROVE  Upserted(Upserted(row, c), c) = Upserted(row, c)
<1> DEFINE new == Upserted(row, c)
<1>1. new # NoRow
  BY UpsertedColumns
<1>2. Upserted(new, c) = [c EXCEPT !.id = new.id, !.author = new.author]
  BY <1>1 DEF Upserted
<1>3. \E id, author : new = [c EXCEPT !.id = id, !.author = author]
  <2>1. row = NoRow => new = [c EXCEPT !.id = c.id,
                                       !.author = IF c.author \in UuidAgents THEN c.author ELSE Nobody]
    BY DEF Upserted, Claim
  <2>2. row # NoRow => new = [c EXCEPT !.id = row.id, !.author = row.author]
    BY DEF Upserted
  <2> QED
    BY <2>1, <2>2
<1>4. PICK id, author : new = [c EXCEPT !.id = id, !.author = author]
  BY <1>3
<1> HIDE DEF new
<1>5. new.id = id /\ new.author = author
  BY <1>4 DEF Claim
<1> QED
  BY <1>2, <1>4, <1>5 DEF new

\* A later copy of what was written is ahead of the row.
LEMMA UpsertedBehind ==
    ASSUME NEW c \in Claim, NEW d \in Claim, NEW row \in Row \cup {NoRow}, Later(c, d)
    PROVE  Ahead(Upserted(row, c), d)
<1> DEFINE new == Upserted(row, c)
<1>1. /\ new.version = c.version /\ new.status = c.status /\ new.value = c.value
      /\ new.confidence = c.confidence /\ new.supporters = c.supporters /\ new.contests = c.contests
  BY UpsertedColumns
<1>2. Upserted(new, c) = new
  BY UpsertedAgain
<1> HIDE DEF new
<1>3. SignalsStand(c, d) => SignalsStand(new, d)
  BY <1>1 DEF SignalsStand
<1>4. Ahead(new, d)
  BY <1>1, <1>2, <1>3 DEF Later, Ahead
<1> QED
  BY <1>4 DEF new

\* What is ahead of a row, a later claim is too.
LEMMA AheadStays ==
    ASSUME NEW c \in Claim, NEW d \in Claim, NEW row \in Row,
           Ahead(row, c), Later(c, d)
    PROVE  Ahead(row, d)
<1>1. c.version \in Nat /\ d.version \in Nat /\ row.version \in Nat
  BY DEF Claim, Row
<1>2. IsTerminal(row.status) => Upserted(row, c) = row
  BY DEF Ahead
<1>3. IsTerminal(row.status) => c.status = row.status
  BY <1>2, UpsertedColumns
<1>4. d.version >= row.version /\ (IsTerminal(row.status) => Upserted(row, d) = row)
  BY <1>1, <1>2, <1>3 DEF Later, Ahead
<1>5. ASSUME d.version = row.version PROVE SignalsStand(row, d)
  <2>1. c.version = row.version /\ d.version = c.version
    BY <1>1, <1>5 DEF Later, Ahead
  <2> QED
    BY <2>1, SignalsTransitive DEF Later, Ahead
<1> QED
  BY <1>4, <1>5 DEF Ahead

\* An upsert of what is ahead keeps a verdict, and never lowers the version.
LEMMA AheadUpserts ==
    ASSUME NEW c \in Claim, NEW row \in Row, Ahead(row, c)
    PROVE  /\ Upserted(row, c).version >= row.version
           /\ IsTerminal(row.status) =>
                 /\ Upserted(row, c) = row
                 /\ c.status = row.status
                 /\ c.value = row.value
  BY UpsertedColumns DEF Ahead

\* A sound claim with a confidence the table takes makes a coherent row.
LEMMA UpsertedCoherent ==
    ASSUME NEW c, Sound(c), c.confidence \in ValidConfidences,
           NEW row \in Row \cup {NoRow}
    PROVE  LET new == Upserted(row, c)
           IN  /\ OneVote(new)
               /\ Attributed(new)
               /\ new.confidence \in ValidConfidences
               /\ new.status = "contested" <=> ~IsTerminal(new.status) /\ HasContest(new)
<1> DEFINE new == Upserted(row, c)
<1>1. c \in Claim
  BY DEF Sound
<1>2. /\ new.confidence = c.confidence
      /\ new.status = c.status
      /\ new.supporters = c.supporters
      /\ new.contests = c.contests
      /\ new.resolvedBy = c.resolvedBy
      /\ new.supersededBy = c.supersededBy
  BY <1>1, UpsertedColumns
<1> HIDE DEF new
<1>3. OneVote(new)
  BY <1>2 DEF Sound, OneVote
<1>4. Attributed(new)
  BY <1>2 DEF Sound, Attributed
<1>5. new.status = "contested" <=> ~IsTerminal(new.status) /\ HasContest(new)
  BY <1>2 DEF Sound, HasContest
<1> QED
  BY <1>2, <1>3, <1>4, <1>5 DEF new

\* What each call of the ledger makes of a live claim is a later copy of it.
LEMMA CallsGoForward ==
    ASSUME NEW c \in Claim, ~IsTerminal(c.status)
    PROVE  /\ \A value \in Values, confidence \in Confidences, author \in Agents :
                 Later(c, Reasserted(c, value, confidence, author))
           /\ \A agent \in Agents : Later(c, Supported(c, agent))
           /\ \A agent \in Agents, reason \in Reasons : Later(c, Contested(c, agent, reason))
           /\ \A accepted \in BOOLEAN, resolver \in Agents :
                 Later(c, Resolved(c, accepted, resolver))
<1>1. c.version \in Nat
  BY DEF Claim
<1>2. \A value \in Values, confidence \in Confidences, author \in Agents :
         Reasserted(c, value, confidence, author).version = c.version + 1
  BY DEF Claim, Reasserted
<1>3. \A agent \in Agents : Supported(c, agent).version = c.version
  BY DEF Claim, Supported
<1>4. \A agent \in Agents, reason \in Reasons : Contested(c, agent, reason).version = c.version
  BY DEF Claim, Contested
<1>5. \A accepted \in BOOLEAN, resolver \in Agents :
         Resolved(c, accepted, resolver).version = c.version
  BY DEF Claim, Resolved
<1>6. \A agent \in Agents : SignalsStand(c, Supported(c, agent))
  <2> TAKE agent \in Agents
  <2> DEFINE n == IF c.supporters[agent] > 0 THEN c.supporters[agent] ELSE c.supporters[agent] + 1
             supporters == [c.supporters EXCEPT ![agent] = n]
  <2>1. c.supporters \in [Agents -> Nat]
    BY DEF Claim
  <2>2. \A a \in Agents : supporters[a] >= c.supporters[a]
    BY <2>1
  <2>3. Supported(c, agent) = [c EXCEPT !.supporters = supporters]
    BY <2>1 DEF Supported
  <2> HIDE DEF supporters
  <2>4. /\ Supported(c, agent).value = c.value /\ Supported(c, agent).confidence = c.confidence
        /\ Supported(c, agent).supporters = supporters /\ Supported(c, agent).contests = c.contests
    BY <2>3 DEF Claim
  <2> QED
    BY <2>2, <2>4 DEF SignalsStand
<1>7. \A agent \in Agents, reason \in Reasons : SignalsStand(c, Contested(c, agent, reason))
  <2> TAKE agent \in Agents, reason \in Reasons
  <2> DEFINE retained == [c.contests EXCEPT ![agent] = NoContests[agent]]
             contests == [retained EXCEPT ![agent][reason] = @ + 1]
             d == Contested(c, agent, reason)
  <2>1. c.contests \in [Agents -> [Reasons -> Nat]] /\ NoContests[agent] \in [Reasons -> Nat]
        /\ NoContests[agent][reason] = 0
    BY DEF Claim, NoContests
  <2>2. contests[agent][reason] > 0 /\ \A a \in Agents \ {agent} : contests[a] = c.contests[a]
    BY <2>1
  <2>3. d = [c EXCEPT !.contests = contests, !.status = "contested"]
    BY DEF Contested
  <2> HIDE DEF contests
  <2>4. /\ d.value = c.value /\ d.confidence = c.confidence
        /\ d.supporters = c.supporters /\ d.contests = contests
    BY <2>3 DEF Claim
  <2>5. \A a \in Agents : c.supporters[a] \in Nat
    BY DEF Claim
  <2> HIDE DEF d
  <2>6. SignalsStand(c, d)
    BY <2>2, <2>4, <2>5 DEF SignalsStand
  <2> QED
    BY <2>6 DEF d
<1>8. \A accepted \in BOOLEAN, resolver \in Agents : SignalsStand(c, Resolved(c, accepted, resolver))
  <2> TAKE accepted \in BOOLEAN, resolver \in Agents
  <2> DEFINE d == Resolved(c, accepted, resolver)
  <2>1. /\ d.value = c.value /\ d.confidence = c.confidence
        /\ d.supporters = c.supporters /\ d.contests = c.contests
    BY DEF Resolved, Claim
  <2>2. \A a \in Agents : c.supporters[a] \in Nat
    BY DEF Claim
  <2> HIDE DEF d
  <2>3. SignalsStand(c, d)
    BY <2>1, <2>2 DEF SignalsStand
  <2> QED
    BY <2>3 DEF d
<1>9. \A value \in Values, confidence \in Confidences, author \in Agents :
         Later(c, Reasserted(c, value, confidence, author))
  BY <1>1, <1>2 DEF Later
<1>10. \A agent \in Agents : Later(c, Supported(c, agent))
  BY <1>1, <1>3, <1>6 DEF Later
<1>11. \A agent \in Agents, reason \in Reasons : Later(c, Contested(c, agent, reason))
  BY <1>1, <1>4, <1>7 DEF Later
<1>12. \A accepted \in BOOLEAN, resolver \in Agents : Later(c, Resolved(c, accepted, resolver))
  BY <1>1, <1>5, <1>8 DEF Later
<1> QED
  BY <1>9, <1>10, <1>11, <1>12

-----------------------------------------------------------------------------
(* The steps, by what they do to the copies. *)

\* A ledger call leaves a sound claim under its key, a later copy of the one it
\* found, and the handler clones it.
Calls(w, k, c) ==
    /\ MaySend(w, k)
    /\ Sound(c)
    /\ claims[k] # NoClaim => Later(claims[k], c)
    /\ claims' = [claims EXCEPT ![k] = c]
    /\ nextId' \in Nat \ {0}
    /\ pc' = [pc EXCEPT ![w] = "mirroring"]
    /\ call' = [call EXCEPT ![w] = [key |-> k, claim |-> c, session |-> session]]
    /\ UNCHANGED <<oneAtATime, mirror, session, faults, writtenIn, answered>>

\* A request ends, or its transaction is rolled back, without a write.
GivesUp(w) ==
    /\ Busy(w)
    /\ Ends(w)
    /\ faults' \in Nat
    /\ UNCHANGED <<oneAtATime, ledgerVars, mirror, session, writtenIn, answered>>

\* A request stops waiting for a transaction that holds its row.
Abandons(w) ==
    /\ pc[w] = "executed"
    /\ pc' = [pc EXCEPT ![w] = "abandoned"]
    /\ faults' \in Nat
    /\ UNCHANGED <<oneAtATime, ledgerVars, call, mirror, session, writtenIn, answered>>

\* A transaction commits, with or without an answer.
Writes(w) ==
    /\ Sent(w)
    /\ Write(w)
    /\ Ends(w)
    /\ \/ UNCHANGED answered
       \/ /\ pc[w] = "executed"
          /\ IsTerminal(call[w].claim.status)
          /\ answered' = [answered EXCEPT ![call[w].key] = @ \cup {Verdict(call[w].claim)}]
    /\ UNCHANGED <<oneAtATime, ledgerVars, session, faults>>

\* The ledger of the service is typed as ClaimLedger says.
LEMMA LedgerTypes ==
    Ledger!TypeOK <=> claims \in [Key -> Claim \cup {NoClaim}] /\ nextId \in Nat \ {0}
  BY DEF Ledger!TypeOK, Ledger!Key, Ledger!Claim, Ledger!ClaimStatus, Key, Claim, ClaimStatus

\* The parts of the type invariant, one by one.
LEMMA Types ==
    ASSUME IInv
    PROVE  /\ claims \in [Key -> Claim \cup {NoClaim}] /\ nextId \in Nat \ {0}
           /\ oneAtATime \in BOOLEAN
           /\ pc \in [Workers -> {"idle", "mirroring", "executed", "abandoned"}]
           /\ call \in [Workers -> Call]
           /\ mirror \in [Key -> Row \cup {NoRow}]
           /\ session \in Nat /\ faults \in Nat
           /\ writtenIn \in [Key -> Nat]
           /\ answered \in [Key -> SUBSET [status : ClaimStatus, value : Values]]
           /\ \A w \in Workers : call[w].key \in Key /\ call[w].session \in Nat
           /\ \A w \in Workers : Busy(w) => Sound(call[w].claim) /\ call[w].claim \in Claim
           /\ \A k \in Key : claims[k] # NoClaim => Sound(claims[k]) /\ claims[k] \in Claim
<1>1. TypeOK /\ ClaimsAreSound
  BY DEF IInv
<1>2. call \in [Workers -> Call]
  BY <1>1 DEF TypeOK
<1>3. \A w \in Workers : call[w].key \in Key /\ call[w].session \in Nat
  BY <1>2 DEF Call
<1>4. \A c : Sound(c) => c \in Claim
  BY DEF Sound
<1>5. claims \in [Key -> Claim \cup {NoClaim}] /\ nextId \in Nat \ {0}
  BY <1>1, LedgerTypes DEF TypeOK
<1> QED
  BY <1>1, <1>2, <1>3, <1>4, <1>5 DEF TypeOK, ClaimsAreSound

\* Every ledger call of a handler is a step forward.
LEMMA LedgerCalls ==
    ASSUME IInv, NEW k \in Key,
           \/ \E value \in Values, confidence \in Confidences, author \in Agents :
                 Ledger!Assert(k, value, confidence, author)
           \/ \E agent \in Agents : Ledger!Support(k, agent)
           \/ \E agent \in Agents, reason \in Reasons : Ledger!Contest(k, agent, reason)
           \/ \E accepted \in BOOLEAN, resolver \in Agents : Ledger!Resolve(k, accepted, resolver)
    PROVE  \E c : /\ Sound(c)
                  /\ claims[k] # NoClaim => Later(claims[k], c)
                  /\ claims' = [claims EXCEPT ![k] = c]
                  /\ nextId' \in Nat \ {0}
<1>1. /\ nextId \in Nat \ {0}
      /\ claims[k] # NoClaim => Sound(claims[k]) /\ claims[k] \in Claim
  BY Types
<1>2. Ledger!Live(k) => claims[k] # NoClaim /\ ~IsTerminal(claims[k].status)
  BY DEF Ledger!Live, Ledger!Present, Ledger!IsTerminal, IsTerminal
<1>3. ASSUME NEW value \in Values, NEW confidence \in Confidences, NEW author \in Agents,
             Ledger!AssertNew(k, value, confidence, author)
      PROVE  /\ claims[k] = NoClaim
             /\ claims' = [claims EXCEPT ![k] = NewClaim(nextId, value, confidence, author)]
             /\ nextId' = nextId + 1
  BY <1>3 DEF Ledger!AssertNew, Ledger!Present, Ledger!NewClaim, NewClaim,
              Ledger!NoSupporters, NoSupporters, Ledger!NoContests, NoContests
<1>4. ASSUME NEW value \in Values, NEW confidence \in Confidences, NEW author \in Agents,
             Ledger!Reassert(k, value, confidence, author)
      PROVE  /\ Ledger!Live(k)
             /\ claims' = [claims EXCEPT ![k] = Reasserted(claims[k], value, confidence, author)]
             /\ nextId' = nextId
  BY <1>4 DEF Ledger!Reassert, Ledger!Reasserted, Reasserted,
              Ledger!NoSupporters, NoSupporters, Ledger!NoContests, NoContests
<1>5. ASSUME NEW agent \in Agents, Ledger!Support(k, agent)
      PROVE  /\ Ledger!Live(k)
             /\ claims' = [claims EXCEPT ![k] = Supported(claims[k], agent)]
             /\ nextId' = nextId
  BY <1>5 DEF Ledger!Support, Ledger!Supported, Supported
<1>6. ASSUME NEW agent \in Agents, NEW reason \in Reasons, Ledger!Contest(k, agent, reason)
      PROVE  /\ Ledger!Live(k)
             /\ claims' = [claims EXCEPT ![k] = Contested(claims[k], agent, reason)]
             /\ nextId' = nextId
  BY <1>6 DEF Ledger!Contest, Ledger!Contested, Contested, Ledger!NoContests, NoContests
<1>7. ASSUME NEW accepted \in BOOLEAN, NEW resolver \in Agents,
             Ledger!Resolve(k, accepted, resolver)
      PROVE  /\ Ledger!Live(k)
             /\ claims' = [claims EXCEPT ![k] = Resolved(claims[k], accepted, resolver)]
             /\ nextId' = nextId
  BY <1>7 DEF Ledger!Resolve, Ledger!Resolved, Resolved
<1>8. \A value \in Values, confidence \in Confidences, author \in Agents :
         Sound(NewClaim(nextId, value, confidence, author))
  BY <1>1, NewClaimSound
<1>9. ASSUME Ledger!Live(k)
      PROVE  Sound(claims[k]) /\ claims[k] \in Claim /\ ~IsTerminal(claims[k].status)
  BY <1>1, <1>2, <1>9
<1>10. CASE \E value \in Values, confidence \in Confidences, author \in Agents :
               Ledger!Assert(k, value, confidence, author)
  <2>1. PICK value \in Values, confidence \in Confidences, author \in Agents :
               \/ Ledger!AssertNew(k, value, confidence, author)
               \/ Ledger!Reassert(k, value, confidence, author)
    BY <1>10 DEF Ledger!Assert
  <2>2. CASE Ledger!AssertNew(k, value, confidence, author)
    BY <1>1, <1>3, <1>8, <2>2
  <2>3. CASE Ledger!Reassert(k, value, confidence, author)
    BY <1>1, <1>4, <1>9, <2>3, ReassertedSound, CallsGoForward
  <2> QED
    BY <2>1, <2>2, <2>3
<1>11. CASE \E agent \in Agents : Ledger!Support(k, agent)
  BY <1>1, <1>5, <1>9, <1>11, SupportedSound, CallsGoForward
<1>12. CASE \E agent \in Agents, reason \in Reasons : Ledger!Contest(k, agent, reason)
  BY <1>1, <1>6, <1>9, <1>12, ContestedSound, CallsGoForward
<1>13. CASE \E accepted \in BOOLEAN, resolver \in Agents : Ledger!Resolve(k, accepted, resolver)
  BY <1>1, <1>7, <1>9, <1>13, ResolvedSound, CallsGoForward
<1> QED
  BY <1>10, <1>11, <1>12, <1>13

\* The locked block of a handler: one such call, and a clone of what it left.
LEMMA HandlerCalls ==
    ASSUME IInv, NEW w \in Workers, NEW k \in Key,
           AssertClaim(w, k) \/ SupportClaim(w, k) \/ ContestClaim(w, k) \/ ResolveClaim(w, k)
    PROVE  \E c : Calls(w, k, c)
<1>1. /\ MaySend(w, k)
      /\ \/ \E value \in Values, confidence \in Confidences, author \in Agents :
               Ledger!Assert(k, value, confidence, author)
         \/ \E agent \in Agents : Ledger!Support(k, agent)
         \/ \E agent \in Agents, reason \in Reasons : Ledger!Contest(k, agent, reason)
         \/ \E accepted \in BOOLEAN, resolver \in Agents : Ledger!Resolve(k, accepted, resolver)
      /\ pc' = [pc EXCEPT ![w] = "mirroring"]
      /\ call' = [call EXCEPT ![w] = [key |-> k, claim |-> claims'[k], session |-> session]]
      /\ UNCHANGED <<oneAtATime, mirror, session, faults, writtenIn, answered>>
  BY DEF AssertClaim, SupportClaim, ContestClaim, ResolveClaim, Serve
<1>2. PICK c : /\ Sound(c)
               /\ claims[k] # NoClaim => Later(claims[k], c)
               /\ claims' = [claims EXCEPT ![k] = c]
               /\ nextId' \in Nat \ {0}
  BY <1>1, LedgerCalls
<1>3. claims'[k] = c
  BY Types, <1>2
<1> QED
  BY <1>1, <1>2, <1>3 DEF Calls

\* Every step is of one of these kinds.
LEMMA StepKinds ==
    ASSUME IInv, Next
    PROVE  \/ \E w \in Workers, k \in Key : \E c : Calls(w, k, c)
           \/ \E w \in Workers : Execute(w) \/ GivesUp(w) \/ Abandons(w) \/ Writes(w)
           \/ Crash
           \/ UNCHANGED vars
<1>1. claims \in [Key -> Claim \cup {NoClaim}] /\ faults \in Nat
  BY Types
<1>2. ASSUME NEW w \in Workers, NEW k \in Key,
             AssertClaim(w, k) \/ SupportClaim(w, k) \/ ContestClaim(w, k) \/ ResolveClaim(w, k)
      PROVE  \E c : Calls(w, k, c)
  BY <1>2, HandlerCalls
<1>3. ASSUME NEW w \in Workers, Reject(w) \/ DbError(w) \/ TimeOut(w)
      PROVE  GivesUp(w) \/ Abandons(w)
  <2>1. faults' \in Nat
    BY <1>1, <1>3 DEF Reject, DbError, TimeOut
  <2>2. UNCHANGED <<oneAtATime, ledgerVars, mirror, session, writtenIn, answered>>
    BY <1>3 DEF Reject, DbError, TimeOut
  <2>3. \/ Busy(w) /\ Ends(w)
        \/ pc[w] = "executed" /\ pc' = [pc EXCEPT ![w] = "abandoned"] /\ UNCHANGED call
    BY <1>3 DEF Reject, DbError, TimeOut, Drop, Busy
  <2> QED
    BY <2>1, <2>2, <2>3 DEF GivesUp, Abandons
<1>4. ASSUME NEW w \in Workers, Settle(w)
      PROVE  GivesUp(w) \/ Writes(w)
  BY <1>1, <1>4 DEF Settle, GivesUp, Writes, Busy, Sent
<1>5. ASSUME NEW w \in Workers, Commit(w)
      PROVE  Writes(w)
  <2>1. answered \in [Key -> SUBSET [status : ClaimStatus, value : Values]] /\ call[w].key \in Key
    BY Types
  <2>2. [answered EXCEPT ![call[w].key] = @] = answered
    BY <2>1
  <2> QED
    BY <1>5, <2>2 DEF Commit, Writes, Sent
<1>6. ASSUME NEW w \in Workers, NEW k \in Key, Refuse(w, k)
      PROVE  UNCHANGED vars
  BY <1>6 DEF Refuse
<1> QED
  BY <1>2, <1>3, <1>4, <1>5, <1>6 DEF Next

-----------------------------------------------------------------------------
(* Each kind of step keeps the invariant. *)

Coherent(row) ==
    /\ OneVote(row)
    /\ Attributed(row)
    /\ row.confidence \in ValidConfidences
    /\ row.status = "contested" <=> ~IsTerminal(row.status) /\ HasContest(row)

\* The invariant of the next state, spelt out.
LEMMA NextState ==
    ASSUME
        claims' \in [Key -> Claim \cup {NoClaim}], nextId' \in Nat \ {0},
        oneAtATime' \in BOOLEAN,
        pc' \in [Workers -> {"idle", "mirroring", "executed", "abandoned"}],
        call' \in [Workers -> Call],
        mirror' \in [Key -> Row \cup {NoRow}],
        session' \in Nat, faults' \in Nat,
        writtenIn' \in [Key -> Nat],
        answered' \in [Key -> SUBSET [status : ClaimStatus, value : Values]],
        \A k \in Key : mirror'[k] # NoRow => Coherent(mirror'[k]),
        \A k \in Key : claims'[k] # NoClaim => Sound(claims'[k]),
        \A w \in Workers : pc'[w] # "idle" => Sound(call'[w].claim),
        \A w \in Workers : pc'[w] \in {"executed", "abandoned"} =>
            /\ call'[w].claim.confidence \in ValidConfidences
            /\ writtenIn'[call'[w].key] <= call'[w].session,
        \A w \in Workers : pc'[w] \in {"mirroring", "executed"} => call'[w].session = session',
        \A w \in Workers : call'[w].session <= session',
        \A k \in Key : writtenIn'[k] <= session',
        \A v, w \in Workers :
            /\ pc'[v] \in {"executed", "abandoned"} /\ pc'[w] \in {"executed", "abandoned"}
            /\ call'[v].key = call'[w].key
            => v = w,
        \A w \in Workers :
            pc'[w] # "idle" /\ call'[w].session = session' =>
                /\ claims'[call'[w].key] # NoClaim
                /\ Later(call'[w].claim, claims'[call'[w].key]),
        \A k \in Key :
            mirror'[k] # NoRow /\ writtenIn'[k] = session' =>
                claims'[k] # NoClaim /\ Ahead(mirror'[k], claims'[k]),
        oneAtATime' => \A v, w \in Workers :
            /\ pc'[v] \in {"mirroring", "executed"} /\ pc'[w] \in {"mirroring", "executed"}
            /\ call'[v].key = call'[w].key
            => v = w,
        oneAtATime' => \A w \in Workers :
            /\ pc'[w] # "idle" /\ mirror'[call'[w].key] # NoRow
            /\ writtenIn'[call'[w].key] = call'[w].session
            => Ahead(mirror'[call'[w].key], call'[w].claim),
        oneAtATime' => \A v, w \in Workers :
            /\ pc'[v] = "abandoned" /\ pc'[w] = "mirroring"
            /\ call'[v].key = call'[w].key /\ call'[v].session = call'[w].session
            => Later(call'[v].claim, call'[w].claim),
        oneAtATime' => \A k \in Key : answered'[k] # {} =>
            /\ writtenIn'[k] = session'
            /\ mirror'[k] # NoRow
            /\ IsTerminal(mirror'[k].status)
            /\ \A verdict \in answered'[k] : verdict = Verdict(mirror'[k])
    PROVE  IInv'
<1>1. TypeOK'
  <2>1. Ledger!TypeOK'
    BY DEF Ledger!TypeOK, Ledger!Key, Ledger!Claim, Ledger!ClaimStatus, Key, Claim, ClaimStatus
  <2>2. \A w \in Workers : pc'[w] # "idle" => call'[w].claim \in Claim
    BY DEF Sound
  <2> QED
    BY <2>1, <2>2 DEF TypeOK
<1>2. RowsAreCoherent'
  BY DEF RowsAreCoherent, Coherent, OneVote, Attributed, IsTerminal, HasContest
<1>3. ClaimsAreSound'
  BY DEF ClaimsAreSound, Busy, Sent, Sound, OneVote, Attributed, IsTerminal, HasContest
<1>4. SessionsAreOrdered'
  BY DEF SessionsAreOrdered, Served, Sent
<1>5. RowsAreLocked'
  BY DEF RowsAreLocked, Sent
<1>6. LedgerIsLatest'
  BY DEF LedgerIsLatest, Busy, Later, Ahead, Upserted, IsTerminal, SignalsStand
<1>7. OneByOne'
  BY DEF OneByOne, Busy, Served, Later, Ahead, Upserted, IsTerminal, SignalsStand
<1>8. AnswersAreKept'
  BY DEF AnswersAreKept, IsTerminal, Verdict
<1> QED
  BY <1>1, <1>2, <1>3, <1>4, <1>5, <1>6, <1>7, <1>8 DEF IInv

\* A call changes the ledger and leaves the handler with a copy of the claim.
LEMMA CallsKeep ==
    ASSUME IInv, NEW w \in Workers, NEW k \in Key, NEW c, Calls(w, k, c)
    PROVE  IInv'
<1> USE DEF Busy, Sent, Served
<1>1. /\ pc[w] = "idle"
      /\ oneAtATime => \A v \in Workers : Served(v) => call[v].key # k
  BY DEF Calls, MaySend
<1>2. /\ c \in Claim /\ c # NoClaim
      /\ Later(c, c)
      /\ claims[k] # NoClaim => claims[k] \in Claim /\ Later(claims[k], c)
  BY Types, LaterReflexive, NoClaimAssumption DEF Calls, Sound
<1>3. /\ pc' \in [Workers -> {"idle", "mirroring", "executed", "abandoned"}]
      /\ pc'[w] = "mirroring"
      /\ \A v \in Workers : v # w => pc'[v] = pc[v]
  BY Types DEF Calls
<1>4. /\ call' \in [Workers -> Call]
      /\ call'[w].key = k /\ call'[w].claim = c /\ call'[w].session = session
      /\ \A v \in Workers : v # w => call'[v] = call[v]
  <2>1. [key |-> k, claim |-> c, session |-> session] \in Call
    BY <1>2, Types DEF Call
  <2> QED
    BY <2>1, Types DEF Calls
<1>5. /\ claims' \in [Key -> Claim \cup {NoClaim}] /\ nextId' \in Nat \ {0}
      /\ claims'[k] = c
      /\ \A j \in Key : j # k => claims'[j] = claims[j]
  BY <1>2, Types DEF Calls
<1>6. UNCHANGED <<oneAtATime, mirror, session, faults, writtenIn, answered>> /\ Sound(c)
  BY DEF Calls
<1>7. \A j \in Key : mirror'[j] # NoRow => Coherent(mirror'[j])
  BY <1>6 DEF IInv, RowsAreCoherent, Coherent
<1>8. /\ \A j \in Key : claims'[j] # NoClaim => Sound(claims'[j])
      /\ \A v \in Workers : pc'[v] # "idle" => Sound(call'[v].claim)
  BY <1>3, <1>4, <1>5, <1>6, Types
<1>9. \A v \in Workers : pc'[v] \in {"executed", "abandoned"} =>
          /\ call'[v].claim.confidence \in ValidConfidences
          /\ writtenIn'[call'[v].key] <= call'[v].session
  BY <1>3, <1>4, <1>6 DEF IInv, ClaimsAreSound, SessionsAreOrdered
<1>10. /\ \A v \in Workers : pc'[v] \in {"mirroring", "executed"} => call'[v].session = session'
       /\ \A v \in Workers : call'[v].session <= session'
       /\ \A j \in Key : writtenIn'[j] <= session'
  BY <1>3, <1>4, <1>6, Types DEF IInv, SessionsAreOrdered
<1>11. \A u, v \in Workers :
          /\ pc'[u] \in {"executed", "abandoned"} /\ pc'[v] \in {"executed", "abandoned"}
          /\ call'[u].key = call'[v].key
          => u = v
  BY <1>3, <1>4 DEF IInv, RowsAreLocked
<1>12. ASSUME NEW v \in Workers, pc'[v] # "idle", call'[v].session = session'
       PROVE  /\ claims'[call'[v].key] # NoClaim
              /\ Later(call'[v].claim, claims'[call'[v].key])
  <2>1. CASE v = w
    BY <1>2, <1>4, <1>5, <2>1
  <2>2. CASE v # w
    <3>1. /\ claims[call[v].key] # NoClaim
          /\ Later(call[v].claim, claims[call[v].key])
          /\ call[v].claim \in Claim /\ call[v].key \in Key
      BY <1>3, <1>4, <1>6, <1>12, <2>2, Types DEF IInv, LedgerIsLatest
    <3>2. CASE call[v].key = k
      BY <1>2, <1>4, <1>5, <2>2, <3>1, <3>2, LaterTransitive
    <3>3. CASE call[v].key # k
      BY <1>4, <1>5, <2>2, <3>1, <3>3
    <3> QED
      BY <3>2, <3>3
  <2> QED
    BY <2>1, <2>2
<1>13. ASSUME NEW j \in Key, mirror'[j] # NoRow, writtenIn'[j] = session'
       PROVE  claims'[j] # NoClaim /\ Ahead(mirror'[j], claims'[j])
  <2>1. /\ mirror[j] \in Row /\ mirror'[j] = mirror[j]
        /\ claims[j] # NoClaim /\ Ahead(mirror[j], claims[j])
    BY <1>6, <1>13, Types DEF IInv, LedgerIsLatest
  <2>2. CASE j = k
    BY <1>2, <1>5, <2>1, <2>2, AheadStays
  <2>3. CASE j # k
    BY <1>5, <2>1, <2>3
  <2> QED
    BY <2>2, <2>3
<1>14. ASSUME oneAtATime'
       PROVE  \A u, v \in Workers :
                 /\ pc'[u] \in {"mirroring", "executed"} /\ pc'[v] \in {"mirroring", "executed"}
                 /\ call'[u].key = call'[v].key
                 => u = v
  BY <1>1, <1>3, <1>4, <1>6, <1>14 DEF IInv, OneByOne
<1>15. ASSUME oneAtATime', NEW v \in Workers, pc'[v] # "idle", mirror'[call'[v].key] # NoRow,
              writtenIn'[call'[v].key] = call'[v].session
       PROVE  Ahead(mirror'[call'[v].key], call'[v].claim)
  <2>1. CASE v = w
    BY <1>4, <1>5, <1>6, <1>13, <1>15, <2>1
  <2>2. CASE v # w
    BY <1>3, <1>4, <1>6, <1>15, <2>2 DEF IInv, OneByOne
  <2> QED
    BY <2>1, <2>2
<1>16. ASSUME oneAtATime', NEW u \in Workers, NEW v \in Workers,
              pc'[u] = "abandoned", pc'[v] = "mirroring",
              call'[u].key = call'[v].key, call'[u].session = call'[v].session
       PROVE  Later(call'[u].claim, call'[v].claim)
  <2>1. u # w
    BY <1>3, <1>16
  <2>2. CASE v = w
    BY <1>4, <1>5, <1>6, <1>12, <1>16, <2>1, <2>2
  <2>3. CASE v # w
    BY <1>3, <1>4, <1>6, <1>16, <2>1, <2>3 DEF IInv, OneByOne
  <2> QED
    BY <2>2, <2>3
<1>17. ASSUME oneAtATime', NEW j \in Key, answered'[j] # {}
       PROVE  /\ writtenIn'[j] = session'
              /\ mirror'[j] # NoRow
              /\ IsTerminal(mirror'[j].status)
              /\ \A verdict \in answered'[j] : verdict = Verdict(mirror'[j])
  BY <1>6, <1>17 DEF IInv, AnswersAreKept
<1>18. /\ oneAtATime' \in BOOLEAN /\ mirror' \in [Key -> Row \cup {NoRow}]
       /\ session' \in Nat /\ faults' \in Nat /\ writtenIn' \in [Key -> Nat]
       /\ answered' \in [Key -> SUBSET [status : ClaimStatus, value : Values]]
  BY <1>6, Types
<1> QED
  BY ONLY <1>3, <1>4, <1>5, <1>7, <1>8, <1>9, <1>10, <1>11, <1>12, <1>13, <1>14, <1>15,
          <1>16, <1>17, <1>18, NextState

\* A request that gives up, executes its upsert or is abandoned moves no copy.
LEMMA RequestKeeps ==
    ASSUME IInv, NEW w \in Workers, Execute(w) \/ GivesUp(w) \/ Abandons(w)
    PROVE  IInv'
<1> USE DEF Busy, Sent, Served
<1>1. UNCHANGED <<oneAtATime, claims, nextId, mirror, session, writtenIn, answered>> /\ faults' \in Nat
  BY Types DEF Execute, GivesUp, Abandons, ledgerVars
<1>2. /\ pc' \in [Workers -> {"idle", "mirroring", "executed", "abandoned"}]
      /\ call' \in [Workers -> Call]
      /\ \A v \in Workers : v # w => pc'[v] = pc[v] /\ call'[v] = call[v]
  <2>1. NoCall \in Call
    BY ServiceAssumption DEF NoCall, Call
  <2> QED
    BY <2>1, Types DEF Execute, GivesUp, Abandons, Ends
<1>3. \/ pc'[w] = "idle" /\ call'[w].session = 0
      \/ /\ pc[w] = "mirroring" /\ pc'[w] = "executed" /\ call'[w] = call[w]
         /\ call[w].claim.confidence \in ValidConfidences
         /\ ~Locked(call[w].key)
      \/ pc[w] = "executed" /\ pc'[w] = "abandoned" /\ call'[w] = call[w]
  BY Types DEF Execute, GivesUp, Abandons, Ends, NoCall
<1>4. \A v \in Workers : Busy(v)' => Busy(v) /\ call'[v] = call[v]
  BY <1>2, <1>3
<1>5. /\ \A j \in Key : mirror'[j] # NoRow => Coherent(mirror'[j])
      /\ \A j \in Key : claims'[j] # NoClaim => Sound(claims'[j])
      /\ \A v \in Workers : pc'[v] # "idle" => Sound(call'[v].claim)
  BY <1>1, <1>4, Types DEF IInv, RowsAreCoherent, Coherent
<1>6. ASSUME NEW v \in Workers, pc'[v] \in {"executed", "abandoned"}
      PROVE  /\ call'[v].claim.confidence \in ValidConfidences
             /\ writtenIn'[call'[v].key] <= call'[v].session
  <2>1. call'[v] = call[v]
    BY <1>4, <1>6
  <2>2. CASE pc[v] \in {"executed", "abandoned"}
    BY <1>1, <2>1, <2>2 DEF IInv, ClaimsAreSound, SessionsAreOrdered
  <2>3. CASE pc[v] \notin {"executed", "abandoned"}
    <3>1. v = w /\ pc[w] = "mirroring" /\ call[w].claim.confidence \in ValidConfidences
      BY <1>2, <1>3, <1>6, <2>3
    <3>2. writtenIn[call[w].key] <= session /\ call[w].session = session
      BY <3>1, Types DEF IInv, SessionsAreOrdered
    <3> QED
      BY <1>1, <2>1, <3>1, <3>2
  <2> QED
    BY <2>2, <2>3
<1>7. /\ \A v \in Workers : pc'[v] \in {"mirroring", "executed"} => call'[v].session = session'
      /\ \A v \in Workers : call'[v].session <= session'
      /\ \A j \in Key : writtenIn'[j] <= session'
  BY <1>1, <1>2, <1>3, Types DEF IInv, SessionsAreOrdered
<1>8. \A u, v \in Workers :
         /\ pc'[u] \in {"executed", "abandoned"} /\ pc'[v] \in {"executed", "abandoned"}
         /\ call'[u].key = call'[v].key
         => u = v
  BY <1>2, <1>3 DEF IInv, RowsAreLocked, Locked
<1>9. \A v \in Workers :
         pc'[v] # "idle" /\ call'[v].session = session' =>
             /\ claims'[call'[v].key] # NoClaim
             /\ Later(call'[v].claim, claims'[call'[v].key])
  BY <1>1, <1>4 DEF IInv, LedgerIsLatest
<1>10. \A j \in Key :
          mirror'[j] # NoRow /\ writtenIn'[j] = session' =>
              claims'[j] # NoClaim /\ Ahead(mirror'[j], claims'[j])
  BY <1>1 DEF IInv, LedgerIsLatest
<1>11. oneAtATime' => \A u, v \in Workers :
          /\ pc'[u] \in {"mirroring", "executed"} /\ pc'[v] \in {"mirroring", "executed"}
          /\ call'[u].key = call'[v].key
          => u = v
  BY <1>1, <1>2, <1>3 DEF IInv, OneByOne
<1>12. oneAtATime' => \A v \in Workers :
          /\ pc'[v] # "idle" /\ mirror'[call'[v].key] # NoRow
          /\ writtenIn'[call'[v].key] = call'[v].session
          => Ahead(mirror'[call'[v].key], call'[v].claim)
  BY <1>1, <1>4 DEF IInv, OneByOne
<1>13. ASSUME oneAtATime', NEW u \in Workers, NEW v \in Workers,
              pc'[u] = "abandoned", pc'[v] = "mirroring",
              call'[u].key = call'[v].key, call'[u].session = call'[v].session
       PROVE  Later(call'[u].claim, call'[v].claim)
  <2>1. pc[v] = "mirroring" /\ call'[v] = call[v] /\ call'[u] = call[u]
    BY <1>2, <1>3, <1>4, <1>13
  <2>2. pc[u] # "executed"
    BY <1>1, <1>13, <2>1 DEF IInv, OneByOne
  <2>3. pc[u] = "abandoned"
    BY <1>2, <1>3, <1>13, <2>2
  <2> QED
    BY <1>1, <1>13, <2>1, <2>3 DEF IInv, OneByOne
<1>14. oneAtATime' => \A j \in Key : answered'[j] # {} =>
          /\ writtenIn'[j] = session'
          /\ mirror'[j] # NoRow
          /\ IsTerminal(mirror'[j].status)
          /\ \A verdict \in answered'[j] : verdict = Verdict(mirror'[j])
  BY <1>1 DEF IInv, AnswersAreKept
<1>15. /\ claims' \in [Key -> Claim \cup {NoClaim}] /\ nextId' \in Nat \ {0}
       /\ oneAtATime' \in BOOLEAN /\ mirror' \in [Key -> Row \cup {NoRow}]
       /\ session' \in Nat /\ writtenIn' \in [Key -> Nat]
       /\ answered' \in [Key -> SUBSET [status : ClaimStatus, value : Values]]
  BY <1>1, Types
<1> QED
  BY ONLY <1>1, <1>2, <1>5, <1>6, <1>7, <1>8, <1>9, <1>10, <1>11, <1>12, <1>13, <1>14,
          <1>15, NextState

\* A crash leaves nothing of its session but the transactions that were sent.
LEMMA CrashKeeps ==
    ASSUME IInv, Crash
    PROVE  IInv'
<1> USE DEF Busy, Sent, Served
<1>1. /\ UNCHANGED <<oneAtATime, nextId, mirror, faults, writtenIn>>
      /\ session' = session + 1
      /\ \A j \in Key : claims'[j] = NoClaim /\ answered'[j] = {}
      /\ claims' \in [Key -> Claim \cup {NoClaim}]
      /\ answered' \in [Key -> SUBSET [status : ClaimStatus, value : Values]]
  BY DEF Crash
<1>2. /\ pc' \in [Workers -> {"idle", "mirroring", "executed", "abandoned"}]
      /\ \A v \in Workers :
            \/ pc'[v] = "idle" /\ call'[v].session = 0
            \/ pc'[v] = "abandoned" /\ Sent(v) /\ call'[v] = call[v]
  BY Types DEF Crash, NoCall
<1>3. call' \in [Workers -> Call]
  <2>1. NoCall \in Call
    BY ServiceAssumption DEF NoCall, Call
  <2> QED
    BY <2>1, Types DEF Crash
<1>4. /\ session \in Nat
      /\ \A v \in Workers : call[v].session \in Nat /\ call[v].session <= session
      /\ \A j \in Key : writtenIn[j] \in Nat /\ writtenIn[j] <= session
      /\ \A v \in Workers : call'[v].session \in Nat /\ call'[v].session <= session
  BY <1>2, Types DEF IInv, SessionsAreOrdered
<1>5. /\ \A j \in Key : mirror'[j] # NoRow => Coherent(mirror'[j])
      /\ \A v \in Workers : pc'[v] # "idle" => Sound(call'[v].claim)
  BY <1>1, <1>2, Types DEF IInv, RowsAreCoherent, Coherent
<1>6. \A v \in Workers : pc'[v] \in {"executed", "abandoned"} =>
         /\ call'[v].claim.confidence \in ValidConfidences
         /\ writtenIn'[call'[v].key] <= call'[v].session
  BY <1>1, <1>2 DEF IInv, ClaimsAreSound, SessionsAreOrdered
<1>7. \A u, v \in Workers :
         /\ pc'[u] \in {"executed", "abandoned"} /\ pc'[v] \in {"executed", "abandoned"}
         /\ call'[u].key = call'[v].key
         => u = v
  BY <1>2 DEF IInv, RowsAreLocked
<1>8. /\ \A v \in Workers : pc'[v] \notin {"mirroring", "executed"}
      /\ \A v \in Workers : call'[v].session <= session' /\ call'[v].session # session'
      /\ \A j \in Key : writtenIn'[j] <= session' /\ writtenIn'[j] # session'
  BY <1>1, <1>2, <1>4
<1>9. oneAtATime' => \A v \in Workers :
         /\ pc'[v] # "idle" /\ mirror'[call'[v].key] # NoRow
         /\ writtenIn'[call'[v].key] = call'[v].session
         => Ahead(mirror'[call'[v].key], call'[v].claim)
  BY <1>1, <1>2 DEF IInv, OneByOne
<1>10. /\ nextId' \in Nat \ {0} /\ oneAtATime' \in BOOLEAN
       /\ mirror' \in [Key -> Row \cup {NoRow}]
       /\ session' \in Nat /\ faults' \in Nat /\ writtenIn' \in [Key -> Nat]
  BY <1>1, Types
<1> QED
  BY ONLY <1>1, <1>2, <1>3, <1>5, <1>6, <1>7, <1>8, <1>9, <1>10, NextState

\* What a write finds and leaves.
LEMMA WriteEffect ==
    ASSUME IInv, NEW w \in Workers, Writes(w)
    PROVE  LET k == call[w].key
               c == call[w].claim
           IN  /\ k \in Key
               /\ c \in Claim /\ Sound(c) /\ c.confidence \in ValidConfidences
               /\ mirror' \in [Key -> Row \cup {NoRow}]
               /\ mirror'[k] = Upserted(mirror[k], c)
               /\ mirror'[k] \in Row /\ mirror'[k] # NoRow
               /\ writtenIn' \in [Key -> Nat]
               /\ writtenIn'[k] = call[w].session
               /\ writtenIn[k] <= call[w].session
               /\ \A j \in Key : j # k => mirror'[j] = mirror[j] /\ writtenIn'[j] = writtenIn[j]
<1> DEFINE k == call[w].key
           c == call[w].claim
<1>1. /\ k \in Key /\ call[w].session \in Nat
      /\ c \in Claim /\ Sound(c)
  BY Types DEF Writes, Sent, Busy
<1>2. c.confidence \in ValidConfidences /\ writtenIn[k] <= call[w].session
  BY DEF IInv, ClaimsAreSound, SessionsAreOrdered, Writes
<1>3. /\ mirror' = [mirror EXCEPT ![k] = Upserted(mirror[k], c)]
      /\ writtenIn' = [writtenIn EXCEPT ![k] = call[w].session]
  BY DEF Writes, Write
<1>4. Upserted(mirror[k], c) \in Row /\ Upserted(mirror[k], c) # NoRow
  BY <1>1, Types, UpsertedColumns
<1> HIDE DEF k, c
<1>5. QED
  BY <1>1, <1>2, <1>3, <1>4, Types DEF k, c

\* With waiting clients, the write is ahead of a row of its own session.
LEMMA WriteGoesForward ==
    ASSUME IInv, NEW w \in Workers, Writes(w), oneAtATime,
           mirror[call[w].key] # NoRow, writtenIn[call[w].key] = call[w].session
    PROVE  Ahead(mirror[call[w].key], call[w].claim)
  BY DEF IInv, OneByOne, Writes, Busy, Sent

\* A commit writes its copy over the row, an abandoned one's included.
LEMMA WritesKeep ==
    ASSUME IInv, NEW w \in Workers, Writes(w)
    PROVE  IInv'
<1> USE DEF Busy, Sent, Served
<1> DEFINE k == call[w].key
           c == call[w].claim
           s == call[w].session
<1>1. UNCHANGED <<oneAtATime, claims, nextId, session, faults>> /\ pc[w] \in {"executed", "abandoned"}
  BY DEF Writes, ledgerVars
<1>2. /\ pc' \in [Workers -> {"idle", "mirroring", "executed", "abandoned"}]
      /\ call' \in [Workers -> Call]
      /\ pc'[w] = "idle" /\ call'[w].session = 0
      /\ \A v \in Workers : v # w => pc'[v] = pc[v] /\ call'[v] = call[v]
  <2>1. NoCall \in Call /\ NoCall.session = 0
    BY ServiceAssumption DEF NoCall, Call
  <2> QED
    BY <2>1, Types DEF Writes, Ends
<1>3. /\ k \in Key
      /\ c \in Claim /\ Sound(c) /\ c.confidence \in ValidConfidences
      /\ mirror' \in [Key -> Row \cup {NoRow}]
      /\ mirror'[k] = Upserted(mirror[k], c)
      /\ mirror'[k] \in Row /\ mirror'[k] # NoRow
      /\ writtenIn' \in [Key -> Nat]
      /\ writtenIn'[k] = s
      /\ writtenIn[k] <= s
      /\ \A j \in Key : j # k => mirror'[j] = mirror[j] /\ writtenIn'[j] = writtenIn[j]
  BY WriteEffect
<1>4. s \in Nat /\ session \in Nat /\ s <= session /\ writtenIn[k] \in Nat
  BY <1>3, Types DEF IInv, SessionsAreOrdered
\* Nobody else holds the row.
<1>5. \A v \in Workers : v # w /\ pc[v] \in {"executed", "abandoned"} => call[v].key # k
  BY <1>1 DEF IInv, RowsAreLocked
<1>6. ASSUME NEW j \in Key, mirror'[j] # NoRow
      PROVE  Coherent(mirror'[j])
  <2>1. CASE j = k
    BY <1>3, <2>1, Types, UpsertedCoherent DEF Coherent
  <2>2. CASE j # k
    BY <1>3, <1>6, <2>2 DEF IInv, RowsAreCoherent, Coherent
  <2> QED
    BY <2>1, <2>2
<1>7. /\ \A j \in Key : claims'[j] # NoClaim => Sound(claims'[j])
      /\ \A v \in Workers : pc'[v] # "idle" => Sound(call'[v].claim)
  BY <1>1, <1>2, Types
<1>8. ASSUME NEW v \in Workers, pc'[v] \in {"executed", "abandoned"}
      PROVE  /\ call'[v].claim.confidence \in ValidConfidences
             /\ writtenIn'[call'[v].key] <= call'[v].session
  <2>1. v # w /\ pc[v] \in {"executed", "abandoned"} /\ call'[v] = call[v]
    BY <1>2, <1>8
  <2>2. writtenIn'[call[v].key] = writtenIn[call[v].key]
    BY <1>3, <1>5, <2>1, Types
  <2> QED
    BY <2>1, <2>2 DEF IInv, ClaimsAreSound, SessionsAreOrdered
<1>9. /\ \A v \in Workers : pc'[v] \in {"mirroring", "executed"} => call'[v].session = session'
      /\ \A v \in Workers : call'[v].session <= session'
      /\ \A j \in Key : writtenIn'[j] <= session'
  BY <1>1, <1>2, <1>3, <1>4 DEF IInv, SessionsAreOrdered
<1>10. \A u, v \in Workers :
          /\ pc'[u] \in {"executed", "abandoned"} /\ pc'[v] \in {"executed", "abandoned"}
          /\ call'[u].key = call'[v].key
          => u = v
  BY <1>2 DEF IInv, RowsAreLocked
<1>11. \A v \in Workers :
          pc'[v] # "idle" /\ call'[v].session = session' =>
              /\ claims'[call'[v].key] # NoClaim
              /\ Later(call'[v].claim, claims'[call'[v].key])
  BY <1>1, <1>2 DEF IInv, LedgerIsLatest
<1>12. ASSUME NEW j \in Key, mirror'[j] # NoRow, writtenIn'[j] = session'
       PROVE  claims'[j] # NoClaim /\ Ahead(mirror'[j], claims'[j])
  <2>1. CASE j = k
    <3>1. claims[k] # NoClaim /\ Later(c, claims[k])
      BY <1>1, <1>3, <1>12, <2>1 DEF IInv, LedgerIsLatest
    <3>2. Ahead(Upserted(mirror[k], c), claims[k])
      BY <1>3, <3>1, Types, UpsertedBehind
    <3> QED
      BY <1>1, <1>3, <2>1, <3>1, <3>2
  <2>2. CASE j # k
    BY <1>1, <1>3, <1>12, <2>2 DEF IInv, LedgerIsLatest
  <2> QED
    BY <2>1, <2>2
<1>13. oneAtATime' => \A u, v \in Workers :
          /\ pc'[u] \in {"mirroring", "executed"} /\ pc'[v] \in {"mirroring", "executed"}
          /\ call'[u].key = call'[v].key
          => u = v
  BY <1>1, <1>2 DEF IInv, OneByOne
<1>14. ASSUME oneAtATime', NEW v \in Workers, pc'[v] # "idle", mirror'[call'[v].key] # NoRow,
              writtenIn'[call'[v].key] = call'[v].session
       PROVE  Ahead(mirror'[call'[v].key], call'[v].claim)
  <2>1. /\ v # w /\ call'[v] = call[v] /\ pc'[v] = pc[v]
        /\ call[v].claim \in Claim /\ call[v].key \in Key
    BY <1>2, <1>14, Types
  <2>2. CASE call[v].key = k
    <3>1. pc[v] = "mirroring"
      BY <1>2, <1>5, <1>14, <2>1, <2>2
    <3>2. pc[w] = "abandoned"
      BY <1>1, <2>1, <2>2, <3>1, <1>14 DEF IInv, OneByOne
    <3>3. Later(c, call[v].claim)
      BY <1>1, <1>3, <1>14, <2>1, <2>2, <3>1, <3>2 DEF IInv, OneByOne
    <3>4. Ahead(Upserted(mirror[k], c), call[v].claim)
      BY <1>3, <2>1, <3>3, Types, UpsertedBehind
    <3> QED
      BY <1>3, <2>1, <2>2, <3>4
  <2>3. CASE call[v].key # k
    BY <1>1, <1>3, <1>14, <2>1, <2>3 DEF IInv, OneByOne
  <2> QED
    BY <2>2, <2>3
<1>15. oneAtATime' => \A u, v \in Workers :
          /\ pc'[u] = "abandoned" /\ pc'[v] = "mirroring"
          /\ call'[u].key = call'[v].key /\ call'[u].session = call'[v].session
          => Later(call'[u].claim, call'[v].claim)
  BY <1>1, <1>2 DEF IInv, OneByOne
<1>16. /\ answered' \in [Key -> SUBSET [status : ClaimStatus, value : Values]]
       /\ \A j \in Key : j # k => answered'[j] = answered[j]
       /\ \/ answered'[k] = answered[k]
          \/ /\ pc[w] = "executed" /\ IsTerminal(c.status)
             /\ answered'[k] = answered[k] \cup {Verdict(c)}
  <2>1. Verdict(c) \in [status : ClaimStatus, value : Values]
    BY <1>3 DEF Verdict, Claim
  <2> HIDE DEF k, c
  <2> QED
    BY <1>3, <2>1, Types DEF Writes, k, c
<1>17. ASSUME oneAtATime', NEW j \in Key, answered'[j] # {}
       PROVE  /\ writtenIn'[j] = session'
              /\ mirror'[j] # NoRow
              /\ IsTerminal(mirror'[j].status)
              /\ \A verdict \in answered'[j] : verdict = Verdict(mirror'[j])
  <2>1. CASE j # k
    BY <1>1, <1>3, <1>16, <1>17, <2>1 DEF IInv, AnswersAreKept
  <2>2. CASE j = k /\ answered[k] # {}
    <3>1. /\ writtenIn[k] = session
          /\ mirror[k] # NoRow
          /\ IsTerminal(mirror[k].status)
          /\ \A verdict \in answered[k] : verdict = Verdict(mirror[k])
      BY <1>1, <1>3, <1>17, <2>2 DEF IInv, AnswersAreKept
    <3>2. s = session
      BY <1>3, <1>4, <3>1
    <3>3. Ahead(mirror[k], c)
      BY <1>1, <1>17, <3>1, <3>2, WriteGoesForward
    <3>4. /\ mirror'[k] = mirror[k]
          /\ c.status = mirror[k].status /\ c.value = mirror[k].value
      BY <1>3, <3>1, <3>3, Types, AheadUpserts
    <3>5. Verdict(c) = Verdict(mirror[k])
      BY <3>4 DEF Verdict
    <3> QED
      BY <1>1, <1>3, <1>16, <2>2, <3>1, <3>2, <3>4, <3>5
  <2>3. CASE j = k /\ answered[k] = {}
    <3>1. pc[w] = "executed" /\ IsTerminal(c.status) /\ answered'[k] = {Verdict(c)}
      BY <1>16, <1>17, <2>3
    <3>2. s = session
      BY <3>1 DEF IInv, SessionsAreOrdered
    <3>3. mirror'[k].status = c.status /\ mirror'[k].value = c.value
      BY <1>3, Types, UpsertedColumns
    <3>4. Verdict(mirror'[k]) = Verdict(c)
      BY <3>3 DEF Verdict
    <3> QED
      BY <1>1, <1>3, <2>3, <3>1, <3>2, <3>3, <3>4
  <2> QED
    BY <2>1, <2>2, <2>3
<1>18. /\ claims' \in [Key -> Claim \cup {NoClaim}] /\ nextId' \in Nat \ {0}
       /\ oneAtATime' \in BOOLEAN /\ session' \in Nat /\ faults' \in Nat
  BY <1>1, Types
<1> QED
  BY ONLY <1>2, <1>3, <1>6, <1>7, <1>8, <1>9, <1>10, <1>11, <1>12, <1>13, <1>14, <1>15,
          <1>16, <1>17, <1>18, NextState

\* The invariant holds at the start and no step breaks it.
LEMMA Inductive ==
    /\ Init => IInv
    /\ IInv /\ [Next]_vars => IInv'
<1>1. ASSUME Init
      PROVE  IInv
  <2>1. /\ claims = [k \in Key |-> NoClaim] /\ nextId = 1
        /\ oneAtATime \in BOOLEAN
        /\ pc = [w \in Workers |-> "idle"]
        /\ call = [w \in Workers |-> NoCall]
        /\ mirror = [k \in Key |-> NoRow]
        /\ session = 0 /\ faults = 0
        /\ writtenIn = [k \in Key |-> 0]
        /\ answered = [k \in Key |-> {}]
    BY <1>1, ServiceAssumption DEF Init, Ledger!Init, Ledger!Key, Key
  <2>2. NoCall \in Call /\ NoCall.session = 0
    BY ServiceAssumption DEF NoCall, Call
  <2>3. TypeOK
    BY <2>1, <2>2, LedgerTypes DEF TypeOK
  <2> QED
    BY <2>1, <2>2, <2>3
       DEF IInv, RowsAreCoherent, ClaimsAreSound, SessionsAreOrdered, RowsAreLocked,
           LedgerIsLatest, OneByOne, AnswersAreKept, Busy, Sent, Served
<1>2. ASSUME IInv, UNCHANGED vars
      PROVE  IInv'
  <2>1. UNCHANGED <<claims, nextId, oneAtATime, pc, call, mirror, session, faults, writtenIn, answered>>
    BY <1>2 DEF vars
  <2>2. \A k \in Key : mirror'[k] # NoRow => Coherent(mirror'[k])
    BY <1>2, <2>1 DEF IInv, RowsAreCoherent, Coherent
  <2>3. \A w \in Workers : pc'[w] \in {"executed", "abandoned"} =>
            /\ call'[w].claim.confidence \in ValidConfidences
            /\ writtenIn'[call'[w].key] <= call'[w].session
    BY <1>2, <2>1 DEF IInv, ClaimsAreSound, SessionsAreOrdered, Sent
  <2> QED
    BY <1>2, <2>1, <2>2, <2>3, Types, NextState
       DEF IInv, SessionsAreOrdered, RowsAreLocked, LedgerIsLatest, OneByOne, AnswersAreKept,
           Busy, Sent, Served
<1>3. IInv /\ Next => IInv'
  BY <1>2, StepKinds, CallsKeep, RequestKeeps, WritesKeep, CrashKeeps
<1> QED
  BY <1>1, <1>2, <1>3

\* The inductive invariant: whatever overlaps, fails or crashes, every copy of a
\* claim is sound and in its place between the row and the ledger.
THEOREM Invariant == Spec => []IInv
<1> QED
  BY Inductive, PTL DEF Spec

-----------------------------------------------------------------------------
(* The properties of LedgerService. *)

\* The service, its requests and its table are well-typed: a row never takes an
\* author that is no uuid, whatever upserts follow one another.
THEOREM ServiceTyped == Spec => []TypeOK
<1>1. IInv => TypeOK
  BY DEF IInv
<1> QED
  BY <1>1, Invariant, PTL

\* Every row reads as one claim at one moment.
THEOREM CoherentRows == Spec => []RowsAreCoherent
<1>1. IInv => RowsAreCoherent
  BY DEF IInv
<1> QED
  BY <1>1, Invariant, PTL

\* The rows of this session are behind the ledger, and make nothing up.
THEOREM NothingIsMadeUp == Spec => []MirrorMakesNothingUp
<1>1. ASSUME IInv, NEW k \in Key, mirror[k] # NoRow, writtenIn[k] = session
      PROVE  /\ claims[k] # NoClaim
             /\ mirror[k].version <= claims[k].version
             /\ mirror[k].version = claims[k].version => SignalsStand(mirror[k], claims[k])
             /\ IsTerminal(mirror[k].status) => Mirrored(k)
             /\ DurableConsensus(k) \subseteq Ledger!Consensus(k)
  <2> DEFINE row == mirror[k]
             c == claims[k]
  <2>1. /\ row \in Row /\ c \in Claim /\ c # NoClaim
        /\ row.version \in Nat /\ c.version \in Nat
    BY <1>1, Types DEF IInv, LedgerIsLatest, Row, Claim
  <2>2. Ahead(row, c)
    BY <1>1 DEF IInv, LedgerIsLatest
  <2>3. row.version <= c.version /\ (row.version = c.version => SignalsStand(row, c))
    BY <2>1, <2>2 DEF Ahead
  <2>4. ASSUME IsTerminal(row.status)
        PROVE  /\ Mirrored(k)
               /\ row.status = c.status /\ row.value = c.value
    <3>1. Upserted(row, c) = row
      BY <2>2, <2>4 DEF Ahead
    <3>2. /\ row.value = c.value /\ row.confidence = c.confidence /\ row.status = c.status
          /\ row.supporters = c.supporters /\ row.contests = c.contests
          /\ row.resolvedBy = c.resolvedBy /\ row.supersededBy = c.supersededBy
          /\ row.version = c.version
      BY <2>1, <3>1, UpsertedColumns
    <3>3. DOMAIN c \ {"id", "author"} \subseteq
             {"value", "confidence", "status", "supporters", "contests",
              "resolvedBy", "supersededBy", "version"}
      BY <2>1 DEF Claim
    <3> QED
      BY <1>1, <3>2, <3>3 DEF Mirrored
  <2>5. ASSUME NEW value \in DurableConsensus(k)
        PROVE  value \in Ledger!Consensus(k)
    <3>1. value \in Values /\ row.status = "accepted" /\ row.value = value
      BY <2>5 DEF DurableConsensus
    <3>2. c.status = "accepted" /\ c.value = value
      BY <2>4, <3>1 DEF IsTerminal
    <3> QED
      BY <2>1, <3>1, <3>2 DEF Ledger!Consensus, Ledger!Present, Ledger!IsAuthoritative
  <2> QED
    BY <2>1, <2>3, <2>4, <2>5
<1>2. IInv => MirrorMakesNothingUp
  BY <1>1 DEF MirrorMakesNothingUp
<1> QED
  BY <1>2, Invariant, PTL

\* Clients that wait find every verdict they were answered in the table.
THEOREM AnswersAreDurable == Spec => []AnsweredVerdictsAreDurable
<1>1. IInv => AnsweredVerdictsAreDurable
  BY DEF IInv, AnswersAreKept, AnsweredVerdictsAreDurable
<1> QED
  BY <1>1, Invariant, PTL

\* What a step does to the row under one key.
LEMMA RowStep ==
    ASSUME IInv, [Next]_vars, NEW k \in Key
    PROVE  \/ mirror'[k] = mirror[k] /\ writtenIn'[k] = writtenIn[k]
           \/ \E w \in Workers : Writes(w) /\ call[w].key = k
<1>1. CASE UNCHANGED <<mirror, writtenIn>>
  BY <1>1
<1>2. ASSUME NEW w \in Workers, Writes(w), call[w].key # k
      PROVE  mirror'[k] = mirror[k] /\ writtenIn'[k] = writtenIn[k]
  BY <1>2, WriteEffect
<1> QED
  BY <1>1, <1>2, StepKinds DEF vars, Calls, Execute, GivesUp, Abandons, Crash

\* No session overwrites what a later one wrote.
THEOREM SessionsInOrder == Spec => SessionsWriteInOrder
<1>1. IInv /\ [Next]_vars => [\A k \in Key : writtenIn'[k] >= writtenIn[k]]_vars
  <2> SUFFICES ASSUME IInv, [Next]_vars, NEW k \in Key
               PROVE  writtenIn'[k] >= writtenIn[k]
    OBVIOUS
  <2>1. CASE writtenIn'[k] = writtenIn[k]
    BY <2>1, Types
  <2>2. ASSUME NEW w \in Workers, Writes(w), call[w].key = k
        PROVE  writtenIn'[k] >= writtenIn[k]
    BY <2>2, WriteEffect, Types
  <2> QED
    BY <2>1, <2>2, RowStep
<1> QED
  BY <1>1, Invariant, PTL DEF SessionsWriteInOrder, Spec

\* For clients that wait, the rows of one session only move forward.
THEOREM RowsGoForward == Spec => MirrorNeverRegresses
<1>1. IInv /\ [Next]_vars => [ForwardOnly]_vars
  <2> SUFFICES ASSUME IInv, [Next]_vars, NEW k \in Key,
                      oneAtATime, mirror[k] # NoRow, writtenIn'[k] = writtenIn[k]
               PROVE  /\ mirror'[k].version >= mirror[k].version
                      /\ IsTerminal(mirror[k].status) => mirror'[k] = mirror[k]
    BY DEF ForwardOnly
  <2>1. mirror[k] \in Row /\ mirror[k].version \in Nat
    BY Types DEF Row
  <2>2. CASE mirror'[k] = mirror[k]
    BY <2>1, <2>2
  <2>3. ASSUME NEW w \in Workers, Writes(w), call[w].key = k
        PROVE  /\ mirror'[k].version >= mirror[k].version
               /\ IsTerminal(mirror[k].status) => mirror'[k] = mirror[k]
    <3>1. /\ mirror'[k] = Upserted(mirror[k], call[w].claim)
          /\ writtenIn[k] = call[w].session
          /\ call[w].claim \in Claim
      BY <2>3, WriteEffect
    <3>2. Ahead(mirror[k], call[w].claim)
      BY <2>3, <3>1, WriteGoesForward
    <3> QED
      BY <2>1, <3>1, <3>2, AheadUpserts
  <2> QED
    BY <2>2, <2>3, RowStep
<1> QED
  BY <1>1, Invariant, PTL DEF MirrorNeverRegresses, Spec

-----------------------------------------------------------------------------
(* A service where nothing fails and clients wait for their answers. *)

NothingFails ==
    /\ Habits \subseteq {TRUE}
    /\ ~TimeoutsHappen
    /\ MaxCrashes = 0
    /\ MaxFaults = 0
    /\ Confidences \subseteq ValidConfidences

\* Then a request is refused, calls the ledger, executes or commits.
LEMMA QuietSteps ==
    ASSUME NothingFails, IInv, Quiet, Next
    PROVE  \/ \E w \in Workers, k \in Key : \E c : Calls(w, k, c)
           \/ \E w \in Workers : Execute(w) \/ Writes(w)
           \/ UNCHANGED vars
<1>1. ~Crash
  BY Types DEF Crash, NothingFails
<1>2. \A w \in Workers : ~DbError(w) /\ ~TimeOut(w) /\ ~Settle(w)
  <2>1. \A w \in Workers : ~DbError(w)
    BY Types DEF DbError, NothingFails
  <2>2. \A w \in Workers : ~TimeOut(w)
    BY Zenon DEF TimeOut, NothingFails
  <2>3. \A w \in Workers : ~Settle(w)
    BY DEF Settle, Quiet
  <2> QED
    BY <2>1, <2>2, <2>3
<1>3. ASSUME NEW w \in Workers, Reject(w)
      PROVE  FALSE
  <2>1. call[w].claim \in Claim /\ call[w].claim.confidence \notin ValidConfidences
    BY <1>3, Types DEF Reject, Busy
  <2> QED
    BY <2>1 DEF Claim, NothingFails
<1>4. ASSUME NEW w \in Workers, Execute(w) \/ Commit(w)
      PROVE  Execute(w) \/ Writes(w)
  <2>1. [answered EXCEPT ![call[w].key] = @] = answered
    BY Types
  <2> QED
    BY <1>4, <2>1 DEF Commit, Writes, Sent
<1>5. ASSUME NEW w \in Workers, NEW k \in Key,
             \/ AssertClaim(w, k) \/ SupportClaim(w, k) \/ ContestClaim(w, k)
             \/ ResolveClaim(w, k) \/ Refuse(w, k)
      PROVE  UNCHANGED vars \/ \E c : Calls(w, k, c)
  BY <1>5, HandlerCalls DEF Refuse
<1> QED
  BY <1>1, <1>2, <1>3, <1>4, <1>5 DEF Next

\* What makes the table agree with the ledger is kept by every step.
LEMMA QuietInductive ==
    ASSUME NothingFails
    PROVE  /\ Init => Quiet
           /\ IInv /\ Quiet /\ [Next]_vars => Quiet'
<1> USE DEF Busy, Served, Sent
<1>1. ASSUME Init
      PROVE  Quiet
  <2>1. /\ claims = [k \in Key |-> NoClaim]
        /\ oneAtATime
        /\ pc = [w \in Workers |-> "idle"]
    BY <1>1 DEF Init, Ledger!Init, Ledger!Key, Key, NothingFails
  <2> QED
    BY <2>1 DEF Quiet
<1>2. ASSUME IInv, Quiet, NEW w \in Workers, NEW k \in Key, NEW c, Calls(w, k, c)
      PROVE  Quiet'
  <2>1. /\ oneAtATime' /\ mirror' = mirror
        /\ \A v \in Workers : pc[v] # "abandoned"
    BY <1>2 DEF Quiet, Calls
  <2>2. /\ pc[w] = "idle" /\ pc'[w] = "mirroring"
        /\ \A v \in Workers : v # w => pc'[v] = pc[v]
        /\ call'[w].key = k /\ call'[w].claim = c
        /\ \A v \in Workers : v # w => call'[v] = call[v]
        /\ claims'[k] = c
        /\ \A j \in Key : j # k => claims'[j] = claims[j]
    BY <1>2, Types DEF Calls, MaySend
  <2>3. \A v \in Workers : Busy(v) => call[v].key # k
    BY <1>2, <2>1, Types DEF Calls, MaySend, Quiet
  <2>4. \A v \in Workers : pc'[v] # "abandoned"
    BY <2>1, <2>2
  <2>5. \A v \in Workers : pc'[v] # "idle" => call'[v].claim = claims'[call'[v].key]
    BY <1>2, <2>2, <2>3, Types DEF Quiet
  <2>6. ASSUME NEW j \in Key, claims'[j] # NoClaim
        PROVE  Mirrored(j)' \/ \E v \in Workers : pc'[v] # "idle" /\ call'[v].key = j
    <3>1. CASE j = k
      BY <2>2, <3>1
    <3>2. CASE j # k /\ Mirrored(j)
      BY <2>1, <2>2, <3>2 DEF Mirrored
    <3>3. CASE \E v \in Workers : Busy(v) /\ call[v].key = j
      BY <2>2, <3>3
    <3> QED
      BY <1>2, <2>2, <2>6, <3>1, <3>2, <3>3 DEF Quiet
  <2> QED
    BY <2>1, <2>4, <2>5, <2>6 DEF Quiet
<1>3. ASSUME IInv, Quiet, NEW w \in Workers, Execute(w)
      PROVE  Quiet'
  <2>1. /\ UNCHANGED <<oneAtATime, claims, call, mirror>>
        /\ pc[w] = "mirroring" /\ pc'[w] = "executed"
        /\ \A v \in Workers : v # w => pc'[v] = pc[v]
    BY <1>3, Types DEF Execute, ledgerVars
  <2> QED
    BY <1>3, <2>1 DEF Quiet, Mirrored
<1>4. ASSUME IInv, Quiet, NEW w \in Workers, Writes(w)
      PROVE  Quiet'
  <2> DEFINE k == call[w].key
             c == call[w].claim
  <2>1. /\ UNCHANGED <<oneAtATime, claims>>
        /\ pc[w] # "idle" /\ pc'[w] = "idle"
        /\ \A v \in Workers : v # w => pc'[v] = pc[v] /\ call'[v] = call[v]
    BY <1>4, Types DEF Writes, Ends, ledgerVars
  <2>2. /\ c \in Claim /\ k \in Key
        /\ mirror'[k] = Upserted(mirror[k], c)
        /\ \A j \in Key : j # k => mirror'[j] = mirror[j]
    BY <1>4, WriteEffect
  <2>3. claims[k] = c
    BY <1>4, <2>1 DEF Quiet
  <2>4. /\ mirror'[k] # NoRow
        /\ \A column \in DOMAIN c \ {"id", "author"} : mirror'[k][column] = c[column]
    <3>1. DOMAIN c = {"id", "value", "confidence", "author", "status", "supporters",
                      "contests", "resolvedBy", "supersededBy", "version"}
      BY <2>2 DEF Claim
    <3>2. mirror[k] \in Row \cup {NoRow}
      BY <1>4, <2>2, Types
    <3> HIDE DEF c, k
    <3> DEFINE new == Upserted(mirror[k], c)
    <3>3. /\ new # NoRow
          /\ new.value = c.value /\ new.confidence = c.confidence
          /\ new.status = c.status /\ new.supporters = c.supporters
          /\ new.contests = c.contests /\ new.resolvedBy = c.resolvedBy
          /\ new.supersededBy = c.supersededBy /\ new.version = c.version
      BY <2>2, <3>2, UpsertedColumns
    <3> HIDE DEF new
    <3>4. \A column \in DOMAIN c \ {"id", "author"} : new[column] = c[column]
      BY <3>1, <3>3
    <3> QED
      BY <2>2, <3>3, <3>4 DEF new
  <2>5. ASSUME NEW j \in Key, claims'[j] # NoClaim
        PROVE  Mirrored(j)' \/ \E v \in Workers : pc'[v] # "idle" /\ call'[v].key = j
    <3>1. CASE j = k
      BY <2>1, <2>3, <2>4, <3>1 DEF Mirrored
    <3>2. CASE j # k /\ Mirrored(j)
      BY <2>1, <2>2, <3>2 DEF Mirrored
    <3>3. CASE j # k /\ \E v \in Workers : Busy(v) /\ call[v].key = j
      BY <2>1, <3>3
    <3> QED
      BY <1>4, <2>1, <2>5, <3>1, <3>2, <3>3 DEF Quiet
  <2>6. /\ oneAtATime'
        /\ \A v \in Workers : pc'[v] # "abandoned"
        /\ \A v \in Workers : pc'[v] # "idle" => call'[v].claim = claims'[call'[v].key]
    BY <1>4, <2>1 DEF Quiet
  <2> QED
    BY <2>5, <2>6 DEF Quiet
<1>5. ASSUME Quiet, UNCHANGED vars
      PROVE  Quiet'
  BY <1>5 DEF Quiet, Mirrored, vars
<1> QED
  BY <1>1, <1>2, <1>3, <1>4, <1>5, QuietSteps

\* Where no timeout, error, crash or refused confidence parts a request from its
\* upsert, and no client overtakes its own request, a key without a request in
\* flight has a row that agrees with the ledger.
THEOREM MirrorAgrees ==
    ASSUME NothingFails
    PROVE  Spec => []MirrorAgreesWhenQuiet
<1>1. Init => Quiet
  BY QuietInductive
<1>2. IInv /\ Quiet /\ [Next]_vars => Quiet'
  BY QuietInductive
<1>3. Quiet => MirrorAgreesWhenQuiet
  BY DEF Quiet, MirrorAgreesWhenQuiet, Busy
<1> QED
  BY <1>1, <1>2, <1>3, Invariant, PTL DEF Spec
=============================================================================
