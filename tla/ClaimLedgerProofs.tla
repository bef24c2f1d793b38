------------------------- MODULE ClaimLedgerProofs -------------------------
(***************************************************************************)
(* Proofs about ClaimLedger, for every value of its constants.              *)
(*                                                                         *)
(* Every call rewrites the claim under one key, so the invariant is a       *)
(* property of single claims (Sound) that each transition of Claims keeps:  *)
(* the lemmas of ClaimProofs say so one by one, and LEMMA Inductive lifts   *)
(* them to the ledger.                                                      *)
(***************************************************************************)
EXTENDS ClaimLedger, ClaimProofs

\* The inductive invariant.
IInv ==
    /\ TypeOK
    /\ \A k \in Key : Present(k) => Sound(claims[k])

-----------------------------------------------------------------------------
(* From one claim to the ledger. *)

\* Writing a sound claim under one key keeps every claim sound.
LEMMA StoreSound ==
    ASSUME IInv, NEW k \in Key, NEW c, Sound(c),
           claims' = [claims EXCEPT ![k] = c], nextId' \in Nat \ {0}
    PROVE  IInv'
<1>1. claims \in [Key -> Claim \cup {NoClaim}] /\ c \in Claim
  BY DEF IInv, TypeOK, Sound
<1>2. TypeOK'
  BY <1>1 DEF TypeOK
<1>3. ASSUME NEW j \in Key, claims'[j] # NoClaim
      PROVE  Sound(claims'[j])
  <2>1. CASE j = k
    BY <1>1, <2>1
  <2>2. CASE j # k
    BY <1>1, <1>3, <2>2 DEF IInv, Present
  <2> QED
    BY <2>1, <2>2
<1>4. \A j \in Key : Present(j)' => Sound(claims[j])'
  BY <1>3 DEF Present, Sound, OneVote, Attributed, HasContest
<1> QED
  BY <1>2, <1>4 DEF IInv

\* The invariant holds at the start and no call breaks it.
LEMMA Inductive ==
    /\ Init => IInv
    /\ IInv /\ [Next]_vars => IInv'
<1>1. Init => IInv
  BY DEF Init, IInv, TypeOK, Present
<1>2. ASSUME IInv, [Next]_vars
      PROVE  IInv'
  <2> USE DEF Present, Live
  <2>1. claims \in [Key -> Claim \cup {NoClaim}] /\ nextId \in Nat \ {0}
    BY <1>2 DEF IInv, TypeOK
  <2>2. ASSUME NEW k \in Key, Live(k)
        PROVE  Sound(claims[k]) /\ ~IsTerminal(claims[k].status)
    BY <1>2, <2>2 DEF IInv
  <2>3. ASSUME NEW k \in Key, NEW value \in Values,
               NEW confidence \in Confidences, NEW author \in Agents,
               AssertNew(k, value, confidence, author)
        PROVE  IInv'
    <3>1. Sound(NewClaim(nextId, value, confidence, author))
      BY <2>1, NewClaimSound
    <3>2. /\ claims' = [claims EXCEPT ![k] = NewClaim(nextId, value, confidence, author)]
          /\ nextId' \in Nat \ {0}
      BY <2>1, <2>3 DEF AssertNew
    <3> QED
      BY <1>2, <3>1, <3>2, StoreSound
  <2>4. ASSUME NEW k \in Key, NEW value \in Values,
               NEW confidence \in Confidences, NEW author \in Agents,
               Reassert(k, value, confidence, author)
        PROVE  IInv'
    <3>1. Sound(Reasserted(claims[k], value, confidence, author))
      BY <2>2, <2>4, ReassertedSound DEF Reassert
    <3> QED
      BY <1>2, <2>1, <2>4, <3>1, StoreSound DEF Reassert
  <2>5. ASSUME NEW k \in Key, NEW agent \in Agents, Support(k, agent)
        PROVE  IInv'
    <3>1. Sound(Supported(claims[k], agent))
      BY <2>2, <2>5, SupportedSound DEF Support
    <3> QED
      BY <1>2, <2>1, <2>5, <3>1, StoreSound DEF Support
  <2>6. ASSUME NEW k \in Key, NEW agent \in Agents, NEW reason \in Reasons,
               Contest(k, agent, reason)
        PROVE  IInv'
    <3>1. Sound(Contested(claims[k], agent, reason))
      BY <2>2, <2>6, ContestedSound DEF Contest
    <3> QED
      BY <1>2, <2>1, <2>6, <3>1, StoreSound DEF Contest
  <2>7. ASSUME NEW k \in Key, NEW accepted \in BOOLEAN, NEW resolver \in Agents,
               Resolve(k, accepted, resolver)
        PROVE  IInv'
    <3>1. Sound(Resolved(claims[k], accepted, resolver))
      BY <2>2, <2>7, ResolvedSound DEF Resolve
    <3> QED
      BY <1>2, <2>1, <2>7, <3>1, StoreSound DEF Resolve
  <2>8. ASSUME NEW k \in Key, NEW successor \in Ids, Supersede(k, successor)
        PROVE  IInv'
    <3>1. Sound(Superseded(claims[k], successor))
      BY <2>2, <2>8, SupersededSound , BoundsAssumption DEF Supersede, Ids
    <3> QED
      BY <1>2, <2>1, <2>8, <3>1, StoreSound DEF Supersede
  <2>9. ASSUME NEW k \in Key, Forget(k)
        PROVE  IInv'
    BY <1>2, <2>1, <2>9 DEF Forget, IInv, TypeOK
  <2>10. ASSUME UNCHANGED vars
         PROVE  IInv'
    BY <1>2, <2>10 DEF vars, IInv, TypeOK, Sound, OneVote, Attributed, HasContest
  <2> QED
    BY <1>2, <2>3, <2>4, <2>5, <2>6, <2>7, <2>8, <2>9, <2>10
       DEF Next, Assert, RefuseTerminal, RefuseAbsent
<1> QED
  BY <1>1, <1>2

\* The inductive invariant: in every reachable ledger the entries are
\* well-typed and each claim counts votes once, is attributed and shows its
\* dispute, whichever calls of src/claims.rs led there.
THEOREM Invariant == Spec => []IInv
<1> QED
  BY Inductive, PTL DEF Spec

-----------------------------------------------------------------------------
(* The properties of ClaimLedger. *)

\* The ledger holds only well-formed claims.
THEOREM TypeCorrect == Spec => []TypeOK
<1>1. IInv => TypeOK
  BY DEF IInv
<1> QED
  BY <1>1, Invariant, PTL

\* No agent is counted twice on a claim.
THEOREM VotesAreSingle == Spec => []OneVotePerAgent
<1>1. IInv => OneVotePerAgent
  BY DEF IInv, OneVotePerAgent, Sound
<1> QED
  BY <1>1, Invariant, PTL

\* Exactly the decided claims name what decided them.
THEOREM VerdictsAreAttributed == Spec => []DecisionsAreAttributed
<1>1. IInv => DecisionsAreAttributed
  BY DEF IInv, DecisionsAreAttributed, Sound
<1> QED
  BY <1>1, Invariant, PTL

\* `conflicts` lists exactly the live claims somebody contests.
THEOREM ConflictsAreComplete == Spec => []DisputesAreSurfaced
<1>1. IInv => DisputesAreSurfaced
  BY DEF IInv, DisputesAreSurfaced, Sound, Conflicts, Live
<1> QED
  BY <1>1, Invariant, PTL

\* A terminal claim never changes while it is in the ledger.
THEOREM TerminalClaimsAreFinal == Spec => TerminalIsFinal
<1>1. IInv /\ [Next]_vars => [KeepsVerdicts]_vars
  <2> SUFFICES ASSUME IInv, [Next]_vars, NEW k \in Key,
                      Present(k), IsTerminal(claims[k].status)
               PROVE  claims'[k] \in {claims[k], NoClaim}
    BY DEF KeepsVerdicts
  <2>1. claims \in [Key -> Claim \cup {NoClaim}]
    BY DEF IInv, TypeOK
  <2> QED
    BY <2>1
       DEF Next, Assert, AssertNew, Reassert, Support, Contest, Resolve, Supersede,
           Forget, RefuseTerminal, RefuseAbsent, Live, Present, vars
<1> QED
  BY <1>1, Invariant, PTL DEF TerminalIsFinal, Spec

\* What a call that does not assert can make of a live claim.
Signalled(c) == {Supported(c, agent) : agent \in Agents}
                \cup {Contested(c, agent, reason) : agent \in Agents, reason \in Reasons}
Closed(c) == {Resolved(c, accepted, resolver) : accepted \in BOOLEAN, resolver \in Agents}
             \cup {Superseded(c, successor) : successor \in Ids}

\* What one step does to one key.
LEMMA KeyStep ==
    ASSUME IInv, [Next]_vars, NEW j \in Key
    PROVE  \/ claims'[j] \in {claims[j], NoClaim}
           \/ /\ ~Present(j)
              /\ \E value \in Values, confidence \in Confidences, author \in Agents :
                    claims'[j] = NewClaim(nextId, value, confidence, author)
           \/ /\ Live(j)
              /\ \E value \in Values, confidence \in Confidences, author \in Agents :
                    claims'[j] = Reasserted(claims[j], value, confidence, author)
           \/ /\ Live(j)
              /\ claims'[j] \in Signalled(claims[j]) \cup Closed(claims[j])
<1>1. claims \in [Key -> Claim \cup {NoClaim}]
  BY DEF IInv, TypeOK
<1>2. ASSUME NEW k \in Key,
             NEW value \in Values, NEW confidence \in Confidences, NEW author \in Agents,
             Assert(k, value, confidence, author)
      PROVE  \/ claims'[j] = claims[j]
             \/ /\ ~Present(j)
                /\ claims'[j] = NewClaim(nextId, value, confidence, author)
             \/ /\ Live(j)
                /\ claims'[j] = Reasserted(claims[j], value, confidence, author)
  BY <1>1, <1>2 DEF Assert, AssertNew, Reassert
<1>3. ASSUME NEW k \in Key, NEW agent \in Agents, Support(k, agent)
      PROVE  claims'[j] = claims[j] \/ (Live(j) /\ claims'[j] = Supported(claims[j], agent))
  BY <1>1, <1>3 DEF Support
<1>4. ASSUME NEW k \in Key, NEW agent \in Agents, NEW reason \in Reasons,
             Contest(k, agent, reason)
      PROVE  claims'[j] = claims[j] \/ (Live(j) /\ claims'[j] = Contested(claims[j], agent, reason))
  BY <1>1, <1>4 DEF Contest
<1>5. ASSUME NEW k \in Key, NEW accepted \in BOOLEAN, NEW resolver \in Agents,
             Resolve(k, accepted, resolver)
      PROVE  claims'[j] = claims[j] \/ (Live(j) /\ claims'[j] = Resolved(claims[j], accepted, resolver))
  BY <1>1, <1>5 DEF Resolve
<1>6. ASSUME NEW k \in Key, NEW successor \in Ids, Supersede(k, successor)
      PROVE  claims'[j] = claims[j] \/ (Live(j) /\ claims'[j] = Superseded(claims[j], successor))
  BY <1>1, <1>6 DEF Supersede
<1>7. ASSUME NEW k \in Key, Forget(k)
      PROVE  claims'[j] \in {claims[j], NoClaim}
  BY <1>1, <1>7 DEF Forget
<1>8. CASE UNCHANGED vars
  BY <1>8 DEF vars
<1> QED
  BY <1>2, <1>3, <1>4, <1>5, <1>6, <1>7, <1>8
     DEF Next, RefuseTerminal, RefuseAbsent, Signalled, Closed

\* Signals and verdicts leave a claim's content and revision alone.
LEMMA ContentKept ==
    ASSUME NEW c \in Claim, NEW d \in Signalled(c) \cup Closed(c)
    PROVE  /\ Content(d) = Content(c)
           /\ SameRevision(c, d)
<1> USE DEF Content, SameRevision
<1>1. ASSUME NEW agent \in Agents, d = Supported(c, agent)
      PROVE  Content(d) = Content(c) /\ SameRevision(c, d)
  BY <1>1 DEF Claim, Supported
<1>2. ASSUME NEW agent \in Agents, NEW reason \in Reasons, d = Contested(c, agent, reason)
      PROVE  Content(d) = Content(c) /\ SameRevision(c, d)
  BY <1>2 DEF Claim, Contested
<1>3. ASSUME NEW accepted \in BOOLEAN, NEW resolver \in Agents, d = Resolved(c, accepted, resolver)
      PROVE  Content(d) = Content(c) /\ SameRevision(c, d)
  BY <1>3 DEF Claim, Resolved
<1>4. ASSUME NEW successor \in Ids, d = Superseded(c, successor)
      PROVE  Content(d) = Content(c) /\ SameRevision(c, d)
  BY <1>4 DEF Claim, Superseded
<1> QED
  BY <1>1, <1>2, <1>3, <1>4 DEF Signalled, Closed

\* Re-assertion keeps the id, raises the version and clears the signals.
LEMMA ReassertedFresh ==
    ASSUME NEW c \in Claim, NEW value \in Values, NEW confidence \in Confidences,
           NEW author \in Agents
    PROVE  LET d == Reasserted(c, value, confidence, author)
           IN  /\ d.id = c.id
               /\ d.version = c.version + 1
               /\ d.supporters = NoSupporters
               /\ ~HasContest(d)
  BY DEF Claim, Reasserted, HasContest, NoContests

\* A present claim is a claim.
LEMMA PresentIsClaim ==
    ASSUME IInv, NEW k \in Key, Present(k)
    PROVE  claims[k] \in Claim
  BY DEF IInv, TypeOK, Present

\* Within one claim, a version names one content.
THEOREM VersionsNameContent == Spec => VersionNamesContent
<1>1. IInv /\ [Next]_vars => [NewContentNewVersion]_vars
  <2> SUFFICES ASSUME IInv, [Next]_vars, NEW k \in Key,
                      Present(k), claims'[k] # NoClaim, claims'[k].id = claims[k].id
               PROVE  /\ claims'[k].version >= claims[k].version
                      /\ claims'[k].version = claims[k].version
                            => Content(claims'[k]) = Content(claims[k])
    BY DEF NewContentNewVersion
  <2>1. claims[k] \in Claim /\ claims[k].version \in Nat
    BY PresentIsClaim DEF Claim
  <2>2. CASE claims'[k] = claims[k]
    BY <2>1, <2>2
  <2>3. CASE \E value \in Values, confidence \in Confidences, author \in Agents :
                claims'[k] = Reasserted(claims[k], value, confidence, author)
    BY <2>1, <2>3, ReassertedFresh
  <2>4. CASE claims'[k] \in Signalled(claims[k]) \cup Closed(claims[k])
    BY <2>1, <2>4, ContentKept DEF SameRevision
  <2> QED
    BY <2>2, <2>3, <2>4, KeyStep
<1> QED
  BY <1>1, Invariant, PTL DEF VersionNamesContent, Spec

\* Support and contests never outlive the content they were given for.
THEOREM SignalsEnd == Spec => SignalsEndWithTheirValue
<1>1. IInv /\ [Next]_vars => [NewRevisionNoSignals]_vars
  <2> SUFFICES ASSUME IInv, [Next]_vars, NEW k \in Key, claims'[k] # NoClaim,
                      Present(k) => ~SameRevision(claims[k], claims'[k])
               PROVE  claims'[k].supporters = NoSupporters /\ ~HasContest(claims'[k])
    BY DEF NewRevisionNoSignals
  <2>1. claims'[k] # claims[k]
    BY DEF Present, SameRevision
  <2>2. CASE \E value \in Values, confidence \in Confidences, author \in Agents :
                claims'[k] = NewClaim(nextId, value, confidence, author)
    BY <2>2 DEF NewClaim, HasContest, NoContests
  <2>3. CASE Live(k) /\ \E value \in Values, confidence \in Confidences, author \in Agents :
                claims'[k] = Reasserted(claims[k], value, confidence, author)
    BY <2>3, ReassertedFresh, PresentIsClaim DEF Live
  <2>4. CASE Live(k) /\ claims'[k] \in Signalled(claims[k]) \cup Closed(claims[k])
    BY <2>4, ContentKept, PresentIsClaim DEF Live
  <2> QED
    BY <2>1, <2>2, <2>3, <2>4, KeyStep
<1> QED
  BY <1>1, Invariant, PTL DEF SignalsEndWithTheirValue, Spec

-----------------------------------------------------------------------------
(* Refinement of ClaimGovernance. *)

\* A step writes at most one key.
LEMMA OneKey ==
    ASSUME IInv, Next
    PROVE  \E k \in Key : \E c : claims' = [claims EXCEPT ![k] = c]
<1>1. claims \in [Key -> Claim \cup {NoClaim}]
  BY DEF IInv, TypeOK
<1>2. PICK k \in Key :
        \/ \E value \in Values, confidence \in Confidences, author \in Agents :
              Assert(k, value, confidence, author)
        \/ \E agent \in Agents : Support(k, agent)
        \/ \E agent \in Agents, reason \in Reasons : Contest(k, agent, reason)
        \/ \E accepted \in BOOLEAN, resolver \in Agents :
              Resolve(k, accepted, resolver)
        \/ \E successor \in Ids : Supersede(k, successor)
        \/ Forget(k)
        \/ UNCHANGED vars
  BY DEF Next, RefuseTerminal, RefuseAbsent
<1>3. UNCHANGED vars => claims' = [claims EXCEPT ![k] = claims[k]]
  BY <1>1 DEF vars
<1> QED
  BY <1>2, <1>3
     DEF Assert, AssertNew, Reassert, Support, Contest, Resolve, Supersede, Forget

\* What a call makes of a live claim, seen as a belief.
LEMMA BelievedSteps ==
    ASSUME NEW c, Sound(c), ~IsTerminal(c.status)
    PROVE  /\ Believed(c) = [phase |-> "open", value |-> c.value]
           /\ \A d \in Signalled(c) : Believed(d) = Believed(c)
           /\ \A d \in Closed(c) : \E verdict \in Governance!Verdicts :
                 Believed(d) = [phase |-> verdict, value |-> c.value]
           /\ \A value \in Values, confidence \in Confidences, author \in Agents :
                 Believed(Reasserted(c, value, confidence, author))
                    = [phase |-> "open", value |-> value]
<1> DEFINE Open(value) == [phase |-> "open", value |-> value]
<1> USE NoClaimAssumption
<1>1. c \in Claim /\ c # NoClaim
  BY DEF Sound
<1>2. Believed(c) = Open(c.value)
  BY <1>1 DEF Believed
<1>3. ASSUME NEW agent \in Agents
      PROVE  Believed(Supported(c, agent)) = Open(c.value)
  <2> DEFINE d == Supported(c, agent)
  <2>1. d # NoClaim
    BY SupportedSound DEF Sound
  <2>2. d.status = c.status /\ d.value = c.value
    BY <1>1 DEF Supported, Claim
  <2> QED
    BY <2>1, <2>2 DEF Believed
<1>4. ASSUME NEW agent \in Agents, NEW reason \in Reasons
      PROVE  Believed(Contested(c, agent, reason)) = Open(c.value)
  <2> DEFINE d == Contested(c, agent, reason)
  <2>1. d # NoClaim
    BY ContestedSound DEF Sound
  <2>2. d.status = "contested" /\ d.value = c.value
    BY <1>1 DEF Contested, Claim
  <2> QED
    BY <2>1, <2>2 DEF Believed, IsTerminal
<1>5. ASSUME NEW accepted \in BOOLEAN, NEW resolver \in Agents
      PROVE  \E verdict \in Governance!Verdicts :
                Believed(Resolved(c, accepted, resolver)) = [phase |-> verdict, value |-> c.value]
  <2> DEFINE d == Resolved(c, accepted, resolver)
  <2>1. d # NoClaim
    BY ResolvedSound DEF Sound
  <2>2. d.status \in {"accepted", "rejected"} /\ d.value = c.value
    BY <1>1 DEF Resolved, Claim
  <2> QED
    BY <2>1, <2>2 DEF Believed, IsTerminal, Governance!Verdicts
<1>6. ASSUME NEW successor \in Ids
      PROVE  \E verdict \in Governance!Verdicts :
                Believed(Superseded(c, successor)) = [phase |-> verdict, value |-> c.value]
  <2> DEFINE d == Superseded(c, successor)
  <2>1. d # NoClaim
    BY SupersededSound, BoundsAssumption DEF Sound, Ids
  <2>2. d.status = "superseded" /\ d.value = c.value
    BY <1>1 DEF Superseded, Claim
  <2> QED
    BY <2>1, <2>2 DEF Believed, IsTerminal, Governance!Verdicts
<1>7. ASSUME NEW value \in Values, NEW confidence \in Confidences, NEW author \in Agents
      PROVE  Believed(Reasserted(c, value, confidence, author)) = Open(value)
  <2> DEFINE d == Reasserted(c, value, confidence, author)
  <2>1. d # NoClaim
    BY ReassertedSound DEF Sound
  <2>2. d.status = "asserted" /\ d.value = value
    BY <1>1 DEF Reasserted, Claim
  <2> QED
    BY <2>1, <2>2 DEF Believed, IsTerminal
<1> QED
  BY <1>2, <1>3, <1>4, <1>5, <1>6, <1>7 DEF Signalled, Closed

\* The ledger implements the governance promise: each step is one of its steps,
\* or, when only signals, confidence or authors change, a stutter.
THEOREM LedgerGoverns == Spec => GovernanceSpec
<1> DEFINE belief == [k \in Key |-> Believed(claims[k])]
<1>1. Init => Governance!Init
  BY DEF Init, Governance!Init, Believed
<1>2. IInv /\ [Next]_vars => [Governance!Next]_belief
  <2> SUFFICES ASSUME IInv, Next
               PROVE  [Governance!Next]_belief
    BY DEF vars
  <2>1. PICK k \in Key : \E c : claims' = [claims EXCEPT ![k] = c]
    BY OneKey
  <2>2. claims \in [Key -> Claim \cup {NoClaim}]
    BY DEF IInv, TypeOK
  <2>3. belief' = [belief EXCEPT ![k] = Believed(claims'[k])]
    BY <2>1, <2>2
  <2>4. ASSUME Live(k)
        PROVE  /\ Sound(claims[k]) /\ ~IsTerminal(claims[k].status)
               /\ belief[k] = [phase |-> "open", value |-> claims[k].value]
               /\ belief[k] # NoClaim
    <3>1. Sound(claims[k]) /\ ~IsTerminal(claims[k].status)
      BY <2>4 DEF IInv, Live
    <3>2. belief[k] = [phase |-> "open", value |-> claims[k].value]
      BY <3>1, BelievedSteps
    <3>3. claims[k].value \in Values
      BY <3>1 DEF Sound, Claim
    <3> QED
      BY <3>1, <3>2, <3>3, NoBeliefAssumption DEF Governance!Belief
  <2>5. CASE claims'[k] = claims[k]
    BY <2>3, <2>5
  <2>6. CASE Present(k) /\ claims'[k] = NoClaim
    <3>1. Sound(claims[k])
      BY <2>6 DEF IInv
    <3>2. belief[k] # NoClaim
      <4>1. /\ claims[k] # NoClaim
            /\ claims[k].status \in ClaimStatus
            /\ claims[k].value \in Values
        BY <2>6, <3>1 DEF Sound, Claim, Present
      <4>2. belief[k] \in Governance!Belief
        BY <4>1 DEF Believed, Governance!Belief, Governance!Verdicts, IsTerminal
      <4> QED
        BY <4>2, NoBeliefAssumption
    <3> QED
      BY <2>3, <2>6, <3>2 DEF Governance!Next, Governance!Forget, Believed
  <2>7. CASE ~Present(k) /\ \E value \in Values, confidence \in Confidences, author \in Agents :
                claims'[k] = NewClaim(nextId, value, confidence, author)
    <3>1. PICK value \in Values, confidence \in Confidences, author \in Agents :
            claims'[k] = NewClaim(nextId, value, confidence, author)
      BY <2>7
    <3>2. NewClaim(nextId, value, confidence, author) \in Claim
      BY NewClaimSound DEF IInv, TypeOK, Sound
    <3>3. Believed(claims'[k]) = [phase |-> "open", value |-> value]
      BY <3>1, <3>2, NoClaimAssumption DEF NewClaim, Believed, IsTerminal
    <3>4. belief[k] = NoClaim
      BY <2>7 DEF Present, Believed
    <3> QED
      BY <2>3, <3>3, <3>4 DEF Governance!Next, Governance!Open
  <2>8. CASE Live(k) /\ \E value \in Values, confidence \in Confidences, author \in Agents :
                claims'[k] = Reasserted(claims[k], value, confidence, author)
    <3>1. PICK value \in Values :
            Believed(claims'[k]) = [phase |-> "open", value |-> value]
      BY <2>4, <2>8, BelievedSteps
    <3>2. [belief[k] EXCEPT !.value = value] = Believed(claims'[k])
      BY <2>4, <2>8, <3>1
    <3>3. belief' = [belief EXCEPT ![k].value = value]
      BY <2>3, <3>2
    <3>4. belief[k] # NoClaim /\ belief[k].phase = "open"
      BY <2>4, <2>8
    <3>5. Governance!Revise(k, value)
      BY <3>3, <3>4 DEF Governance!Revise
    <3> QED
      BY <3>5 DEF Governance!Next
  <2>9. CASE Live(k) /\ claims'[k] \in Signalled(claims[k])
    <3>1. Believed(claims'[k]) = Believed(claims[k])
      BY <2>4, <2>9, BelievedSteps
    <3> QED
      BY <2>3, <3>1
  <2>10. CASE Live(k) /\ claims'[k] \in Closed(claims[k])
    <3>1. PICK verdict \in Governance!Verdicts :
            Believed(claims'[k]) = [phase |-> verdict, value |-> claims[k].value]
      BY <2>4, <2>10, BelievedSteps
    <3>2. [belief[k] EXCEPT !.phase = verdict] = Believed(claims'[k])
      BY <2>4, <2>10, <3>1
    <3>3. belief' = [belief EXCEPT ![k].phase = verdict]
      BY <2>3, <3>2
    <3>4. belief[k] # NoClaim /\ belief[k].phase = "open"
      BY <2>4, <2>10
    <3>5. Governance!Close(k, verdict)
      BY <3>3, <3>4 DEF Governance!Close
    <3> QED
      BY <3>5 DEF Governance!Next
  <2> QED
    BY <2>5, <2>6, <2>7, <2>8, <2>9, <2>10, KeyStep DEF Present
<1> QED
  BY <1>1, <1>2, Invariant, PTL DEF GovernanceSpec, Governance!Spec, Spec
=============================================================================
