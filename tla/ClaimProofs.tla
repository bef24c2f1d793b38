---------------------------- MODULE ClaimProofs ----------------------------
(***************************************************************************)
(* What each call makes of one claim, for every value of the constants: the *)
(* lemmas that the proofs about the ledger and about its mirror share.      *)
(***************************************************************************)
EXTENDS Claims, TLAPS

\* What holds of every claim in the ledger.
Sound(c) ==
    /\ c \in Claim
    /\ OneVote(c)
    /\ Attributed(c)
    /\ c.status = "contested" <=> ~IsTerminal(c.status) /\ HasContest(c)

-----------------------------------------------------------------------------
(* What each transition does to one claim. *)

\* A new claim is sound.
LEMMA NewClaimSound ==
    ASSUME NEW id \in Nat \ {0}, NEW value \in Values,
           NEW confidence \in Confidences, NEW author \in Agents
    PROVE  Sound(NewClaim(id, value, confidence, author))
  BY DEF Sound, NewClaim, Claim, ClaimStatus, OneVote, Attributed, IsTerminal,
         HasContest, NoSupporters, NoContests

\* Re-asserting a live claim leaves it sound.
LEMMA ReassertedSound ==
    ASSUME NEW c, Sound(c), ~IsTerminal(c.status),
           NEW value \in Values, NEW confidence \in Confidences, NEW author \in Agents
    PROVE  Sound(Reasserted(c, value, confidence, author))
<1> DEFINE d == Reasserted(c, value, confidence, author)
<1>1. c \in Claim /\ Attributed(c)
  BY DEF Sound
<1>2. /\ d.status = "asserted"
      /\ d.supporters = NoSupporters
      /\ d.contests = NoContests
      /\ d.resolvedBy = c.resolvedBy
      /\ d.supersededBy = c.supersededBy
  BY <1>1 DEF Reasserted, Claim
<1>3. d \in Claim
  <2>1. NoSupporters \in [Agents -> Nat] /\ NoContests \in [Agents -> [Reasons -> Nat]]
    BY DEF NoSupporters, NoContests
  <2>2. c.version + 1 \in Nat \ {0}
    BY <1>1 DEF Claim
  <2> QED
    BY <1>1, <2>1, <2>2 DEF Reasserted, Claim, ClaimStatus
<1>4. OneVote(d)
  BY <1>2 DEF OneVote, NoSupporters, NoContests
<1>5. Attributed(d)
  BY <1>1, <1>2 DEF Attributed, IsTerminal
<1>6. ~HasContest(d)
  BY <1>2 DEF HasContest, NoContests
<1> QED
  BY <1>2, <1>3, <1>4, <1>5, <1>6 DEF Sound

\* Supporting a live claim leaves it sound.
LEMMA SupportedSound ==
    ASSUME NEW c, Sound(c), ~IsTerminal(c.status), NEW agent \in Agents
    PROVE  Sound(Supported(c, agent))
<1> DEFINE n == IF c.supporters[agent] > 0 THEN c.supporters[agent]
                ELSE c.supporters[agent] + 1
           supporters == [c.supporters EXCEPT ![agent] = n]
           d == Supported(c, agent)
<1>1. c \in Claim /\ OneVote(c) /\ Attributed(c)
  BY DEF Sound
<1>2. c.supporters \in [Agents -> Nat] /\ n \in Nat /\ n <= 1
  BY <1>1 DEF Claim, OneVote
<1>3. d = [c EXCEPT !.supporters = supporters]
  BY DEF Supported
<1> HIDE DEF n
<1>4. supporters \in [Agents -> Nat]
  BY <1>2
<1>5. \A a \in Agents : supporters[a] = IF a = agent THEN n ELSE c.supporters[a]
  BY <1>2
<1> HIDE DEF supporters
<1>6. /\ d.status = c.status
      /\ d.supporters = supporters
      /\ d.contests = c.contests
      /\ d.resolvedBy = c.resolvedBy
      /\ d.supersededBy = c.supersededBy
  BY <1>1, <1>3 DEF Claim
<1>7. d \in Claim
  BY <1>1, <1>3, <1>4 DEF Claim
<1>8. OneVote(d)
  BY <1>1, <1>2, <1>6, <1>5 DEF OneVote
<1>9. Attributed(d)
  BY <1>1, <1>6 DEF Attributed
<1>10. HasContest(d) <=> HasContest(c)
  BY <1>6 DEF HasContest
<1> QED
  BY <1>6, <1>7, <1>8, <1>9, <1>10 DEF Sound

\* Contesting a live claim leaves it sound.
LEMMA ContestedSound ==
    ASSUME NEW c, Sound(c), ~IsTerminal(c.status),
           NEW agent \in Agents, NEW reason \in Reasons
    PROVE  Sound(Contested(c, agent, reason))
<1> DEFINE retained == [c.contests EXCEPT ![agent] = NoContests[agent]]
           contests == [retained EXCEPT ![agent][reason] = @ + 1]
           d == Contested(c, agent, reason)
<1>1. c \in Claim /\ OneVote(c) /\ Attributed(c)
  BY DEF Sound
<1>2. c.contests \in [Agents -> [Reasons -> Nat]]
  BY <1>1 DEF Claim
<1>3. /\ contests \in [Agents -> [Reasons -> Nat]]
      /\ contests[agent] = [r \in Reasons |-> IF r = reason THEN 1 ELSE 0]
      /\ \A other \in Agents \ {agent} : contests[other] = c.contests[other]
  <2>1. NoContests[agent] = [r \in Reasons |-> 0]
    BY DEF NoContests
  <2>2. /\ retained \in [Agents -> [Reasons -> Nat]]
        /\ retained[agent] = [r \in Reasons |-> 0]
        /\ \A other \in Agents \ {agent} : retained[other] = c.contests[other]
    BY <1>2, <2>1
  <2> HIDE DEF retained
  <2>3. [retained[agent] EXCEPT ![reason] = @ + 1]
            = [r \in Reasons |-> IF r = reason THEN 1 ELSE 0]
    BY <2>2
  <2> QED
    BY <2>2, <2>3
<1>4. d = [c EXCEPT !.contests = contests, !.status = "contested"]
  BY DEF Contested
<1> HIDE DEF contests
<1>5. /\ d.status = "contested"
      /\ d.supporters = c.supporters
      /\ d.contests = contests
      /\ d.resolvedBy = c.resolvedBy
      /\ d.supersededBy = c.supersededBy
  BY <1>1, <1>4 DEF Claim
<1>6. d \in Claim
  BY <1>1, <1>3, <1>4 DEF Claim, ClaimStatus
<1>7. OneVote(d)
  BY <1>1, <1>3, <1>5 DEF OneVote
<1>8. Attributed(d)
  BY <1>1, <1>5 DEF Attributed, IsTerminal
<1>9. HasContest(d)
  BY <1>3, <1>5 DEF HasContest
<1> QED
  BY <1>5, <1>6, <1>7, <1>8, <1>9 DEF Sound, IsTerminal

\* A verdict on a live claim leaves it sound.
LEMMA ResolvedSound ==
    ASSUME NEW c, Sound(c), ~IsTerminal(c.status),
           NEW accepted \in BOOLEAN, NEW resolver \in Agents
    PROVE  Sound(Resolved(c, accepted, resolver))
<1> DEFINE d == Resolved(c, accepted, resolver)
<1>1. c \in Claim /\ OneVote(c) /\ Attributed(c)
  BY DEF Sound
<1>2. /\ d.status \in {"accepted", "rejected"}
      /\ d.supporters = c.supporters
      /\ d.contests = c.contests
      /\ d.resolvedBy = resolver
      /\ d.supersededBy = c.supersededBy
  BY <1>1 DEF Resolved, Claim
<1>3. d \in Claim
  BY <1>1 DEF Resolved, Claim, ClaimStatus
<1>4. OneVote(d)
  BY <1>1, <1>2 DEF OneVote
<1>5. Attributed(d)
  BY <1>1, <1>2, NobodyAssumption DEF Attributed, IsTerminal
<1> QED
  BY <1>2, <1>3, <1>4, <1>5 DEF Sound, IsTerminal

\* Superseding a live claim leaves it sound.
LEMMA SupersededSound ==
    ASSUME NEW c, Sound(c), ~IsTerminal(c.status), NEW successor \in Nat \ {0}
    PROVE  Sound(Superseded(c, successor))
<1> DEFINE d == Superseded(c, successor)
<1>1. c \in Claim /\ OneVote(c) /\ Attributed(c)
  BY DEF Sound
<1>2. successor \in Nat /\ successor # 0
  OBVIOUS
<1>3. /\ d.status = "superseded"
      /\ d.supporters = c.supporters
      /\ d.contests = c.contests
      /\ d.resolvedBy = c.resolvedBy
      /\ d.supersededBy = successor
  BY <1>1 DEF Superseded, Claim
<1>4. d \in Claim
  BY <1>1, <1>2 DEF Superseded, Claim, ClaimStatus
<1>5. OneVote(d)
  BY <1>1, <1>3 DEF OneVote
<1>6. Attributed(d)
  BY <1>1, <1>2, <1>3 DEF Attributed, IsTerminal
<1> QED
  BY <1>3, <1>4, <1>5, <1>6 DEF Sound, IsTerminal
=============================================================================
