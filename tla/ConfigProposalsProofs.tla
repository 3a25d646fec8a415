------------------------- MODULE ConfigProposalsProofs -------------------------
(***************************************************************************)
(* Proofs about ConfigProposals, for any tables, edits, proposals and      *)
(* requests in flight: what reads as applied has landed, and it landed on  *)
(* the contract it was reviewed against.                                   *)
(***************************************************************************)
EXTENDS ConfigProposals, TLAPS

\* Before anything is proposed.
LEMMA InitApplyInv == Init => ApplyInv
<1> SUFFICES ASSUME Init PROVE ApplyInv
  OBVIOUS
<1> USE DEF Init, NoProposal
<1>1. TypeOK
  BY DEF TypeOK, States, Phases
<1>2. AppliesMade /\ BaseHolds /\ RecordsFollow
  BY DEF AppliesMade, BaseHolds, RecordsFollow
<1>3. AppliedHasLanded
  BY DEF AppliedHasLanded
<1>4. QED
  BY <1>1, <1>2, <1>3 DEF ApplyInv

\* What a step on the proposals must respect: those that are made keep their
\* contents, and none is applied by it that was not, but one that has landed.
Keeps(p) ==
    proposal[p].state \in Decided \cup {"pending"} =>
        /\ proposal'[p].state \in Decided \cup {"pending"}
        /\ proposal'[p].base = proposal[p].base
        /\ proposal'[p].content = proposal[p].content

LEMMA KeepsApplyInv ==
    ASSUME ApplyInv, TypeOK', \A p \in Proposal : Keeps(p),
           \A p \in Proposal : proposal'[p].state = "applied" =>
               \/ proposal[p].state = "applied"
               \/ p \in landed /\ proposal'[p].content \in versions,
           UNCHANGED <<table, requestVars, recordVars>>
    PROVE  ApplyInv'
<1> USE DEF ApplyInv, requestVars, recordVars, Keeps
<1>1. \A a \in Appliers : View(a)' = View(a)
  BY DEF View
<1>2. AppliesMade'
  BY DEF AppliesMade
<1>3. BaseHolds'
  BY <1>1 DEF BaseHolds, AppliesMade, TypeOK, Phases
<1>4. RecordsFollow'
  BY DEF RecordsFollow, AppliesMade
<1>5. AppliedHasLanded'
  BY DEF AppliedHasLanded, Decided
<1>6. QED
  BY <1>2, <1>3, <1>4, <1>5

LEMMA ProposalApplyInv ==
    ASSUME ApplyInv, NEW p \in Proposal,
           \/ \E basket \in Baskets : DraftProposal(p, basket)
           \/ CreateProposal(p)
           \/ \E decision \in {"approved", "rejected", "withdrawn"} : DecideProposal(p, decision)
    PROVE  ApplyInv'
<1> USE DEF ApplyInv
<1>0. /\ UNCHANGED <<table, requestVars, recordVars>>
      /\ DOMAIN proposal' = Proposal
      /\ \A q \in Proposal \ {p} : proposal'[q] = proposal[q]
  BY DEF DraftProposal, CreateProposal, DecideProposal, TypeOK
<1>1. ASSUME NEW basket \in Baskets, DraftProposal(p, basket)
      PROVE  /\ proposal[p].state = "none" /\ proposal'[p].state = "drafted"
             /\ DOMAIN proposal'[p] = ProposalFields
  BY <1>1 DEF DraftProposal, TypeOK, NoProposal, ProposalFields
<1>2. ASSUME CreateProposal(p)
      PROVE  /\ proposal[p].state = "drafted" /\ proposal'[p].state \in {"none", "pending"}
             /\ proposal'[p].state = "pending" => DOMAIN proposal'[p] = ProposalFields
  <2>1. proposal[p].state = "drafted" /\ DOMAIN proposal[p] = ProposalFields
    BY <1>2 DEF CreateProposal, TypeOK
  <2>2. \/ proposal'[p] = NoProposal
        \/ \E c : proposal'[p] = [proposal[p] EXCEPT !.state = "pending", !.content = c]
    BY <1>2 DEF CreateProposal, TypeOK
  <2>3. CASE proposal'[p] = NoProposal
    BY <2>1, <2>3 DEF NoProposal
  <2>4. ASSUME NEW c, proposal'[p] = [proposal[p] EXCEPT !.state = "pending", !.content = c]
        PROVE  proposal'[p].state = "pending" /\ DOMAIN proposal'[p] = ProposalFields
    BY <2>1, <2>4 DEF ProposalFields
  <2>5. QED
    BY <2>1, <2>2, <2>3, <2>4
<1>3. ASSUME NEW decision \in {"approved", "rejected", "withdrawn"}, DecideProposal(p, decision)
      PROVE  /\ proposal[p].state = "pending" /\ proposal'[p].state = decision
             /\ DOMAIN proposal'[p] = ProposalFields
             /\ proposal'[p].base = proposal[p].base /\ proposal'[p].content = proposal[p].content
  <2>1. proposal[p].state = "pending" /\ DOMAIN proposal[p] = ProposalFields
    BY <1>3 DEF DecideProposal, TypeOK
  <2>2. proposal'[p] = [proposal[p] EXCEPT !.state = decision]
    BY <1>3 DEF DecideProposal, TypeOK
  <2>3. QED
    BY <2>1, <2>2 DEF ProposalFields
<1>4. TypeOK'
  BY <1>0, <1>1, <1>2, <1>3 DEF TypeOK, States, Decided, requestVars, recordVars
<1>5. \A q \in Proposal : Keeps(q)
  BY <1>0, <1>1, <1>2, <1>3 DEF Keeps, Decided
<1>6. \A q \in Proposal : proposal'[q].state = "applied" => proposal[q].state = "applied"
  BY <1>0, <1>1, <1>2, <1>3
<1>7. QED
  BY <1>0, <1>4, <1>5, <1>6, KeepsApplyInv

\* A request that is over claims nothing.
LEMMA AbandonApplyInv ==
    ASSUME ApplyInv, NEW a \in Appliers, Abandon(a),
           UNCHANGED <<table, proposal, landed, versions>>,
           DOMAIN verdict' \subseteq versions
    PROVE  ApplyInv'
<1> USE DEF ApplyInv, Abandon
<1>1. TypeOK'
  BY DEF TypeOK, Phases
<1>2. \A b \in Appliers \ {a} : View(b)' = View(b)
  BY DEF View, TypeOK
<1>3. \A b \in Appliers \ {a} : phase'[b] = phase[b] /\ applying'[b] = applying[b]
  BY DEF TypeOK
<1>4. phase'[a] = "idle"
  BY DEF TypeOK
<1>5. AppliesMade' /\ RecordsFollow'
  BY <1>3, <1>4 DEF AppliesMade, RecordsFollow
<1>6. BaseHolds'
  BY <1>2, <1>3, <1>4 DEF BaseHolds
<1>7. AppliedHasLanded'
  BY DEF AppliedHasLanded
<1>8. QED
  BY <1>1, <1>5, <1>6, <1>7

\* The steps of an apply up to its commit: they change no table and no record.
LEMMA WorkApplyInv ==
    ASSUME ApplyInv, NEW a \in Appliers, NEW p \in Proposal,
           CheckBase(a, p) \/ LookUpRow(a, p) \/ WriteRow(a, p) \/ Render(a, p)
    PROVE  ApplyInv'
<1> USE DEF ApplyInv, recordVars
<1>1. CASE Abandon(a)
  BY <1>1, AbandonApplyInv DEF CheckBase, LookUpRow, WriteRow, Render, AppliedHasLanded
<1>2. CASE ~Abandon(a)
  <2>0. /\ UNCHANGED <<table, proposal, disturbed, recordVars>>
        /\ phase' \in [Appliers -> Phases] /\ DOMAIN own' = Appliers
        /\ applying' \in [Appliers -> Proposal \cup {0}]
        /\ \A b \in Appliers \ {a} :
              phase'[b] = phase[b] /\ applying'[b] = applying[b] /\ own'[b] = own[b]
        /\ phase'[a] \in {"checked", "looked", "rendered"} /\ applying'[a] = p
        /\ proposal[p].state \in Decided \cup {"pending"}
        /\ \/ Rendered(table) = proposal[p].base
           \/ phase[a] \in {"checked", "looked"} /\ applying[a] = p
        /\ phase'[a] = "rendered" => own'[a] = own[a] /\ Rendered(View(a)) = proposal[p].content
    <3>1. CASE CheckBase(a, p)
      BY <3>1 DEF CheckBase, TypeOK, Phases
    <3>2. CASE LookUpRow(a, p)
      BY <1>2, <3>2 DEF LookUpRow, At, TypeOK, Phases, AppliesMade
    <3>3. CASE WriteRow(a, p)
      BY <1>2, <3>3 DEF WriteRow, At, TypeOK, Phases, AppliesMade
    <3>4. CASE Render(a, p)
      BY <1>2, <3>4 DEF Render, At, TypeOK, Phases, AppliesMade
    <3>5. QED
      BY <3>1, <3>2, <3>3, <3>4
  <2>1. TypeOK'
    BY <2>0 DEF TypeOK
  <2>2. AppliesMade' /\ RecordsFollow'
    BY <2>0 DEF AppliesMade, RecordsFollow
  <2>3. \A b \in Appliers : own'[b] = own[b] => View(b)' = View(b)
    BY <2>0 DEF View
  <2>4. BaseHolds'
    BY <2>0, <2>3 DEF BaseHolds
  <2>5. AppliedHasLanded'
    BY <2>0 DEF AppliedHasLanded
  <2>6. QED
    BY <2>1, <2>2, <2>4, <2>5
<1>3. QED
  BY <1>1, <1>2

\* A commit disturbs every other apply that is under way.
LEMMA CommitApplyInv ==
    ASSUME ApplyInv, NEW a \in Appliers, NEW p \in Proposal, Commit(a, p)
    PROVE  ApplyInv'
<1> USE DEF ApplyInv
<1>0. /\ applying[a] = p /\ phase[a] = "rendered" /\ phase'[a] = "committed" /\ landed' = landed \cup {p}
      /\ \A b \in Appliers \ {a} : phase'[b] = phase[b]
      /\ UNCHANGED <<proposal, applying, versions, verdict>>
  BY DEF Commit, At, TypeOK
<1>1. TypeOK'
  BY <1>0 DEF Commit, TypeOK, Phases
<1>2. AppliesMade' /\ RecordsFollow' /\ AppliedHasLanded'
  BY <1>0 DEF AppliesMade, RecordsFollow, AppliedHasLanded
<1>3. \A b \in Appliers \ disturbed' : phase'[b] \notin {"checked", "looked", "rendered"}
  BY <1>0 DEF Commit
<1>4. BaseHolds'
  BY <1>3 DEF BaseHolds
<1>5. QED
  BY <1>1, <1>2, <1>4

\* The records that follow it.
LEMMA RecordApplyInv ==
    ASSUME ApplyInv, NEW a \in Appliers, NEW p \in Proposal,
           RecordVersion(a, p) \/ MarkApplied(a, p) \/ Verify(a, p) \/ DropApply(a)
    PROVE  ApplyInv'
<1> USE DEF ApplyInv
<1>1. CASE RecordVersion(a, p)
  <2>0. /\ applying[a] = p /\ phase[a] = "committed" /\ phase'[a] = "recorded"
        /\ versions' = versions \cup {proposal[p].content}
        /\ \A b \in Appliers \ {a} : phase'[b] = phase[b]
        /\ UNCHANGED <<table, proposal, applying, own, disturbed, landed, verdict>>
    BY <1>1 DEF RecordVersion, At, TypeOK
  <2>1. TypeOK'
    BY <1>1 DEF RecordVersion, TypeOK, Phases
  <2>2. AppliesMade' /\ RecordsFollow' /\ AppliedHasLanded'
    BY <2>0 DEF AppliesMade, RecordsFollow, AppliedHasLanded
  <2>3. \A b \in Appliers : View(b)' = View(b)
    BY <2>0 DEF View
  <2>4. BaseHolds'
    BY <2>0, <2>3 DEF BaseHolds
  <2>5. QED
    BY <2>1, <2>2, <2>4
<1>2. CASE MarkApplied(a, p)
  <2>0. /\ applying[a] = p /\ phase[a] = "recorded" /\ phase'[a] = "marked"
        /\ proposal[p].state = "approved" /\ DOMAIN proposal' = Proposal
        /\ \A q \in Proposal \ {p} : proposal'[q] = proposal[q]
        /\ proposal'[p] = [proposal[p] EXCEPT !.state = "applied"]
        /\ \A b \in Appliers \ {a} : phase'[b] = phase[b]
        /\ UNCHANGED <<table, applying, own, disturbed, landed, versions, verdict>>
    BY <1>2 DEF MarkApplied, At, TypeOK, recordVars
  <2>1. DOMAIN proposal[p] = ProposalFields
    BY <2>0 DEF TypeOK
  <2>2. /\ proposal'[p].state = "applied" /\ DOMAIN proposal'[p] = ProposalFields
        /\ proposal'[p].base = proposal[p].base /\ proposal'[p].content = proposal[p].content
    BY <2>0, <2>1 DEF ProposalFields
  <2>3. TypeOK'
    BY <1>2, <2>0, <2>2 DEF MarkApplied, TypeOK, Phases, States, Decided
  <2>4. p \in landed /\ proposal[p].content \in versions
    BY <2>0 DEF RecordsFollow
  <2>5. \A q \in Proposal : /\ proposal'[q].state \in {proposal[q].state, "applied"}
                            /\ proposal'[q].base = proposal[q].base
                            /\ proposal'[q].content = proposal[q].content
    BY <2>0, <2>2
  <2>6. AppliesMade'
    BY <2>0, <2>5 DEF AppliesMade, Decided
  <2>7. RecordsFollow'
    BY <2>0, <2>4, <2>5 DEF RecordsFollow, AppliesMade
  <2>8. AppliedHasLanded'
    BY <2>0, <2>2, <2>4 DEF AppliedHasLanded
  <2>9. \A b \in Appliers : View(b)' = View(b)
    BY <2>0 DEF View
  <2>10. BaseHolds'
    BY <2>0, <2>5, <2>9 DEF BaseHolds, AppliesMade
  <2>11. QED
    BY <2>3, <2>6, <2>7, <2>8, <2>10
<1>3. CASE Verify(a, p)
  <2>1. proposal[p].content \in versions
    BY <1>3 DEF Verify, At, RecordsFollow
  <2>2. DOMAIN verdict' \subseteq versions
    BY <1>3, <2>1 DEF Verify, AppliedHasLanded
  <2>3. QED
    BY <1>3, <2>2, AbandonApplyInv DEF Verify
<1>4. CASE DropApply(a)
  BY <1>4, AbandonApplyInv DEF DropApply, recordVars, AppliedHasLanded
<1>5. QED
  BY <1>1, <1>2, <1>3, <1>4

\* Each step preserves the invariant.
LEMMA StepApplyInv == ApplyInv /\ [Next]_vars => ApplyInv'
<1> SUFFICES ASSUME ApplyInv, [Next]_vars PROVE ApplyInv'
  OBVIOUS
<1>1. ASSUME NEW a \in Appliers, NEW p \in Proposal, ApplyStep(a, p) PROVE ApplyInv'
  BY <1>1, WorkApplyInv, CommitApplyInv, RecordApplyInv DEF ApplyStep
<1>2. ASSUME NEW a \in Appliers, DropApply(a) PROVE ApplyInv'
  BY <1>2, AbandonApplyInv DEF DropApply, recordVars, ApplyInv, AppliedHasLanded
<1>3. CASE UNCHANGED vars
  <2>1. UNCHANGED <<table, proposal, requestVars, recordVars>>
    BY <1>3 DEF vars
  <2>2. TypeOK' /\ \A p \in Proposal : Keeps(p)
    BY <2>1 DEF ApplyInv, TypeOK, Keeps, requestVars, recordVars
  <2>3. QED
    BY <2>1, <2>2, KeepsApplyInv
<1>4. QED
  BY <1>1, <1>2, <1>3, ProposalApplyInv DEF Next

\* The invariant holds of the proposals for ever.
THEOREM ApplyInvariant == Spec => []ApplyInv
<1>1. QED
  BY InitApplyInv, StepApplyInv, PTL DEF Spec

\* What reads as applied has reached the rows, for any edits and any requests in flight.
THEOREM Landed == Spec => []AppliedHasLanded
<1>1. ApplyInv => AppliedHasLanded
  BY DEF ApplyInv
<1>2. QED
  BY <1>1, ApplyInvariant, PTL

\* D38 for any tables and edits: an apply that nobody disturbed moves the contract from
\* the base of its proposal to the contents that were reviewed.
THEOREM BaseRefused == Spec => MovedBaseIsRefused
<1> DEFINE Moves == \A a \in Appliers \ disturbed :
                       phase[a] = "rendered" /\ phase'[a] = "committed" =>
                           /\ Rendered(table) = proposal[applying[a]].base
                           /\ Rendered(table') = proposal[applying[a]].content
<1>1. ApplyInv /\ [Next]_vars => [Moves]_vars
  <2> SUFFICES ASSUME ApplyInv, Next, NEW a \in Appliers \ disturbed,
                      phase[a] = "rendered", phase'[a] = "committed"
               PROVE  /\ Rendered(table) = proposal[applying[a]].base
                      /\ Rendered(table') = proposal[applying[a]].content
    OBVIOUS
  <2>1. Rendered(table) = proposal[applying[a]].base /\ Rendered(View(a)) = proposal[applying[a]].content
    BY DEF ApplyInv, BaseHolds
  <2>2. \E p \in Proposal : Commit(a, p)
    <3>1. CASE UNCHANGED phase
      BY <3>1
    <3>2. ASSUME NEW b \in Appliers, NEW p \in Proposal, ApplyStep(b, p) PROVE b = a /\ Commit(b, p)
      BY <3>2 DEF ApplyInv, TypeOK, ApplyStep, CheckBase, LookUpRow, WriteRow, Render, Commit,
                  RecordVersion, MarkApplied, Verify, Abandon
    <3>3. ASSUME NEW b \in Appliers, DropApply(b) PROVE FALSE
      BY <3>3 DEF ApplyInv, TypeOK, DropApply, Abandon
    <3>4. QED
      BY <3>1, <3>2, <3>3 DEF Next, DraftProposal, CreateProposal, DecideProposal, requestVars
  <2>3. table' = View(a)
    BY <2>2 DEF Commit
  <2>4. QED
    BY <2>1, <2>3
<1>2. QED
  BY <1>1, ApplyInvariant, PTL DEF Spec, MovedBaseIsRefused

=============================================================================
