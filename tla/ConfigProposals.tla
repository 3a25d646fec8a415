-------------------------- MODULE ConfigProposals ---------------------------
(***************************************************************************)
(* Changing the reconciliation contract: proposals (repository_m5.py and   *)
(* the /config/proposals routes of api.py), the config tables their edits  *)
(* are applied to (config_rows.py, repository_m5.apply_config_rows), and   *)
(* the canary that says what an apply did (verification.py).               *)
(*                                                                         *)
(* Every request runs in its own connection under READ COMMITTED.  An      *)
(* apply is a check, a transaction that looks up and writes one row after  *)
(* another, renders the contract and commits, and three more transactions  *)
(* that record what happened; other requests go on between any two.        *)
(*                                                                         *)
(* A row is its value: who wrote it, when, and the wording of its reason   *)
(* are left out, and so is the order in which rows are rendered.           *)
(*                                                                         *)
(* A definition marked "Variant" is a plausible mistake in the one after   *)
(* it, kept to show that a property notices; nothing in Spec uses it.      *)
(***************************************************************************)
EXTENDS Naturals, SequencesExt

CONSTANTS
    Keys,           \* [table, name]: the rows there may be
    Seed,           \* what the seed gives each of them, Absent for no row
    LockedKeys,     \* the scalars that are locked
    Baskets,        \* the edits a proposal may consist of: sequences of Edit
    Absent,         \* no row
    Undecided,      \* an alias nobody has resolved
    Nonsense,       \* a value that the rules of its table refuse
    CanaryVerdicts, \* what the canary may say of a change that can move a cell
    Appliers,       \* POST .../apply requests that may be in flight
    MaxProposals    \* bound on the proposals ever made

Edit == [key: Keys, op: {"upsert", "delete"}, value: STRING, reason: BOOLEAN]

ASSUME ConstantsAssumption ==
    /\ MaxProposals \in Nat
    /\ Baskets \subseteq Seq(Edit)
    /\ CanaryVerdicts \subseteq {"verified", "cells_moved", "unavailable", "failed"}
    /\ <<>> \notin Baskets

Proposal == 1..MaxProposals

-----------------------------------------------------------------------------
(* The tables.                                                             *)

\* may_insert and may_delete: the pipeline reads scalars and tolerances by name.
Closed(key) == key.table \in {"scalars", "tolerances"}

\* invalidates_goldens.  A row has the flag of its table (a scalar its own, and those
\* modelled can move a cell): the rows that are seeded were given
\* it, and a new one takes it.
MovesCells(key) == key.table \notin {"stores", "tolerances"}

Roster(rows) == {k.name : k \in {j \in Keys : j.table = "stores" /\ rows[j] = "active"}}

\* _table_rules, for the row that the edit would leave.
BreaksRules(rows, e) ==
    \/ e.value = Nonsense
    \/ /\ e.key.table = "aliases"
       /\ e.value # Undecided
       /\ \/ e.value = e.key.name
          \/ Roster(rows) # {} /\ e.value \notin Roster(rows)
    \/ /\ e.key.table = "brands"
       /\ Roster(rows) # {} /\ e.key.name \notin Roster(rows)
    \/ /\ e.key.table = "revenue buckets"
       /\ rows[e.key] = Absent
       /\ \E k \in Keys : k.table = "revenue buckets" /\ rows[k] # Absent

\* What apply raises before it writes.
Refuses(rows, e) ==
    \/ rows[e.key] # Absent /\ e.key \in LockedKeys
    \/ e.op = "delete" /\ (rows[e.key] = Absent \/ Closed(e.key))
    \/ e.op = "upsert" /\ BreaksRules(rows, e)
    \/ e.op = "upsert" /\ rows[e.key] = Absent /\ (Closed(e.key) \/ ~e.reason)

Outcome(e) == IF e.op = "delete" THEN Absent ELSE e.value

\* apply on rows that nobody else writes, in the basket's order; <<>> if refused.
Replayed(rows, basket) ==
    FoldLeft(LAMBDA r, e : IF r = <<>> \/ Refuses(r, e) THEN <<>>
                           ELSE [r EXCEPT ![e.key] = Outcome(e)],
             rows, basket)

\* render: a storefront or a column map that is not active is left out.
Rendered(rows) ==
    {<<k, rows[k]>> : k \in {j \in Keys : rows[j] \notin {Absent, "inactive"}}}

-----------------------------------------------------------------------------
Decided == {"approved", "rejected", "withdrawn", "applied"}
States == {"none", "drafted", "pending"} \cup Decided

\* An apply: not begun; base checked, and between two edits; the row of the next
\* edit looked up; rendered as expected; committed; version recorded; marked.
Phases == {"idle", "checked", "looked", "rendered", "committed", "recorded", "marked"}

VARIABLES
    table,      \* the committed rows
    proposal,   \* config_proposals: state, edits, base and resulting content
    phase,      \* how far each apply request has got
    applying,   \* the proposal it applies, 0 for none
    done,       \* how many of its edits it has made
    found,      \* what it found when it looked up the row of the next one
    own,        \* the rows its open transaction has written, and holds locked
    versions,   \* config_versions: the contracts recorded
    verdict,    \* verification_state of the versions that have one
    landed,     \* the proposals whose edits have been committed to the rows
    disturbed   \* the applies another one has committed under (history only)

requestVars == <<phase, applying, done, found, own, disturbed>>
recordVars == <<versions, verdict, landed>>
vars == <<table, proposal, requestVars, recordVars>>

NoProposal == [state |-> "none"]

Init ==
    /\ table = Seed
    /\ proposal = [p \in Proposal |-> NoProposal]
    /\ phase = [a \in Appliers |-> "idle"]
    /\ applying = [a \in Appliers |-> 0]
    /\ done = [a \in Appliers |-> 0]
    /\ found = [a \in Appliers |-> Absent]
    /\ own = [a \in Appliers |-> <<>>]
    /\ versions = {}
    /\ verdict = <<>>
    /\ landed = {}
    /\ disturbed = {}

\* A row is locked from its write to the end of the transaction.
Locked(key) == \E a \in Appliers : key \in DOMAIN own[a]

-----------------------------------------------------------------------------
(* Proposals.                                                              *)

\* propose_config and rebase_proposal, first read: the contract as it is.
DraftProposal(p, basket) ==
    /\ proposal[p] = NoProposal
    /\ \A q \in Proposal : q < p => proposal[q] # NoProposal
    /\ proposal' = [proposal EXCEPT ![p] =
            [state |-> "drafted", edits |-> basket, base |-> Rendered(table), content |-> {}]]
    /\ UNCHANGED <<table, requestVars, recordVars>>

\* Second read, render_after: the edits are applied, waiting for rows an apply has
\* locked, and rolled back.  Then create_proposal; or 422 and no proposal, if an
\* edit is refused or they change nothing.
CreateProposal(p) ==
    LET basket == proposal[p].edits
        rows == Replayed(table, basket)
    IN  /\ proposal[p].state = "drafted"
        /\ \A i \in DOMAIN basket : ~Locked(basket[i].key)
        /\ proposal' = [proposal EXCEPT ![p] =
                IF rows = <<>> \/ Rendered(rows) = @.base THEN NoProposal
                ELSE [@ EXCEPT !.state = "pending", !.content = Rendered(rows)]]
        /\ UNCHANGED <<table, requestVars, recordVars>>

\* decide_proposal, withdraw_proposal: only a pending one.
DecideProposal(p, decision) ==
    /\ proposal[p].state = "pending"
    /\ proposal' = [proposal EXCEPT ![p].state = decision]
    /\ UNCHANGED <<table, requestVars, recordVars>>

-----------------------------------------------------------------------------
(* POST /config/proposals/{id}/apply.                                      *)

At(a, p, from) == phase[a] = from /\ applying[a] = p

Edits(a) == proposal[applying[a]].edits
NextEdit(a) == Edits(a)[done[a] + 1]

\* READ COMMITTED: what others have committed by now, and its own writes.
View(a) == [k \in Keys |-> IF k \in DOMAIN own[a] THEN own[a][k] ELSE table[k]]

\* Variant: the base is not compared.
CheckNothing(a, p) ==
    /\ phase[a] = "idle"
    /\ proposal[p].state \in Decided \cup {"pending"}
    /\ phase' = [phase EXCEPT ![a] = "checked"]
    /\ applying' = [applying EXCEPT ![a] = p]
    /\ UNCHANGED <<table, proposal, done, found, own, disturbed, recordVars>>

\* The proposal is read and the current contract is still its base, or 409.  The
\* proposal's state is not looked at.
CheckBase(a, p) ==
    /\ phase[a] = "idle"
    /\ proposal[p].state \in Decided \cup {"pending"}
    /\ Rendered(table) = proposal[p].base
    /\ phase' = [phase EXCEPT ![a] = "checked"]
    /\ applying' = [applying EXCEPT ![a] = p]
    /\ UNCHANGED <<table, proposal, done, found, own, disturbed, recordVars>>

\* The request is over; an open transaction rolls back.
Abandon(a) ==
    /\ phase' = [phase EXCEPT ![a] = "idle"]
    /\ applying' = [applying EXCEPT ![a] = 0]
    /\ done' = [done EXCEPT ![a] = 0]
    /\ found' = [found EXCEPT ![a] = Absent]
    /\ own' = [own EXCEPT ![a] = <<>>]
    /\ disturbed' = disturbed \ {a}

\* One turn of config_rows.apply, first half: _existing and the refusals.
LookUpRow(a, p) ==
    /\ At(a, p, "checked")
    /\ done[a] < Len(Edits(a))
    /\ IF Refuses(View(a), NextEdit(a))
       THEN Abandon(a)
       ELSE /\ phase' = [phase EXCEPT ![a] = "looked"]
            /\ found' = [found EXCEPT ![a] = View(a)[NextEdit(a).key]]
            /\ UNCHANGED <<applying, done, own, disturbed>>
    /\ UNCHANGED <<table, proposal, recordVars>>

\* Second half: the write, which waits for another transaction's lock.  A row that
\* was inserted or deleted by the one it waited for is a unique violation or no
\* row to update, and fails the request; deleting what is gone does nothing.
WriteRow(a, p) ==
    LET key == NextEdit(a).key
        now == View(a)[key]
        deletes == NextEdit(a).op = "delete"
        writes == [own EXCEPT ![a] = [k \in DOMAIN @ \cup {key} |->
                    IF k = key THEN Outcome(NextEdit(a)) ELSE @[k]]]
    IN  /\ At(a, p, "looked")
        /\ \A b \in Appliers \ {a} : key \notin DOMAIN own[b]
        /\ IF ~deletes /\ (found[a] = Absent) # (now = Absent)
           THEN Abandon(a)
           ELSE /\ own' = IF deletes /\ now = Absent THEN own ELSE writes
                /\ phase' = [phase EXCEPT ![a] = "checked"]
                /\ done' = [done EXCEPT ![a] = @ + 1]
                /\ found' = [found EXCEPT ![a] = Absent]
                /\ UNCHANGED <<applying, disturbed>>
        /\ UNCHANGED <<table, proposal, recordVars>>

\* The contract rendered inside the transaction, which sees what others have
\* committed by now, must be the one reviewed; otherwise it rolls back.
Render(a, p) ==
    /\ At(a, p, "checked")
    /\ done[a] = Len(Edits(a))
    /\ IF Rendered(View(a)) = proposal[p].content
       THEN /\ phase' = [phase EXCEPT ![a] = "rendered"]
            /\ UNCHANGED <<applying, done, found, own, disturbed>>
       ELSE Abandon(a)
    /\ UNCHANGED <<table, proposal, recordVars>>

\* The transaction commits.
Commit(a, p) ==
    /\ At(a, p, "rendered")
    /\ table' = View(a)
    /\ landed' = landed \cup {p}
    /\ disturbed' = disturbed \cup {b \in Appliers \ {a} :
                    phase[b] \in {"checked", "looked", "rendered"}}
    /\ phase' = [phase EXCEPT ![a] = "committed"]
    /\ own' = [own EXCEPT ![a] = <<>>]
    /\ UNCHANGED <<proposal, applying, done, found, versions, verdict>>

\* record_config_version: content-addressed.
RecordVersion(a, p) ==
    /\ At(a, p, "committed")
    /\ versions' = versions \cup {proposal[p].content}
    /\ phase' = [phase EXCEPT ![a] = "recorded"]
    /\ UNCHANGED <<table, proposal, applying, done, found, own, disturbed, verdict, landed>>

\* Variant: the proposal is marked while its transaction is still open.
MarkEarly(a, p) ==
    /\ phase[a] \in {"rendered", "recorded"} /\ applying[a] = p
    /\ proposal[p].state = "approved"
    /\ proposal' = [proposal EXCEPT ![p].state = "applied"]
    /\ phase' = [phase EXCEPT ![a] = "marked"]
    /\ UNCHANGED <<table, applying, done, found, own, disturbed, recordVars>>

\* mark_proposal_applied: approved only, or 409.
MarkApplied(a, p) ==
    /\ At(a, p, "recorded")
    /\ proposal[p].state = "approved"
    /\ proposal' = [proposal EXCEPT ![p].state = "applied"]
    /\ phase' = [phase EXCEPT ![a] = "marked"]
    /\ UNCHANGED <<table, applying, done, found, own, disturbed, recordVars>>

\* verify and record_config_verification, on the version's row: nothing to run
\* for a change no row of which can move a cell, else what the canary says.  A
\* verification that fails undoes nothing.
Verify(a, p) ==
    LET touched == {proposal[p].edits[i].key : i \in DOMAIN proposal[p].edits}
        content == proposal[p].content
    IN  /\ At(a, p, "marked")
        /\ \E says \in IF \E k \in touched : MovesCells(k)
                       THEN CanaryVerdicts ELSE {"not_applicable"} :
                verdict' = [c \in DOMAIN verdict \cup {content} |->
                                IF c = content THEN says ELSE verdict[c]]
        /\ Abandon(a)
        /\ UNCHANGED <<table, proposal, versions, landed>>

\* The request dies, is answered 409 for its proposal's state, or loses a deadlock.
DropApply(a) ==
    /\ phase[a] # "idle"
    /\ Abandon(a)
    /\ UNCHANGED <<table, proposal, recordVars>>

ApplyStep(a, p) ==
    \/ CheckBase(a, p)
    \/ LookUpRow(a, p)
    \/ WriteRow(a, p)
    \/ Render(a, p)
    \/ Commit(a, p)
    \/ RecordVersion(a, p)
    \/ MarkApplied(a, p)
    \/ Verify(a, p)

Next ==
    \/ \E p \in Proposal, basket \in Baskets : DraftProposal(p, basket)
    \/ \E p \in Proposal : CreateProposal(p)
    \/ \E p \in Proposal, decision \in {"approved", "rejected", "withdrawn"} :
            DecideProposal(p, decision)
    \/ \E a \in Appliers, p \in Proposal : ApplyStep(a, p)
    \/ \E a \in Appliers : DropApply(a)

Spec == Init /\ [][Next]_vars

-----------------------------------------------------------------------------
\* D38: an apply under which no other one committed moves the contract from the
\* text its proposal was made against to the text it was reviewed as, whatever
\* landed, was rolled back or was dropped since the proposal and whichever rows
\* its edits add, change and remove; a base that has moved is refused, never
\* merged.
MovedBaseIsRefused ==
    [][\A a \in Appliers \ disturbed :
        phase[a] = "rendered" /\ phase'[a] = "committed" =>
            /\ Rendered(table) = proposal[applying[a]].base
            /\ Rendered(table') = proposal[applying[a]].content]_vars

\* A proposal that reads as applied has reached the rows the worker renders, and
\* the contract it was reviewed as is on record; so is every contract about which
\* the canary has spoken.
AppliedHasLanded ==
    /\ \A p \in Proposal : proposal[p].state = "applied" =>
            p \in landed /\ proposal[p].content \in versions
    /\ DOMAIN verdict \subseteq versions

-----------------------------------------------------------------------------
(* What they rest on.                                                      *)

ProposalFields == {"state", "edits", "base", "content"}

TypeOK ==
    /\ DOMAIN proposal = Proposal
    /\ \A p \in Proposal :
        /\ proposal[p].state \in States
        /\ proposal[p].state # "none" => DOMAIN proposal[p] = ProposalFields
    /\ phase \in [Appliers -> Phases]
    /\ applying \in [Appliers -> Proposal \cup {0}]
    /\ DOMAIN own = Appliers
    /\ landed \subseteq Proposal
    /\ disturbed \subseteq Appliers

\* An apply is of a proposal that was made, whose contents no longer change.
AppliesMade ==
    \A a \in Appliers : phase[a] # "idle" =>
        applying[a] \in Proposal /\ proposal[applying[a]].state \in Decided \cup {"pending"}

\* Until another apply commits under it, an apply works on the base it has checked,
\* and what it rendered is what it will commit.
BaseHolds ==
    \A a \in Appliers \ disturbed :
        /\ phase[a] \in {"checked", "looked", "rendered"} =>
            Rendered(table) = proposal[applying[a]].base
        /\ phase[a] = "rendered" => Rendered(View(a)) = proposal[applying[a]].content

\* The records an apply has made so far.
RecordsFollow ==
    \A a \in Appliers :
        /\ phase[a] \in {"committed", "recorded", "marked"} => applying[a] \in landed
        /\ phase[a] \in {"recorded", "marked"} => proposal[applying[a]].content \in versions

ApplyInv == TypeOK /\ AppliesMade /\ BaseHolds /\ RecordsFollow /\ AppliedHasLanded

=============================================================================
