----------------------------- MODULE ConfigPins -----------------------------
(***************************************************************************)
(* Which rules a run of one settlement window uses: the pin of the window  *)
(* and its history (repository_m5.py), the runs that resolve, attach and   *)
(* pin a config version (config_store.resolve_for_window and               *)
(* worker._resolve_config, _settle_config), and an administrator who pins  *)
(* and unpins (api.py, /config/pins).                                      *)
(*                                                                         *)
(* The window has one run at a time, as JobQueue proves; an action is one  *)
(* database transaction, or one statement of the unpin, which selects and  *)
(* then deletes under READ COMMITTED.                                      *)
(*                                                                         *)
(* A definition marked "Variant" is a plausible mistake in the one after   *)
(* it, kept to show that a property notices; nothing in Spec uses it.      *)
(***************************************************************************)
EXTENDS Integers, Sequences

CONSTANTS
    Versions,       \* the texts the contract takes
    NoVersion,      \* no config_version_id
    Initial,        \* the text the deployment starts with
    Admins,         \* unpin requests that may be in flight
    MaxRuns,        \* bound on the runs of the window
    MaxActs         \* bound on an administrator's pins and unpins

ASSUME ConstantsAssumption ==
    /\ NoVersion \notin Versions
    /\ Initial \in Versions
    /\ MaxRuns \in Nat
    /\ MaxActs \in Nat

RunId == 1..MaxRuns

\* Who pinned: a run, by its id, or an administrator.
Admin == 0

NoPin == [version |-> NoVersion, by |-> Admin]

\* The live run: none; begun; found no pin; knows its rules; has run the pipeline
\* and attached them; has settled them; its row concluded, with finish_job to
\* come; its worker dead.
Stages == {"idle", "started", "unpinned", "resolved", "attached", "settled",
           "concluded", "lost"}

VARIABLES
    contract,   \* what the config tables render to now
    recorded,   \* config_versions
    pin,        \* the window's period_config row
    events,     \* config_pin_events, by id
    unpin,      \* the version each unpin request has selected and not yet deleted
    acts,       \* the pins and unpins an administrator has begun
    run,        \* the latest run of the window, 0 for none
    stage,      \* how far it has got
    resolved,   \* ResolvedConfig: version and pinned
    verdict,    \* the status the pipeline gave it
    under,      \* runs.config_version_id
    status      \* runs.status, "open" for NULL

pinVars == <<contract, recorded, pin, events>>
adminVars == <<unpin, acts>>
runVars == <<run, stage, resolved, verdict, under, status>>
vars == <<pinVars, adminVars, runVars>>

Unresolved == [version |-> NoVersion, pinned |-> FALSE]

Init ==
    /\ contract = Initial
    /\ recorded = {}
    /\ pin = NoPin
    /\ events = <<>>
    /\ unpin = [a \in Admins |-> NoVersion]
    /\ acts = 0
    /\ run = 0
    /\ stage = "idle"
    /\ resolved = Unresolved
    /\ verdict = "none"
    /\ under = [r \in RunId |-> NoVersion]
    /\ status = [r \in RunId |-> "none"]

Event(action, version) == [action |-> action, version |-> version]

\* pin_period_config: the upsert and its event, in one transaction.
Pin(v, by) ==
    /\ pin' = [version |-> v, by |-> by]
    /\ events' = Append(events, Event("pin", v))

-----------------------------------------------------------------------------
(* The contract and the administrator.                                     *)

\* A change is applied to the config tables.
ChangeContract(v) ==
    /\ v # contract
    /\ contract' = v
    /\ UNCHANGED <<recorded, pin, events, adminVars, runVars>>

\* POST /config/pins: any recorded version.
AdminPin(v) ==
    /\ acts < MaxActs
    /\ v \in recorded
    /\ Pin(v, Admin)
    /\ acts' = acts + 1
    /\ UNCHANGED <<contract, recorded, unpin, runVars>>

\* unpin_period_config, its select; no row, and the request is answered 404.
SelectPin(a) ==
    /\ acts < MaxActs
    /\ unpin[a] = NoVersion
    /\ pin # NoPin
    /\ unpin' = [unpin EXCEPT ![a] = pin.version]
    /\ acts' = acts + 1
    /\ UNCHANGED <<contract, recorded, pin, events, runVars>>

\* Variant: the selected version is deleted if still there, and logged regardless.
DeleteSelected(a) ==
    /\ unpin[a] # NoVersion
    /\ pin' = IF pin.version = unpin[a] THEN NoPin ELSE pin
    /\ events' = Append(events, Event("unpin", unpin[a]))
    /\ unpin' = [unpin EXCEPT ![a] = NoVersion]
    /\ UNCHANGED <<contract, recorded, acts, runVars>>

\* Its delete, and the event if a row was there to delete; then it commits.
DeletePin(a) ==
    /\ unpin[a] # NoVersion
    /\ pin' = NoPin
    /\ events' = IF pin = NoPin THEN events
                 ELSE Append(events, Event("unpin", unpin[a]))
    /\ unpin' = [unpin EXCEPT ![a] = NoVersion]
    /\ UNCHANGED <<contract, recorded, acts, runVars>>

-----------------------------------------------------------------------------
(* A run of the window.                                                    *)

Begin(r) ==
    /\ run' = r
    /\ status' = [status EXCEPT ![r] = "open"]
    /\ stage' = "started"
    /\ resolved' = Unresolved
    /\ verdict' = "none"
    /\ UNCHANGED <<pinVars, adminVars, under>>

\* claim and start_run of a new job.
StartRun ==
    /\ stage = "idle"
    /\ run < MaxRuns
    /\ Begin(run + 1)

\* reclaim_expired with attempts left, then claim and start_run: the run row is
\* reopened and keeps the version an earlier attempt attached.
RetryRun ==
    /\ stage = "lost"
    /\ Begin(run)

\* pinned_config, the first read of resolve_for_window.
LookUpPin ==
    /\ stage = "started"
    /\ stage' = IF pin = NoPin THEN "unpinned" ELSE "resolved"
    /\ resolved' = IF pin = NoPin THEN Unresolved
                   ELSE [version |-> pin.version, pinned |-> TRUE]
    /\ UNCHANGED <<pinVars, adminVars, run, verdict, under, status>>

\* The rest of it, for a window without a pin: the text the tables render to,
\* recorded as a version.
ResolveCurrent ==
    /\ stage = "unpinned"
    /\ recorded' = recorded \cup {contract}
    /\ stage' = "resolved"
    /\ resolved' = [version |-> contract, pinned |-> FALSE]
    /\ UNCHANGED <<contract, pin, events, adminVars, run, verdict, under, status>>

\* The pipeline runs; _settle_config, attach_config_to_run.
AttachConfig(outcome) ==
    /\ stage = "resolved"
    /\ under' = [under EXCEPT ![run] = resolved.version]
    /\ verdict' = outcome
    /\ stage' = "attached"
    /\ UNCHANGED <<pinVars, adminVars, run, resolved, status>>

Pins == ~resolved.pinned /\ verdict # "hard_stop"

\* Variant: the window is left to be pinned by its next run.
SettleWithoutPin ==
    /\ stage = "attached"
    /\ stage' = "settled"
    /\ UNCHANGED <<pinVars, adminVars, run, resolved, verdict, under, status>>

\* The rest of _settle_config: the first run that produced a workbook pins.
SettleConfig ==
    /\ stage = "attached"
    /\ IF Pins THEN Pin(resolved.version, run) ELSE UNCHANGED <<pin, events>>
    /\ stage' = "settled"
    /\ UNCHANGED <<contract, recorded, adminVars, run, resolved, verdict, under, status>>

\* finish_run with the run's own verdict.
FinishRun ==
    /\ stage = "settled"
    /\ status' = [status EXCEPT ![run] = verdict]
    /\ stage' = "concluded"
    /\ UNCHANGED <<pinVars, adminVars, run, resolved, verdict, under>>

\* An exception anywhere in execute(), _settle_uploads and the log's last flush
\* included: finish_run(HARD_STOP).
FailRun ==
    /\ stage \notin {"idle", "lost"}
    /\ status' = [status EXCEPT ![run] = "hard_stop"]
    /\ stage' = "concluded"
    /\ UNCHANGED <<pinVars, adminVars, run, resolved, verdict, under>>

FinishJob ==
    /\ stage = "concluded"
    /\ stage' = "idle"
    /\ UNCHANGED <<pinVars, adminVars, run, resolved, verdict, under, status>>

LoseWorker ==
    /\ stage \notin {"idle", "lost"}
    /\ stage' = "lost"
    /\ UNCHANGED <<pinVars, adminVars, run, resolved, verdict, under, status>>

\* reclaim_expired with no attempts left.
ReclaimRun ==
    /\ stage = "lost"
    /\ status' = [status EXCEPT ![run] = IF @ = "open" THEN "hard_stop" ELSE @]
    /\ stage' = "idle"
    /\ UNCHANGED <<pinVars, adminVars, run, resolved, verdict, under>>

RunStep ==
    \/ StartRun
    \/ RetryRun
    \/ LookUpPin
    \/ ResolveCurrent
    \/ \E outcome \in {"produced", "hard_stop"} : AttachConfig(outcome)
    \/ SettleConfig
    \/ FinishRun
    \/ FailRun
    \/ FinishJob
    \/ LoseWorker
    \/ ReclaimRun

Next ==
    \/ \E v \in Versions : ChangeContract(v) \/ AdminPin(v)
    \/ \E a \in Admins : SelectPin(a) \/ DeletePin(a)
    \/ RunStep

Spec == Init /\ [][Next]_vars

-----------------------------------------------------------------------------
TypeOK ==
    /\ contract \in Versions
    /\ recorded \subseteq Versions
    /\ pin \in [version: Versions, by: RunId \cup {Admin}] \cup {NoPin}
    /\ events \in Seq([action: {"pin", "unpin"}, version: Versions])
    /\ unpin \in [Admins -> Versions \cup {NoVersion}]
    /\ acts \in 0..MaxActs
    /\ run \in 0..MaxRuns
    /\ stage \in Stages
    /\ resolved \in [version: Versions, pinned: BOOLEAN] \cup {Unresolved}
    /\ verdict \in {"none", "produced", "hard_stop"}
    /\ under \in [RunId -> Versions \cup {NoVersion}]
    /\ status \in [RunId -> {"none", "open", "produced", "hard_stop"}]

Produced(r) == status[r] = "produced"

\* Defect 2.5, "changing a VAT rate in August cannot change what a re-run of May
\* produces": as long as no administrator acted on the pin, every workbook of the
\* window comes from the same rules, and the pin holds the next run to them, whatever
\* happened to the contract, and whichever runs were lost, failed or retried.
ReRunsKeepTheRules ==
    acts = 0 => \A r \in RunId : Produced(r) =>
        /\ pin.version = under[r]
        /\ \A q \in RunId : Produced(q) => under[q] = under[r]

\* The state a history of pins and unpins leaves the window in.
Leaves(e) == IF e.action = "pin" THEN e.version ELSE NoVersion

\* "Current state and its history cannot disagree": the pin in force is what the
\* last event recorded says, also when two unpins and a pin cross.
HistoryExplainsPin ==
    pin.version = IF events = <<>> THEN NoVersion ELSE Leaves(events[Len(events)])

\* Every workbook names the rules it came from, and they are on record to be read
\* and to be pinned again.
ProducedNamesItsRules ==
    \A r \in RunId : Produced(r) => under[r] \in recorded

-----------------------------------------------------------------------------
(* What they rest on.                                                      *)

\* A live job has a run, open until it is concluded.
LiveRunIsOpen ==
    /\ stage # "idle" => run \in RunId
    /\ stage \in {"started", "unpinned", "resolved", "attached", "settled"} => status[run] = "open"

\* Rules are on record from the moment a pin or a run holds them, and a run that has
\* attached them is under them.
RulesOnRecord ==
    /\ pin.version \in recorded \cup {NoVersion}
    /\ stage \in {"resolved", "attached", "settled"} => resolved.version \in recorded
    /\ stage \in {"attached", "settled"} => under[run] = resolved.version

\* As long as no administrator acted: the pin only appears, with the rules of the live
\* run, when that run produced a workbook, and whatever was produced is under it.
PinIsTheRule ==
    acts = 0 =>
        /\ \A a \in Admins : unpin[a] = NoVersion
        /\ stage = "unpinned" => pin = NoPin
        /\ stage \in {"resolved", "attached"} /\ ~resolved.pinned => pin = NoPin
        /\ stage \in {"resolved", "attached", "settled"} /\ resolved.pinned =>
               pin.version = resolved.version
        /\ stage = "settled" /\ verdict = "produced" => pin.version = resolved.version
        /\ \A r \in RunId : Produced(r) => pin.version = under[r]

PinInv ==
    /\ TypeOK
    /\ HistoryExplainsPin
    /\ ProducedNamesItsRules
    /\ LiveRunIsOpen
    /\ RulesOnRecord
    /\ PinIsTheRule

=============================================================================
