--------------------------- MODULE ConfigPinsProofs ---------------------------
(***************************************************************************)
(* Proofs about ConfigPins, for any texts of the contract, administrators  *)
(* and runs: what pins a window's rules, and what its workbooks name.      *)
(***************************************************************************)
EXTENDS ConfigPins, TLAPS

\* The numbers of runs.
LEMMA RunIdFacts ==
    /\ RunId \subseteq 0..MaxRuns /\ 0..MaxRuns \subseteq Int /\ 0 \notin RunId
    /\ \A r \in 0..MaxRuns : r < MaxRuns => r + 1 \in RunId
BY ConstantsAssumption DEF RunId

\* Before anything has run.
LEMMA InitPinInv == Init => PinInv
<1> SUFFICES ASSUME Init PROVE PinInv
  OBVIOUS
<1> USE ConstantsAssumption, RunIdFacts DEF Init, NoPin, Unresolved
<1>1. TypeOK
  BY DEF TypeOK, Stages, Admin
<1>2. HistoryExplainsPin /\ ProducedNamesItsRules /\ LiveRunIsOpen
  BY DEF HistoryExplainsPin, ProducedNamesItsRules, LiveRunIsOpen, Produced
<1>3. RulesOnRecord /\ PinIsTheRule
  BY DEF RulesOnRecord, PinIsTheRule, Produced
<1>4. QED
  BY <1>1, <1>2, <1>3 DEF PinInv

\* The history stays one of events.
LEMMA EventAdded ==
    ASSUME TypeOK, NEW action \in {"pin", "unpin"}, NEW v \in Versions
    PROVE  Append(events, Event(action, v)) \in Seq([action: {"pin", "unpin"}, version: Versions])
<1> DEFINE Events == [action: {"pin", "unpin"}, version: Versions]
<1>1. Event(action, v) \in Events
  BY DEF Event
<1>2. events \in Seq(Events)
  BY DEF TypeOK
<1> HIDE DEF Events
<1>3. Append(events, Event(action, v)) \in Seq(Events)
  BY <1>1, <1>2
<1>4. QED
  BY <1>3 DEF Events

\* Each variable keeps its type.
LEMMA StepTypeOK ==
    ASSUME TypeOK, LiveRunIsOpen, RulesOnRecord, [Next]_vars
    PROVE  TypeOK'
<1> USE ConstantsAssumption, RunIdFacts
    DEF TypeOK, LiveRunIsOpen, RulesOnRecord, Stages, pinVars, adminVars, runVars, NoPin, Unresolved, Admin
<1>1. ASSUME NEW v \in Versions, ChangeContract(v) PROVE TypeOK'
  BY <1>1 DEF ChangeContract
<1>2. ASSUME NEW v \in Versions, AdminPin(v) PROVE TypeOK'
  BY <1>2, EventAdded DEF AdminPin, Pin
<1>3. ASSUME NEW a \in Admins, SelectPin(a) PROVE TypeOK'
  BY <1>3 DEF SelectPin
<1>4. ASSUME NEW a \in Admins, DeletePin(a) PROVE TypeOK'
  <2>1. unpin[a] \in Versions
    BY <1>4 DEF DeletePin
  <2>2. events' \in Seq([action: {"pin", "unpin"}, version: Versions])
    BY <1>4, <2>1, EventAdded DEF DeletePin
  <2>3. QED
    BY <1>4, <2>2 DEF DeletePin
<1>5. CASE StartRun
  BY <1>5 DEF StartRun, Begin
<1>6. CASE RetryRun
  BY <1>6 DEF RetryRun, Begin
<1>7. CASE LookUpPin
  BY <1>7 DEF LookUpPin
<1>8. CASE ResolveCurrent
  BY <1>8 DEF ResolveCurrent
<1>9. ASSUME NEW outcome \in {"produced", "hard_stop"}, AttachConfig(outcome)
      PROVE  TypeOK'
  BY <1>9 DEF AttachConfig
<1>10. CASE SettleConfig
  <2>1. run \in RunId /\ resolved.version \in Versions
    BY <1>10 DEF SettleConfig
  <2>2. events' \in Seq([action: {"pin", "unpin"}, version: Versions])
    BY <1>10, <2>1, EventAdded DEF SettleConfig, Pin
  <2>3. pin' \in [version: Versions, by: RunId \cup {0}] \cup {pin}
    BY <1>10, <2>1 DEF SettleConfig, Pin
  <2>4. QED
    BY <1>10, <2>2, <2>3 DEF SettleConfig
<1>11. CASE FinishRun
  BY <1>11 DEF FinishRun
<1>12. CASE FailRun
  BY <1>12 DEF FailRun
<1>13. CASE FinishJob
  BY <1>13 DEF FinishJob
<1>14. CASE LoseWorker
  BY <1>14 DEF LoseWorker
<1>15. CASE ReclaimRun
  BY <1>15 DEF ReclaimRun
<1>16. CASE UNCHANGED vars
  BY <1>16 DEF vars
<1>17. QED
  BY <1>1, <1>2, <1>3, <1>4, <1>5, <1>6, <1>7, <1>8,
     <1>9, <1>10, <1>11, <1>12, <1>13, <1>14, <1>15, <1>16 DEF Next, RunStep

\* A pin, and a pin that is removed, is the last event recorded.
LEMMA StepHistory ==
    ASSUME TypeOK, HistoryExplainsPin, [Next]_vars
    PROVE  HistoryExplainsPin'
<1> USE DEF HistoryExplainsPin, Leaves, Event, pinVars
<1>0. events \in Seq([action: {"pin", "unpin"}, version: Versions])
  BY DEF TypeOK
<1>1. \A e : events' = Append(events, e) => events' # <<>> /\ events'[Len(events')] = e
  BY <1>0
<1>2. ASSUME NEW v, NEW by, Pin(v, by) PROVE HistoryExplainsPin'
  BY <1>1, <1>2 DEF Pin
<1>3. ASSUME NEW a \in Admins, DeletePin(a) PROVE HistoryExplainsPin'
  BY <1>1, <1>3 DEF DeletePin, NoPin
<1>4. CASE UNCHANGED <<pin, events>>
  BY <1>4
<1>5. (\E v, by : Pin(v, by)) \/ (\E a \in Admins : DeletePin(a)) \/ UNCHANGED <<pin, events>>
  BY DEF Next, RunStep, ChangeContract, AdminPin, SelectPin, StartRun, RetryRun, Begin, LookUpPin,
         ResolveCurrent, AttachConfig, SettleConfig, FinishRun, FailRun, FinishJob, LoseWorker,
         ReclaimRun, vars, pinVars
<1>6. QED
  BY <1>2, <1>3, <1>4, <1>5

\* A run is open until it is concluded.
LEMMA StepOpen ==
    ASSUME TypeOK, LiveRunIsOpen, [Next]_vars
    PROVE  LiveRunIsOpen'
<1> USE ConstantsAssumption, RunIdFacts DEF TypeOK, LiveRunIsOpen, runVars
<1>1. ASSUME NEW v \in Versions, ChangeContract(v) PROVE LiveRunIsOpen'
  BY <1>1 DEF ChangeContract
<1>2. ASSUME NEW v \in Versions, AdminPin(v) PROVE LiveRunIsOpen'
  BY <1>2 DEF AdminPin, Pin
<1>3. ASSUME NEW a \in Admins, SelectPin(a) PROVE LiveRunIsOpen'
  BY <1>3 DEF SelectPin
<1>4. ASSUME NEW a \in Admins, DeletePin(a) PROVE LiveRunIsOpen'
  BY <1>4 DEF DeletePin
<1>5. CASE StartRun
  BY <1>5 DEF StartRun, Begin
<1>6. CASE RetryRun
  BY <1>6 DEF RetryRun, Begin
<1>7. CASE LookUpPin
  BY <1>7 DEF LookUpPin
<1>8. CASE ResolveCurrent
  BY <1>8 DEF ResolveCurrent
<1>9. ASSUME NEW outcome \in {"produced", "hard_stop"}, AttachConfig(outcome)
      PROVE  LiveRunIsOpen'
  BY <1>9 DEF AttachConfig
<1>10. CASE SettleConfig
  BY <1>10 DEF SettleConfig, Pin, Pins
<1>11. CASE FinishRun
  BY <1>11 DEF FinishRun
<1>12. CASE FailRun
  BY <1>12 DEF FailRun
<1>13. CASE FinishJob
  BY <1>13 DEF FinishJob
<1>14. CASE LoseWorker
  BY <1>14 DEF LoseWorker
<1>15. CASE ReclaimRun
  BY <1>15 DEF ReclaimRun
<1>16. CASE UNCHANGED vars
  BY <1>16 DEF vars
<1>17. QED
  BY <1>1, <1>2, <1>3, <1>4, <1>5, <1>6, <1>7, <1>8,
     <1>9, <1>10, <1>11, <1>12, <1>13, <1>14, <1>15, <1>16 DEF Next, RunStep

\* Rules are recorded before a run holds them, and a run's rules are attached before it
\* may conclude with a workbook.
LEMMA StepRecord ==
    ASSUME TypeOK, LiveRunIsOpen, RulesOnRecord, ProducedNamesItsRules, [Next]_vars
    PROVE  RulesOnRecord' /\ ProducedNamesItsRules'
<1> USE ConstantsAssumption, RunIdFacts
    DEF TypeOK, LiveRunIsOpen, RulesOnRecord, ProducedNamesItsRules, Produced, pinVars, adminVars, runVars,
        NoPin, Unresolved
<1>1. ASSUME NEW v \in Versions, ChangeContract(v) PROVE RulesOnRecord' /\ ProducedNamesItsRules'
  BY <1>1 DEF ChangeContract
<1>2. ASSUME NEW v \in Versions, AdminPin(v) PROVE RulesOnRecord' /\ ProducedNamesItsRules'
  BY <1>2 DEF AdminPin, Pin
<1>3. ASSUME NEW a \in Admins, SelectPin(a) PROVE RulesOnRecord' /\ ProducedNamesItsRules'
  BY <1>3 DEF SelectPin
<1>4. ASSUME NEW a \in Admins, DeletePin(a) PROVE RulesOnRecord' /\ ProducedNamesItsRules'
  BY <1>4 DEF DeletePin
<1>5. CASE StartRun
  BY <1>5 DEF StartRun, Begin
<1>6. CASE RetryRun
  BY <1>6 DEF RetryRun, Begin
<1>7. CASE LookUpPin
  BY <1>7 DEF LookUpPin
<1>8. CASE ResolveCurrent
  BY <1>8 DEF ResolveCurrent
<1>9. ASSUME NEW outcome \in {"produced", "hard_stop"}, AttachConfig(outcome)
      PROVE  RulesOnRecord' /\ ProducedNamesItsRules'
  BY <1>9 DEF AttachConfig
<1>10. CASE SettleConfig
  BY <1>10 DEF SettleConfig, Pin, Pins
<1>11. CASE FinishRun
  BY <1>11 DEF FinishRun
<1>12. CASE FailRun
  BY <1>12 DEF FailRun
<1>13. CASE FinishJob
  BY <1>13 DEF FinishJob
<1>14. CASE LoseWorker
  BY <1>14 DEF LoseWorker
<1>15. CASE ReclaimRun
  BY <1>15 DEF ReclaimRun
<1>16. CASE UNCHANGED vars
  BY <1>16 DEF vars
<1>17. QED
  BY <1>1, <1>2, <1>3, <1>4, <1>5, <1>6, <1>7, <1>8,
     <1>9, <1>10, <1>11, <1>12, <1>13, <1>14, <1>15, <1>16 DEF Next, RunStep

\* Without an administrator, only a run that found no pin pins.
LEMMA StepRule ==
    ASSUME TypeOK, LiveRunIsOpen, RulesOnRecord, ProducedNamesItsRules, PinIsTheRule, [Next]_vars
    PROVE  PinIsTheRule'
<1> USE ConstantsAssumption, RunIdFacts
    DEF TypeOK, LiveRunIsOpen, RulesOnRecord, ProducedNamesItsRules, Produced, PinIsTheRule, pinVars,
        adminVars, runVars, NoPin, Unresolved
<1>1. ASSUME NEW v \in Versions, ChangeContract(v) PROVE PinIsTheRule'
  BY <1>1 DEF ChangeContract
<1>2. ASSUME NEW v \in Versions, AdminPin(v) PROVE PinIsTheRule'
  BY <1>2 DEF AdminPin, Pin
<1>3. ASSUME NEW a \in Admins, SelectPin(a) PROVE PinIsTheRule'
  BY <1>3 DEF SelectPin
<1>4. ASSUME NEW a \in Admins, DeletePin(a) PROVE PinIsTheRule'
  BY <1>4 DEF DeletePin
<1>5. CASE StartRun
  BY <1>5 DEF StartRun, Begin
<1>6. CASE RetryRun
  BY <1>6 DEF RetryRun, Begin
<1>7. CASE LookUpPin
  BY <1>7 DEF LookUpPin
<1>8. CASE ResolveCurrent
  BY <1>8 DEF ResolveCurrent
<1>9. ASSUME NEW outcome \in {"produced", "hard_stop"}, AttachConfig(outcome)
      PROVE  PinIsTheRule'
  BY <1>9 DEF AttachConfig
<1>10. CASE SettleConfig
  BY <1>10 DEF SettleConfig, Pin, Pins
<1>11. CASE FinishRun
  BY <1>11 DEF FinishRun
<1>12. CASE FailRun
  BY <1>12 DEF FailRun
<1>13. CASE FinishJob
  BY <1>13 DEF FinishJob
<1>14. CASE LoseWorker
  BY <1>14 DEF LoseWorker
<1>15. CASE ReclaimRun
  BY <1>15 DEF ReclaimRun
<1>16. CASE UNCHANGED vars
  BY <1>16 DEF vars
<1>17. QED
  BY <1>1, <1>2, <1>3, <1>4, <1>5, <1>6, <1>7, <1>8,
     <1>9, <1>10, <1>11, <1>12, <1>13, <1>14, <1>15, <1>16 DEF Next, RunStep

LEMMA StepPinInv == PinInv /\ [Next]_vars => PinInv'
BY StepTypeOK, StepHistory, StepOpen, StepRecord, StepRule DEF PinInv

\* The invariant holds of the window for ever.
THEOREM PinInvariant == Spec => []PinInv
<1>1. QED
  BY InitPinInv, StepPinInv, PTL DEF Spec

\* Every variable keeps its type; above all, a pin and its events only ever name texts
\* the contract takes.
THEOREM TypeCorrect == Spec => []TypeOK
<1>1. PinInv => TypeOK
  BY DEF PinInv
<1>2. QED
  BY <1>1, PinInvariant, PTL

\* Defect 2.5, for any number of runs, changes of the contract, failures and retries:
\* without an administrator's act every workbook of a window comes from one set of rules.
THEOREM RulesKept == Spec => []ReRunsKeepTheRules
<1>1. PinInv => ReRunsKeepTheRules
  BY DEF PinInv, PinIsTheRule, ReRunsKeepTheRules
<1>2. QED
  BY <1>1, PinInvariant, PTL

\* The pin and its history agree, whichever unpins and pins cross.
THEOREM HistoryAgrees == Spec => []HistoryExplainsPin
<1>1. PinInv => HistoryExplainsPin
  BY DEF PinInv
<1>2. QED
  BY <1>1, PinInvariant, PTL

\* A workbook's rules are on record.
THEOREM RulesRecorded == Spec => []ProducedNamesItsRules
<1>1. PinInv => ProducedNamesItsRules
  BY DEF PinInv
<1>2. QED
  BY <1>1, PinInvariant, PTL

=============================================================================
