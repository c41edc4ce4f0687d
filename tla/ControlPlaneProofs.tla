------------------------- MODULE ControlPlaneProofs -------------------------
(***************************************************************************)
(* Theorems about the parts that keep a source running: the incident       *)
(* controller (IncidentController) and the schedule, runs and readiness    *)
(* row of a bulk source (BulkSource), for every value of their constants.  *)
(***************************************************************************)
EXTENDS IncidentController, BulkSource, FiniteSetTheorems, SequenceTheorems, TLAPS

-----------------------------------------------------------------------------
(* The incident controller.                                                *)

LEMMA NoBatchFacts == DOMAIN NoBatch = {} /\ NoBatch \in [DOMAIN NoBatch -> Incidents]
  BY DEF NoBatch

\* An incident is a row with a status, so it is not the missing row.
LEMMA IncidentOpened == \A e \in Incidents : e # NoIncident
  BY DEF Incidents, NoIncident, IncidentStatuses, TerminalStatuses, ActionableStatuses

\* The domain of a kind that waits for its source is never changed: its
\* incidents wait for the source from their detection to their end.
Owned(e) == e.kind \in Waits => e.owner = "SOURCE_OWNED"

LEMMA OwnedWaits ==
    ASSUME NEW e \in Incidents, Owned(e)
    PROVE  SourceWait(e) <=> e.kind \in Waits
  BY DEF Owned, SourceWait

\* What is charged for a row: at most "lost" playbooks are not.
Charged(e, ran, lost) ==
    /\ ~SourceWait(e) => ran <= e.attempts + lost
    /\ SourceWait(e) => e.attempts = 0

\* The batch holds live rows of the table, as they are until each is processed.
BatchOK ==
    /\ stage # "processing" => draft = NoBatch
    /\ \A i \in DOMAIN draft :
          /\ Live(i) /\ Owned(draft[i])
          /\ draft[i].kind = incidents[i].kind
          /\ i \in todo => draft[i] = incidents[i]

\* The breaker: a row of the table may miss the charge of the batch in flight.
ChargesOK ==
    \A i \in Slots :
        /\ ~Opened(i) => playbooks[i] = 0
        /\ Opened(i) =>
             /\ Owned(incidents[i])
             /\ Charged(Drafted(i), playbooks[i], kills + refused)
             /\ Charged(incidents[i], playbooks[i],
                        kills + refused + (IF i \in DOMAIN draft \ todo THEN 1 ELSE 0))

IncidentsInv ==
    /\ IncidentsTypeOK /\ BatchOK /\ ChargesOK
    /\ kills \in Nat /\ refused \in Nat

\* A failure is detected with nothing charged, and may wait for its source.
LEMMA NewIncidentOK ==
    ASSUME NEW k \in Kinds
    PROVE  /\ NewIncident(k) \in Incidents /\ Owned(NewIncident(k))
           /\ NewIncident(k).attempts = 0
  <1> DEFINE st == IF k \in Waits THEN "WAITING_SOURCE" ELSE "OPEN"
             heal == ~paused /\ k \notin Level0
  <1>1. st \in IncidentStatuses /\ heal \in BOOLEAN
    BY DEF IncidentStatuses, ActionableStatuses
  <1>2. Domain[k] \in Domains /\ 0 \in 0..PolicyAttempts
        /\ (k \in Waits => Domain[k] = "SOURCE_OWNED")
    BY IncidentsAssumption
  <1>3. NewIncident(k) = [kind |-> k, owner |-> Domain[k], status |-> st, attempts |-> 0,
                          due |-> TRUE, heal |-> heal, asked |-> FALSE, branch |-> FALSE]
    BY DEF NewIncident
  <1> HIDE DEF st, heal
  <1> QED
    BY <1>1, <1>2, <1>3 DEF Incidents, Owned

LEMMA IncidentsInitInv == IncidentsInit => IncidentsInv
  <1> SUFFICES ASSUME IncidentsInit PROVE IncidentsInv
    OBVIOUS
  <1>1. ASSUME NEW k \in Waits
        PROVE  LET e == [NewIncident(k) EXCEPT !.status = "AUTO_REPAIR_EXHAUSTED",
                                               !.due = FALSE]
               IN  e \in Incidents /\ Owned(e) /\ e.attempts = 0
    <2>1. k \in Kinds /\ "AUTO_REPAIR_EXHAUSTED" \in IncidentStatuses
      BY IncidentsAssumption DEF IncidentStatuses
    <2>2. \A e \in Incidents : \A s \in IncidentStatuses :
            LET f == [e EXCEPT !.status = s, !.due = FALSE]
            IN  /\ f \in Incidents /\ f.attempts = e.attempts
                /\ f.kind = e.kind /\ f.owner = e.owner
      BY DEF Incidents
    <2> QED
      BY <2>1, <2>2, NewIncidentOK DEF Owned
  <1>0. /\ draft = NoBatch /\ todo = {} /\ kills = 0 /\ refused = 0
        /\ playbooks = [i \in Slots |-> 0]
    BY DEF IncidentsInit
  <1>2. \A i \in Slots : incidents[i] = NoIncident
           \/ (incidents[i] \in Incidents /\ Owned(incidents[i]) /\ incidents[i].attempts = 0)
    BY <1>1 DEF IncidentsInit
  <1>3. incidents = [i \in Slots |-> incidents[i]]
    BY DEF IncidentsInit
  <1>4. IncidentsTypeOK
    BY <1>2, <1>3, NoBatchFacts DEF IncidentsInit, IncidentsTypeOK
  <1>5. BatchOK
    BY NoBatchFacts DEF IncidentsInit, BatchOK
  <1>6. ChargesOK
    <2> SUFFICES ASSUME NEW i \in Slots
                 PROVE  /\ ~Opened(i) => playbooks[i] = 0
                        /\ Opened(i) =>
                             /\ Owned(incidents[i])
                             /\ Charged(Drafted(i), playbooks[i], kills + refused)
                             /\ Charged(incidents[i], playbooks[i], kills + refused
                                  + (IF i \in DOMAIN draft \ todo THEN 1 ELSE 0))
      BY DEF ChargesOK
    <2>1. Drafted(i) = incidents[i] /\ playbooks[i] = 0 /\ kills + refused = 0
          /\ i \notin DOMAIN draft \ todo
      BY <1>0, NoBatchFacts DEF Drafted
    <2> QED
      BY <1>2, <2>1 DEF Opened, Charged
  <1> QED
    BY <1>4, <1>5, <1>6 DEF IncidentsInv, IncidentsInit

\* What is resolved or cancelled is not written again.
SettledStay == \A i \in Slots : Opened(i) /\ ~Live(i) => incidents'[i] = incidents[i]

\* Live rows outside the batch are rewritten: status, flags, at most the owner.
LEMMA RowsRewritten ==
    ASSUME IncidentsInv,
           incidents' = [i \in Slots |-> incidents'[i]],
           \A i \in Slots :
              \/ incidents'[i] = incidents[i]
              \/ /\ i \notin DOMAIN draft /\ Live(i) /\ incidents'[i] \in Incidents
                 /\ incidents'[i].kind = incidents[i].kind
                 /\ incidents'[i].attempts = incidents[i].attempts
                 /\ incidents'[i].owner \in {incidents[i].owner, "SOURCE_OWNED"},
           {rowError', runError'} \subseteq Kinds \cup {NoFault}, paused' \in BOOLEAN,
           stage' \in {"idle", "detected", "normalized", "verified", "processing"},
           stage' # "processing" => draft = NoBatch,
           UNCHANGED <<draft, todo, playbooks, refused, kills>>
    PROVE  IncidentsInv' /\ SettledStay
  <1> USE DEF IncidentsInv
  <1>1. \A i \in Slots : Opened(i) => incidents[i] \in Incidents
    BY DEF IncidentsTypeOK, Opened
  <1>2. \A i \in Slots : /\ Opened(i)' <=> Opened(i)
                         /\ incidents'[i] \in Incidents \cup {NoIncident}
    BY IncidentOpened DEF Opened, Live, IncidentsTypeOK
  <1>3. IncidentsTypeOK'
    BY <1>2 DEF IncidentsTypeOK
  <1>4. BatchOK'
    BY DEF BatchOK, Live, Opened, IncidentsTypeOK
  <1>5. ASSUME NEW i \in Slots, Opened(i)
        PROVE  /\ Owned(incidents'[i])
               /\ Charged(incidents'[i], playbooks[i],
                          kills + refused + (IF i \in DOMAIN draft \ todo THEN 1 ELSE 0))
               /\ Charged(Drafted(i)', playbooks[i], kills + refused)
    <2>1. /\ Owned(incidents[i])
          /\ Charged(incidents[i], playbooks[i],
                     kills + refused + (IF i \in DOMAIN draft \ todo THEN 1 ELSE 0))
          /\ Charged(Drafted(i), playbooks[i], kills + refused)
      BY <1>5 DEF ChargesOK
    <2>2. CASE incidents'[i] = incidents[i]
      BY <2>1, <2>2 DEF Drafted
    <2>3. CASE /\ i \notin DOMAIN draft /\ incidents'[i] \in Incidents
               /\ incidents'[i].kind = incidents[i].kind
               /\ incidents'[i].attempts = incidents[i].attempts
               /\ incidents'[i].owner \in {incidents[i].owner, "SOURCE_OWNED"}
      <3>1. Owned(incidents'[i])
        BY <2>1, <2>3 DEF Owned
      <3>2. SourceWait(incidents'[i]) <=> SourceWait(incidents[i])
        BY <1>1, <1>5, <2>1, <2>3, <3>1, OwnedWaits
      <3>3. Drafted(i) = incidents[i] /\ Drafted(i)' = incidents'[i]
        BY <2>3 DEF Drafted
      <3> QED
        BY <2>1, <2>3, <3>1, <3>2, <3>3 DEF Charged
    <2> QED
      BY <2>2, <2>3
  <1>6. ChargesOK'
    BY <1>2, <1>5 DEF ChargesOK
  <1>7. SettledStay
    BY DEF SettledStay
  <1> QED
    BY <1>3, <1>4, <1>6, <1>7

LEMMA IncidentFields ==
    ASSUME NEW e \in Incidents
    PROVE  /\ e.kind \in Kinds /\ e.owner \in Domains /\ e.status \in IncidentStatuses
           /\ e.attempts \in 0..PolicyAttempts /\ e.due \in BOOLEAN /\ e.heal \in BOOLEAN
           /\ e.asked \in BOOLEAN /\ e.branch \in BOOLEAN
  BY DEF Incidents

\* The owner writes one live row that is not in the batch.
LEMMA OwnerStep ==
    ASSUME IncidentsInv, NEW i \in Slots, Live(i), NEW e \in Incidents,
           NEW p \in BOOLEAN, OwnerUpdates(i, e, p),
           e.kind = incidents[i].kind, e.attempts = incidents[i].attempts,
           e.owner \in {incidents[i].owner, "SOURCE_OWNED"}
    PROVE  IncidentsInv' /\ SettledStay
  <1>1. /\ i \notin DOMAIN draft /\ incidents' = [incidents EXCEPT ![i] = e] /\ paused' = p
        /\ UNCHANGED <<rowError, runError, stage, draft, todo, playbooks, refused, kills>>
    BY DEF OwnerUpdates, RowFree
  <1>2. /\ incidents' = [j \in Slots |-> incidents'[j]] /\ incidents'[i] = e
        /\ \A j \in Slots : j # i => incidents'[j] = incidents[j]
    BY <1>1 DEF IncidentsInv, IncidentsTypeOK
  <1>3. /\ {rowError', runError'} \subseteq Kinds \cup {NoFault}
        /\ stage' \in {"idle", "detected", "normalized", "verified", "processing"}
        /\ stage' # "processing" => draft = NoBatch
    BY <1>1 DEF IncidentsInv, IncidentsTypeOK, BatchOK
  <1> QED
    BY <1>1, <1>2, <1>3, RowsRewritten

OwnerActs(i) == \/ CheckSourceNow(i) \/ RunAutoHeal(i) \/ PauseAutoRepair(i)
                \/ ResumeAutoRepair(i) \/ MarkSourceOwned(i) \/ RequestEngineering(i)
                \/ CancelPending(i)

LEMMA OwnerActsStep ==
    ASSUME IncidentsInv, NEW i \in Slots, OwnerActs(i)
    PROVE  IncidentsInv' /\ SettledStay
  <1> DEFINE e == incidents[i]
  <1>1. Live(i) /\ e \in Incidents /\ paused \in BOOLEAN
    BY DEF OwnerActs, CheckSourceNow, RunAutoHeal, PauseAutoRepair, ResumeAutoRepair,
       MarkSourceOwned, RequestEngineering, CancelPending, Live, Opened, IncidentsInv,
       IncidentsTypeOK
  <1>2. {"OPEN", "WAITING_SOURCE", "CANCELLED"} \subseteq IncidentStatuses
        /\ "SOURCE_OWNED" \in Domains
    BY DEF IncidentStatuses, ActionableStatuses, TerminalStatuses, Domains
  <1> DEFINE Fits(f) == /\ f \in Incidents /\ f.kind = e.kind /\ f.attempts = e.attempts
                        /\ f.owner \in {e.owner, "SOURCE_OWNED"}
  <1>3. ASSUME NEW f, Fits(f), NEW p \in BOOLEAN, OwnerUpdates(i, f, p)
        PROVE  IncidentsInv' /\ SettledStay
    BY <1>1, <1>3, OwnerStep
  <1> HIDE DEF e
  <1>4. Fits([e EXCEPT !.status = "WAITING_SOURCE", !.heal = TRUE, !.due = TRUE])
    BY <1>1, <1>2 DEF Incidents
  <1>5. Fits([e EXCEPT !.status = "OPEN", !.due = TRUE])
    BY <1>1, <1>2 DEF Incidents
  <1>6. Fits([e EXCEPT !.heal = FALSE]) /\ Fits([e EXCEPT !.heal = TRUE, !.due = TRUE])
    BY <1>1, <1>2 DEF Incidents
  <1>7. Fits([e EXCEPT !.owner = "SOURCE_OWNED", !.status = "WAITING_SOURCE", !.due = TRUE])
    BY <1>1, <1>2 DEF Incidents
  <1>8. Fits([e EXCEPT !.status = "OPEN", !.asked = TRUE, !.due = TRUE])
    BY <1>1, <1>2 DEF Incidents
  <1>9. Fits([e EXCEPT !.status = "CANCELLED"])
    BY <1>1, <1>2 DEF Incidents
  <1> HIDE DEF Fits
  <1>10. CASE CheckSourceNow(i)
    BY <1>1, <1>3, <1>4, <1>10 DEF CheckSourceNow, e
  <1>11. CASE RunAutoHeal(i)
    BY <1>1, <1>3, <1>5, <1>11 DEF RunAutoHeal, e
  <1>12. CASE PauseAutoRepair(i) \/ ResumeAutoRepair(i)
    BY <1>1, <1>3, <1>6, <1>12 DEF PauseAutoRepair, ResumeAutoRepair, e
  <1>13. CASE MarkSourceOwned(i)
    BY <1>1, <1>3, <1>7, <1>13 DEF MarkSourceOwned, e
  <1>14. CASE RequestEngineering(i)
    BY <1>1, <1>3, <1>8, <1>14 DEF RequestEngineering, e
  <1>15. CASE CancelPending(i)
    BY <1>1, <1>3, <1>9, <1>15 DEF CancelPending, e
  <1> QED
    BY <1>10, <1>11, <1>12, <1>13, <1>14, <1>15 DEF OwnerActs

\* The source fails, shows its failure or recovers; a delay ends.
LEMMA SourceFaultStep ==
    ASSUME IncidentsInv,
           \/ \E k \in Kinds : FailRun(k)
           \/ ShowRunError \/ SourceRecovers
           \/ \E i \in Slots : DelayEnds(i)
    PROVE  IncidentsInv' /\ SettledStay
  <1> USE DEF IncidentsInv
  <1>0. /\ incidents = [i \in Slots |-> incidents[i]]
        /\ stage \in {"idle", "detected", "normalized", "verified", "processing"}
        /\ stage # "processing" => draft = NoBatch
        /\ {rowError, runError} \subseteq Kinds \cup {NoFault} /\ paused \in BOOLEAN
    BY DEF IncidentsTypeOK, BatchOK
  <1>1. CASE (\E k \in Kinds : FailRun(k)) \/ ShowRunError \/ SourceRecovers
    <2>1. /\ {rowError', runError'} \subseteq Kinds \cup {NoFault}
          /\ UNCHANGED <<incidents, paused, stage, draft, todo, playbooks, refused, kills>>
      BY <1>0, <1>1 DEF FailRun, ShowRunError, SourceRecovers
    <2> QED
      BY <1>0, <2>1, RowsRewritten
  <1>2. ASSUME NEW i \in Slots, DelayEnds(i) PROVE IncidentsInv' /\ SettledStay
    <2>1. /\ Live(i) /\ i \notin DOMAIN draft /\ incidents[i] \in Incidents
          /\ incidents' = [incidents EXCEPT ![i].due = TRUE]
          /\ UNCHANGED <<rowError, runError, paused, stage, draft, todo, playbooks,
                         refused, kills>>
      BY <1>2 DEF DelayEnds, Live, Opened, IncidentsTypeOK
    <2>2. \A e \in Incidents : LET f == [e EXCEPT !.due = TRUE]
            IN  f \in Incidents /\ f.kind = e.kind /\ f.attempts = e.attempts
                /\ f.owner = e.owner
      BY DEF Incidents
    <2>3. /\ incidents'[i] = [incidents[i] EXCEPT !.due = TRUE]
          /\ \A j \in Slots : j # i => incidents'[j] = incidents[j]
          /\ incidents' = [j \in Slots |-> incidents'[j]]
      BY <1>0, <2>1
    <2>4. /\ incidents'[i] \in Incidents /\ incidents'[i].kind = incidents[i].kind
          /\ incidents'[i].attempts = incidents[i].attempts
          /\ incidents'[i].owner = incidents[i].owner
      BY <2>1, <2>2, <2>3
    <2> QED
      BY <1>0, <2>1, <2>3, <2>4, RowsRewritten
  <1> QED
    BY <1>1, <1>2

\* A poll normalises and resolves before it locks its batch.
LEMMA SweepStep ==
    ASSUME IncidentsInv, Normalize \/ VerifyActive
    PROVE  IncidentsInv' /\ SettledStay
  <1> USE DEF IncidentsInv
  <1>1. /\ draft = NoBatch /\ stage' \in {"normalized", "verified"}
        /\ UNCHANGED <<rowError, runError, paused, draft, todo, playbooks, refused, kills>>
        /\ incidents' = [i \in Slots |-> incidents'[i]]
        /\ {rowError', runError'} \subseteq Kinds \cup {NoFault} /\ paused' \in BOOLEAN
    BY DEF Normalize, VerifyActive, Moves, BatchOK, IncidentsTypeOK
  <1>2. {"WAITING_SOURCE", "RESOLVED"} \subseteq IncidentStatuses
    BY DEF IncidentStatuses, ActionableStatuses, TerminalStatuses
  <1>3. \A e \in Incidents : \A f \in {[e EXCEPT !.status = "WAITING_SOURCE", !.due = TRUE],
                                       [e EXCEPT !.status = "RESOLVED"]} :
           f \in Incidents /\ f.kind = e.kind /\ f.attempts = e.attempts /\ f.owner = e.owner
    BY <1>2 DEF Incidents
  <1>4. \A i \in Slots :
          \/ incidents'[i] = incidents[i]
          \/ Live(i) /\ incidents'[i] \in {[incidents[i] EXCEPT !.status = "WAITING_SOURCE",
                                                               !.due = TRUE],
                                          [incidents[i] EXCEPT !.status = "RESOLVED"]}
    BY DEF Normalize, VerifyActive
  <1>5. \A i \in Slots : Live(i) => incidents[i] \in Incidents
    BY DEF Live, Opened, IncidentsTypeOK
  <1>6. \A i \in Slots :
          \/ incidents'[i] = incidents[i]
          \/ /\ i \notin DOMAIN draft /\ Live(i) /\ incidents'[i] \in Incidents
             /\ incidents'[i].kind = incidents[i].kind
             /\ incidents'[i].attempts = incidents[i].attempts
             /\ incidents'[i].owner \in {incidents[i].owner, "SOURCE_OWNED"}
    <2> SUFFICES ASSUME NEW i \in Slots, incidents'[i] # incidents[i]
                 PROVE  /\ i \notin DOMAIN draft /\ Live(i) /\ incidents'[i] \in Incidents
                        /\ incidents'[i].kind = incidents[i].kind
                        /\ incidents'[i].attempts = incidents[i].attempts
                        /\ incidents'[i].owner \in {incidents[i].owner, "SOURCE_OWNED"}
      OBVIOUS
    <2>1. Live(i) /\ incidents[i] \in Incidents
          /\ incidents'[i] \in {[incidents[i] EXCEPT !.status = "WAITING_SOURCE",
                                                    !.due = TRUE],
                                [incidents[i] EXCEPT !.status = "RESOLVED"]}
      BY <1>4, <1>5
    <2>2. /\ incidents'[i] \in Incidents /\ incidents'[i].kind = incidents[i].kind
          /\ incidents'[i].attempts = incidents[i].attempts
          /\ incidents'[i].owner = incidents[i].owner
      BY <1>3, <2>1
    <2>3. i \notin DOMAIN draft
      BY <1>1, NoBatchFacts
    <2> QED
      BY <2>1, <2>2, <2>3
  <1> QED
    BY <1>1, <1>6, RowsRewritten

\* A failure that is not known opens the first free row.
LEMMA DetectStep ==
    ASSUME IncidentsInv, Detect
    PROVE  IncidentsInv' /\ SettledStay
  <1> USE DEF IncidentsInv
  <1>1. /\ draft = NoBatch /\ stage' = "detected"
        /\ UNCHANGED <<rowError, runError, paused, draft, todo, playbooks, refused, kills>>
        /\ {rowError', runError'} \subseteq Kinds \cup {NoFault} /\ paused' \in BOOLEAN
        /\ incidents = [i \in Slots |-> incidents[i]]
    BY DEF Detect, Moves, BatchOK, IncidentsTypeOK
  <1>2. CASE UNCHANGED incidents
    BY <1>1, <1>2, RowsRewritten
  <1>3. CASE Fault # NoFault /\ \E i \in Slots :
               /\ {j \in Slots : Opened(j)} = 1..i - 1
               /\ incidents' = [incidents EXCEPT ![i] = NewIncident(Fault)]
    <2>1. PICK i \in Slots : /\ {j \in Slots : Opened(j)} = 1..i - 1
                             /\ incidents' = [incidents EXCEPT ![i] = NewIncident(Fault)]
      BY <1>3
    <2>2. ~Opened(i)
      BY <2>1, IncidentsAssumption DEF Slots
    <2> DEFINE new == NewIncident(Fault)
    <2>3. new \in Incidents /\ Owned(new) /\ new.attempts = 0
      <3>1. Fault \in Kinds
        BY <1>3 DEF Fault, IncidentsTypeOK
      <3> QED
        BY <3>1, NewIncidentOK
    <2> HIDE DEF new
    <2>4. incidents'[i] = new /\ \A j \in Slots : j # i => incidents'[j] = incidents[j]
      BY <2>1 DEF IncidentsTypeOK, new
    <2>5. IncidentsTypeOK'
      BY <1>1, <2>1, <2>3 DEF IncidentsTypeOK, new
    <2>6. BatchOK'
      BY <1>1, NoBatchFacts DEF BatchOK
    <2>7. playbooks[i] = 0
      BY <2>2 DEF ChargesOK
    <2>8. ChargesOK'
      <3> SUFFICES ASSUME NEW j \in Slots
                   PROVE  /\ ~Opened(j)' => playbooks[j] = 0
                          /\ Opened(j)' =>
                               /\ Owned(incidents'[j])
                               /\ Charged(incidents'[j], playbooks[j], kills + refused)
                               /\ Charged(incidents'[j], playbooks[j], kills + refused + 0)
        BY <1>1, NoBatchFacts DEF ChargesOK, Drafted
      <3>1. CASE j = i
        BY <2>3, <2>4, <2>7, <3>1 DEF Charged
      <3>2. CASE j # i
        <4>1. Drafted(j) = incidents[j] /\ j \notin DOMAIN draft
          BY <1>1, NoBatchFacts DEF Drafted
        <4> QED
          BY <2>4, <3>2, <4>1 DEF ChargesOK, Opened
      <3> QED
        BY <3>1, <3>2
    <2>9. SettledStay
      BY <2>2, <2>4 DEF SettledStay
    <2> QED
      BY <1>1, <2>5, <2>6, <2>8, <2>9
  <1> QED
    BY <1>2, <1>3 DEF Detect

\* The batch begins as the rows it locks.
LEMMA LockBatchStep ==
    ASSUME IncidentsInv, LockBatch
    PROVE  IncidentsInv' /\ SettledStay
  <1> USE DEF IncidentsInv
  <1>1. /\ stage' = "processing" /\ todo' = DueIncidents
        /\ draft' = [i \in DueIncidents |-> incidents[i]]
        /\ UNCHANGED <<rowError, runError, incidents, paused, playbooks, refused, kills>>
    BY DEF LockBatch, Moves
  <1>2. /\ DOMAIN draft' = DueIncidents /\ DueIncidents \subseteq Slots
        /\ \A i \in DueIncidents : Live(i) /\ incidents[i] \in Incidents
    BY <1>1 DEF DueIncidents, Live, Opened, ActionableStatuses, TerminalStatuses,
       IncidentsTypeOK
  <1>3. IncidentsTypeOK'
    BY <1>1, <1>2 DEF IncidentsTypeOK
  <1>4. \A i \in Slots : Opened(i) => Owned(incidents[i])
    BY DEF ChargesOK
  <1>5. BatchOK'
    BY <1>1, <1>2, <1>4 DEF BatchOK, Live, Opened
  <1>6. draft = NoBatch
    BY DEF LockBatch, Moves, BatchOK
  <1>7. \A i \in Slots : /\ Drafted(i) = incidents[i] /\ Drafted(i)' = incidents[i]
                         /\ i \notin DOMAIN draft \ todo /\ i \notin DOMAIN draft' \ todo'
    BY <1>1, <1>2, <1>6, NoBatchFacts DEF Drafted
  <1>8. ChargesOK'
    BY <1>1, <1>7 DEF ChargesOK, Opened
  <1>9. SettledStay
    BY <1>1 DEF SettledStay
  <1> QED
    BY <1>1, <1>3, <1>5, <1>8, <1>9

\* A batch that ends without its commit loses at most one charge of each row.
LEMMA LostBatchStep ==
    ASSUME IncidentsInv, RefuseBatch \/ Kill
    PROVE  IncidentsInv' /\ SettledStay
  <1> USE DEF IncidentsInv
  <1>1. /\ stage' = "idle" /\ draft' = NoBatch /\ todo' = {}
        /\ UNCHANGED <<rowError, runError, incidents, paused, playbooks>>
        /\ kills' \in Nat /\ refused' \in Nat
        /\ kills' + refused' = kills + refused + 1
    BY DEF RefuseBatch, Kill, EndBatch
  <1>2. DOMAIN draft' = {}
    BY <1>1, NoBatchFacts
  <1>3. IncidentsTypeOK' /\ BatchOK'
    BY <1>1, NoBatchFacts DEF IncidentsTypeOK, BatchOK
  <1>4. ChargesOK'
    <2> SUFFICES ASSUME NEW i \in Slots, Opened(i)
                 PROVE  Charged(incidents[i], playbooks[i], kills' + refused')
      BY <1>1, <1>2 DEF ChargesOK, Opened, Drafted, Charged
    <2>1. PICK lost \in {0, 1} : Charged(incidents[i], playbooks[i], kills + refused + lost)
      BY DEF ChargesOK
    <2>2. playbooks[i] \in Nat /\ incidents[i].attempts \in Nat
      BY IncidentFields, IncidentsAssumption DEF Opened, IncidentsTypeOK
    <2>3. /\ kills + refused + lost <= kills' + refused'
          /\ kills + refused + lost \in Nat /\ kills' + refused' \in Nat
      <3>1. kills \in Nat /\ refused \in Nat /\ lost \in Nat /\ lost <= 1
        OBVIOUS
      <3>2. /\ kills' \in Nat /\ refused' \in Nat
            /\ kills' + refused' = kills + refused + 1
        BY <1>1
      <3>3. \A k, r, kk, rr, m \in Nat :
              kk + rr = k + r + 1 /\ m <= 1 =>
                /\ k + r + m <= kk + rr
                /\ k + r + m \in Nat /\ kk + rr \in Nat
        OBVIOUS
      <3> QED
        BY <3>1, <3>2, <3>3
    <2>4. \A a, p, m, n \in Nat : p <= a + m /\ m <= n => p <= a + n
      OBVIOUS
    <2> HIDE DEF IncidentsInv
    <2> QED
      BY <2>1, <2>2, <2>3, <2>4 DEF Charged
  <1>5. SettledStay
    BY <1>1 DEF SettledStay
  <1> QED
    BY <1>1, <1>3, <1>4, <1>5

\* A commit writes rows that were live when they were locked, and whom nobody
\* else could write since.
LEMMA CommitBatchStep ==
    ASSUME IncidentsInv, CommitBatch
    PROVE  IncidentsInv' /\ SettledStay
  <1> USE DEF IncidentsInv
  <1>1. /\ stage' = "idle" /\ draft' = NoBatch /\ todo' = {} /\ todo = {}
        /\ UNCHANGED <<rowError, runError, paused, playbooks, kills, refused>>
        /\ incidents' = [i \in Slots |-> Drafted(i)]
    BY DEF CommitBatch, EndBatch
  <1>2. \A i \in Slots : /\ Drafted(i) \in Incidents \cup {NoIncident}
                         /\ (Drafted(i) # NoIncident <=> Opened(i))
    BY IncidentOpened DEF Drafted, Opened, Live, BatchOK, IncidentsTypeOK
  <1>3. IncidentsTypeOK' /\ BatchOK'
    BY <1>1, <1>2, NoBatchFacts DEF IncidentsTypeOK, BatchOK
  <1>4. ChargesOK'
    <2> SUFFICES ASSUME NEW i \in Slots
                 PROVE  /\ ~Opened(i) => playbooks[i] = 0
                        /\ Opened(i) => /\ Owned(Drafted(i))
                                        /\ Charged(Drafted(i), playbooks[i], kills + refused)
                                        /\ Charged(Drafted(i), playbooks[i],
                                                   kills + refused + 0)
      <3>1. \A j \in Slots : Drafted(j)' = Drafted(j) /\ (Opened(j)' <=> Opened(j))
                             /\ incidents'[j] = Drafted(j) /\ j \notin DOMAIN draft' \ todo'
        BY <1>1, <1>2, NoBatchFacts DEF Drafted, Opened
      <3> QED
        BY <1>1, <3>1 DEF ChargesOK
    <2>1. Opened(i) => Owned(Drafted(i))
      BY DEF ChargesOK, BatchOK, Drafted
    <2> QED
      BY <2>1 DEF ChargesOK
  <1>5. SettledStay
    BY <1>1 DEF SettledStay, Drafted, BatchOK
  <1> QED
    BY <1>1, <1>3, <1>4, <1>5

\* What processing makes of a row of the batch: the same kind and owner, and one
\* more attempt if a playbook of its own ran.
LEMMA ProcessedRow ==
    ASSUME NEW e \in Incidents, Owned(e), AttemptsLeft(e)
    PROVE  LET f == AfterPlaybook(e)
           IN  /\ f \in Incidents /\ f.kind = e.kind /\ f.owner = e.owner
               /\ f.attempts = IF SourceWait(e) THEN e.attempts ELSE e.attempts + 1
  <1> DEFINE n == IF SourceWait(e) THEN e.attempts ELSE e.attempts + 1
  <1>1. n \in 0..PolicyAttempts
    BY IncidentFields, IncidentsAssumption DEF AttemptsLeft
  <1> HIDE DEF n
  <1>2. \A st \in IncidentStatuses :
          LET f == [[e EXCEPT !.attempts = n, !.due = FALSE] EXCEPT !.status = st]
          IN  /\ f \in Incidents /\ f.kind = e.kind /\ f.owner = e.owner /\ f.attempts = n
    BY <1>1 DEF Incidents
  <1>3. {"RESOLVED", "WAITING_SOURCE", "RETRY_SCHEDULED", "AUTO_REPAIR_EXHAUSTED"}
          \subseteq IncidentStatuses
    BY DEF IncidentStatuses, ActionableStatuses, TerminalStatuses
  <1>4. \E st \in {"RESOLVED", "WAITING_SOURCE", "RETRY_SCHEDULED", "AUTO_REPAIR_EXHAUSTED"} :
          AfterPlaybook(e) = [[e EXCEPT !.attempts = n, !.due = FALSE] EXCEPT !.status = st]
    BY DEF AfterPlaybook, n
  <1>5. /\ AfterPlaybook(e) \in Incidents /\ AfterPlaybook(e).kind = e.kind
        /\ AfterPlaybook(e).owner = e.owner /\ AfterPlaybook(e).attempts = n
    BY <1>2, <1>3, <1>4
  <1> QED
    BY <1>5 DEF n

LEMMA ProcessStep ==
    ASSUME IncidentsInv, NEW i \in Slots, ProcessIncident(i)
    PROVE  IncidentsInv' /\ SettledStay
  <1> USE DEF IncidentsInv
  <1> DEFINE e == draft[i]
             tries == ~paused /\ e.heal /\ ~e.asked /\ AttemptsLeft(e)
             f == draft'[i]
  <1>1. /\ stage = "processing" /\ i \in todo /\ todo' = todo \ {i}
        /\ UNCHANGED <<rowError, runError, incidents, paused, stage, refused, kills>>
    BY DEF ProcessIncident
  <1>2. /\ i \in DOMAIN draft /\ e \in Incidents /\ Owned(e) /\ e = incidents[i] /\ Opened(i)
    BY <1>1 DEF BatchOK, IncidentsTypeOK, Live
  <1>3. /\ DOMAIN draft' = DOMAIN draft /\ draft' = [j \in DOMAIN draft |-> draft'[j]]
        /\ \A j \in DOMAIN draft : j # i => draft'[j] = draft[j]
    BY <1>2 DEF ProcessIncident, IncidentsTypeOK
  <1>4. f = CASE ~(~paused /\ e.heal) -> e
              [] (~paused /\ e.heal) /\ e.asked ->
                   [e EXCEPT !.status = "AGENT_UNAVAILABLE", !.branch = TRUE, !.asked = FALSE]
              [] tries -> AfterPlaybook(e)
              [] OTHER -> [e EXCEPT !.status = "AUTO_REPAIR_EXHAUSTED"]
    BY <1>2 DEF ProcessIncident, IncidentsTypeOK
  <1>5. \/ playbooks' = playbooks
        \/ tries /\ playbooks' = [playbooks EXCEPT ![i] = @ + 1]
    BY DEF ProcessIncident
  <1>6. /\ f \in Incidents /\ f.kind = e.kind /\ f.owner = e.owner
        /\ f.attempts = IF tries /\ ~SourceWait(e) THEN e.attempts + 1 ELSE e.attempts
    <2>1. {"AGENT_UNAVAILABLE", "AUTO_REPAIR_EXHAUSTED"} \subseteq IncidentStatuses
      BY DEF IncidentStatuses
    <2>2. \A x \in Incidents :
            \A y \in {x, [x EXCEPT !.status = "AGENT_UNAVAILABLE", !.branch = TRUE,
                                   !.asked = FALSE],
                      [x EXCEPT !.status = "AUTO_REPAIR_EXHAUSTED"]} :
              y \in Incidents /\ y.kind = x.kind /\ y.owner = x.owner
              /\ y.attempts = x.attempts
      BY <2>1 DEF Incidents
    <2>3. CASE tries
      <3>1. f = AfterPlaybook(e)
        <4> HIDE DEF e, f
        <4> QED
          BY <1>4, <2>3
      <3> QED
        BY <1>2, <2>3, <3>1, ProcessedRow
    <2>4. CASE ~tries
      <3>1. f \in {e, [e EXCEPT !.status = "AGENT_UNAVAILABLE", !.branch = TRUE,
                                !.asked = FALSE],
                   [e EXCEPT !.status = "AUTO_REPAIR_EXHAUSTED"]}
        <4> HIDE DEF e, f
        <4> QED
          BY <1>4, <2>4
      <3> HIDE DEF e, f, tries
      <3> QED
        BY <1>2, <2>2, <2>4, <3>1
    <2> QED
      BY <2>3, <2>4
  <1> HIDE DEF f, e, tries
  <1>7. playbooks' \in [Slots -> Nat]
        /\ (\A j \in Slots : j # i => playbooks'[j] = playbooks[j])
        /\ (playbooks'[i] = playbooks[i] \/ (tries /\ playbooks'[i] = playbooks[i] + 1))
        /\ playbooks[i] \in Nat
    <2>1. playbooks \in [Slots -> Nat]
      BY DEF IncidentsTypeOK
    <2> HIDE DEF IncidentsInv
    <2>2. CASE playbooks' = playbooks
      BY <2>1, <2>2
    <2>3. CASE tries /\ playbooks' = [playbooks EXCEPT ![i] = @ + 1]
      <3>1. playbooks[i] \in Nat /\ playbooks[i] + 1 \in Nat
        BY <2>1
      <3>2. \A j \in Slots : playbooks'[j] = IF j = i THEN playbooks[i] + 1 ELSE playbooks[j]
        BY <2>1, <2>3
      <3>3. playbooks' \in [Slots -> Nat]
        BY <2>1, <2>3, <3>1
      <3> QED
        BY <2>3, <3>1, <3>2, <3>3
    <2> QED
      BY <1>5, <2>2, <2>3
  <1>8. IncidentsTypeOK'
    BY <1>1, <1>3, <1>6, <1>7 DEF IncidentsTypeOK, f
  <1>9. BatchOK'
    BY <1>1, <1>2, <1>3, <1>6 DEF BatchOK, Live, Opened, Owned, f, e
  <1>10. ChargesOK'
    <2>1. ASSUME NEW j \in Slots, j # i
          PROVE  /\ Drafted(j)' = Drafted(j) /\ playbooks'[j] = playbooks[j]
                 /\ j \in DOMAIN draft' \ todo' <=> j \in DOMAIN draft \ todo
      BY <1>1, <1>3, <1>7, <2>1 DEF Drafted
    <2>2. Drafted(i) = e /\ Drafted(i)' = f /\ i \in DOMAIN draft' \ todo'
          /\ i \notin DOMAIN draft \ todo
      BY <1>1, <1>2, <1>3 DEF Drafted, e, f
    <2>3. /\ Owned(e) /\ Charged(e, playbooks[i], kills + refused)
      BY <1>2, <2>2 DEF ChargesOK
    <2>4. SourceWait(f) <=> SourceWait(e)
      BY <1>6 DEF SourceWait
    <2>5. e.attempts \in Nat
      BY <1>2, IncidentFields, IncidentsAssumption
    <2>6. /\ Charged(f, playbooks'[i], kills + refused)
          /\ Charged(e, playbooks'[i], kills + refused + 1)
      BY <1>6, <1>7, <2>3, <2>4, <2>5 DEF Charged
    <2>7. ASSUME NEW j \in Slots
          PROVE  /\ ~Opened(j) => playbooks'[j] = 0
                 /\ Opened(j) =>
                      /\ Owned(incidents[j])
                      /\ Charged(Drafted(j)', playbooks'[j], kills + refused)
                      /\ Charged(incidents[j], playbooks'[j], kills + refused
                           + (IF j \in DOMAIN draft' \ todo' THEN 1 ELSE 0))
      <3>1. CASE j = i
        BY <1>2, <2>2, <2>3, <2>6, <3>1
      <3>2. CASE j # i
        BY <2>1, <3>2 DEF ChargesOK
      <3> QED
        BY <3>1, <3>2
    <2> QED
      BY <1>1, <2>7 DEF ChargesOK, Opened
  <1>11. SettledStay
    BY <1>1 DEF SettledStay
  <1> QED
    BY <1>1, <1>8, <1>9, <1>10, <1>11

LEMMA IncidentsStep ==
    ASSUME IncidentsInv, [IncidentsNext]_incidentVars
    PROVE  IncidentsInv' /\ SettledStay
  <1>1. CASE UNCHANGED incidentVars
    <2>1. UNCHANGED <<rowError, runError, incidents, paused, stage, draft, todo, playbooks,
                      refused, kills>>
      BY <1>1 DEF incidentVars
    <2>2. /\ incidents = [i \in Slots |-> incidents[i]]
          /\ stage \in {"idle", "detected", "normalized", "verified", "processing"}
          /\ stage # "processing" => draft = NoBatch
          /\ {rowError, runError} \subseteq Kinds \cup {NoFault} /\ paused \in BOOLEAN
      BY DEF IncidentsInv, IncidentsTypeOK, BatchOK
    <2> QED
      BY <2>1, <2>2, RowsRewritten
  <1> QED
    BY <1>1, SourceFaultStep, DetectStep, SweepStep, LockBatchStep, CommitBatchStep,
       LostBatchStep, ProcessStep, OwnerActsStep DEF IncidentsNext, OwnerActs

THEOREM IncidentsInvariant == IncidentsSpec => []IncidentsInv
  <1>1. IncidentsInv /\ [IncidentsNext]_incidentVars => IncidentsInv'
    BY IncidentsStep
  <1> QED
    BY <1>1, IncidentsInitInv, PTL DEF IncidentsSpec

\* The circuit breaker: however polls, kills, refused batches and owners
\* interleave, the playbooks that ran for an incident were charged, except the
\* last one of each batch that was lost, and an incident that waits for its
\* source is never charged (process_incident, perform_incident_action).
THEOREM BreakerHolds == IncidentsSpec => []AttemptsHold
  <1>1. IncidentsInv => AttemptsHold
    <2> SUFFICES ASSUME IncidentsInv, NEW i \in Slots, Opened(i)
                 PROVE  /\ ~SourceWait(Drafted(i)) =>
                              playbooks[i] <= Drafted(i).attempts + kills + refused
                        /\ SourceWait(Drafted(i)) => Drafted(i).attempts = 0
      BY DEF AttemptsHold
    <2>1. Drafted(i) \in Incidents
      BY DEF IncidentsInv, IncidentsTypeOK, Drafted, Opened
    <2>2. /\ Drafted(i).attempts \in Nat /\ playbooks[i] \in Nat
          /\ kills \in Nat /\ refused \in Nat
      BY <2>1, IncidentFields, IncidentsAssumption DEF IncidentsInv, IncidentsTypeOK
    <2>3. Charged(Drafted(i), playbooks[i], kills + refused)
      BY DEF IncidentsInv, ChargesOK
    <2> QED
      BY <2>2, <2>3 DEF Charged
  <1> QED
    BY <1>1, IncidentsInvariant, PTL

\* An incident that was resolved or cancelled is not written again: the rows of
\* a batch were live when it locked them and nobody ends them under its hands.
THEOREM SettledIncidentsStay == IncidentsSpec => SettledIncidents
  <1>1. IncidentsInv /\ [IncidentsNext]_incidentVars => [SettledStay]_incidentVars
    BY IncidentsStep
  <1> QED
    BY <1>1, IncidentsInvariant, PTL DEF IncidentsSpec, SettledIncidents, SettledStay

-----------------------------------------------------------------------------
(* The jobs of a bulk source.                                              *)

JobRows == [status : JobStatus, attempts : 0..MaxAttempts, until : Untils,
            number : 0..Cardinality(Keys)]

LEMMA KeyFacts ==
    /\ \A k \in Keys : /\ k.kind \in {"release", "check", "replay"}
                       /\ k.release \in Releases
                       /\ k.kind = "release" => k = ReleaseKey(k.release)
    /\ \A r \in Releases : /\ ReleaseKey(r) \in Keys /\ ReleaseKey(r).kind = "release"
                           /\ ReleaseKey(r).release = r
    /\ \A r \in Releases : \A d \in 1..MaxDay :
          CheckKey(r, d) \in Keys /\ CheckKey(r, d).release = r /\ CheckKey(r, d).kind = "check"
    /\ \A r \in Releases : \A c \in Enriched :
          ReplayKey(r, c) \in Keys /\ ReplayKey(r, c).release = r
          /\ ReplayKey(r, c).kind = "replay"
  BY DEF Keys, ReleaseKeys, CheckKeys, ReplayKeys, ReleaseKey, CheckKey, ReplayKey

LEMMA KeysFinite == IsFiniteSet(Keys)
  <1>1. IsFiniteSet(Releases) /\ IsFiniteSet(1..MaxDay) /\ IsFiniteSet(Enriched)
    BY FS_Interval, SourceAssumption DEF Releases
  <1>2. IsFiniteSet(ReleaseKeys)
    <2> DEFINE key == [r \in Releases |-> ReleaseKey(r)]
    <2>1. key \in Surjection(Releases, ReleaseKeys)
      BY DEF Surjection, ReleaseKeys, ReleaseKey
    <2> QED
      BY <1>1, <2>1, FS_Surjection
  <1>3. IsFiniteSet(CheckKeys)
    <2> DEFINE key == [p \in Releases \X (1..MaxDay) |-> CheckKey(p[1], p[2])]
    <2>1. IsFiniteSet(Releases \X (1..MaxDay))
      BY <1>1, FS_Product
    <2>2. key \in [Releases \X (1..MaxDay) -> CheckKeys]
      BY DEF CheckKeys, CheckKey
    <2>3. ASSUME NEW k \in CheckKeys
          PROVE  \E p \in Releases \X (1..MaxDay) : key[p] = k
      <3>1. k = CheckKey(k.release, k.day) /\ k.release \in Releases /\ k.day \in 1..MaxDay
        BY DEF CheckKeys, CheckKey
      <3>2. <<k.release, k.day>> \in Releases \X (1..MaxDay)
        BY <3>1
      <3>3. key[<<k.release, k.day>>] = k
        BY <3>1, <3>2
      <3> QED
        BY <3>2, <3>3
    <2>4. key \in Surjection(Releases \X (1..MaxDay), CheckKeys)
      BY <2>2, <2>3 DEF Surjection
    <2> QED
      BY <2>1, <2>4, FS_Surjection
  <1>4. IsFiniteSet(ReplayKeys)
    <2> DEFINE key == [p \in Releases \X Enriched |-> ReplayKey(p[1], p[2])]
    <2>1. IsFiniteSet(Releases \X Enriched)
      BY <1>1, FS_Product
    <2>2. key \in [Releases \X Enriched -> ReplayKeys]
      BY DEF ReplayKeys, ReplayKey
    <2>3. ASSUME NEW k \in ReplayKeys
          PROVE  \E p \in Releases \X Enriched : key[p] = k
      <3>1. k = ReplayKey(k.release, k.company) /\ k.release \in Releases
            /\ k.company \in Enriched
        BY DEF ReplayKeys, ReplayKey
      <3>2. <<k.release, k.company>> \in Releases \X Enriched
        BY <3>1
      <3>3. key[<<k.release, k.company>>] = k
        BY <3>1, <3>2
      <3> QED
        BY <3>2, <3>3
    <2>4. key \in Surjection(Releases \X Enriched, ReplayKeys)
      BY <2>2, <2>3 DEF Surjection
    <2> QED
      BY <2>1, <2>4, FS_Surjection
  <1> QED
    BY <1>2, <1>3, <1>4, FS_Union DEF Keys

\* A job that was never claimed, or is in its first attempt.
FirstAttempt(r) ==
    LET j == jobs[ReleaseKey(r)]
    IN  j.attempts = 0 \/ (j.status = "running" /\ j.attempts = 1)

Asked(r) == jobs[ReleaseKey(r)].status # "absent"
Succeeded(r) == jobs[ReleaseKey(r)].status = "succeeded"

\* The rows of the queue.  Numbers are given in the order of insertion; a job
\* that waits may be tried once more.
JobsOK ==
    /\ jobs \in [Keys -> JobRows]
    /\ running \in Keys \cup {NoJob}
    /\ \A k \in Keys :
          /\ k \in Present => jobs[k].number <= Cardinality(Present)
          /\ jobs[k].status = "running" <=> running = k
          /\ jobs[k].attempts = 0 => jobs[k].status \in {"absent", "queued"}
          /\ jobs[k].status \in {"queued", "backoff"} => jobs[k].attempts < MaxAttempts

\* A check and the fetch of a release carry a passport that was shown.
PassportsOK ==
    /\ page \in Passports /\ page \in shown /\ shown \subseteq Passports
    /\ \A k \in Present : k.kind # "replay" =>
          [release |-> k.release, until |-> jobs[k].until] \in shown

\* As long as the agency takes no release back, the jobs of its releases are
\* created, and tried for the first time, in the order of the releases.
OrderOK ==
    /\ pointer \in 0..NumReleases /\ day \in 1..MaxDay
    /\ pointer # NoRelease => Succeeded(pointer)
    /\ ~withdrawn =>
         /\ \A k \in Present : k.release <= page.release
         /\ \A r1, r2 \in Releases : r1 < r2 /\ Asked(r1) /\ Asked(r2) =>
              /\ jobs[ReleaseKey(r1)].number < jobs[ReleaseKey(r2)].number
              /\ FirstAttempt(r1) => jobs[ReleaseKey(r2)].attempts = 0
    /\ ~withdrawn /\ ~overtaken => \A r \in Releases : Succeeded(r) => r <= pointer

QueueInv == JobsOK /\ PassportsOK /\ OrderOK

\* The readiness row and the run a sync has read.  Trouble of the schedule that
\* is younger than the last run stays recorded; what a run left behind is never
\* younger than that run; and the row says "checked" when no error is recorded.
ReadinessOK ==
    /\ clock \in Nat
    /\ lastRun \in RunEnd /\ lastRun.at <= clock
    /\ lastRun.outcome = "none" <=> lastRun.at = Never
    /\ syncing \in RunEnd /\ syncing.at <= lastRun.at
    /\ syncing.outcome = "none" <=> syncing.at = Never
    /\ syncing.at = lastRun.at /\ syncing # NoRun => syncing = lastRun
    /\ scheduleFailedAt \in 0..clock
    /\ scheduleFailedAt = lastRun.at => scheduleFailedAt = Never
    /\ dataset.errorAt \in Nat /\ dataset.successAt \in Nat
    /\ scheduleFailedAt > lastRun.at => dataset.errorAt = scheduleFailedAt
    /\ dataset.errorAt > lastRun.at => dataset.errorAt = scheduleFailedAt
    /\ dataset.errorAt = lastRun.at => lastRun.outcome # "succeeded"
    /\ dataset.successAt <= lastRun.at
    /\ dataset.successAt = lastRun.at => lastRun.outcome \in {"none", "succeeded"}
    /\ dataset.status = "checked" => dataset.errorAt = Never
    /\ dataset.status \in {"error", "access_pending"} => dataset.errorAt # Never

DatasetRows ==
    [auto : {"configured", "access_pending", "not_configured"},
     release : 0..NumReleases, until : Untils,
     status : {"checked", "error", "access_pending", "not_configured"},
     expected : 0..MaxDay + 1, retry : {"none", "waiting", "due"},
     errorAt : Nat, successAt : Nat]

\* What the source says of the companies, and what the row says of the source.
FactsOK ==
    /\ master \subseteq Companies
    /\ facts \in [Companies -> 0..NumReleases]
    /\ dataset \in DatasetRows
    /\ OneReleaseSpeaks

SourceInv == QueueInv /\ ReadinessOK /\ FactsOK

LEMMA PresentFinite ==
    /\ IsFiniteSet(Present) /\ Cardinality(Present) \in Nat
    /\ Cardinality(Present) <= Cardinality(Keys) /\ Cardinality(Keys) \in Nat
  <1>1. Present \in SUBSET Keys
    BY DEF Present
  <1> QED
    BY <1>1, KeysFinite, FS_Subset, FS_CardinalityType

\* One job changes its status, or is tried once more.
MovesTo(k, status, attempts) ==
    /\ jobs' \in [Keys -> JobRows]
    /\ \A o \in Keys : o # k => jobs'[o] = jobs[o]
    /\ jobs'[k].status = status /\ jobs'[k].attempts = attempts
    /\ jobs'[k].until = jobs[k].until /\ jobs'[k].number = jobs[k].number

LEMMA JobMoved ==
    ASSUME jobs \in [Keys -> JobRows], NEW k \in Keys, NEW s \in JobStatus,
           NEW n \in 0..MaxAttempts,
           jobs' = [jobs EXCEPT ![k] = [jobs[k] EXCEPT !.status = s, !.attempts = n]]
    PROVE  MovesTo(k, s, n)
  <1>1. \A e \in JobRows :
          LET f == [e EXCEPT !.status = s, !.attempts = n]
          IN  /\ f \in JobRows /\ f.status = s /\ f.attempts = n
              /\ f.until = e.until /\ f.number = e.number
    BY DEF JobRows
  <1> DEFINE f == [jobs[k] EXCEPT !.status = s, !.attempts = n]
  <1>2. /\ f \in JobRows /\ f.status = s /\ f.attempts = n
        /\ f.until = jobs[k].until /\ f.number = jobs[k].number
    BY <1>1
  <1> HIDE DEF f
  <1>3. jobs' = [jobs EXCEPT ![k] = f]
    BY DEF f
  <1> QED
    BY <1>2, <1>3 DEF MovesTo

\* The jobs that exist and what they stand for do not change with it.
LEMMA MovedKeeps ==
    ASSUME JobsOK, NEW k \in Keys, NEW s, NEW n, MovesTo(k, s, n),
           k \in Present, s # "absent"
    PROVE  /\ Present' = Present
           /\ \A o \in Keys : jobs'[o].number = jobs[o].number
                              /\ jobs'[o].until = jobs[o].until
           /\ \A r \in Releases : Asked(r)' <=> Asked(r)
  <1>1. \A o \in Keys : jobs'[o].status # "absent" <=> jobs[o].status # "absent"
    BY DEF MovesTo, Present
  <1>2. \A o \in Keys : jobs'[o].number = jobs[o].number /\ jobs'[o].until = jobs[o].until
    BY DEF MovesTo
  <1>3. Present' = Present
    BY <1>1 DEF Present
  <1>4. \A r \in Releases : Asked(r)' <=> Asked(r)
    BY <1>1, KeyFacts DEF Asked
  <1> QED
    BY <1>2, <1>3, <1>4

LEMMA MovedPassports ==
    ASSUME JobsOK, PassportsOK, NEW k \in Keys, NEW s, NEW n, MovesTo(k, s, n),
           k \in Present, s # "absent", UNCHANGED <<page, shown>>
    PROVE  PassportsOK'
  <1>1. Present' = Present /\ Present \subseteq Keys
    BY MovedKeeps DEF Present
  <1>2. \A o \in Keys : jobs'[o].until = jobs[o].until
    BY MovedKeeps
  <1> QED
    BY <1>1, <1>2 DEF PassportsOK

\* claim_next_job takes the oldest job, so no release is tried for the first time
\* while an earlier one waits for its first attempt.
LEMMA ClaimStep ==
    ASSUME QueueInv, NEW k \in Keys, Claim(k)
    PROVE  QueueInv'
  <1> USE DEF QueueInv
  <1> DEFINE n == jobs[k].attempts + 1
  <1>1. /\ running = NoJob /\ running' = k /\ jobs[k].status = "queued" /\ k \in Present
        /\ UNCHANGED <<page, day, pointer, shown, overtaken, withdrawn>>
    BY DEF Claim, NextInLane, Present, history
  <1>2. jobs[k] \in JobRows /\ n \in 1..MaxAttempts
    BY <1>1, SourceAssumption DEF JobsOK, JobRows
  <1>3. MovesTo(k, "running", n)
    <2>1. jobs' = [jobs EXCEPT ![k] = [jobs[k] EXCEPT !.status = "running", !.attempts = n]]
      BY DEF Claim, JobsOK
    <2> HIDE DEF n
    <2>2. n \in 0..MaxAttempts /\ "running" \in JobStatus
      BY <1>2, SourceAssumption DEF JobStatus
    <2> QED
      BY <1>2, <2>1, <2>2, JobMoved DEF JobsOK
  <1>4. /\ Present' = Present /\ Present \subseteq Keys
        /\ \A o \in Keys : jobs'[o].number = jobs[o].number
        /\ \A r \in Releases : Asked(r)' <=> Asked(r)
    BY <1>1, <1>3, MovedKeeps DEF Present
  <1>5. JobsOK'
    BY <1>1, <1>2, <1>3, <1>4, SourceAssumption DEF JobsOK, MovesTo
  <1>6. PassportsOK'
    BY <1>1, <1>3, MovedPassports
  <1>7. \A r \in Releases : Succeeded(r)' <=> Succeeded(r)
    BY <1>1, <1>3, KeyFacts DEF Succeeded, MovesTo
  <1>8. ASSUME ~withdrawn, NEW q \in Releases, NEW r \in Releases, q < r, Asked(q), Asked(r),
               FirstAttempt(q)'
        PROVE  jobs'[ReleaseKey(r)].attempts = 0
    <2>1. ReleaseKey(q) \in Keys /\ ReleaseKey(r) \in Keys /\ ReleaseKey(q) # ReleaseKey(r)
          /\ ReleaseKey(q).kind = "release" /\ ReleaseKey(r).kind = "release"
      BY <1>8, KeyFacts DEF Releases
    <2>2. FirstAttempt(q)
      BY <1>1, <1>2, <1>3, <1>8, <2>1 DEF FirstAttempt, MovesTo, JobRows
    <2>3. jobs[ReleaseKey(r)].attempts = 0
      BY <1>8, <2>2 DEF OrderOK
    <2>4. k # ReleaseKey(r)
      <3>1. SUFFICES ASSUME k = ReleaseKey(r) PROVE FALSE
        OBVIOUS
      <3>2. jobs[ReleaseKey(q)].status # "running"
        BY <1>1, <2>1, SourceAssumption DEF JobsOK
      <3>3. jobs[ReleaseKey(q)].attempts = 0
        BY <2>2, <3>2 DEF FirstAttempt
      <3>4. jobs[ReleaseKey(q)].status = "queued"
        BY <1>8, <2>1, <3>3 DEF JobsOK, Asked
      <3>5. jobs[k].number <= jobs[ReleaseKey(q)].number
        BY <2>1, <3>1, <3>4 DEF Claim, NextInLane
      <3>6. jobs[ReleaseKey(q)].number < jobs[k].number
        BY <1>8, <3>1 DEF OrderOK
      <3>7. jobs[ReleaseKey(q)].number \in Nat /\ jobs[k].number \in Nat
        BY <2>1 DEF JobsOK, JobRows
      <3> QED
        BY <3>5, <3>6, <3>7
    <2> QED
      BY <1>3, <2>1, <2>3, <2>4 DEF MovesTo
  <1>9. OrderOK'
    BY <1>1, <1>4, <1>7, <1>8, KeyFacts DEF OrderOK, Releases, NoRelease
  <1> QED
    BY <1>5, <1>6, <1>9

\* A job that ends its wait, or its run without publishing, changes no release
\* that waits for its first attempt.
LEMMA JobRests ==
    ASSUME QueueInv, NEW k \in Keys, NEW s \in JobStatus,
           MovesTo(k, s, jobs[k].attempts), k \in Present, s \notin {"absent", "running"},
           s \in {"queued", "backoff"} => jobs[k].attempts < MaxAttempts,
           jobs[k].status # "succeeded", jobs[k].attempts # 0,
           jobs[k].status = "running" => running' = NoJob,
           jobs[k].status # "running" => running' = running,
           s = "succeeded" /\ k.kind = "release" =>
              pointer' = k.release
              /\ (overtaken' = (overtaken \/ (k.release < pointer /\ jobs[k].attempts > 1)))
              /\ jobs[k].status = "running",
           ~(s = "succeeded" /\ k.kind = "release") => UNCHANGED <<pointer, overtaken>>,
           UNCHANGED <<page, day, shown, withdrawn>>
    PROVE  QueueInv'
  <1> USE DEF QueueInv
  <1>1. /\ Present' = Present /\ Present \subseteq Keys
        /\ \A o \in Keys : jobs'[o].number = jobs[o].number
        /\ \A r \in Releases : Asked(r)' <=> Asked(r)
    BY MovedKeeps DEF Present
  <1>2. jobs[k] \in JobRows
    BY DEF JobsOK
  <1>3. JobsOK'
    BY <1>1, <1>2, SourceAssumption DEF JobsOK, MovesTo
  <1>4. PassportsOK'
    BY MovedPassports
  <1>5. \A r \in Releases : /\ FirstAttempt(r)' => FirstAttempt(r)
                            /\ jobs'[ReleaseKey(r)].attempts = jobs[ReleaseKey(r)].attempts
    BY KeyFacts DEF FirstAttempt, MovesTo
  <1>6. CASE ~(s = "succeeded" /\ k.kind = "release")
    <2>1. \A r \in Releases : Succeeded(r)' <=> Succeeded(r)
      BY <1>6, KeyFacts DEF Succeeded, MovesTo
    <2>2. OrderOK'
      BY <1>1, <1>5, <1>6, <2>1, KeyFacts DEF OrderOK, Releases, NoRelease
    <2> QED
      BY <1>3, <1>4, <2>2
  <1>7. CASE s = "succeeded" /\ k.kind = "release"
    <2>1. /\ k.release \in Releases /\ k = ReleaseKey(k.release) /\ pointer' = k.release
          /\ jobs[k].attempts \in Nat
      BY <1>2, <1>7, KeyFacts DEF JobRows
    <2>2. \A r \in Releases : r # k.release => (Succeeded(r)' <=> Succeeded(r))
      <3>1. \A r \in Releases : r # k.release => ReleaseKey(r) # k /\ ReleaseKey(r) \in Keys
        BY KeyFacts
      <3> QED
        BY <3>1 DEF Succeeded, MovesTo
    <2>3. Succeeded(k.release)'
      BY <1>7, <2>1 DEF Succeeded, MovesTo
    <2>4. ASSUME ~withdrawn, ~overtaken', NEW r \in Releases, Succeeded(r)'
          PROVE  r <= k.release
      <3>0. /\ ~overtaken /\ ~(k.release < pointer /\ jobs[k].attempts > 1)
            /\ pointer \in Nat /\ k.release \in Nat /\ r \in Nat
        <4>1. overtaken' = (overtaken \/ (k.release < pointer /\ jobs[k].attempts > 1))
          BY <1>7
        <4>2. pointer \in Nat /\ k.release \in Nat /\ r \in Nat
          BY <2>1, SourceAssumption DEF OrderOK, Releases
        <4> DEFINE late == k.release < pointer /\ jobs[k].attempts > 1
        <4>3. ~overtaken /\ ~late
          <5> HIDE DEF late
          <5>1. overtaken' = (overtaken \/ late)
            BY <4>1 DEF late
          <5> QED
            BY <2>4, <5>1
        <4> QED
          BY <4>2, <4>3
      <3>1. CASE r = k.release
        BY <3>0, <3>1
      <3>2. CASE r # k.release /\ pointer <= k.release
        <4>1. Succeeded(r)
          BY <2>2, <2>4, <3>2
        <4>2. r <= pointer
          BY <2>4, <3>0, <4>1 DEF OrderOK
        <4> QED
          BY <3>0, <3>2, <4>2
      <3>3. CASE pointer > k.release
        <4>1. jobs[k].attempts = 1 /\ FirstAttempt(k.release)
          BY <1>7, <2>1, <3>0, <3>3 DEF FirstAttempt
        <4>2. pointer \in Releases /\ k.release < pointer /\ Succeeded(pointer)
          BY <2>1, <3>3 DEF OrderOK, Releases, NoRelease
        <4>3. Asked(pointer) /\ Asked(k.release)
          BY <2>1, <4>2 DEF Asked, Succeeded, Present
        <4>4. jobs[ReleaseKey(pointer)].attempts = 0
          BY <2>1, <2>4, <4>1, <4>2, <4>3 DEF OrderOK
        <4> QED
          BY <4>2, <4>4, KeyFacts DEF JobsOK, Succeeded
      <3> QED
        BY <3>0, <3>1, <3>2, <3>3
    <2>5. /\ pointer' \in 0..NumReleases /\ day' \in 1..MaxDay
          /\ pointer' # NoRelease => Succeeded(pointer)'
      BY <2>1, <2>3 DEF OrderOK, Releases, Succeeded
    <2>6. ~withdrawn => \A o \in Present : o.release <= page.release
      BY DEF OrderOK
    <2>7. \A q, r \in Releases : ~withdrawn /\ q < r /\ Asked(q)' /\ Asked(r)' =>
             /\ jobs'[ReleaseKey(q)].number < jobs'[ReleaseKey(r)].number
             /\ FirstAttempt(q)' => jobs'[ReleaseKey(r)].attempts = 0
      BY <1>1, <1>5, KeyFacts DEF OrderOK
    <2>8. OrderOK'
      BY <1>1, <2>1, <2>4, <2>5, <2>6, <2>7 DEF OrderOK
    <2> QED
      BY <1>3, <1>4, <2>8
  <1> QED
    BY <1>6, <1>7

LEMMA BackoffStep ==
    ASSUME QueueInv, NEW k \in Keys, BackoffEnds(k)
    PROVE  QueueInv'
  <1>1. /\ jobs[k].status = "backoff" /\ k \in Present
        /\ UNCHANGED <<running, page, day, pointer, shown, overtaken, withdrawn>>
    BY DEF BackoffEnds, Present, history
  <1>2. jobs \in [Keys -> JobRows] /\ jobs[k] \in JobRows
    BY DEF QueueInv, JobsOK
  <1>3. jobs[k].attempts \in 0..MaxAttempts /\ "queued" \in JobStatus
    BY <1>2 DEF JobRows, JobStatus
  <1>4. jobs' = [jobs EXCEPT ![k] = [jobs[k] EXCEPT !.status = "queued",
                                                   !.attempts = jobs[k].attempts]]
    BY <1>2 DEF BackoffEnds, JobRows
  <1>5. MovesTo(k, "queued", jobs[k].attempts)
    BY <1>2, <1>3, <1>4, JobMoved
  <1>6. jobs[k].attempts < MaxAttempts /\ jobs[k].attempts # 0
    BY <1>1 DEF QueueInv, JobsOK
  <1> QED
    BY <1>1, <1>3, <1>5, <1>6, JobRests

\* The run of a job ends: published, outdated, or failed.
LEMMA RunStep ==
    ASSUME QueueInv, NEW k \in Keys,
           \/ PublishRelease(k) \/ ConfirmRelease(k) \/ FillCompany(k) \/ ReplayOutdated(k)
           \/ \E kind \in {"failed", "access", "transient"} : RunFails(k, kind)
    PROVE  QueueInv'
  <1>1. PICK s \in {"succeeded", "failed", "backoff"}, out \in RunOutcomes :
          /\ RunEnds(k, out, s)
          /\ s = "backoff" => jobs[k].attempts < MaxAttempts
          /\ s = "succeeded" /\ k.kind = "release" =>
               pointer' = k.release
               /\ (overtaken' = (overtaken \/ (k.release < pointer /\ jobs[k].attempts > 1)))
          /\ ~(s = "succeeded" /\ k.kind = "release") => UNCHANGED <<pointer, overtaken>>
    BY DEF PublishRelease, ConfirmRelease, FillCompany, ReplayOutdated, RunFails, RunOutcomes
  <1>2. jobs \in [Keys -> JobRows] /\ jobs[k] \in JobRows
    BY DEF QueueInv, JobsOK
  <1>3. /\ running = k /\ running' = NoJob /\ jobs[k].status = "running" /\ k \in Present
        /\ UNCHANGED <<page, day, shown, withdrawn>> /\ jobs[k].attempts # 0
    BY <1>1 DEF RunEnds, QueueInv, JobsOK, Present
  <1>4. jobs[k].attempts \in 0..MaxAttempts /\ s \in JobStatus
    BY <1>2 DEF JobRows, JobStatus
  <1>5. jobs' = [jobs EXCEPT ![k] = [jobs[k] EXCEPT !.status = s,
                                                   !.attempts = jobs[k].attempts]]
    BY <1>1, <1>2 DEF RunEnds, JobRows
  <1>6. MovesTo(k, s, jobs[k].attempts)
    BY <1>2, <1>4, <1>5, JobMoved
  <1> QED
    BY <1>1, <1>3, <1>4, <1>6, JobRests

\* A job that did not exist is the youngest, and none for a release that was
\* taken back.
LEMMA EnqueueStep ==
    ASSUME QueueInv, NEW k \in Keys, jobs' = Enqueued(k, page.until),
           k.kind # "replay" => k.release = page.release,
           ~withdrawn => k.release <= page.release,
           k.kind = "release" => k.release = page.release,
           UNCHANGED <<running, page, day, pointer, shown, overtaken, withdrawn>>
    PROVE  QueueInv'
  <1> USE DEF QueueInv
  <1>1. CASE k \in Present
    <2>1. jobs' = jobs
      BY <1>1 DEF Enqueued
    <2> QED
      BY <2>1 DEF JobsOK, PassportsOK, OrderOK, Present, Succeeded, Asked, FirstAttempt
  <1>2. CASE k \notin Present
    <2> DEFINE n == Cardinality(Present) + 1
               row == [status |-> "queued", attempts |-> 0, until |-> page.until, number |-> n]
    <2>1. jobs' = [jobs EXCEPT ![k] = row]
      BY <1>2 DEF Enqueued
    <2>2. Cardinality(Present \cup {k}) = n /\ Cardinality(Present \cup {k}) \in Nat
          /\ n <= Cardinality(Keys) /\ n \in Nat
      <3>1. Present \cup {k} \in SUBSET Keys
        BY DEF Present
      <3> QED
        BY <1>2, <3>1, PresentFinite, KeysFinite, FS_AddElement, FS_Subset
    <2> HIDE DEF n
    <2>3. row \in JobRows
      BY <2>2, PresentFinite, SourceAssumption DEF JobRows, JobStatus, PassportsOK, Passports
    <2>4. /\ row.status = "queued" /\ row.attempts = 0 /\ row.until = page.until
          /\ row.number = n
      OBVIOUS
    <2> HIDE DEF row
    <2>5. /\ jobs' \in [Keys -> JobRows] /\ jobs'[k] = row
          /\ \A o \in Keys : o # k => jobs'[o] = jobs[o]
      BY <2>1, <2>3 DEF JobsOK
    <2>6. Present' = Present \cup {k}
      BY <2>4, <2>5 DEF Present
    <2>7. \A o \in Present : o # k /\ o \in Keys /\ jobs[o].number < n /\ jobs[o].number \in Nat
      <3>1. \A o \in Present : jobs[o].number \in Nat
        BY DEF JobsOK, JobRows, Present
      <3> QED
        BY <1>2, <3>1, PresentFinite DEF JobsOK, Present, n
    <2>8. JobsOK'
      <3>1. \A o \in Keys : o \in Present' => jobs'[o].number <= Cardinality(Present')
        BY <2>2, <2>4, <2>5, <2>6, <2>7
      <3>2. \A o \in Keys : jobs'[o].status = "running" <=> running = o
        BY <1>2, <2>4, <2>5, ZenonT(60) DEF JobsOK, Present
      <3>3. \A o \in Keys :
              /\ jobs'[o].attempts = 0 => jobs'[o].status \in {"absent", "queued"}
              /\ jobs'[o].status \in {"queued", "backoff"} => jobs'[o].attempts < MaxAttempts
        BY <2>4, <2>5, SourceAssumption DEF JobsOK
      <3> QED
        BY <2>5, <3>1, <3>2, <3>3 DEF JobsOK
    <2>9. PassportsOK'
      <3>1. page = [release |-> page.release, until |-> page.until]
        BY DEF PassportsOK, Passports
      <3> QED
        BY <2>4, <2>5, <2>6, <2>7, <3>1 DEF PassportsOK
    <2>10. \A r \in Releases : /\ Succeeded(r)' <=> Succeeded(r)
                               /\ Asked(r)' <=> Asked(r) \/ k = ReleaseKey(r)
      BY <1>2, <2>4, <2>5, KeyFacts DEF Succeeded, Asked, Present
    <2>11. ASSUME ~withdrawn, NEW q \in Releases, NEW r \in Releases, q < r,
                  Asked(q)', Asked(r)'
           PROVE  /\ jobs'[ReleaseKey(q)].number < jobs'[ReleaseKey(r)].number
                  /\ FirstAttempt(q)' => jobs'[ReleaseKey(r)].attempts = 0
      <3>1. ReleaseKey(q) \in Keys /\ ReleaseKey(r) \in Keys /\ ReleaseKey(q) # ReleaseKey(r)
            /\ ReleaseKey(q).release = q /\ ReleaseKey(r).release = r
            /\ ReleaseKey(q).kind = "release"
        BY <2>11, KeyFacts DEF Releases
      <3>2. CASE k = ReleaseKey(r)
        <4>1. ReleaseKey(q) \in Present
          BY <2>10, <2>11, <3>1, <3>2 DEF Asked, Present
        <4> QED
          BY <2>4, <2>5, <2>7, <3>1, <3>2, <4>1
      <3>3. CASE k = ReleaseKey(q)
        <4>1. ReleaseKey(r) \in Present
          BY <2>10, <2>11, <3>1, <3>3 DEF Asked, Present
        <4>2. r <= page.release /\ page.release = q
          BY <2>11, <3>1, <3>3, <4>1 DEF OrderOK
        <4> QED
          BY <2>11, <4>2, SourceAssumption DEF Releases
      <3>4. CASE k # ReleaseKey(q) /\ k # ReleaseKey(r)
        BY <2>5, <2>10, <2>11, <3>1, <3>4 DEF OrderOK, FirstAttempt
      <3> QED
        BY <3>2, <3>3, <3>4
    <2>12. OrderOK'
      BY <2>6, <2>10, <2>11 DEF OrderOK, Releases, NoRelease
    <2> QED
      BY <2>8, <2>9, <2>12
  <1> QED
    BY <1>1, <1>2

LEMMA ScheduleStep ==
    ASSUME QueueInv, ScheduleCheck \/ \E c \in Enriched : EnqueueReplay(c)
    PROVE  QueueInv'
  <1>1. page.release \in Releases
    BY DEF QueueInv, PassportsOK, Passports
  <1>2. CASE ScheduleCheck
    <2>1. WantedKey \in Keys /\ WantedKey.release = page.release
      BY <1>1, KeyFacts DEF WantedKey, QueueInv, OrderOK
    <2>2. page.release <= page.release
      BY <1>1, SourceAssumption DEF Releases
    <2> HIDE DEF WantedKey
    <2> QED
      BY <1>2, <2>1, <2>2, EnqueueStep DEF ScheduleCheck, history
  <1>3. ASSUME NEW c \in Enriched, EnqueueReplay(c)
        PROVE  QueueInv'
    <2>1. /\ pointer \in Releases /\ Succeeded(pointer)
      BY <1>3, SourceAssumption DEF EnqueueReplay, QueueInv, OrderOK, Releases, NoRelease
    <2>2. /\ ReplayKey(pointer, c) \in Keys /\ ReplayKey(pointer, c).release = pointer
          /\ ReplayKey(pointer, c).kind = "replay"
      BY <2>1, KeyFacts
    <2>3. ~withdrawn => pointer <= page.release
      BY <2>1, KeyFacts DEF QueueInv, OrderOK, Succeeded, Present
    <2> QED
      BY <1>3, <2>2, <2>3, EnqueueStep DEF EnqueueReplay, history
  <1> QED
    BY <1>2, <1>3

\* The agency offers another passport, or a day passes.
LEMMA PageStep ==
    ASSUME QueueInv, UNCHANGED <<jobs, running, pointer, overtaken>>, day' \in 1..MaxDay,
           \/ UNCHANGED <<page, shown, withdrawn>>
           \/ \E passport \in Passports :
                /\ page' = passport /\ shown' = shown \cup {passport}
                /\ withdrawn' = (withdrawn \/ passport.release < page.release)
    PROVE  QueueInv'
  <1> USE DEF QueueInv
  <1>1. Present' = Present /\ Present \subseteq Keys
    BY DEF Present
  <1>2. JobsOK'
    BY <1>1 DEF JobsOK
  <1>3. PassportsOK'
    BY <1>1 DEF PassportsOK
  <1>4. \A r \in Releases : /\ Succeeded(r)' <=> Succeeded(r)
                            /\ Asked(r)' <=> Asked(r)
                            /\ FirstAttempt(r)' <=> FirstAttempt(r)
    BY DEF Succeeded, Asked, FirstAttempt
  <1>5. ~withdrawn' => ~withdrawn /\ page'.release >= page.release
    <2>1. CASE UNCHANGED <<page, shown, withdrawn>>
      BY <2>1, SourceAssumption DEF PassportsOK, Passports, Releases
    <2>2. ASSUME NEW passport \in Passports, page' = passport,
                 withdrawn' = (withdrawn \/ passport.release < page.release)
          PROVE  ~withdrawn' => ~withdrawn /\ page'.release >= page.release
      <3>1. passport.release \in Nat /\ page.release \in Nat
        BY SourceAssumption DEF PassportsOK, Passports, Releases
      <3> DEFINE back == passport.release < page.release
      <3>2. ~withdrawn' => ~withdrawn /\ ~back
        <4> HIDE DEF back
        <4>1. withdrawn' = (withdrawn \/ back)
          BY <2>2 DEF back
        <4> QED
          BY <4>1
      <3> QED
        BY <2>2, <3>1, <3>2
    <2> QED
      BY <2>1, <2>2
  <1>6. ASSUME ~withdrawn', NEW k \in Present
        PROVE  k.release <= page'.release
    <2>1. k.release <= page.release /\ k.release \in Nat
      BY <1>1, <1>5, <1>6, KeyFacts, SourceAssumption DEF OrderOK, Releases
    <2>2. page.release \in Nat /\ page'.release \in Nat
      BY <1>3, SourceAssumption DEF PassportsOK, Passports, Releases
    <2> QED
      BY <1>5, <1>6, <2>1, <2>2
  <1>7. OrderOK'
    BY <1>1, <1>4, <1>5, <1>6 DEF OrderOK, Releases, NoRelease
  <1> QED
    BY <1>2, <1>3, <1>7

LEMMA QueueStep ==
    ASSUME QueueInv, [SourceNext]_sourceVars
    PROVE  QueueInv'
  <1>1. day \in 1..MaxDay
    BY DEF QueueInv, OrderOK
  <1>2. CASE UNCHANGED sourceVars
    BY <1>1, <1>2, PageStep DEF sourceVars, history
  <1>3. ASSUME NEW kind, ScheduleFails(kind) PROVE QueueInv'
    BY <1>1, <1>3, PageStep DEF ScheduleFails
  <1>4. ASSUME NEW c, Register(c) PROVE QueueInv'
    BY <1>1, <1>4, PageStep DEF Register, history
  <1>5. CASE BeginSync \/ EndSync \/ Activate \/ Deactivate \/ RetryDelayEnds
    <2>1. UNCHANGED <<jobs, running, pointer, overtaken, day, page, shown, withdrawn>>
      BY <1>5 DEF BeginSync, EndSync, Activate, Deactivate, RetryDelayEnds, history
    <2> QED
      BY <1>1, <2>1, PageStep
  <1>6. ASSUME NEW passport \in Passports, Offer(passport) PROVE QueueInv'
    BY <1>1, <1>6, PageStep DEF Offer
  <1>7. CASE NewDay
    <2>1. day' \in 1..MaxDay
      BY <1>1, <1>7, SourceAssumption DEF NewDay
    <2> QED
      BY <1>7, <2>1, PageStep DEF NewDay, history
  <1> QED
    BY <1>2, <1>3, <1>4, <1>5, <1>6, <1>7, ScheduleStep, ClaimStep, BackoffStep, RunStep
    DEF SourceNext

-----------------------------------------------------------------------------
(* The readiness row of a bulk source.                                     *)

LEMMA CheckedRow ==
    ASSUME NEW row \in DatasetRows, NEW until \in Untils, day \in 1..MaxDay
    PROVE  /\ Checked(row, until) \in DatasetRows
           /\ Checked(row, until).errorAt = Never /\ Checked(row, until).status = "checked"
           /\ Checked(row, until).successAt = row.successAt
           /\ Checked(row, until).release = row.release /\ Checked(row, until).until = until
  <1>1. day + 1 \in 0..MaxDay + 1 /\ Never \in Nat
    BY SourceAssumption DEF Never
  <1> QED
    BY <1>1 DEF Checked, DatasetRows

LEMMA FailingRow ==
    ASSUME NEW row \in DatasetRows, NEW kind, NEW at \in Nat
    PROVE  /\ Failing(row, kind, at) \in DatasetRows
           /\ Failing(row, kind, at).errorAt = at
           /\ Failing(row, kind, at).status \in {"error", "access_pending"}
           /\ Failing(row, kind, at).successAt = row.successAt
           /\ Failing(row, kind, at).release = row.release
           /\ Failing(row, kind, at).until = row.until
  <1>1. Never \in 0..MaxDay + 1
    BY SourceAssumption DEF Never
  <1> QED
    BY <1>1 DEF Failing, DatasetRows

\* What a sync makes of the row: trouble of an older time is forgotten after a
\* success, a failure is recorded if nothing is younger.
LEMMA ProjectedRow ==
    ASSUME NEW run \in RunEnd, dataset \in DatasetRows
    PROVE  /\ Projected(run) \in DatasetRows
           /\ Projected(run).successAt = dataset.successAt
           /\ Projected(run).release = dataset.release
           /\ Projected(run).until = dataset.until
           /\ \/ /\ run.outcome = "succeeded" /\ dataset.errorAt \in 1..run.at - 1
                 /\ Projected(run).errorAt = Never /\ Projected(run).status = "checked"
              \/ /\ run.outcome # "succeeded"
                 /\ dataset.successAt < run.at /\ dataset.errorAt < run.at
                 /\ Projected(run).errorAt = run.at
                 /\ Projected(run).status \in {"error", "access_pending"}
              \/ /\ Projected(run) = dataset
                 /\ ~(run.outcome = "succeeded" /\ dataset.errorAt \in 1..run.at - 1)
                 /\ ~(/\ run.outcome # "succeeded"
                      /\ dataset.successAt < run.at /\ dataset.errorAt < run.at)
  <1> DEFINE forgets == run.outcome = "succeeded" /\ dataset.errorAt \in 1..run.at - 1
             records == /\ run.outcome # "succeeded"
                        /\ dataset.successAt < run.at /\ dataset.errorAt < run.at
             cleared == [dataset EXCEPT !.errorAt = Never, !.retry = "none",
                                        !.status = "checked"]
             failing == Failing(dataset, run.outcome, run.at)
  <1>1. Projected(run) = CASE forgets -> cleared [] records -> failing [] OTHER -> dataset
    BY DEF Projected
  <1>2. ~(forgets /\ records)
    OBVIOUS
  <1>3. /\ cleared \in DatasetRows /\ cleared.errorAt = Never /\ cleared.status = "checked"
        /\ cleared.successAt = dataset.successAt /\ cleared.release = dataset.release
        /\ cleared.until = dataset.until
    BY DEF DatasetRows, Never
  <1>4. /\ failing \in DatasetRows /\ failing.errorAt = run.at
        /\ failing.status \in {"error", "access_pending"}
        /\ failing.successAt = dataset.successAt /\ failing.release = dataset.release
        /\ failing.until = dataset.until
    BY FailingRow DEF RunEnd
  <1>5. CASE forgets
    <2>1. Projected(run) = cleared
      <3> HIDE DEF forgets, records, cleared, failing
      <3> QED
        BY <1>1, <1>2, <1>5
    <2> HIDE DEF cleared
    <2> QED
      BY <1>3, <1>5, <2>1
  <1>6. CASE records
    <2>1. Projected(run) = failing
      <3> HIDE DEF forgets, records, cleared, failing
      <3> QED
        BY <1>1, <1>2, <1>6
    <2> HIDE DEF failing
    <2> QED
      BY <1>4, <1>6, <2>1
  <1>7. CASE ~forgets /\ ~records
    <2>1. Projected(run) = dataset
      <3> HIDE DEF forgets, records, cleared, failing
      <3> QED
        BY <1>1, <1>7
    <2> QED
      BY <1>7, <2>1
  <1> QED
    BY <1>5, <1>6, <1>7

\* The part of the row that ReadinessOK reads, when nothing ends.
LEMMA RowKept ==
    ASSUME ReadinessOK, UNCHANGED <<clock, lastRun, scheduleFailedAt>>,
           dataset'.errorAt = dataset.errorAt, dataset'.successAt = dataset.successAt,
           dataset'.status \in {dataset.status, "not_configured"},
           syncing' \in {syncing, NoRun, lastRun}
    PROVE  ReadinessOK'
  BY DEF ReadinessOK, RunEnd, NoRun, Never, RunOutcomes

LEMMA SyncStep ==
    ASSUME ReadinessOK, dataset \in DatasetRows, EndSync
    PROVE  ReadinessOK'
  <1>1. /\ syncing # NoRun /\ syncing' = NoRun /\ dataset' = Projected(syncing)
        /\ UNCHANGED <<clock, lastRun, scheduleFailedAt>>
    BY DEF EndSync, history
  <1>2. syncing \in RunEnd /\ NoRun \in RunEnd /\ NoRun.at = Never /\ NoRun.outcome = "none"
    BY DEF ReadinessOK, RunEnd, NoRun, RunOutcomes, Never
  <1>3. /\ dataset'.successAt = dataset.successAt
        /\ \/ /\ syncing.outcome = "succeeded" /\ dataset.errorAt \in 1..syncing.at - 1
              /\ dataset'.errorAt = Never /\ dataset'.status = "checked"
           \/ /\ syncing.outcome # "succeeded"
              /\ dataset.successAt < syncing.at /\ dataset.errorAt < syncing.at
              /\ dataset'.errorAt = syncing.at
              /\ dataset'.status \in {"error", "access_pending"}
           \/ dataset' = dataset
    BY <1>1, <1>2, ProjectedRow
  <1>4. /\ clock \in Nat /\ lastRun.at \in Nat /\ syncing.at \in Nat
        /\ scheduleFailedAt \in Nat /\ dataset.errorAt \in Nat /\ dataset.successAt \in Nat
    BY DEF ReadinessOK, RunEnd
  <1>5. CASE dataset' = dataset
    BY <1>1, <1>5, RowKept
  <1>6. CASE /\ syncing.outcome = "succeeded" /\ dataset.errorAt \in 1..syncing.at - 1
             /\ dataset'.errorAt = Never /\ dataset'.status = "checked"
    BY <1>1, <1>2, <1>3, <1>4, <1>6 DEF ReadinessOK, Never
  <1>7. CASE /\ syncing.outcome # "succeeded"
             /\ dataset.successAt < syncing.at /\ dataset.errorAt < syncing.at
             /\ dataset'.errorAt = syncing.at
             /\ dataset'.status \in {"error", "access_pending"}
    BY <1>1, <1>2, <1>3, <1>4, <1>7 DEF ReadinessOK, Never
  <1> QED
    BY <1>3, <1>5, <1>6, <1>7

LEMMA ScheduleFailsRow ==
    ASSUME ReadinessOK, dataset \in DatasetRows, NEW kind, ScheduleFails(kind)
    PROVE  ReadinessOK'
  <1>1. /\ clock' = clock + 1 /\ dataset' = Failing(dataset, kind, clock')
        /\ scheduleFailedAt' = clock' /\ UNCHANGED <<lastRun, syncing>>
    BY DEF ScheduleFails
  <1>2. clock' \in Nat /\ clock \in Nat
    BY <1>1 DEF ReadinessOK
  <1>3. /\ dataset'.errorAt = clock' /\ dataset'.successAt = dataset.successAt
        /\ dataset'.status \in {"error", "access_pending"}
    BY <1>1, <1>2, FailingRow
  <1>4. lastRun.at \in Nat /\ dataset.successAt \in Nat
    BY DEF ReadinessOK, RunEnd
  <1> QED
    BY <1>1, <1>2, <1>3, <1>4 DEF ReadinessOK, Never

\* A run that ends is younger than everything recorded.
LEMMA RunEndsRow ==
    ASSUME ReadinessOK, NEW k, NEW out \in {"succeeded", "failed", "access"}, NEW s,
           RunEnds(k, out, s), scheduleFailedAt' = scheduleFailedAt,
           dataset'.errorAt \in {Never, dataset.errorAt},
           \/ dataset'.successAt = dataset.successAt
           \/ dataset'.successAt = clock' /\ out = "succeeded",
           \/ dataset'.status = dataset.status /\ dataset'.errorAt = dataset.errorAt
           \/ dataset'.status = "checked" /\ dataset'.errorAt = Never
    PROVE  ReadinessOK'
  <1>1. /\ clock' = clock + 1 /\ lastRun' = [outcome |-> out, at |-> clock']
        /\ UNCHANGED syncing
    BY DEF RunEnds
  <1>2. clock' \in Nat /\ clock \in Nat
    BY <1>1 DEF ReadinessOK
  <1>3. lastRun' \in RunEnd /\ lastRun'.at = clock' /\ lastRun'.outcome = out
    BY <1>1, <1>2 DEF RunEnd, RunOutcomes
  <1>4. /\ lastRun.at \in Nat /\ dataset.successAt \in Nat /\ dataset.errorAt \in Nat
        /\ syncing.at \in Nat /\ scheduleFailedAt \in Nat
        /\ lastRun.at < clock' /\ syncing.at < clock' /\ scheduleFailedAt < clock'
        /\ dataset.errorAt < clock' /\ dataset.successAt < clock'
    BY <1>1, <1>2 DEF ReadinessOK, RunEnd
  <1> QED
    BY <1>1, <1>2, <1>3, <1>4 DEF ReadinessOK, Never

-----------------------------------------------------------------------------
(* Facts, pointer and row of a bulk source.                                *)

\* A sync, a command or the end of a delay leaves the release of the row and its
\* date alone.
LEMMA FactsKept ==
    ASSUME FactsOK, QueueInv, UNCHANGED <<facts, pointer>>, master' \subseteq Companies,
           dataset' \in DatasetRows, shown \subseteq shown',
           dataset'.release = dataset.release, dataset'.until = dataset.until
    PROVE  FactsOK'
  BY DEF FactsOK, OneReleaseSpeaks

LEMMA PublishStep ==
    ASSUME FactsOK, QueueInv, ReadinessOK, NEW k \in Keys, PublishRelease(k)
    PROVE  FactsOK'
  <1> DEFINE r == k.release
             row == Checked(dataset, jobs[k].until)
  <1>1. /\ k.kind = "release" /\ jobs[k].status = "running" /\ r \in Releases
        /\ facts' = ReplacedFacts(r) /\ pointer' = r /\ UNCHANGED <<master, shown>>
        /\ dataset' = [row EXCEPT !.auto = "configured", !.release = r, !.successAt = clock']
        /\ clock' \in Nat
    BY KeyFacts DEF PublishRelease, RunEnds, QueueInv, JobsOK, ReadinessOK
  <1>2. [release |-> r, until |-> jobs[k].until] \in shown /\ jobs[k].until \in Untils
    BY <1>1 DEF QueueInv, PassportsOK, Present, JobsOK, JobRows
  <1>3. row \in DatasetRows /\ row.until = jobs[k].until
    BY <1>2, CheckedRow DEF FactsOK, QueueInv, OrderOK
  <1>4. r \in 0..NumReleases /\ r # NoRelease
    BY <1>1, SourceAssumption DEF Releases, NoRelease
  <1> HIDE DEF row, r
  <1>5. /\ dataset' \in DatasetRows /\ dataset'.release = r
        /\ dataset'.until = row.until
    BY <1>1, <1>3, <1>4 DEF DatasetRows
  <1>6. facts' \in [Companies -> 0..NumReleases]
    BY <1>1, <1>4, SourceAssumption DEF ReplacedFacts, NoRelease
  <1>7. \A c \in Companies : facts'[c] # NoRelease => facts'[c] = r /\ c \in Listed[r]
    BY <1>1 DEF ReplacedFacts
  <1> QED
    BY <1>1, <1>2, <1>3, <1>5, <1>6, <1>7 DEF FactsOK, OneReleaseSpeaks

LEMMA ReplayStep ==
    ASSUME FactsOK, QueueInv, NEW k \in Keys, ConfirmRelease(k) \/ FillCompany(k)
    PROVE  FactsOK'
  <1> DEFINE r == k.release
  <1>1. PICK wanted : facts' = FilledFacts(r, wanted)
    BY DEF ConfirmRelease, FillCompany
  <1>2. /\ jobs[k].status = "running" /\ pointer = r /\ r \in Releases
        /\ UNCHANGED <<master, shown, pointer>>
        /\ \/ dataset' = dataset
           \/ dataset' = Checked(dataset, jobs[k].until) /\ k.kind = "check"
    BY KeyFacts DEF ConfirmRelease, FillCompany, ReplayAccepted, RunEnds, QueueInv, JobsOK
  <1>3. r \in 0..NumReleases
    BY <1>2, SourceAssumption DEF Releases
  <1>4. facts' \in [Companies -> 0..NumReleases]
    BY <1>1, <1>3 DEF FilledFacts, FactsOK
  <1>5. \A c \in Companies : facts'[c] # NoRelease => facts'[c] = r /\ c \in Listed[r]
    BY <1>1, <1>2 DEF FilledFacts, FactsOK, OneReleaseSpeaks
  <1>6. /\ dataset' \in DatasetRows /\ dataset'.release = r
        /\ [release |-> r, until |-> dataset'.until] \in shown
    <2>1. CASE dataset' = dataset
      BY <1>2, <2>1, SourceAssumption DEF FactsOK, OneReleaseSpeaks, Releases, NoRelease
    <2>2. CASE dataset' = Checked(dataset, jobs[k].until) /\ k.kind = "check"
      <3>1. [release |-> r, until |-> jobs[k].until] \in shown /\ jobs[k].until \in Untils
        BY <1>2, <2>2 DEF QueueInv, PassportsOK, Present, JobsOK, JobRows
      <3> QED
        BY <1>2, <2>2, <3>1, CheckedRow DEF FactsOK, OneReleaseSpeaks, QueueInv, OrderOK
    <2> QED
      BY <1>2, <2>1, <2>2
  <1> QED
    BY <1>2, <1>4, <1>5, <1>6 DEF FactsOK, OneReleaseSpeaks

\* How the steps leave the row: a check and the end of a run, and the rest.
LEMMA RunRowStep ==
    ASSUME SourceInv, NEW k \in Keys,
           \/ PublishRelease(k) \/ ConfirmRelease(k) \/ FillCompany(k) \/ ReplayOutdated(k)
           \/ \E kind \in {"failed", "access", "transient"} : RunFails(k, kind)
    PROVE  ReadinessOK' /\ FactsOK'
  <1> USE DEF SourceInv
  <1>1. dataset \in DatasetRows /\ day \in 1..MaxDay
    BY DEF FactsOK, QueueInv, OrderOK
  <1>2. jobs[k].until \in Untils
    BY DEF QueueInv, JobsOK, JobRows
  <1> DEFINE row == Checked(dataset, jobs[k].until)
  <1>3. /\ row \in DatasetRows /\ row.errorAt = Never /\ row.status = "checked"
        /\ row.successAt = dataset.successAt
    BY <1>1, <1>2, CheckedRow
  <1> HIDE DEF row
  <1>4. CASE PublishRelease(k)
    <2>1. /\ RunEnds(k, "succeeded", "succeeded") /\ scheduleFailedAt' = scheduleFailedAt
          /\ dataset' = [row EXCEPT !.auto = "configured", !.release = k.release,
                                    !.successAt = clock']
      BY <1>4 DEF PublishRelease, RunEnds, row
    <2>2. /\ dataset'.errorAt = Never /\ dataset'.status = "checked"
          /\ dataset'.successAt = clock'
      BY <1>3, <2>1 DEF DatasetRows
    <2>3. ReadinessOK'
      BY <2>1, <2>2, RunEndsRow
    <2> QED
      BY <1>4, <2>3, PublishStep
  <1>5. CASE ConfirmRelease(k)
    <2>1. /\ RunEnds(k, "succeeded", "succeeded") /\ scheduleFailedAt' = scheduleFailedAt
          /\ dataset' = row
      BY <1>5 DEF ConfirmRelease, RunEnds, row
    <2>2. ReadinessOK'
      BY <1>3, <2>1, RunEndsRow
    <2> QED
      BY <1>5, <2>2, ReplayStep
  <1>6. CASE FillCompany(k)
    <2>1. /\ RunEnds(k, "succeeded", "succeeded") /\ scheduleFailedAt' = scheduleFailedAt
          /\ dataset' = dataset
      BY <1>6 DEF FillCompany, RunEnds
    <2>2. ReadinessOK'
      BY <2>1, RunEndsRow
    <2> QED
      BY <1>6, <2>2, ReplayStep
  <1>7. CASE ReplayOutdated(k) \/ \E kind \in {"failed", "access", "transient"} : RunFails(k, kind)
    <2>1. PICK out \in {"failed", "access"} : \E s : RunEnds(k, out, s)
      BY <1>7 DEF ReplayOutdated, RunFails
    <2>2. /\ scheduleFailedAt' = scheduleFailedAt
          /\ UNCHANGED <<dataset, facts, pointer, master, shown>>
      BY <1>7 DEF ReplayOutdated, RunFails, RunEnds
    <2>3. ReadinessOK'
      BY <2>1, <2>2, RunEndsRow
    <2>4. FactsOK'
      BY <1>1, <2>2, FactsKept DEF FactsOK
    <2> QED
      BY <2>3, <2>4
  <1> QED
    BY <1>4, <1>5, <1>6, <1>7

\* The operator's commands and the end of a delay.
LEMMA CommandStep ==
    ASSUME SourceInv, Activate \/ Deactivate \/ RetryDelayEnds
    PROVE  ReadinessOK' /\ FactsOK'
  <1>1. dataset \in DatasetRows /\ day \in 1..MaxDay /\ day \in 0..MaxDay + 1
        /\ Never \in 0..MaxDay + 1
    BY SourceAssumption DEF SourceInv, FactsOK, QueueInv, OrderOK, Never
  <1>2. /\ dataset' \in DatasetRows /\ dataset'.errorAt = dataset.errorAt
        /\ dataset'.successAt = dataset.successAt /\ dataset'.release = dataset.release
        /\ dataset'.until = dataset.until
        /\ dataset'.status \in {dataset.status, "not_configured"}
    BY <1>1 DEF Activate, Deactivate, RetryDelayEnds, DatasetRows
  <1>3. UNCHANGED <<clock, lastRun, scheduleFailedAt, syncing, facts, pointer, master, shown>>
    BY DEF Activate, Deactivate, RetryDelayEnds, history
  <1>4. ReadinessOK'
    BY <1>2, <1>3, RowKept DEF SourceInv
  <1>5. FactsOK'
    BY <1>2, <1>3, FactsKept DEF SourceInv, FactsOK
  <1> QED
    BY <1>4, <1>5

\* Steps that leave the row as it is.
LEMMA OtherStep ==
    ASSUME SourceInv, UNCHANGED <<dataset, facts, pointer, clock, lastRun, scheduleFailedAt>>,
           master' \subseteq Companies, shown \subseteq shown', syncing' \in {syncing, lastRun}
    PROVE  ReadinessOK' /\ FactsOK'
  <1>1. ReadinessOK'
    BY RowKept DEF SourceInv
  <1>2. FactsOK'
    BY FactsKept DEF SourceInv, FactsOK
  <1> QED
    BY <1>1, <1>2

LEMMA SourceStep ==
    ASSUME SourceInv, [SourceNext]_sourceVars
    PROVE  SourceInv'
  <1>1. QueueInv'
    BY QueueStep DEF SourceInv
  <1> SUFFICES ReadinessOK' /\ FactsOK'
    BY <1>1 DEF SourceInv
  <1>2. dataset \in DatasetRows /\ master \subseteq Companies
    BY DEF SourceInv, FactsOK
  <1>3. CASE UNCHANGED sourceVars
    BY <1>2, <1>3, OtherStep DEF sourceVars, history
  <1>4. CASE ScheduleCheck \/ (\E c \in Enriched : EnqueueReplay(c)) \/ BeginSync \/ NewDay
    <2>1. /\ UNCHANGED <<dataset, facts, pointer, clock, lastRun, scheduleFailedAt,
                         master, shown>>
          /\ syncing' \in {syncing, lastRun}
      BY <1>4 DEF ScheduleCheck, EnqueueReplay, BeginSync, NewDay, history
    <2> QED
      BY <1>2, <2>1, OtherStep
  <1>5. CASE \E kind \in {"failed", "access"} : ScheduleFails(kind)
    <2>1. PICK kind : ScheduleFails(kind)
      BY <1>5
    <2>2. clock' \in Nat
      BY <2>1 DEF ScheduleFails, SourceInv, ReadinessOK
    <2>3. dataset' \in DatasetRows /\ dataset'.release = dataset.release
          /\ dataset'.until = dataset.until
      BY <1>2, <2>1, <2>2, FailingRow DEF ScheduleFails
    <2>4. FactsOK'
      BY <1>2, <2>1, <2>3, FactsKept DEF SourceInv, ScheduleFails
    <2> QED
      BY <1>2, <2>1, <2>4, ScheduleFailsRow DEF SourceInv
  <1>6. CASE \E c \in Companies : Register(c)
    BY <1>2, <1>6, OtherStep DEF Register, history
  <1>7. CASE \E passport \in Passports : Offer(passport)
    BY <1>2, <1>7, OtherStep DEF Offer
  <1>8. CASE EndSync
    <2>1. syncing \in RunEnd
      BY DEF SourceInv, ReadinessOK
    <2>2. dataset' \in DatasetRows /\ dataset'.release = dataset.release
          /\ dataset'.until = dataset.until
      BY <1>2, <1>8, <2>1, ProjectedRow DEF EndSync
    <2>3. FactsOK'
      BY <1>2, <1>8, <2>2, FactsKept DEF SourceInv, EndSync, history
    <2> QED
      BY <1>2, <1>8, <2>3, SyncStep DEF SourceInv
  <1>9. ASSUME NEW k \in Keys, Claim(k) \/ BackoffEnds(k)
        PROVE  ReadinessOK' /\ FactsOK'
    BY <1>2, <1>9, OtherStep DEF Claim, BackoffEnds, history
  <1> QED
    BY <1>3, <1>4, <1>5, <1>6, <1>7, <1>8, <1>9, CommandStep, RunRowStep DEF SourceNext

LEMMA SourceInitInv == SourceInit => SourceInv
  <1> SUFFICES ASSUME SourceInit PROVE SourceInv
    OBVIOUS
  <1> USE DEF SourceInit
  <1>1. 1 \in Releases /\ 1 \in 1..MaxDay /\ page.release = 1 /\ page.until \in Untils
        /\ page = [release |-> page.release, until |-> page.until]
    BY SourceAssumption DEF Releases
  <1>2. page \in Passports
    BY <1>1 DEF Passports
  <1>3. \A k \in Keys : /\ jobs[k] \in JobRows /\ jobs[k].status = "absent"
                        /\ jobs[k].attempts = 0
    BY <1>1, PresentFinite, SourceAssumption DEF JobRows, JobStatus
  <1>4. Present = {} /\ jobs = [k \in Keys |-> jobs[k]]
    BY <1>3 DEF Present
  <1>5. JobsOK
    BY <1>3, <1>4, SourceAssumption DEF JobsOK
  <1>6. PassportsOK
    BY <1>2, <1>4 DEF PassportsOK
  <1>7. \A r \in Releases : ~Succeeded(r) /\ ~Asked(r)
    BY <1>3, KeyFacts DEF Succeeded, Asked
  <1>8. OrderOK
    BY <1>1, <1>4, <1>7, SourceAssumption DEF OrderOK, NoRelease, Releases
  <1>9. ReadinessOK
    BY DEF ReadinessOK, NoRun, RunEnd, RunOutcomes, Never
  <1>10. FactsOK
    BY <1>1, SourceAssumption DEF FactsOK, DatasetRows, OneReleaseSpeaks, NoRelease, Never
  <1> QED
    BY <1>5, <1>6, <1>8, <1>9, <1>10 DEF SourceInv, QueueInv

THEOREM SourceInvariant == SourceSpec => []SourceInv
  <1>1. SourceInv /\ [SourceNext]_sourceVars => SourceInv'
    BY SourceStep
  <1> QED
    BY <1>1, SourceInitInv, PTL DEF SourceSpec

\* Facts, publication pointer and readiness row speak of one release, and of a
\* passport the agency has shown: a late check or replay never mixes two
\* (publish_bulk_result, _accepted_replay_path).
THEOREM OneReleaseAlways == SourceSpec => []OneReleaseSpeaks
  <1>1. SourceInv => OneReleaseSpeaks
    BY DEF SourceInv, FactsOK
  <1> QED
    BY <1>1, SourceInvariant, PTL

\* The release that is offered stays published once it was, unless the agency
\* took a release back or a retried job overtook a newer release: the queue is
\* first come, first served (claim_next_job).
THEOREM OfferedStays == SourceSpec => []OfferedReleaseStays
  <1>1. SourceInv => OfferedReleaseStays
    <2> SUFFICES ASSUME SourceInv, Succeeded(page.release), ~overtaken, ~withdrawn
                 PROVE  pointer = page.release
      BY DEF OfferedReleaseStays, Succeeded
    <2>1. page.release \in Releases
      BY DEF SourceInv, QueueInv, PassportsOK, Passports
    <2>2. page.release <= pointer /\ pointer \in 0..NumReleases
      BY <2>1 DEF SourceInv, QueueInv, OrderOK
    <2>3. pointer # NoRelease /\ pointer \in Releases
      BY <2>1, <2>2, SourceAssumption DEF Releases, NoRelease
    <2>4. ReleaseKey(pointer) \in Present /\ ReleaseKey(pointer).release = pointer
      BY <2>3, KeyFacts DEF SourceInv, QueueInv, OrderOK, Succeeded, Present
    <2>5. pointer <= page.release
      BY <2>4 DEF SourceInv, QueueInv, OrderOK
    <2> QED
      BY <2>1, <2>2, <2>5, SourceAssumption DEF Releases
  <1> QED
    BY <1>1, SourceInvariant, PTL

\* The tables of the source keep their shape.
THEOREM SourceTypes == SourceSpec => []SourceTypeOK
  <1>1. SourceInv => SourceTypeOK
    BY DEF SourceInv, QueueInv, JobsOK, PassportsOK, OrderOK, ReadinessOK, FactsOK,
           JobRows, DatasetRows, SourceTypeOK
  <1> QED
    BY <1>1, SourceInvariant, PTL

\* A sync that no end of a run overtook leaves the row right about the last run
\* and the failures of the schedule since (sync_worker_failure_signals).
THEOREM SyncIsTrue == SourceSpec => SyncTellsTruth
  <1> DEFINE A == syncing = lastRun /\ syncing # NoRun /\ syncing' = NoRun =>
                    /\ dataset'.status \in {"error", "access_pending"} =>
                         lastRun.outcome # "succeeded" \/ scheduleFailedAt > lastRun.at
                    /\ dataset'.status = "checked" =>
                         lastRun.outcome = "succeeded" /\ scheduleFailedAt < lastRun.at
  <1>1. SourceInv /\ [SourceNext]_sourceVars => [A]_sourceVars
    <2> SUFFICES ASSUME SourceInv, SourceNext, syncing = lastRun, syncing # NoRun,
                        syncing' = NoRun
                 PROVE  /\ dataset'.status \in {"error", "access_pending"} =>
                             lastRun.outcome # "succeeded" \/ scheduleFailedAt > lastRun.at
                        /\ dataset'.status = "checked" =>
                             lastRun.outcome = "succeeded" /\ scheduleFailedAt < lastRun.at
      OBVIOUS
    <2>1. EndSync
      BY DEF SourceNext, ScheduleCheck, ScheduleFails, EnqueueReplay, Register, Claim,
             BackoffEnds, PublishRelease, ConfirmRelease, FillCompany, ReplayOutdated,
             RunFails, RunEnds, BeginSync, Activate, Deactivate, Offer, NewDay,
             RetryDelayEnds
    <2>2. dataset' = Projected(lastRun) /\ lastRun \in RunEnd /\ dataset \in DatasetRows
      BY <2>1 DEF EndSync, SourceInv, ReadinessOK, FactsOK
    <2>3. \/ /\ lastRun.outcome = "succeeded" /\ dataset.errorAt \in 1..lastRun.at - 1
             /\ dataset'.status = "checked"
          \/ /\ lastRun.outcome # "succeeded"
             /\ dataset'.status \in {"error", "access_pending"}
          \/ /\ dataset' = dataset
             /\ ~(lastRun.outcome = "succeeded" /\ dataset.errorAt \in 1..lastRun.at - 1)
             /\ ~(/\ lastRun.outcome # "succeeded"
                  /\ dataset.successAt < lastRun.at /\ dataset.errorAt < lastRun.at)
      BY <2>2, ProjectedRow
    <2>4. /\ lastRun.at \in Nat /\ scheduleFailedAt \in Nat /\ dataset.errorAt \in Nat
          /\ dataset.successAt \in Nat /\ lastRun.at # 0 /\ lastRun.outcome # "none"
      <3>1. lastRun.at = 0 => lastRun = NoRun
        BY <2>2 DEF SourceInv, ReadinessOK, RunEnd, NoRun, Never
      <3> QED
        BY <2>2, <3>1 DEF SourceInv, ReadinessOK, RunEnd, Never
    <2> QED
      BY <2>3, <2>4 DEF SourceInv, ReadinessOK, Never
  <1> QED
    BY <1>1, SourceInvariant, PTL DEF SourceSpec, SyncTellsTruth
=============================================================================
