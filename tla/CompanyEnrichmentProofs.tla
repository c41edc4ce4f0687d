---------------------- MODULE CompanyEnrichmentProofs ----------------------
(***************************************************************************)
(* Theorems about the enrichment of one company (CompanyEnrichment), for   *)
(* any data sets, any number of runs, restarts and changes.                *)
(*                                                                         *)
(* The actions compose operations on the tables, each on one run.  So the  *)
(* lemmas say of each operation that it works on that run (Worked): the    *)
(* tables stay good, other runs stay as they were, and no signal is        *)
(* settled that the run does not represent.                                *)
(***************************************************************************)
EXTENDS CompanyEnrichment, TLAPS

-----------------------------------------------------------------------------
(* The tables.                                                             *)

TaskKeys == [run : Nat, code : DataSets, restarts : Nat,
             ids : SUBSET ReplaySignals, generation : Nat]
TaskJobRows == [status : {"open", "succeeded", "failed"}, knows : 0..emitted]

CoverageRows == [status : CoverageStatus, exec : Executions, generation : Nat,
                 ids : SUBSET ReplaySignals, task : {NoTask} \cup TaskKeys]
MaybeRows == CoverageRows \cup {NoRow}
RowTables == [DataSets -> MaybeRows]
RunRows == [trigger : Triggers, key : SUBSET ReplaySignals,
            status : {"open", "succeeded", "failed"}, ready : BOOLEAN,
            restarts : 0..MaxRestarts, rows : RowTables]

\* The tables of a database.
Database(runs, signals, jobs, early, reopened) ==
    [runs |-> runs, signals |-> signals, jobs |-> jobs, early |-> early,
     reopened |-> reopened]

TablesTyped(t) ==
    /\ t = Database(t.runs, t.signals, t.jobs, t.early, t.reopened)
    /\ t.runs \in Seq(RunRows)
    /\ t.signals \in [ReplaySignals -> SignalStatus]
    /\ t.jobs \in [DOMAIN t.jobs -> TaskJobRows]
    /\ DOMAIN t.jobs \subseteq TaskKeys

\* The signals of a data set that were emitted.
SignalsOf(d) == {s \in ReplaySignals : s[2] = d /\ s[1] <= emitted}

\* How the two statuses of a row agree.
StatusesAgree(row) ==
    /\ row.exec = "blocked" <=> row.status = "APPLICABILITY_UNKNOWN"
    /\ row.exec = "failed" => row.status = "UNAVAILABLE"

\* A row that its job can answer now.
Answerable(t, d, row) ==
    Follows(row) /\ t.jobs[row.task].status = "succeeded" /\ Fresh(d, row)

\* The answer is later than the signals of the row that it would complete.
AnswerIsLater(t, d, row) ==
    Answerable(t, d, row) =>
      \A s \in row.ids : \/ s[1] <= t.jobs[row.task].knows
                         \/ s \in t.reopened
                         \/ t.signals[s] \notin Actionable

RowGood(t, d, row) ==
    /\ row \in MaybeRows
    /\ row # NoRow =>
         /\ row.ids \subseteq SignalsOf(d)
         /\ row.generation <= dataSet[d].generation
         /\ row.task # NoTask => row.task \in DOMAIN t.jobs
         /\ StatusesAgree(row)
         /\ AnswerIsLater(t, d, row)

RowsGood(t, rows) ==
    /\ rows = [d \in DataSets |-> rows[d]]
    /\ \A d \in DataSets : RowGood(t, d, rows[d])

\* A job knows the changes that it was created for.
JobGood(k, job) ==
    /\ k.ids \subseteq SignalsOf(k.code)
    /\ job.status = "succeeded" => \A s \in k.ids : s[1] <= job.knows

SignalsGood(t) == \A s \in ReplaySignals : t.signals[s] = "absent" <=> s[1] > emitted

TablesGood(t) ==
    /\ TablesTyped(t)
    /\ \A n \in DOMAIN t.runs : RowsGood(t, t.runs[n].rows)
    /\ \A k \in DOMAIN t.jobs : JobGood(k, t.jobs[k])
    /\ SignalsGood(t)
    /\ t.early = {}

\* A run that succeeded has an answer for each of its data sets, and only such
\* a run is ready.
RunComplete(run) ==
    /\ run.ready => run.status = "succeeded"
    /\ run.status = "succeeded" =>
         \A d \in DataSets : run.rows[d] # NoRow =>
            run.rows[d].status \in Successful /\ run.rows[d].exec = "succeeded"

\* What the company is about.
ScopeGood ==
    /\ scope \in Scopes /\ emitted \in Nat
    /\ dataSet \in [DataSets -> DataSetState]

EnrichmentInv ==
    /\ ScopeGood
    /\ TablesGood(db)
    /\ \A n \in DOMAIN db.runs : RunComplete(db.runs[n])

-----------------------------------------------------------------------------
(* Operations on a run.                                                    *)

Represents(run, s) == run.rows[s[2]] # NoRow /\ s \in run.rows[s[2]].ids

\* A signal is open, or the run represents it.
Accounted(t, n, s) == t.signals[s] \in Actionable \/ Represents(t.runs[n], s)

\* What an operation on run n made of t.
Worked(t, u, n) ==
    /\ TablesGood(u)
    /\ DOMAIN u.runs = DOMAIN t.runs
    /\ \A m \in DOMAIN t.runs : m # n => u.runs[m] = t.runs[m]
    /\ \A s \in ReplaySignals : Accounted(t, n, s) => Accounted(u, n, s)

\* What can be answered has been.
Aligned(t, n) ==
    \A d \in DataSets : Answerable(t, d, t.runs[n].rows[d]) =>
        t.runs[n].rows[d].status \in Successful

\* Signals, jobs and history only move on, for one who waits for an answer.
MovesOn(t, u) ==
    /\ \A k \in DOMAIN t.jobs : k \in DOMAIN u.jobs /\ u.jobs[k] = t.jobs[k]
    /\ t.reopened \subseteq u.reopened
    /\ \A s \in ReplaySignals :
         u.signals[s] \in Actionable => t.signals[s] \in Actionable \/ s \in u.reopened

-----------------------------------------------------------------------------
(* Rows and signals.                                                       *)

Row(status, exec, generation, ids, task) ==
    [status |-> status, exec |-> exec, generation |-> generation, ids |-> ids,
     task |-> task]

LEMMA SignalFacts ==
    ASSUME NEW s \in ReplaySignals
    PROVE  s[1] \in 1..scope.changes /\ s[2] \in DataSets
  BY DEF ReplaySignals

LEMMA NoRowIsNone == NoRow \notin CoverageRows
<1>1. NoRow.status \notin CoverageStatus
  BY DEF NoRow, CoverageStatus
<1> QED
  BY <1>1 DEF CoverageRows

LEMMA RowFields ==
    ASSUME NEW row \in CoverageRows
    PROVE  /\ row = Row(row.status, row.exec, row.generation, row.ids, row.task)
           /\ row.status \in CoverageStatus /\ row.exec \in Executions
           /\ row.generation \in Nat /\ row.ids \subseteq ReplaySignals
           /\ row.task \in {NoTask} \cup TaskKeys
           /\ row # NoRow
  BY NoRowIsNone DEF CoverageRows, Row

LEMMA RowParts ==
    ASSUME NEW st \in CoverageStatus, NEW ex \in Executions, NEW g \in Nat,
           NEW ids \in SUBSET ReplaySignals, NEW task \in {NoTask} \cup TaskKeys
    PROVE  LET row == Row(st, ex, g, ids, task) IN
           /\ row \in CoverageRows /\ row # NoRow
           /\ row.status = st /\ row.exec = ex /\ row.generation = g
           /\ row.ids = ids /\ row.task = task
  <1>1. Row(st, ex, g, ids, task) \in CoverageRows
    BY DEF Row, CoverageRows
  <1> QED
    BY <1>1, NoRowIsNone DEF Row

\* The updates of a row that the operations make.
LEMMA RowUpdates ==
    ASSUME NEW row \in CoverageRows, NEW st, NEW ex, NEW more
    PROVE  /\ [row EXCEPT !.status = st, !.exec = ex]
                = Row(st, ex, row.generation, row.ids, row.task)
           /\ [row EXCEPT !.exec = ex, !.status = st]
                = Row(st, ex, row.generation, row.ids, row.task)
           /\ [row EXCEPT !.ids = more]
                = Row(row.status, row.exec, row.generation, more, row.task)
<1>1. row = Row(row.status, row.exec, row.generation, row.ids, row.task)
  BY RowFields
<1> DEFINE a == [row EXCEPT !.status = st]
           b == [row EXCEPT !.exec = ex]
           c == [a EXCEPT !.exec = ex]
<1>2. a = Row(st, row.exec, row.generation, row.ids, row.task)
  BY <1>1 DEF Row
<1>3. b = Row(row.status, ex, row.generation, row.ids, row.task)
  BY <1>1 DEF Row
<1>4. c = Row(st, ex, row.generation, row.ids, row.task)
  <2> HIDE DEF a
  <2> QED
    BY <1>2 DEF Row
<1>5. [row EXCEPT !.status = st, !.exec = ex] = c
  OBVIOUS
<1>6. [row EXCEPT !.exec = ex, !.status = st]
        = Row(st, ex, row.generation, row.ids, row.task)
  <2>1. [row EXCEPT !.exec = ex, !.status = st] = [b EXCEPT !.status = st]
    OBVIOUS
  <2> HIDE DEF b
  <2> QED
    BY <1>3, <2>1 DEF Row
<1>7. [row EXCEPT !.ids = more]
        = Row(row.status, row.exec, row.generation, more, row.task)
  BY <1>1 DEF Row
<1> QED
  BY <1>4, <1>5, <1>6, <1>7

LEMMA RowReset ==
    ASSUME NEW row \in CoverageRows, NEW st, NEW ex, NEW task
    PROVE  [row EXCEPT !.status = st, !.exec = ex, !.task = task]
             = Row(st, ex, row.generation, row.ids, task)
<1> DEFINE a == [row EXCEPT !.status = st, !.exec = ex]
<1>1. a = Row(st, ex, row.generation, row.ids, row.task)
  BY RowUpdates
<1>2. [row EXCEPT !.status = st, !.exec = ex, !.task = task] = [a EXCEPT !.task = task]
  OBVIOUS
<1> HIDE DEF a
<1> QED
  BY <1>1, <1>2 DEF Row

\* A row is good if its statuses agree and it either has no job to follow, or
\* one whose answer is late enough.
LEMMA RowIntro ==
    ASSUME NEW t, NEW d \in DataSets,
           NEW st \in CoverageStatus, NEW ex \in Executions, NEW g \in Nat,
           NEW ids \in SUBSET SignalsOf(d), NEW task \in {NoTask} \cup TaskKeys,
           g <= dataSet[d].generation,
           task # NoTask => task \in DOMAIN t.jobs,
           ex = "blocked" <=> st = "APPLICABILITY_UNKNOWN",
           ex = "failed" => st = "UNAVAILABLE",
           \/ ex = "blocked" \/ task = NoTask
           \/ /\ t.jobs[task].status = "succeeded"
              /\ scope.mode[d] = "point" \/ g = dataSet[d].generation
              => \A s \in ids : \/ s[1] <= t.jobs[task].knows
                                \/ s \in t.reopened
                                \/ t.signals[s] \notin Actionable
    PROVE  RowGood(t, d, Row(st, ex, g, ids, task))
<1> DEFINE row == Row(st, ex, g, ids, task)
<1>1. ids \in SUBSET ReplaySignals
  BY DEF SignalsOf
<1>2. /\ row \in CoverageRows /\ row # NoRow
      /\ row.status = st /\ row.exec = ex /\ row.generation = g
      /\ row.ids = ids /\ row.task = task
  BY <1>1, RowParts
<1> HIDE DEF row
<1>3. AnswerIsLater(t, d, row)
  BY <1>2 DEF AnswerIsLater, Answerable, Follows, Fresh
<1>4. StatusesAgree(row)
  BY <1>2 DEF StatusesAgree
<1> QED
  BY <1>2, <1>3, <1>4 DEF RowGood, MaybeRows, row

\* The row that a good row is.
LEMMA RowGoodFacts ==
    ASSUME ScopeGood, NEW t, NEW d \in DataSets, NEW row, RowGood(t, d, row), row # NoRow
    PROVE  /\ row \in CoverageRows
           /\ row = Row(row.status, row.exec, row.generation, row.ids, row.task)
           /\ row.status \in CoverageStatus /\ row.exec \in Executions
           /\ row.generation \in Nat /\ row.ids \subseteq SignalsOf(d)
           /\ row.ids \subseteq ReplaySignals
           /\ row.task \in {NoTask} \cup TaskKeys
           /\ row.task # NoTask => row.task \in DOMAIN t.jobs
           /\ row.generation <= dataSet[d].generation
           /\ dataSet[d].generation \in Nat
           /\ row.exec = "blocked" <=> row.status = "APPLICABILITY_UNKNOWN"
           /\ row.exec = "failed" => row.status = "UNAVAILABLE"
           /\ \/ row.exec = "blocked" \/ row.task = NoTask
              \/ /\ t.jobs[row.task].status = "succeeded"
                 /\ scope.mode[d] = "point" \/ row.generation = dataSet[d].generation
                 => \A s \in row.ids : \/ s[1] <= t.jobs[row.task].knows
                                       \/ s \in t.reopened
                                       \/ t.signals[s] \notin Actionable
<1>1. row \in CoverageRows
  BY DEF RowGood, MaybeRows
<1>2. dataSet[d].generation \in Nat
  BY DEF ScopeGood, DataSetState
<1>3. /\ row.ids \subseteq SignalsOf(d)
      /\ row.generation <= dataSet[d].generation
      /\ row.task # NoTask => row.task \in DOMAIN t.jobs
      /\ StatusesAgree(row)
      /\ AnswerIsLater(t, d, row)
  BY DEF RowGood
<1> QED
  BY <1>1, <1>2, <1>3, RowFields DEF StatusesAgree, AnswerIsLater, Answerable, Follows, Fresh

\* A row may be made to follow no job, its own job, or one that has no answer
\* yet or whose answer is later than the row.
MayFollow(t, row, task) ==
    \/ task = NoTask
    \/ task = row.task /\ row.exec # "blocked"
    \/ /\ task \in DOMAIN t.jobs
       /\ t.jobs[task].status = "succeeded" =>
            \A s \in row.ids : s[1] <= t.jobs[task].knows

\* A good row stays good with statuses that agree and a job it may follow.
LEMMA RowRewritten ==
    ASSUME ScopeGood, NEW t, NEW d \in DataSets, NEW row, RowGood(t, d, row), row # NoRow,
           NEW st \in CoverageStatus, NEW ex \in Executions,
           NEW task \in {NoTask} \cup TaskKeys,
           ex = "blocked" <=> st = "APPLICABILITY_UNKNOWN",
           ex = "failed" => st = "UNAVAILABLE", MayFollow(t, row, task)
    PROVE  LET new == Row(st, ex, row.generation, row.ids, task) IN
           RowGood(t, d, new) /\ new # NoRow /\ new.ids = row.ids
<1> DEFINE new == Row(st, ex, row.generation, row.ids, task)
<1>1. /\ row.generation \in Nat /\ row.ids \in SUBSET ReplaySignals
      /\ row.ids \in SUBSET SignalsOf(d) /\ row.generation <= dataSet[d].generation
      /\ row.task # NoTask => row.task \in DOMAIN t.jobs
  BY RowGoodFacts
<1>2. /\ new \in CoverageRows /\ new # NoRow
      /\ new.status = st /\ new.exec = ex /\ new.generation = row.generation
      /\ new.ids = row.ids /\ new.task = task
  BY <1>1, RowParts
<1> HIDE DEF new
<1>3. task # NoTask => task \in DOMAIN t.jobs
  BY <1>1 DEF MayFollow
<1>4. AnswerIsLater(t, d, new)
  <2>1. CASE task = NoTask
    BY <1>2, <2>1 DEF AnswerIsLater, Answerable, Follows
  <2>2. CASE task = row.task /\ row.exec # "blocked"
    <3>1. AnswerIsLater(t, d, row)
      BY DEF RowGood
    <3> QED
      BY <1>2, <2>2, <3>1 DEF AnswerIsLater, Answerable, Follows, Fresh
  <2>3. CASE t.jobs[task].status = "succeeded" =>
               \A s \in row.ids : s[1] <= t.jobs[task].knows
    BY <1>2, <2>3 DEF AnswerIsLater, Answerable
  <2> QED
    BY <2>1, <2>2, <2>3 DEF MayFollow
<1>5. StatusesAgree(new)
  BY <1>2 DEF StatusesAgree
<1> QED
  BY <1>1, <1>2, <1>3, <1>4, <1>5 DEF RowGood, MaybeRows, new

\* A row stays good as signals, jobs and history move on.
LEMMA RowStaysGood ==
    ASSUME ScopeGood, NEW t, NEW u, MovesOn(t, u),
           NEW d \in DataSets, NEW row, RowGood(t, d, row)
    PROVE  RowGood(u, d, row)
<1>1. CASE row = NoRow
  BY <1>1 DEF RowGood, MaybeRows
<1>2. CASE row # NoRow
  <2>1. AnswerIsLater(t, d, row) /\ row.ids \subseteq ReplaySignals
        /\ (row.task # NoTask => row.task \in DOMAIN t.jobs)
    BY <1>2, RowGoodFacts DEF RowGood
  <2>2. AnswerIsLater(u, d, row)
    BY <2>1 DEF AnswerIsLater, Answerable, Follows, MovesOn
  <2> QED
    BY <1>2, <2>1, <2>2 DEF RowGood, MovesOn
<1> QED
  BY <1>1, <1>2

\* _sync_coverage_from_job keeps the row and what it waits for, and brings
\* every answer that there is.
LEMMA SyncedRowGood ==
    ASSUME ScopeGood, NEW t, TablesGood(t), NEW d \in DataSets,
           NEW row, RowGood(t, d, row)
    PROVE  LET new == SyncedRow(t, d, row) IN
           /\ RowGood(t, d, new)
           /\ new = NoRow <=> row = NoRow
           /\ row # NoRow => new.ids = row.ids /\ new.task = row.task
           /\ Answerable(t, d, new) <=> Answerable(t, d, row)
           /\ Answerable(t, d, row) => new.status = "ANSWERED"
           /\ Follows(new) /\ new.status = "ANSWERED" => Answerable(t, d, row)
<1> DEFINE new == SyncedRow(t, d, row)
<1>1. CASE ~Follows(row)
  BY <1>1 DEF SyncedRow, Answerable
<1>2. CASE Follows(row)
  <2>0. row # NoRow /\ row.exec # "blocked" /\ row.task # NoTask
    BY <1>2 DEF Follows
  <2> DEFINE state == t.jobs[row.task].status
             st == IF state = "open" THEN "RUNNING"
                   ELSE IF state = "failed" THEN "UNAVAILABLE"
                   ELSE IF Fresh(d, row) THEN "ANSWERED" ELSE "UNAVAILABLE"
             ex == IF state = "open" THEN "active"
                   ELSE IF state = "failed" THEN "failed" ELSE "succeeded"
  <2>1. new = [row EXCEPT !.status = st, !.exec = ex]
    BY <1>2 DEF SyncedRow
  <2>2. row \in CoverageRows
    BY <2>0, RowGoodFacts
  <2>3. new = Row(st, ex, row.generation, row.ids, row.task)
    BY <2>1, <2>2, RowUpdates
  <2>4. st \in CoverageStatus /\ ex \in Executions
    BY DEF CoverageStatus, Executions
  <2>5. RowGood(t, d, new)
    <3> HIDE DEF new
    <3>1. ex # "blocked" /\ st # "APPLICABILITY_UNKNOWN" /\ (ex = "failed" => st = "UNAVAILABLE")
      OBVIOUS
    <3> HIDE DEF st, ex
    <3> QED
      BY <2>0, <2>3, <2>4, <3>1, RowGoodFacts, RowIntro
  <2>6. /\ new # NoRow
        /\ new.status = st /\ new.exec = ex /\ new.generation = row.generation
        /\ new.ids = row.ids /\ new.task = row.task
    <3>1. /\ row.generation \in Nat /\ row.ids \in SUBSET ReplaySignals
          /\ row.task \in {NoTask} \cup TaskKeys
      BY <2>0, RowGoodFacts
    <3> HIDE DEF new, st, ex
    <3> QED
      BY <2>3, <2>4, <3>1, RowParts
  <2>7. state \in {"open", "succeeded", "failed"}
    BY <2>0, RowGoodFacts DEF TablesGood, TablesTyped, TaskJobRows
  <2> HIDE DEF new
  <2>8. Follows(new) /\ (Answerable(t, d, new) <=> Answerable(t, d, row))
    BY <1>2, <2>6 DEF Follows, Answerable, Fresh
  <2>9. Answerable(t, d, row) <=> state = "succeeded" /\ Fresh(d, row)
    BY <1>2 DEF Answerable
  <2>10. Answerable(t, d, row) <=> st = "ANSWERED"
    BY <2>7, <2>9
  <2> QED
    BY <2>0, <2>5, <2>6, <2>8, <2>10 DEF new
<1> QED
  BY <1>1, <1>2

\* What _synchronize_replay_denominator may make of a row.
WithLate(row, late) == IF row = NoRow THEN late ELSE row.ids \cup late
StaysAside(d, row, late, new) == new = row /\ (late = {} \/ ~Plannable(d))
Settles(d, row, late, new) ==
    /\ Decision(d) = "NOT_APPLICABLE"
    /\ row # NoRow
    /\ late \subseteq row.ids \/ ~Plannable(d)
    /\ new = Row("NOT_APPLICABLE", "succeeded", row.generation, row.ids, row.task)
SettlesLate(d, row, late, new) ==
    /\ Decision(d) = "NOT_APPLICABLE"
    /\ \E g \in Nat :
         /\ g <= dataSet[d].generation
         /\ new = Row("NOT_APPLICABLE", "succeeded", g, WithLate(row, late), NoTask)
IsPlanned(d, row, late, new) ==
    /\ Decision(d) = "APPLICABLE" /\ Plannable(d)
    /\ late # {} \/ row.status = "APPLICABILITY_UNKNOWN"
    /\ new = Row("PENDING", "pending", dataSet[d].generation, WithLate(row, late), NoTask)
IsBlocked(d, row, late, new) ==
    /\ Decision(d) = "UNKNOWN" /\ Plannable(d) /\ late # {}
    /\ \/ /\ row = NoRow
          /\ new = Row("APPLICABILITY_UNKNOWN", "blocked", dataSet[d].generation, late, NoTask)
       \/ /\ row # NoRow
          /\ new = Row("APPLICABILITY_UNKNOWN", "blocked", row.generation,
                       row.ids \cup late, row.task)
Gathers(d, row, late, new) ==
    /\ row # NoRow
    /\ late \subseteq row.ids \/ row.status \notin Successful
    /\ new = Row(row.status, row.exec, row.generation, row.ids \cup late, row.task)

LEMMA DecidedCases ==
    ASSUME ScopeGood, NEW t, NEW d \in DataSets, NEW row, RowGood(t, d, row),
           NEW late \in SUBSET SignalsOf(d)
    PROVE  LET new == Decided(d, row, late) IN
           \/ new = row /\ (row = NoRow \/ row.status # "APPLICABILITY_UNKNOWN")
           \/ /\ row # NoRow /\ row.status = "APPLICABILITY_UNKNOWN"
              /\ \/ /\ Decision(d) = "NOT_APPLICABLE"
                    /\ new = Row("NOT_APPLICABLE", "succeeded", row.generation, row.ids,
                                 row.task)
                 \/ IsPlanned(d, row, late, new)
                 \/ /\ Decision(d) # "NOT_APPLICABLE"
                    /\ ~(Decision(d) = "APPLICABLE" /\ Plannable(d))
                    /\ Gathers(d, row, late, new)
<1> DEFINE new == Decided(d, row, late)
           more == [row EXCEPT !.ids = @ \cup late]
<1>1. CASE row = NoRow \/ row.status # "APPLICABILITY_UNKNOWN"
  BY <1>1 DEF Decided
<1>2. CASE row # NoRow /\ row.status = "APPLICABILITY_UNKNOWN"
  <2>1. /\ row \in CoverageRows /\ row.generation \in Nat
        /\ row.status \in CoverageStatus /\ row.exec \in Executions
        /\ row.ids \in SUBSET ReplaySignals /\ row.task \in {NoTask} \cup TaskKeys
    BY <1>2, RowGoodFacts
  <2>2. more = Row(row.status, row.exec, row.generation, row.ids \cup late, row.task)
    BY <2>1, RowUpdates
  <2>3. more.ids = row.ids \cup late
    BY <2>2 DEF Row
  <2>4. [row EXCEPT !.status = "NOT_APPLICABLE", !.exec = "succeeded"]
          = Row("NOT_APPLICABLE", "succeeded", row.generation, row.ids, row.task)
    BY <2>1, RowUpdates
  <2>5. CASE Decision(d) = "NOT_APPLICABLE"
    BY <1>2, <2>4, <2>5 DEF Decided
  <2>6. CASE Decision(d) = "APPLICABLE" /\ Plannable(d)
    <3>1. new = Replanned(d, more.ids)
      BY <1>2, <2>6 DEF Decided
    <3>2. IsPlanned(d, row, late, new)
      BY <1>2, <2>3, <2>6, <3>1 DEF Replanned, NewRow, Row, IsPlanned, WithLate
    <3> QED
      BY <1>2, <3>2
  <2>7. CASE Decision(d) # "NOT_APPLICABLE" /\ ~(Decision(d) = "APPLICABLE" /\ Plannable(d))
    <3>1. new = more
      BY <1>2, <2>7 DEF Decided
    <3> QED
      BY <1>2, <2>2, <2>7, <3>1 DEF Gathers, Successful
  <2> QED
    BY <2>5, <2>6, <2>7
<1> QED
  BY <1>1, <1>2

LEMMA JoinedCases ==
    ASSUME NEW d \in DataSets, NEW row \in CoverageRows, Plannable(d),
           NEW late \in SUBSET SignalsOf(d), late # {}, Decision(d) \in Decisions
    PROVE  LET new == Joined(d, row, late) IN
           \/ IsBlocked(d, row, late, new)
           \/ /\ Decision(d) = "NOT_APPLICABLE"
              /\ row.status = "NOT_APPLICABLE" /\ late \subseteq row.ids
              /\ new = Row(row.status, row.exec, row.generation, row.ids, row.task)
           \/ /\ Decision(d) = "NOT_APPLICABLE"
              /\ new = Row("NOT_APPLICABLE", "succeeded", row.generation,
                           row.ids \cup late, NoTask)
           \/ IsPlanned(d, row, late, new)
           \/ Decision(d) = "APPLICABLE" /\ Gathers(d, row, late, new)
<1> DEFINE new == Joined(d, row, late)
           more == [row EXCEPT !.ids = @ \cup late]
<1>1. row # NoRow
  BY RowFields
<1>2. more = Row(row.status, row.exec, row.generation, row.ids \cup late, row.task)
  BY RowUpdates
<1>3. more.ids = row.ids \cup late
  BY <1>2 DEF Row
<1>4. /\ [more EXCEPT !.status = "APPLICABILITY_UNKNOWN", !.exec = "blocked"]
           = Row("APPLICABILITY_UNKNOWN", "blocked", row.generation, row.ids \cup late, row.task)
      /\ [more EXCEPT !.status = "NOT_APPLICABLE", !.exec = "succeeded", !.task = NoTask]
           = Row("NOT_APPLICABLE", "succeeded", row.generation, row.ids \cup late, NoTask)
  <2>1. more \in CoverageRows
    <3>1. row.ids \cup late \in SUBSET ReplaySignals
      BY RowFields DEF SignalsOf
    <3> HIDE DEF more
    <3> QED
      BY <1>2, <3>1, RowFields, RowParts
  <2>2. more.generation = row.generation /\ more.task = row.task
    BY <1>2 DEF Row
  <2> HIDE DEF more
  <2>3. ASSUME NEW st, NEW ex
        PROVE  /\ [more EXCEPT !.status = st, !.exec = ex]
                    = Row(st, ex, row.generation, row.ids \cup late, row.task)
               /\ [more EXCEPT !.status = st, !.exec = ex, !.task = NoTask]
                    = Row(st, ex, row.generation, row.ids \cup late, NoTask)
    <3>1. [more EXCEPT !.status = st, !.exec = ex]
            = Row(st, ex, more.generation, more.ids, more.task)
      BY <2>1, RowUpdates
    <3>2. [more EXCEPT !.status = st, !.exec = ex, !.task = NoTask]
            = Row(st, ex, more.generation, more.ids, NoTask)
      <4> DEFINE a == [more EXCEPT !.status = st, !.exec = ex]
      <4>1. [more EXCEPT !.status = st, !.exec = ex, !.task = NoTask]
              = [a EXCEPT !.task = NoTask]
        OBVIOUS
      <4>2. a = Row(st, ex, more.generation, more.ids, more.task)
        BY <3>1
      <4> HIDE DEF a
      <4> QED
        BY <4>1, <4>2 DEF Row
    <3> QED
      BY <1>3, <2>2, <3>1, <3>2
  <2> QED
    BY <2>3
<1>5. CASE Decision(d) = "UNKNOWN"
  BY <1>1, <1>4, <1>5 DEF Joined, IsBlocked
<1>6. CASE Decision(d) = "NOT_APPLICABLE"
  <2>1. CASE late \subseteq row.ids /\ row.status = "NOT_APPLICABLE"
    <3>1. new = more /\ row.ids \cup late = row.ids
      BY <1>6, <2>1 DEF Joined
    <3> QED
      BY <1>2, <1>6, <2>1, <3>1
  <2>2. CASE ~(late \subseteq row.ids /\ row.status = "NOT_APPLICABLE")
    BY <1>4, <1>6, <2>2 DEF Joined
  <2> QED
    BY <2>1, <2>2
<1>7. CASE Decision(d) = "APPLICABLE"
  <2>1. CASE late \ row.ids # {} /\ row.status \in Successful
    <3>1. new = Replanned(d, more.ids)
      BY <1>7, <2>1 DEF Joined
    <3> QED
      BY <1>1, <1>3, <1>7, <3>1 DEF Replanned, NewRow, Row, IsPlanned, WithLate
  <2>2. CASE ~(late \ row.ids # {} /\ row.status \in Successful)
    <3>1. new = more
      BY <1>7, <2>2 DEF Joined
    <3> QED
      BY <1>1, <1>2, <1>7, <2>2, <3>1 DEF Gathers
  <2> QED
    BY <2>1, <2>2
<1> QED
  BY <1>5, <1>6, <1>7 DEF Decisions

LEMMA DenominatedCases ==
    ASSUME ScopeGood, NEW t, NEW d \in DataSets, NEW row, RowGood(t, d, row),
           NEW late \in SUBSET SignalsOf(d)
    PROVE  LET new == Denominated(d, row, late) IN
           \/ StaysAside(d, row, late, new) \/ Settles(d, row, late, new)
           \/ SettlesLate(d, row, late, new) \/ IsPlanned(d, row, late, new)
           \/ IsBlocked(d, row, late, new) \/ Gathers(d, row, late, new)
<1> DEFINE new == Denominated(d, row, late)
           decided == Decided(d, row, late)
<1>0. Decision(d) \in Decisions /\ dataSet[d].generation \in Nat
  BY DEF ScopeGood, DataSetState, Decision
<1>1. CASE late = {} \/ ~Plannable(d)
  <2>1. new = decided
    BY <1>1 DEF Denominated
  <2> QED
    BY <1>1, <2>1, DecidedCases DEF StaysAside, Settles
<1>2. CASE late # {} /\ Plannable(d) /\ row = NoRow
  <2>1. new = LateRow(d, late)
    BY <1>2 DEF Denominated
  <2>2. CASE Decision(d) = "UNKNOWN"
    BY <1>2, <2>1, <2>2 DEF LateRow, NewRow, Row, IsBlocked
  <2>3. CASE Decision(d) = "NOT_APPLICABLE"
    <3>1. new = Row("NOT_APPLICABLE", "succeeded", dataSet[d].generation, late, NoTask)
      BY <2>1, <2>3 DEF LateRow, NewRow, Row
    <3> QED
      BY <1>0, <1>2, <2>3, <3>1 DEF SettlesLate, WithLate
  <2>4. CASE Decision(d) = "APPLICABLE"
    BY <1>2, <2>1, <2>4 DEF LateRow, NewRow, Row, IsPlanned, WithLate
  <2> QED
    BY <1>0, <2>2, <2>3, <2>4 DEF Decisions
<1>3. CASE late # {} /\ Plannable(d) /\ row # NoRow
  <2>1. new = Joined(d, decided, late)
    BY <1>3 DEF Denominated
  <2>2. /\ row \in CoverageRows
        /\ row = Row(row.status, row.exec, row.generation, row.ids, row.task)
        /\ row.generation \in Nat /\ row.generation <= dataSet[d].generation
        /\ row.ids \in SUBSET ReplaySignals /\ row.task \in {NoTask} \cup TaskKeys
        /\ row.exec \in Executions /\ row.ids \cup late \in SUBSET ReplaySignals
    <3>1. late \subseteq ReplaySignals
      BY DEF SignalsOf
    <3> QED
      BY <1>3, <3>1, RowGoodFacts
  <2>3. WithLate(row, late) = row.ids \cup late
    BY <1>3 DEF WithLate
  <2>4. CASE decided = row
    <3>1. new = Joined(d, row, late)
      BY <2>1, <2>4
    <3>2. late # {} /\ Plannable(d) /\ row # NoRow /\ row \in CoverageRows
      BY <1>3, <2>2
    <3>3. \/ IsBlocked(d, row, late, new)
          \/ /\ Decision(d) = "NOT_APPLICABLE"
             /\ row.status = "NOT_APPLICABLE" /\ late \subseteq row.ids
             /\ new = Row(row.status, row.exec, row.generation, row.ids, row.task)
          \/ /\ Decision(d) = "NOT_APPLICABLE"
             /\ new = Row("NOT_APPLICABLE", "succeeded", row.generation,
                          row.ids \cup late, NoTask)
          \/ IsPlanned(d, row, late, new)
          \/ Decision(d) = "APPLICABLE" /\ Gathers(d, row, late, new)
      <4> HIDE DEF new, decided
      <4> QED
        BY <1>0, <3>1, <3>2, JoinedCases
    <3>4. CASE /\ late \subseteq row.ids
               /\ new = Row(row.status, row.exec, row.generation, row.ids, row.task)
      <4>1. row.ids \cup late = row.ids
        BY <3>4
      <4> QED
        BY <3>2, <3>4, <4>1 DEF Gathers
    <3>5. CASE /\ Decision(d) = "NOT_APPLICABLE"
               /\ new = Row("NOT_APPLICABLE", "succeeded", row.generation,
                            row.ids \cup late, NoTask)
      BY <2>2, <2>3, <3>5 DEF SettlesLate
    <3> QED
      BY <3>3, <3>4, <3>5
  <2>5. CASE /\ Decision(d) = "NOT_APPLICABLE"
             /\ decided = Row("NOT_APPLICABLE", "succeeded", row.generation, row.ids, row.task)
    <3>1. /\ decided \in CoverageRows
          /\ decided.status = "NOT_APPLICABLE" /\ decided.exec = "succeeded"
          /\ decided.generation = row.generation /\ decided.ids = row.ids
          /\ decided.task = row.task
      <4> HIDE DEF decided
      <4> QED
        BY <2>2, <2>5, RowParts DEF CoverageStatus, Executions
    <3> HIDE DEF decided
    <3> QED
      BY <1>0, <1>3, <2>1, <2>2, <2>3, <2>5, <3>1, JoinedCases
         DEF Settles, SettlesLate, IsBlocked, IsPlanned
  <2>6. CASE IsPlanned(d, row, late, decided)
    <3>1. decided = Row("PENDING", "pending", dataSet[d].generation, row.ids \cup late, NoTask)
      BY <2>3, <2>6 DEF IsPlanned
    <3>2. /\ decided \in CoverageRows /\ decided # NoRow
          /\ decided.status = "PENDING" /\ decided.exec = "pending"
          /\ decided.generation = dataSet[d].generation
          /\ decided.ids = row.ids \cup late /\ decided.task = NoTask
      <4> HIDE DEF decided
      <4> QED
        BY <1>0, <2>2, <3>1, RowParts DEF CoverageStatus, Executions
    <3>3. decided.ids \cup late = row.ids \cup late
      BY <3>2
    <3>4. Decision(d) = "APPLICABLE"
      BY <2>6 DEF IsPlanned
    <3> HIDE DEF decided
    <3>5. IsPlanned(d, decided, late, new) \/ Gathers(d, decided, late, new)
      BY <1>0, <1>3, <2>1, <3>2, <3>4, JoinedCases DEF IsBlocked
    <3>6. new = Row("PENDING", "pending", dataSet[d].generation, row.ids \cup late, NoTask)
      BY <3>2, <3>3, <3>5 DEF IsPlanned, Gathers, WithLate
    <3> QED
      BY <1>3, <2>3, <2>6, <3>6 DEF IsPlanned
  <2>7. CASE /\ Decision(d) # "NOT_APPLICABLE"
             /\ ~(Decision(d) = "APPLICABLE" /\ Plannable(d))
             /\ Gathers(d, row, late, decided)
    <3>1. Decision(d) = "UNKNOWN"
      BY <1>0, <1>3, <2>7 DEF Decisions
    <3>2. /\ decided \in CoverageRows /\ decided # NoRow
          /\ decided.generation = row.generation
          /\ decided.ids = row.ids \cup late /\ decided.task = row.task
      <4>1. row.status \in CoverageStatus
        BY <2>2, RowFields
      <4> HIDE DEF decided
      <4> QED
        BY <2>2, <2>7, <4>1, RowParts DEF Gathers
    <3>3. decided.ids \cup late = row.ids \cup late
      BY <3>2
    <3> HIDE DEF decided
    <3>4. IsBlocked(d, decided, late, new)
      BY <1>0, <1>3, <2>1, <3>1, <3>2, JoinedCases DEF IsPlanned
    <3> QED
      BY <1>3, <3>1, <3>2, <3>3, <3>4 DEF IsBlocked
  <2> QED
    BY <1>3, <2>4, <2>5, <2>6, <2>7, DecidedCases
<1> QED
  BY <1>1, <1>2, <1>3

\* What the denominator makes of a row is good, once the signals of rows that
\* it settled are closed; the row gathers the late signals; and a row that has
\* succeeded stays so, unless late signals ask for a new answer.
LEMMA DenominatedGood ==
    ASSUME ScopeGood, NEW t, NEW u, MovesOn(t, u), NEW d \in DataSets,
           NEW row, RowGood(t, d, row), NEW late \in SUBSET SignalsOf(d),
           Answerable(t, d, row) => row.status \in Successful,
           LET new == Denominated(d, row, late) IN
             new # row /\ new.status = "NOT_APPLICABLE" =>
               \A s \in ReplaySignals : s \in new.ids => u.signals[s] \notin Actionable
    PROVE  LET new == Denominated(d, row, late) IN
           /\ RowGood(u, d, new)
           /\ row # NoRow => new # NoRow /\ row.ids \subseteq new.ids
           /\ late # {} /\ Plannable(d) => new # NoRow /\ late \subseteq new.ids
           /\ /\ row # NoRow => row.status \in Successful /\ row.exec = "succeeded"
              /\ late = {} \/ ~Plannable(d) \/ Decision(d) = "NOT_APPLICABLE"
              => (new # NoRow => new.status \in Successful /\ new.exec = "succeeded")
<1> DEFINE new == Denominated(d, row, late)
<1>0. /\ Decision(d) \in Decisions /\ dataSet[d].generation \in Nat
      /\ late \subseteq ReplaySignals
      /\ NoTask \in {NoTask} \cup TaskKeys
  BY DEF ScopeGood, DataSetState, Decision, SignalsOf
<1>1. RowGood(u, d, row)
  BY RowStaysGood
<1>2. ASSUME row # NoRow
      PROVE  /\ row \in CoverageRows
             /\ row = Row(row.status, row.exec, row.generation, row.ids, row.task)
             /\ row.status \in CoverageStatus /\ row.exec \in Executions
             /\ row.generation \in Nat /\ row.generation <= dataSet[d].generation
             /\ row.ids \in SUBSET SignalsOf(d) /\ row.ids \cup late \in SUBSET SignalsOf(d)
             /\ row.ids \in SUBSET ReplaySignals
             /\ row.ids \cup late \in SUBSET ReplaySignals
             /\ row.task \in {NoTask} \cup TaskKeys
             /\ row.task # NoTask => row.task \in DOMAIN u.jobs
             /\ row.exec = "blocked" <=> row.status = "APPLICABILITY_UNKNOWN"
             /\ row.exec = "failed" => row.status = "UNAVAILABLE"
  BY <1>0, <1>1, <1>2, RowGoodFacts
<1>3. CASE StaysAside(d, row, late, new)
  BY <1>1, <1>3 DEF StaysAside
<1>4. CASE Settles(d, row, late, new)
  <2>1. row # NoRow
    BY <1>4 DEF Settles
  <2>2. new = Row("NOT_APPLICABLE", "succeeded", row.generation, row.ids, row.task)
    BY <1>4 DEF Settles
  <2>3. /\ new # NoRow /\ new.status = "NOT_APPLICABLE" /\ new.exec = "succeeded"
        /\ new.ids = row.ids
    <3> HIDE DEF new
    <3> QED
      BY <1>2, <2>1, <2>2, RowParts DEF CoverageStatus, Executions
  <2>4. RowGood(u, d, new)
    <3>1. CASE new = row
      BY <1>1, <3>1
    <3>2. CASE new # row
      <4>1. \A s \in row.ids : u.signals[s] \notin Actionable
        BY <1>2, <2>1, <2>3, <3>2
      <4> HIDE DEF new
      <4> QED
        BY <1>2, <2>1, <2>2, <4>1, RowIntro DEF CoverageStatus, Executions
    <3> QED
      BY <3>1, <3>2
  <2>5. late # {} /\ Plannable(d) => late \subseteq new.ids
    BY <1>4, <2>3 DEF Settles
  <2> QED
    BY <2>3, <2>4, <2>5 DEF Successful
<1>5. CASE SettlesLate(d, row, late, new)
  <2> DEFINE ids == WithLate(row, late)
  <2>1. PICK g \in Nat : /\ g <= dataSet[d].generation
                         /\ new = Row("NOT_APPLICABLE", "succeeded", g, ids, NoTask)
    BY <1>5 DEF SettlesLate
  <2>2. /\ ids \in SUBSET SignalsOf(d) /\ ids \in SUBSET ReplaySignals
        /\ late \subseteq ids /\ (row # NoRow => row.ids \subseteq ids)
    BY <1>0, <1>2 DEF WithLate
  <2> HIDE DEF ids
  <2>3. /\ new # NoRow /\ new.status = "NOT_APPLICABLE" /\ new.exec = "succeeded"
        /\ new.ids = ids
    <3> HIDE DEF new
    <3> QED
      BY <1>0, <2>1, <2>2, RowParts DEF CoverageStatus, Executions
  <2>4. RowGood(u, d, new)
    <3> HIDE DEF new
    <3> QED
      BY <1>0, <2>1, <2>2, RowIntro DEF CoverageStatus, Executions
  <2> QED
    BY <2>2, <2>3, <2>4 DEF Successful
<1>6. CASE IsPlanned(d, row, late, new)
  <2> DEFINE ids == WithLate(row, late)
  <2>1. new = Row("PENDING", "pending", dataSet[d].generation, ids, NoTask)
    BY <1>6 DEF IsPlanned
  <2>2. /\ ids \in SUBSET SignalsOf(d) /\ ids \in SUBSET ReplaySignals
        /\ late \subseteq ids /\ (row # NoRow => row.ids \subseteq ids)
    BY <1>0, <1>2 DEF WithLate
  <2> HIDE DEF ids
  <2>3. /\ new # NoRow /\ new.ids = ids
    <3> HIDE DEF new
    <3> QED
      BY <1>0, <2>1, <2>2, RowParts DEF CoverageStatus, Executions
  <2>4. RowGood(u, d, new)
    <3> HIDE DEF new
    <3>1. dataSet[d].generation <= dataSet[d].generation
      BY <1>0
    <3> QED
      BY <1>0, <2>1, <2>2, <3>1, RowIntro DEF CoverageStatus, Executions
  <2>5. ~(/\ row # NoRow => row.status \in Successful /\ row.exec = "succeeded"
          /\ late = {} \/ ~Plannable(d) \/ Decision(d) = "NOT_APPLICABLE")
    <3>1. NoRow.status # "APPLICABILITY_UNKNOWN"
      BY DEF NoRow
    <3> QED
      BY <1>6, <3>1 DEF IsPlanned, Successful
  <2> QED
    BY <2>2, <2>3, <2>4, <2>5
<1>7. CASE IsBlocked(d, row, late, new)
  <2>1. CASE row = NoRow
    <3>1. new = Row("APPLICABILITY_UNKNOWN", "blocked", dataSet[d].generation, late, NoTask)
      BY <1>7, <2>1 DEF IsBlocked
    <3>2. new # NoRow /\ new.ids = late
      <4> HIDE DEF new
      <4> QED
        BY <1>0, <3>1, RowParts DEF CoverageStatus, Executions
    <3>3. RowGood(u, d, new)
      <4> HIDE DEF new
      <4>1. dataSet[d].generation <= dataSet[d].generation
        BY <1>0
      <4> QED
        BY <1>0, <3>1, <4>1, RowIntro DEF CoverageStatus, Executions
    <3> QED
      BY <1>7, <2>1, <3>2, <3>3 DEF IsBlocked
  <2>2. CASE row # NoRow
    <3>1. new = Row("APPLICABILITY_UNKNOWN", "blocked", row.generation, row.ids \cup late,
                    row.task)
      BY <1>7, <2>2 DEF IsBlocked
    <3>2. new # NoRow /\ new.ids = row.ids \cup late
      <4> HIDE DEF new
      <4> QED
        BY <1>2, <2>2, <3>1, RowParts DEF CoverageStatus, Executions
    <3>3. RowGood(u, d, new)
      <4> HIDE DEF new
      <4> QED
        BY <1>2, <2>2, <3>1, RowIntro DEF CoverageStatus, Executions
    <3> QED
      BY <1>7, <2>2, <3>2, <3>3 DEF IsBlocked
  <2> QED
    BY <2>1, <2>2
<1>8. CASE Gathers(d, row, late, new)
  <2>1. row # NoRow
    BY <1>8 DEF Gathers
  <2>2. new = Row(row.status, row.exec, row.generation, row.ids \cup late, row.task)
    BY <1>8 DEF Gathers
  <2>3. /\ new # NoRow /\ new.status = row.status /\ new.exec = row.exec
        /\ new.ids = row.ids \cup late
    <3> HIDE DEF new
    <3> QED
      BY <1>2, <2>1, <2>2, RowParts
  <2>4. RowGood(u, d, new)
    <3>1. CASE late \subseteq row.ids
      <4>1. row.ids \cup late = row.ids
        BY <3>1
      <4>2. new = row
        BY <1>2, <2>1, <2>2, <4>1
      <4> QED
        BY <1>1, <4>2
    <3>2. CASE ~(late \subseteq row.ids)
      <4>1. ~Answerable(t, d, row)
        BY <1>8, <3>2 DEF Gathers
      <4>2. ~Answerable(u, d, row)
        <5>1. row.task # NoTask => row.task \in DOMAIN t.jobs
          BY <2>1, RowGoodFacts
        <5> QED
          BY <4>1, <5>1 DEF Answerable, Follows, MovesOn
      <4>3. \/ row.exec = "blocked" \/ row.task = NoTask
            \/ ~(/\ u.jobs[row.task].status = "succeeded"
                 /\ scope.mode[d] = "point" \/ row.generation = dataSet[d].generation)
        BY <2>1, <4>2 DEF Answerable, Follows, Fresh
      <4> HIDE DEF new
      <4> QED
        BY <1>2, <2>1, <2>2, <4>3, RowIntro
    <3> QED
      BY <3>1, <3>2
  <2> QED
    BY <2>1, <2>3, <2>4
<1> QED
  BY <1>3, <1>4, <1>5, <1>6, <1>7, <1>8, DenominatedCases

-----------------------------------------------------------------------------
(* Tables.                                                                 *)

LEMMA DatabaseFields ==
    ASSUME NEW runs, NEW signals, NEW jobs, NEW early, NEW reopened
    PROVE  LET t == Database(runs, signals, jobs, early, reopened) IN
           /\ t.runs = runs /\ t.signals = signals /\ t.jobs = jobs
           /\ t.early = early /\ t.reopened = reopened
  BY DEF Database

\* Tables stay good when rows of runs do, and the rest moves on.
LEMMA UpdateGood ==
    ASSUME ScopeGood, NEW t, TablesGood(t), NEW u, TablesTyped(u), MovesOn(t, u),
           \A k \in DOMAIN u.jobs : JobGood(k, u.jobs[k]),
           SignalsGood(u), u.early = {},
           \A n \in DOMAIN u.runs :
             \/ n \in DOMAIN t.runs /\ u.runs[n].rows = t.runs[n].rows
             \/ RowsGood(u, u.runs[n].rows)
    PROVE  TablesGood(u)
<1>1. ASSUME NEW n \in DOMAIN t.runs PROVE RowsGood(u, t.runs[n].rows)
  <2>1. RowsGood(t, t.runs[n].rows)
    BY DEF TablesGood
  <2> QED
    BY <2>1, RowStaysGood DEF RowsGood
<1>2. ASSUME NEW n \in DOMAIN u.runs PROVE RowsGood(u, u.runs[n].rows)
  BY <1>1
<1> QED
  BY <1>2 DEF TablesGood

\* Marked changes signals and nothing else.
LEMMA MarkedFacts ==
    ASSUME NEW t, TablesTyped(t), NEW S, NEW from, NEW to \in SignalStatus
    PROVE  LET m == Marked(t, S, from, to) IN
           /\ TablesTyped(m)
           /\ m.runs = t.runs /\ m.jobs = t.jobs /\ m.early = t.early
           /\ m.reopened = t.reopened
           /\ \A x \in ReplaySignals :
                m.signals[x] = IF x \in S /\ t.signals[x] \in from THEN to ELSE t.signals[x]
<1> DEFINE signals == [x \in ReplaySignals |->
                         IF x \in S /\ t.signals[x] \in from THEN to ELSE t.signals[x]]
           m == Marked(t, S, from, to)
<1>1. t = Database(t.runs, t.signals, t.jobs, t.early, t.reopened)
  BY DEF TablesTyped
<1>2. m = [t EXCEPT !.signals = signals]
  BY DEF Marked
<1>3. m = Database(t.runs, signals, t.jobs, t.early, t.reopened)
  <2> HIDE DEF signals, m
  <2> QED
    BY <1>1, <1>2 DEF Database
<1>4. signals \in [ReplaySignals -> SignalStatus]
  BY DEF TablesTyped
<1>5. /\ m.runs = t.runs /\ m.signals = signals /\ m.jobs = t.jobs
      /\ m.early = t.early /\ m.reopened = t.reopened
  <2> HIDE DEF signals, m
  <2> QED
    BY <1>3, DatabaseFields
<1>6. TablesTyped(m)
  <2> HIDE DEF signals, m
  <2> QED
    BY <1>3, <1>4, <1>5 DEF TablesTyped
<1> QED
  BY <1>5, <1>6

\* To close signals, or to schedule them, keeps the tables good.
LEMMA MarkedGood ==
    ASSUME ScopeGood, NEW t, TablesGood(t), NEW S, NEW from, NEW to \in SignalStatus,
           to # "absent",
           to \in Actionable => from \subseteq Actionable,
           \A x \in S \cap ReplaySignals : t.signals[x] \in from => x[1] <= emitted
    PROVE  LET m == Marked(t, S, from, to) IN TablesGood(m) /\ MovesOn(t, m)
<1> DEFINE m == Marked(t, S, from, to)
<1>1. TablesTyped(t) /\ SignalsGood(t)
  BY DEF TablesGood
<1>2. /\ TablesTyped(m)
      /\ m.runs = t.runs /\ m.jobs = t.jobs /\ m.early = t.early
      /\ m.reopened = t.reopened
      /\ \A x \in ReplaySignals :
           m.signals[x] = IF x \in S /\ t.signals[x] \in from THEN to ELSE t.signals[x]
  BY <1>1, MarkedFacts
<1> HIDE DEF m
<1>3. MovesOn(t, m)
  <2>1. ASSUME NEW s \in ReplaySignals, m.signals[s] \in Actionable
        PROVE  t.signals[s] \in Actionable
    <3>1. CASE s \in S /\ t.signals[s] \in from
      BY <1>2, <2>1, <3>1
    <3>2. CASE ~(s \in S /\ t.signals[s] \in from)
      BY <1>2, <2>1, <3>2
    <3> QED
      BY <3>1, <3>2
  <2> QED
    BY <1>2, <2>1 DEF MovesOn
<1>4. SignalsGood(m)
  <2>1. ASSUME NEW x \in ReplaySignals
        PROVE  m.signals[x] = "absent" <=> x[1] > emitted
    <3>1. x[1] \in Nat /\ emitted \in Nat
      BY SignalFacts DEF ScopeGood
    <3>2. CASE x \in S /\ t.signals[x] \in from
      <4>1. x[1] <= emitted /\ m.signals[x] = to
        BY <1>2, <3>2
      <4> QED
        BY <3>1, <4>1
    <3>3. CASE ~(x \in S /\ t.signals[x] \in from)
      BY <1>1, <1>2, <3>3 DEF SignalsGood
    <3> QED
      BY <3>2, <3>3
  <2> QED
    BY <2>1 DEF SignalsGood
<1>5. TablesGood(m)
  BY <1>2, <1>3, <1>4, UpdateGood DEF TablesGood
<1> QED
  BY <1>3, <1>5 DEF m

LEMMA CompletedGood ==
    ASSUME ScopeGood, NEW t, TablesGood(t), NEW S
    PROVE  LET m == Completed(t, S) IN
           /\ TablesGood(m) /\ MovesOn(t, m)
           /\ m.runs = t.runs /\ m.jobs = t.jobs /\ m.early = t.early
           /\ m.reopened = t.reopened
           /\ \A x \in ReplaySignals :
                /\ x \in S => m.signals[x] \notin Actionable
                /\ x \notin S => m.signals[x] = t.signals[x]
<1>1. TablesTyped(t) /\ SignalsGood(t)
  BY DEF TablesGood
<1>2. "complete" \in SignalStatus /\ "complete" # "absent" /\ "complete" \notin Actionable
  BY DEF SignalStatus, Actionable
<1>3. \A x \in S \cap ReplaySignals : t.signals[x] \in Actionable => x[1] <= emitted
  <2>1. "absent" \notin Actionable
    BY DEF Actionable
  <2>2. \A x \in ReplaySignals : x[1] \in Nat
    BY SignalFacts
  <2> QED
    BY <1>1, <2>1, <2>2 DEF SignalsGood, ScopeGood
<1>4. LET m == Marked(t, S, Actionable, "complete") IN TablesGood(m) /\ MovesOn(t, m)
  BY <1>2, <1>3, MarkedGood
<1>5. LET m == Marked(t, S, Actionable, "complete") IN
      /\ m.runs = t.runs /\ m.jobs = t.jobs /\ m.early = t.early
      /\ m.reopened = t.reopened
      /\ \A x \in ReplaySignals :
           m.signals[x] = IF x \in S /\ t.signals[x] \in Actionable THEN "complete"
                          ELSE t.signals[x]
  BY <1>1, <1>2, MarkedFacts
<1> QED
  BY <1>2, <1>4, <1>5 DEF Completed

-----------------------------------------------------------------------------
(* Runs.                                                                   *)

Run(trigger, key, status, ready, restarts, rows) ==
    [trigger |-> trigger, key |-> key, status |-> status, ready |-> ready,
     restarts |-> restarts, rows |-> rows]

LEMMA RunFields ==
    ASSUME NEW run \in RunRows
    PROVE  /\ run = Run(run.trigger, run.key, run.status, run.ready, run.restarts, run.rows)
           /\ run.trigger \in Triggers /\ run.key \subseteq ReplaySignals
           /\ run.status \in {"open", "succeeded", "failed"} /\ run.ready \in BOOLEAN
           /\ run.restarts \in 0..MaxRestarts /\ run.rows \in RowTables
  BY DEF RunRows, Run

LEMMA RunParts ==
    ASSUME NEW trigger \in Triggers, NEW key \in SUBSET ReplaySignals,
           NEW status \in {"open", "succeeded", "failed"}, NEW ready \in BOOLEAN,
           NEW restarts \in 0..MaxRestarts, NEW rows \in RowTables
    PROVE  LET run == Run(trigger, key, status, ready, restarts, rows) IN
           /\ run \in RunRows
           /\ run.trigger = trigger /\ run.key = key /\ run.status = status
           /\ run.ready = ready /\ run.restarts = restarts /\ run.rows = rows
  BY DEF RunRows, Run

\* The rows of a run are replaced.
LEMMA RunWithRows ==
    ASSUME NEW run \in RunRows, NEW rows \in RowTables
    PROVE  LET new == [run EXCEPT !.rows = rows] IN
           /\ new \in RunRows /\ new.rows = rows
           /\ new.trigger = run.trigger /\ new.key = run.key /\ new.status = run.status
           /\ new.ready = run.ready /\ new.restarts = run.restarts
  BY DEF RunRows

\* A run is concluded or opened.
Became(run, status, ready) == [run EXCEPT !.status = status, !.ready = ready]

LEMMA RunWithStatus ==
    ASSUME NEW run \in RunRows, NEW status \in {"open", "succeeded", "failed"},
           NEW ready \in BOOLEAN
    PROVE  LET new == Became(run, status, ready) IN
           /\ new \in RunRows /\ new.rows = run.rows
           /\ new.trigger = run.trigger /\ new.key = run.key /\ new.status = status
           /\ new.ready = ready /\ new.restarts = run.restarts
<1> DEFINE a == [run EXCEPT !.status = status]
           b == [a EXCEPT !.ready = ready]
<1>1. a = Run(run.trigger, run.key, status, run.ready, run.restarts, run.rows)
  BY RunFields DEF Run
<1>2. b = Run(run.trigger, run.key, status, ready, run.restarts, run.rows)
  <2> HIDE DEF a
  <2> QED
    BY <1>1 DEF Run
<1>3. /\ b \in RunRows /\ b.rows = run.rows
      /\ b.trigger = run.trigger /\ b.key = run.key /\ b.status = status
      /\ b.ready = ready /\ b.restarts = run.restarts
  <2> HIDE DEF b
  <2>1. b \in RunRows
    BY <1>2, RunFields DEF RunRows, Run
  <2> QED
    BY <1>2, <2>1 DEF Run
<1>4. Became(run, status, ready) = b
  BY DEF Became
<1> QED
  BY <1>3, <1>4

\* One run of the tables is replaced.
LEMMA WithRunFacts ==
    ASSUME NEW t, TablesTyped(t), NEW n \in DOMAIN t.runs, NEW run \in RunRows
    PROVE  LET u == [t EXCEPT !.runs[n] = run] IN
           /\ TablesTyped(u)
           /\ DOMAIN u.runs = DOMAIN t.runs
           /\ u.runs[n] = run
           /\ \A m \in DOMAIN t.runs : m # n => u.runs[m] = t.runs[m]
           /\ u.signals = t.signals /\ u.jobs = t.jobs /\ u.early = t.early
           /\ u.reopened = t.reopened
<1> DEFINE runs == [t.runs EXCEPT ![n] = run]
           u == [t EXCEPT !.runs[n] = run]
<1>1. t = Database(t.runs, t.signals, t.jobs, t.early, t.reopened)
  BY DEF TablesTyped
<1>2. u = [t EXCEPT !.runs = runs]
  OBVIOUS
<1>3. u = Database(runs, t.signals, t.jobs, t.early, t.reopened)
  <2> HIDE DEF runs, u
  <2> QED
    BY <1>1, <1>2 DEF Database
<1>4. /\ runs \in Seq(RunRows) /\ DOMAIN runs = DOMAIN t.runs /\ runs[n] = run
      /\ \A m \in DOMAIN t.runs : m # n => runs[m] = t.runs[m]
  BY DEF TablesTyped
<1>5. /\ u.runs = runs /\ u.signals = t.signals /\ u.jobs = t.jobs
      /\ u.early = t.early /\ u.reopened = t.reopened
  <2> HIDE DEF runs, u
  <2> QED
    BY <1>3, DatabaseFields
<1>6. TablesTyped(u)
  <2> HIDE DEF runs, u
  <2> QED
    BY <1>3, <1>4, <1>5 DEF TablesTyped
<1> QED
  BY <1>4, <1>5, <1>6

LEMMA RunsGood ==
    ASSUME NEW t, TablesGood(t), NEW n \in DOMAIN t.runs
    PROVE  /\ TablesTyped(t)
           /\ t.runs[n] \in RunRows
           /\ t.runs[n].rows \in RowTables
           /\ \A d \in DataSets : RowGood(t, d, t.runs[n].rows[d])
<1>1. TablesTyped(t) /\ RowsGood(t, t.runs[n].rows)
  BY DEF TablesGood
<1>2. t.runs[n] \in RunRows
  BY <1>1 DEF TablesTyped
<1> QED
  BY <1>1, <1>2, RunFields DEF RowsGood

\* The rows of a run are replaced in the tables.
WithRows(u, n, rows) == [u EXCEPT !.runs[n].rows = rows]

\* The new rows represent every signal that the old ones did, and those that u
\* closed.
Covers(old, rows) ==
    \A d \in DataSets : old[d] # NoRow =>
        rows[d] # NoRow /\ old[d].ids \subseteq rows[d].ids
ClosesCovered(t, u, rows) ==
    \A s \in ReplaySignals :
        t.signals[s] \in Actionable /\ u.signals[s] \notin Actionable =>
          rows[s[2]] # NoRow /\ s \in rows[s[2]].ids

\* What an operation on run n made of t, through u, when it gave the run rows.
RowsWorked(t, u, n, rows) ==
    LET w == WithRows(u, n, rows) IN
    /\ Worked(t, w, n)
    /\ w.signals = u.signals /\ w.jobs = u.jobs /\ w.reopened = u.reopened
    /\ w.runs[n] \in RunRows
    /\ w.runs[n].rows = rows /\ w.runs[n].status = t.runs[n].status
    /\ w.runs[n].ready = t.runs[n].ready /\ w.runs[n].restarts = t.runs[n].restarts

\* An operation that closes only signals of the rows that it gives a run.
LEMMA WithRowsWorked ==
    ASSUME ScopeGood, NEW t, TablesGood(t), NEW n \in DOMAIN t.runs,
           NEW u, TablesGood(u), MovesOn(t, u), u.runs = t.runs,
           NEW rows, RowsGood(u, rows),
           Covers(t.runs[n].rows, rows), ClosesCovered(t, u, rows)
    PROVE  RowsWorked(t, u, n, rows)
<1> DEFINE run == [u.runs[n] EXCEPT !.rows = rows]
           w == [u EXCEPT !.runs[n] = run]
<1>1. rows \in RowTables
  BY DEF RowsGood, RowGood, RowTables
<1>2. /\ run \in RunRows /\ run.rows = rows
      /\ run.status = t.runs[n].status
      /\ run.ready = t.runs[n].ready /\ run.restarts = t.runs[n].restarts
  BY <1>1, RunsGood, RunWithRows
<1>3. WithRows(u, n, rows) = w
  BY DEF WithRows
<1>4. /\ TablesTyped(w)
      /\ DOMAIN w.runs = DOMAIN t.runs
      /\ w.runs[n] = run
      /\ \A m \in DOMAIN t.runs : m # n => w.runs[m] = t.runs[m]
      /\ w.signals = u.signals /\ w.jobs = u.jobs /\ w.early = u.early
      /\ w.reopened = u.reopened
  <2> HIDE DEF run
  <2>1. TablesTyped(u) /\ n \in DOMAIN u.runs
    BY DEF TablesGood
  <2>2. /\ TablesTyped(w)
        /\ DOMAIN w.runs = DOMAIN u.runs
        /\ w.runs[n] = run
        /\ \A m \in DOMAIN u.runs : m # n => w.runs[m] = u.runs[m]
        /\ w.signals = u.signals /\ w.jobs = u.jobs /\ w.early = u.early
        /\ w.reopened = u.reopened
    BY <1>2, <2>1, WithRunFacts
  <2> HIDE DEF w
  <2> QED
    BY <2>2
<1> HIDE DEF run, w
<1>5. MovesOn(u, w)
  BY <1>4 DEF MovesOn
<1>6. RowsGood(w, rows)
  BY <1>5, RowStaysGood DEF RowsGood
<1>7. TablesGood(w)
  <2>1. SignalsGood(w) /\ w.early = {} /\ \A k \in DOMAIN w.jobs : JobGood(k, w.jobs[k])
    BY <1>4 DEF TablesGood, SignalsGood
  <2>2. ASSUME NEW m \in DOMAIN w.runs
        PROVE  \/ m \in DOMAIN u.runs /\ w.runs[m].rows = u.runs[m].rows
               \/ RowsGood(w, w.runs[m].rows)
    BY <1>2, <1>4, <1>6
  <2> QED
    BY <1>4, <1>5, <2>1, <2>2, UpdateGood
<1>8. ASSUME NEW s \in ReplaySignals, Accounted(t, n, s)
      PROVE  Accounted(w, n, s)
  <2>1. s[2] \in DataSets
    BY SignalFacts
  <2>2. CASE Represents(t.runs[n], s)
    BY <1>2, <1>4, <2>1, <2>2 DEF Represents, Accounted, Covers
  <2>3. CASE t.signals[s] \in Actionable
    <3>1. u.signals[s] \in Actionable \/ (rows[s[2]] # NoRow /\ s \in rows[s[2]].ids)
      BY <2>3 DEF ClosesCovered
    <3> QED
      BY <1>2, <1>4, <3>1 DEF Represents, Accounted
  <2> QED
    BY <1>8, <2>2, <2>3 DEF Accounted
<1>9. Worked(t, w, n)
  BY <1>4, <1>7, <1>8 DEF Worked
<1> QED
  BY <1>2, <1>3, <1>4, <1>9 DEF RowsWorked

\* _refresh_run_state, first part.
LEMMA SyncedWorked ==
    ASSUME ScopeGood, NEW t, TablesGood(t), NEW n \in DOMAIN t.runs
    PROVE  /\ Worked(t, Synced(t, n), n)
           /\ Aligned(Synced(t, n), n)
<1> DEFINE old == t.runs[n].rows
           rows == [d \in DataSets |-> SyncedRow(t, d, old[d])]
           answered == {d \in DataSets : Follows(rows[d]) /\ rows[d].status = "ANSWERED"}
           done == UNION {{s \in rows[d].ids : t.signals[s] \in Actionable} : d \in answered}
           older == {s \in done \ t.reopened : s[1] > t.jobs[rows[s[2]].task].knows}
           c == Completed(t, done)
           w == [c EXCEPT !.runs[n].rows = rows]
<1>1. TablesTyped(t) /\ \A d \in DataSets : RowGood(t, d, old[d])
  BY RunsGood
<1>2. ASSUME NEW d \in DataSets
      PROVE  /\ RowGood(t, d, rows[d])
             /\ rows[d] = NoRow <=> old[d] = NoRow
             /\ old[d] # NoRow => rows[d].ids = old[d].ids /\ rows[d].task = old[d].task
             /\ Answerable(t, d, rows[d]) <=> Answerable(t, d, old[d])
             /\ Answerable(t, d, old[d]) => rows[d].status = "ANSWERED"
             /\ Follows(rows[d]) /\ rows[d].status = "ANSWERED" => Answerable(t, d, old[d])
  <2>1. rows[d] = SyncedRow(t, d, old[d])
    OBVIOUS
  <2> HIDE DEF rows
  <2> QED
    BY <1>1, <2>1, SyncedRowGood
<1>3. ASSUME NEW s \in done
      PROVE  \E d \in answered : s \in rows[d].ids /\ t.signals[s] \in Actionable
  BY <1>3
<1> HIDE DEF rows
<1>4. ASSUME NEW d \in answered
      PROVE  /\ d \in DataSets /\ old[d] # NoRow /\ rows[d] # NoRow
             /\ Answerable(t, d, old[d])
             /\ rows[d].ids \subseteq SignalsOf(d)
  <2>1. d \in DataSets /\ Follows(rows[d]) /\ rows[d].status = "ANSWERED"
    OBVIOUS
  <2>2. rows[d] # NoRow
    BY <2>1 DEF Follows
  <2> QED
    BY <1>2, <2>1, <2>2 DEF RowGood
<1> HIDE DEF answered, done
<1>5. older = {}
  <2> SUFFICES ASSUME NEW s \in older PROVE FALSE
    OBVIOUS
  <2>1. s \in done /\ s \notin t.reopened /\ s[1] > t.jobs[rows[s[2]].task].knows
    OBVIOUS
  <2>2. PICK d \in answered : s \in rows[d].ids /\ t.signals[s] \in Actionable
    BY <1>3, <2>1
  <2>3. s \in ReplaySignals /\ s[2] = d /\ d \in DataSets
    BY <1>4, <2>2 DEF SignalsOf
  <2>4. /\ old[d] # NoRow /\ Answerable(t, d, old[d]) /\ RowGood(t, d, old[d])
        /\ s \in old[d].ids /\ rows[d].task = old[d].task
    BY <1>1, <1>2, <1>4, <2>2, <2>3
  <2>5. s[1] <= t.jobs[old[d].task].knows
    BY <2>1, <2>2, <2>4 DEF RowGood, AnswerIsLater
  <2>6. s[1] \in Nat
    BY <2>3, SignalFacts
  <2> DEFINE knows == t.jobs[old[d].task].knows
  <2>7. knows \in Nat
    <3> HIDE DEF old
    <3>1. old[d].task \in DOMAIN t.jobs
      BY <2>4 DEF RowGood, Answerable, Follows
    <3>2. t.jobs \in [DOMAIN t.jobs -> TaskJobRows]
      BY <1>1 DEF TablesTyped
    <3>3. t.jobs[old[d].task] \in TaskJobRows
      BY <3>1, <3>2
    <3> QED
      BY <3>3 DEF TaskJobRows, ScopeGood
  <2>8. s[1] > knows
    BY <2>1, <2>3, <2>4
  <2>9. s[1] <= knows
    BY <2>5
  <2> HIDE DEF knows
  <2> QED
    BY <2>6, <2>7, <2>8, <2>9
<1>6. /\ TablesGood(c) /\ MovesOn(t, c)
      /\ c.runs = t.runs /\ c.jobs = t.jobs /\ c.early = t.early
      /\ c.reopened = t.reopened
      /\ \A x \in ReplaySignals :
           /\ x \in done => c.signals[x] \notin Actionable
           /\ x \notin done => c.signals[x] = t.signals[x]
  BY CompletedGood
<1>7. Synced(t, n) = w
  <2>1. Synced(t, n) = [w EXCEPT !.early = @ \cup older]
    BY DEF Synced, rows, answered, done
  <2>2. TablesTyped(w)
    <3>1. rows \in RowTables
      BY <1>2 DEF RowTables, RowGood, rows
    <3>2. c.runs[n] \in RunRows /\ TablesTyped(c) /\ n \in DOMAIN c.runs
      BY <1>6, RunsGood
    <3> HIDE DEF c
    <3> DEFINE run == [c.runs[n] EXCEPT !.rows = rows]
    <3>3. run \in RunRows
      BY <3>1, <3>2, RunWithRows
    <3>4. w = [c EXCEPT !.runs[n] = run]
      OBVIOUS
    <3> HIDE DEF run, w
    <3> QED
      BY <3>2, <3>3, <3>4, WithRunFacts
  <2> HIDE DEF w, older
  <2>3. [w EXCEPT !.early = @ \cup older] = [w EXCEPT !.early = @]
    BY <1>5
  <2>4. [w EXCEPT !.early = @] = w
    BY <2>2 DEF TablesTyped, Database
  <2> QED
    BY <2>1, <2>3, <2>4
<1>8. RowsGood(c, rows)
  <2>1. rows = [d \in DataSets |-> rows[d]]
    BY DEF rows
  <2>2. \A d \in DataSets : RowGood(c, d, rows[d])
    BY <1>2, <1>6, RowStaysGood
  <2> QED
    BY <2>1, <2>2 DEF RowsGood
<1>9. ASSUME NEW s \in ReplaySignals,
             t.signals[s] \in Actionable, c.signals[s] \notin Actionable
      PROVE  rows[s[2]] # NoRow /\ s \in rows[s[2]].ids
  <2>1. s \in done
    BY <1>6, <1>9
  <2>2. PICK d \in answered : s \in rows[d].ids
    BY <1>3, <2>1
  <2>3. s[2] = d
    BY <1>4, <2>2 DEF SignalsOf
  <2> QED
    BY <1>4, <2>2, <2>3
<1>10. Covers(old, rows)
  BY <1>2 DEF Covers
<1> HIDE DEF c
<1>11. /\ Worked(t, w, n) /\ w.jobs = c.jobs /\ w.runs[n].rows = rows
  <2>1. ClosesCovered(t, c, rows)
    BY <1>9 DEF ClosesCovered
  <2>2. TablesGood(c) /\ MovesOn(t, c) /\ c.runs = t.runs
    BY <1>6
  <2>3. RowsWorked(t, c, n, rows)
    BY <1>8, <1>10, <2>1, <2>2, WithRowsWorked
  <2>4. w = WithRows(c, n, rows)
    BY DEF WithRows
  <2> HIDE DEF w
  <2> QED
    BY <2>3, <2>4 DEF RowsWorked
<1> HIDE DEF w
<1>12. Aligned(w, n)
  <2>1. ASSUME NEW d \in DataSets, Answerable(w, d, rows[d])
        PROVE  rows[d].status \in Successful
    <3>1. Answerable(t, d, rows[d])
      BY <1>6, <1>11, <2>1 DEF Answerable
    <3> QED
      BY <1>2, <3>1 DEF Successful
  <2> QED
    BY <1>11, <2>1 DEF Aligned
<1> QED
  BY <1>7, <1>11, <1>12

\* A run whose data sets have all been answered.
RowsComplete(run) ==
    \A d \in DataSets : run.rows[d] # NoRow =>
        run.rows[d].status \in Successful /\ run.rows[d].exec = "succeeded"

\* _refresh_run_state, second part: a run represents what it could not see
\* before, and one that was complete stays so if nothing needs an answer.
LEMMA DenominatorsWorked ==
    ASSUME ScopeGood, NEW t, TablesGood(t), NEW n \in DOMAIN t.runs, Aligned(t, n)
    PROVE  LET w == Denominators(t, n) IN
           /\ Worked(t, w, n)
           /\ \A s \in ReplaySignals :
                Accounted(t, n, s) /\ Plannable(s[2]) => Represents(w.runs[n], s)
           /\ w.runs[n].status = t.runs[n].status /\ w.runs[n].ready = t.runs[n].ready
           /\ RowsComplete(t.runs[n]) /\ ~HasUnresolved(t, n) => RowsComplete(w.runs[n])
<1> DEFINE missing == Unresolved(t, n, Actionable, Decisions)
           late(d) == {s \in missing : s[2] = d}
           old == t.runs[n].rows
           rows == [d \in DataSets |-> Denominated(d, old[d], late(d))]
           settled == {d \in DataSets : rows[d] # old[d] /\ rows[d].status = "NOT_APPLICABLE"}
           done == UNION {rows[d].ids : d \in settled}
           c == Completed(t, done)
           w == [c EXCEPT !.runs[n].rows = rows]
<1>1. Denominators(t, n) = w
  BY DEF Denominators
<1>2. TablesTyped(t) /\ SignalsGood(t) /\ \A d \in DataSets : RowGood(t, d, old[d])
  BY RunsGood DEF TablesGood
<1>3. \A d \in DataSets : Decision(d) \in Decisions
  BY DEF ScopeGood, DataSetState, Decision
<1>4. ASSUME NEW d \in DataSets
      PROVE  late(d) \in SUBSET SignalsOf(d)
  <2>1. ASSUME NEW s \in late(d) PROVE s \in SignalsOf(d)
    <3>1. s \in ReplaySignals /\ t.signals[s] \in Actionable /\ s[2] = d
      BY DEF Unresolved
    <3>2. s[1] \in Nat /\ emitted \in Nat
      BY <3>1, SignalFacts DEF ScopeGood
    <3>3. s[1] <= emitted
      BY <1>2, <3>1, <3>2 DEF SignalsGood, Actionable
    <3> QED
      BY <3>1, <3>3 DEF SignalsOf
  <2> QED
    BY <2>1
<1>5. \A s \in missing : s \in ReplaySignals /\ s \in late(s[2])
  BY DEF Unresolved
<1>6. ASSUME NEW s \in ReplaySignals, t.signals[s] \in Actionable, Plannable(s[2])
      PROVE  s \in missing \/ Represents(t.runs[n], s)
  <2>1. Operational(s[2]) /\ Decision(s[2]) \in Decisions /\ s[2] \in DataSets
    BY <1>3, <1>6, SignalFacts DEF Operational, Plannable
  <2>2. CASE ~Resolved(t, n, s)
    BY <1>6, <2>1, <2>2 DEF Unresolved
  <2>3. CASE Resolved(t, n, s)
    <3>1. NoRow.status \notin Successful
      BY DEF NoRow, Successful
    <3> QED
      BY <2>3, <3>1 DEF Resolved, Represents
  <2> QED
    BY <2>2, <2>3
<1>7. ASSUME ~HasUnresolved(t, n), NEW d \in DataSets, late(d) # {}
      PROVE  Decision(d) = "NOT_APPLICABLE"
  <2>1. PICK s \in missing : s[2] = d
    BY <1>7
  <2>2. s \in Unresolved(t, n, Blocking, {"APPLICABLE", "UNKNOWN"})
           \/ Decision(d) = "NOT_APPLICABLE"
    BY <1>3, <2>1 DEF Unresolved, Actionable, Blocking, Decisions
  <2> QED
    BY <1>7, <2>2 DEF HasUnresolved
<1> HIDE DEF missing
<1>8. \A d \in DataSets : rows[d] = Denominated(d, old[d], late(d))
  OBVIOUS
<1>9. rows = [d \in DataSets |-> rows[d]]
  OBVIOUS
<1> HIDE DEF rows
<1>10. /\ TablesGood(c) /\ MovesOn(t, c)
       /\ c.runs = t.runs /\ c.jobs = t.jobs /\ c.early = t.early
       /\ c.reopened = t.reopened
       /\ \A x \in ReplaySignals :
            /\ x \in done => c.signals[x] \notin Actionable
            /\ x \notin done => c.signals[x] = t.signals[x]
  BY CompletedGood
<1>11. ASSUME NEW d \in DataSets
       PROVE  /\ RowGood(c, d, rows[d])
              /\ old[d] # NoRow => rows[d] # NoRow /\ old[d].ids \subseteq rows[d].ids
              /\ late(d) # {} /\ Plannable(d) => rows[d] # NoRow /\ late(d) \subseteq rows[d].ids
              /\ /\ old[d] # NoRow => old[d].status \in Successful /\ old[d].exec = "succeeded"
                 /\ late(d) = {} \/ ~Plannable(d) \/ Decision(d) = "NOT_APPLICABLE"
                 => (rows[d] # NoRow => rows[d].status \in Successful
                                          /\ rows[d].exec = "succeeded")
  <2> DEFINE l == late(d)
             row == old[d]
             new == Denominated(d, row, l)
  <2>1. l \in SUBSET SignalsOf(d)
    BY <1>4
  <2>2. RowGood(t, d, row) /\ (Answerable(t, d, row) => row.status \in Successful)
    BY <1>2 DEF Aligned
  <2>3. ASSUME new # row, new.status = "NOT_APPLICABLE",
               NEW s \in ReplaySignals, s \in new.ids
        PROVE  c.signals[s] \notin Actionable
    <3>1. d \in settled /\ s \in rows[d].ids
      BY <1>8, <2>3
    <3>2. s \in done
      BY <3>1
    <3> QED
      BY <1>10, <3>2
  <2>4. LET x == Denominated(d, row, l) IN
          x # row /\ x.status = "NOT_APPLICABLE" =>
            \A s \in ReplaySignals : s \in x.ids => c.signals[s] \notin Actionable
    BY <2>3
  <2> HIDE DEF c, l, row
  <2>5. LET x == Denominated(d, row, l) IN
        /\ RowGood(c, d, x)
        /\ row # NoRow => x # NoRow /\ row.ids \subseteq x.ids
        /\ l # {} /\ Plannable(d) => x # NoRow /\ l \subseteq x.ids
        /\ /\ row # NoRow => row.status \in Successful /\ row.exec = "succeeded"
           /\ l = {} \/ ~Plannable(d) \/ Decision(d) = "NOT_APPLICABLE"
           => (x # NoRow => x.status \in Successful /\ x.exec = "succeeded")
    BY <1>10, <2>1, <2>2, <2>4, DenominatedGood
  <2>6. rows[d] = Denominated(d, row, l)
    BY <1>8 DEF row, l
  <2> QED
    BY <2>5, <2>6 DEF row, l
<1>12. RowsGood(c, rows)
  BY <1>9, <1>11 DEF RowsGood
<1>13. ASSUME NEW s \in ReplaySignals,
              t.signals[s] \in Actionable, c.signals[s] \notin Actionable
       PROVE  rows[s[2]] # NoRow /\ s \in rows[s[2]].ids
  <2>1. s \in done
    BY <1>10, <1>13
  <2>2. PICK d \in settled : s \in rows[d].ids
    BY <2>1
  <2>3. rows[d].status = "NOT_APPLICABLE" /\ d \in DataSets
    BY <2>2
  <2>4. rows[d] # NoRow
    BY <2>3 DEF NoRow
  <2>5. s[2] = d
    BY <1>11, <2>2, <2>3, <2>4 DEF RowGood, SignalsOf
  <2> QED
    BY <2>2, <2>4, <2>5
<1> HIDE DEF c, settled, done
<1>14. /\ Worked(t, w, n) /\ w.runs[n].rows = rows
       /\ w.runs[n].status = t.runs[n].status /\ w.runs[n].ready = t.runs[n].ready
  <2>1. Covers(old, rows)
    BY <1>11 DEF Covers
  <2>2. ClosesCovered(t, c, rows)
    BY <1>13 DEF ClosesCovered
  <2>3. TablesGood(c) /\ MovesOn(t, c) /\ c.runs = t.runs
    BY <1>10
  <2>4. RowsWorked(t, c, n, rows)
    BY <1>12, <2>1, <2>2, <2>3, WithRowsWorked
  <2>5. w = WithRows(c, n, rows)
    BY DEF WithRows
  <2> HIDE DEF w
  <2> QED
    BY <2>4, <2>5 DEF RowsWorked
<1> HIDE DEF w
<1>15. ASSUME NEW s \in ReplaySignals, Accounted(t, n, s), Plannable(s[2])
       PROVE  Represents(w.runs[n], s)
  <2>1. s[2] \in DataSets
    BY SignalFacts
  <2>2. CASE Represents(t.runs[n], s)
    BY <1>11, <1>14, <2>1, <2>2 DEF Represents
  <2>3. CASE s \in missing
    <3>1. s \in late(s[2])
      BY <1>5, <2>3
    <3> QED
      BY <1>11, <1>14, <1>15, <2>1, <3>1 DEF Represents
  <2> QED
    BY <1>6, <1>15, <2>2, <2>3 DEF Accounted
<1>16. ASSUME RowsComplete(t.runs[n]), ~HasUnresolved(t, n)
       PROVE  RowsComplete(w.runs[n])
  BY <1>7, <1>11, <1>14, <1>16 DEF RowsComplete
<1> QED
  BY <1>1, <1>14, <1>15, <1>16

\* The gate lets a run succeed only when all its rows have, and be ready only
\* when the engines say so.
LEMMA ConcludedFacts ==
    ASSUME NEW run \in RunRows, NEW outcome \in Outcomes \cup {"none"},
           \A d \in DataSets : run.rows[d] # NoRow =>
             run.rows[d] \in CoverageRows /\ StatusesAgree(run.rows[d])
    PROVE  LET new == Concluded(run, outcome) IN
           /\ new \in RunRows /\ new.rows = run.rows
           /\ RunComplete(new)
           /\ new.ready => outcome = "ready"
<1> DEFINE rows == {run.rows[d] : d \in DataSets} \ {NoRow}
           waits == \E r \in rows : \/ r.status = "APPLICABILITY_UNKNOWN"
                                   \/ r.exec \in {"pending", "active"}
           complete == \A r \in rows : r.status \in Successful
           new == Concluded(run, outcome)
<1>1. CASE waits
  <2> DEFINE isReady == FALSE
  <2>1. new = Became(run, "open", isReady)
    BY <1>1 DEF Concluded, Became
  <2>2. isReady \in BOOLEAN
    OBVIOUS
  <2>3. new \in RunRows /\ new.rows = run.rows /\ new.status = "open" /\ new.ready = isReady
    <3> HIDE DEF isReady, new
    <3> QED
      BY <2>1, <2>2, RunWithStatus, SMTT(30)
  <2> QED
    BY <2>3 DEF RunComplete
<1>2. CASE ~waits /\ (~complete \/ outcome = "broken")
  <2> DEFINE isReady == FALSE
  <2>1. new = Became(run, "failed", isReady)
    BY <1>2 DEF Concluded, Became
  <2>2. isReady \in BOOLEAN
    OBVIOUS
  <2>3. new \in RunRows /\ new.rows = run.rows /\ new.status = "failed" /\ new.ready = isReady
    <3> HIDE DEF isReady, new
    <3> QED
      BY <2>1, <2>2, RunWithStatus, SMTT(30)
  <2> QED
    BY <2>3 DEF RunComplete
<1>3. CASE ~waits /\ complete /\ outcome = "none"
  <2> DEFINE isReady == FALSE
  <2>1. new = Became(run, "open", isReady)
    BY <1>3 DEF Concluded, Became
  <2>2. isReady \in BOOLEAN
    OBVIOUS
  <2>3. new \in RunRows /\ new.rows = run.rows /\ new.status = "open" /\ new.ready = isReady
    <3> HIDE DEF isReady, new
    <3> QED
      BY <2>1, <2>2, RunWithStatus, SMTT(30)
  <2> QED
    BY <2>3 DEF RunComplete
<1>4. CASE ~waits /\ complete /\ outcome \notin {"none", "broken"}
  <2> DEFINE isReady == outcome = "ready"
  <2>1. new = Became(run, "succeeded", isReady)
    BY <1>4 DEF Concluded, Became
  <2>2. isReady \in BOOLEAN
    OBVIOUS
  <2>3. new \in RunRows /\ new.rows = run.rows /\ new.status = "succeeded"
        /\ new.ready = isReady
    <3> HIDE DEF isReady, new
    <3> QED
      BY <2>1, <2>2, RunWithStatus, SMTT(30)
  <2>4. ASSUME NEW d \in DataSets, run.rows[d] # NoRow
        PROVE  run.rows[d].status \in Successful /\ run.rows[d].exec = "succeeded"
    <3>1. run.rows[d] \in rows
      BY <2>4
    <3>2. /\ run.rows[d].status \in Successful
          /\ run.rows[d].exec \notin {"pending", "active"}
      BY <1>4, <3>1
    <3>3. run.rows[d].exec \in Executions
      BY <2>4, RowFields
    <3> QED
      BY <2>4, <3>2, <3>3 DEF StatusesAgree, Executions, Successful
  <2> HIDE DEF new
  <2>5. RunComplete(new)
    BY <2>3, <2>4 DEF RunComplete
  <2>6. new.ready => outcome = "ready"
    BY <2>3
  <2> QED
    BY <2>3, <2>5, <2>6 DEF new
<1> QED
  BY <1>1, <1>2, <1>3, <1>4

\* Operations compose.
LEMMA WorkedTwice ==
    ASSUME NEW t, NEW u, NEW w, NEW n \in DOMAIN t.runs,
           Worked(t, u, n), Worked(u, w, n)
    PROVE  Worked(t, w, n)
  BY DEF Worked

\* To conclude or to open a run leaves its rows alone.
LEMMA WithRunWorked ==
    ASSUME ScopeGood, NEW t, TablesGood(t), NEW n \in DOMAIN t.runs,
           NEW run \in RunRows, run.rows = t.runs[n].rows
    PROVE  LET w == [t EXCEPT !.runs[n] = run] IN
           /\ Worked(t, w, n) /\ w.runs[n] = run
           /\ w.signals = t.signals /\ w.jobs = t.jobs
<1> DEFINE w == [t EXCEPT !.runs[n] = run]
<1>1. /\ TablesTyped(w)
      /\ DOMAIN w.runs = DOMAIN t.runs
      /\ w.runs[n] = run
      /\ \A m \in DOMAIN t.runs : m # n => w.runs[m] = t.runs[m]
      /\ w.signals = t.signals /\ w.jobs = t.jobs /\ w.early = t.early
      /\ w.reopened = t.reopened
  BY WithRunFacts DEF TablesGood
<1> HIDE DEF w
<1>2. MovesOn(t, w)
  BY <1>1 DEF MovesOn
<1>3. SignalsGood(w) /\ w.early = {} /\ \A k \in DOMAIN w.jobs : JobGood(k, w.jobs[k])
  BY <1>1 DEF TablesGood, SignalsGood
<1>4. TablesGood(w)
  BY <1>1, <1>2, <1>3, UpdateGood
<1>5. \A s \in ReplaySignals : Accounted(t, n, s) => Accounted(w, n, s)
  BY <1>1 DEF Accounted, Represents
<1> QED
  BY <1>1, <1>4, <1>5 DEF Worked, w

\* What _refresh_run_state, and the operations that end with it, may do.
Concludes(t, w, n, outcome) ==
    /\ Worked(t, w, n)
    /\ RunComplete(w.runs[n])
    /\ w.runs[n].ready =>
         /\ outcome = "ready"
         /\ \A s \in ReplaySignals :
              Accounted(t, n, s) /\ Plannable(s[2]) => Represents(w.runs[n], s)

LEMMA ConcludesAfter ==
    ASSUME NEW t, NEW u, NEW w, NEW n \in DOMAIN t.runs, NEW outcome,
           Worked(t, u, n), Concludes(u, w, n, outcome)
    PROVE  Concludes(t, w, n, outcome)
<1>1. Worked(t, w, n)
  BY WorkedTwice DEF Concludes, Worked
<1>2. \A s \in ReplaySignals : Accounted(t, n, s) => Accounted(u, n, s)
  BY DEF Worked
<1> QED
  BY <1>1, <1>2 DEF Concludes

LEMMA RefreshedConcludes ==
    ASSUME ScopeGood, NEW t, TablesGood(t), NEW n \in DOMAIN t.runs,
           NEW outcome \in Outcomes \cup {"none"}
    PROVE  Concludes(t, Refreshed(t, n, outcome), n, outcome)
<1> DEFINE a == Synced(t, n)
           u == Denominators(a, n)
           run == Concluded(u.runs[n], outcome)
           w == [u EXCEPT !.runs[n] = run]
<1>1. Refreshed(t, n, outcome) = w
  BY DEF Refreshed
<1>2. Worked(t, a, n) /\ Aligned(a, n)
  BY SyncedWorked
<1>3. TablesGood(a) /\ n \in DOMAIN a.runs
  BY <1>2 DEF Worked
<1> HIDE DEF a
<1>4. /\ Worked(a, u, n)
      /\ \A s \in ReplaySignals :
           Accounted(a, n, s) /\ Plannable(s[2]) => Represents(u.runs[n], s)
  BY <1>2, <1>3, DenominatorsWorked
<1> HIDE DEF u
<1>5. Worked(t, u, n)
  BY <1>2, <1>4, WorkedTwice
<1>6. TablesGood(u) /\ n \in DOMAIN u.runs
  BY <1>5 DEF Worked
<1>7. /\ run \in RunRows /\ run.rows = u.runs[n].rows
      /\ RunComplete(run) /\ (run.ready => outcome = "ready")
  <2>1. \A d \in DataSets : u.runs[n].rows[d] # NoRow =>
           u.runs[n].rows[d] \in CoverageRows /\ StatusesAgree(u.runs[n].rows[d])
    BY <1>6, RunsGood DEF RowGood, MaybeRows
  <2>2. u.runs[n] \in RunRows
    BY <1>6, RunsGood
  <2> QED
    BY <2>1, <2>2, ConcludedFacts
<1> HIDE DEF run
<1>8. Worked(u, w, n) /\ w.runs[n] = run
  BY <1>6, <1>7, WithRunWorked
<1> HIDE DEF w
<1>9. Worked(t, w, n)
  BY <1>5, <1>8, WorkedTwice
<1>10. ASSUME NEW s \in ReplaySignals, Accounted(t, n, s), Plannable(s[2])
       PROVE  Represents(w.runs[n], s)
  <2>1. Accounted(a, n, s)
    BY <1>2, <1>10 DEF Worked
  <2>2. Represents(u.runs[n], s)
    BY <1>4, <1>10, <2>1
  <2> QED
    BY <1>7, <1>8, <2>2 DEF Represents
<1> QED
  BY <1>1, <1>7, <1>8, <1>9, <1>10 DEF Concludes

-----------------------------------------------------------------------------
(* Enqueueing.                                                             *)

\* Jobs are added.
LEMMA WithJobsFacts ==
    ASSUME NEW t, TablesTyped(t), NEW jobs, jobs \in [DOMAIN jobs -> TaskJobRows],
           DOMAIN jobs \subseteq TaskKeys
    PROVE  LET u == [t EXCEPT !.jobs = jobs] IN
           /\ TablesTyped(u)
           /\ u.runs = t.runs /\ u.signals = t.signals /\ u.jobs = jobs
           /\ u.early = t.early /\ u.reopened = t.reopened
<1> DEFINE u == [t EXCEPT !.jobs = jobs]
<1>1. u = Database(t.runs, t.signals, jobs, t.early, t.reopened)
  BY DEF TablesTyped, Database
<1>2. /\ u.runs = t.runs /\ u.signals = t.signals /\ u.jobs = jobs
      /\ u.early = t.early /\ u.reopened = t.reopened
  <2> HIDE DEF u
  <2> QED
    BY <1>1, DatabaseFields
<1>3. TablesTyped(u)
  <2> HIDE DEF u
  <2> QED
    BY <1>1, <1>2 DEF TablesTyped
<1> QED
  BY <1>2, <1>3

\* The rows of a run and the jobs are replaced.
WithRowsAndJobs(t, n, rows, jobs) == [t EXCEPT !.runs[n].rows = rows, !.jobs = jobs]

\* The order in which rows and jobs are written does not matter.
LEMMA RowsThenJobs ==
    ASSUME NEW t, TablesTyped(t), NEW n, NEW rows, NEW jobs
    PROVE  WithRowsAndJobs(t, n, rows, jobs) = WithRows([t EXCEPT !.jobs = jobs], n, rows)
<1> DEFINE a == [t EXCEPT !.runs[n].rows = rows]
           b == [t EXCEPT !.jobs = jobs]
           runs == [t.runs EXCEPT ![n].rows = rows]
<1>1. t = Database(t.runs, t.signals, t.jobs, t.early, t.reopened)
  BY DEF TablesTyped
<1>2. a = [t EXCEPT !.runs = runs]
  OBVIOUS
<1>3. a = Database(runs, t.signals, t.jobs, t.early, t.reopened)
  <2> HIDE DEF runs, a
  <2> QED
    BY <1>1, <1>2 DEF Database
<1>4. b = Database(t.runs, t.signals, jobs, t.early, t.reopened)
  BY <1>1 DEF Database
<1>5. a.runs = runs
  BY <1>3 DEF Database
<1>6. [a EXCEPT !.jobs = jobs] = Database(runs, t.signals, jobs, t.early, t.reopened)
  <2> HIDE DEF runs, a
  <2> QED
    BY <1>3 DEF Database
<1>7. b.runs = t.runs
  BY <1>4 DEF Database
<1>8. [b EXCEPT !.runs[n].rows = rows] = [b EXCEPT !.runs = runs]
  <2>1. [b EXCEPT !.runs[n].rows = rows] = [b EXCEPT !.runs = [b.runs EXCEPT ![n].rows = rows]]
    OBVIOUS
  <2> HIDE DEF b
  <2> QED
    BY <1>7, <2>1
<1>9. [b EXCEPT !.runs = runs] = Database(runs, t.signals, jobs, t.early, t.reopened)
  <2> HIDE DEF runs, b
  <2> QED
    BY <1>4 DEF Database
<1>10. /\ WithRowsAndJobs(t, n, rows, jobs) = [a EXCEPT !.jobs = jobs]
       /\ WithRows(b, n, rows) = [b EXCEPT !.runs[n].rows = rows]
  BY DEF WithRowsAndJobs, WithRows
<1> QED
  BY <1>6, <1>8, <1>9, <1>10

LEMMA WorkEnqueuedConcludes ==
    ASSUME ScopeGood, NEW t, TablesGood(t), NEW n \in DOMAIN t.runs
    PROVE  Concludes(t, WorkEnqueued(t, n), n, "none")
<1> DEFINE rows == t.runs[n].rows
           pending == PendingRows(t, n)
           looked == LookedUp(t, n)
           taken == Taken(t, n)
           task(d) == RowTask(t, n, d)
           new == NewTasks(t, n)
           after(d) == RowEnqueued(t, n, d)
           answered == {d \in looked : Fresh(d, rows[d])}
           done == Completed(t, UNION {rows[d].ids : d \in answered})
           scheduled == Marked(done, UNION {k.ids : k \in new}, {"pending"}, "scheduled")
           jobs == [k \in DOMAIN t.jobs \cup new |->
                      IF k \in new THEN [status |-> "open", knows |-> 0] ELSE t.jobs[k]]
           rows2 == [d \in DataSets |-> IF d \in pending THEN after(d) ELSE rows[d]]
           j == [scheduled EXCEPT !.jobs = jobs]
           u == [j EXCEPT !.runs[n].rows = rows2]
<1>1. TablesTyped(t) /\ \A d \in DataSets : RowGood(t, d, rows[d])
  BY RunsGood
<1>2. ASSUME NEW d \in pending
      PROVE  /\ d \in DataSets /\ rows[d] # NoRow /\ rows[d].exec = "pending"
             /\ rows[d] \in CoverageRows
             /\ RowGood(t, d, rows[d])
  <2>1. d \in DataSets /\ rows[d] # NoRow /\ rows[d].exec = "pending"
    BY DEF PendingRows
  <2> QED
    BY <1>1, <2>1 DEF RowGood, MaybeRows
<1>3. looked \subseteq pending /\ taken \subseteq pending /\ looked \cap taken = {}
  BY DEF LookedUp, Taken
<1>4. ASSUME NEW d \in pending
      PROVE  task(d) \in TaskKeys /\ task(d).ids = rows[d].ids /\ task(d).code = d
  <2>1. n \in Nat
    BY <1>1 DEF TablesTyped
  <2>2. t.runs[n].restarts \in Nat
    BY RunsGood, RunFields, EnrichmentAssumption
  <2>3. rows[d].ids \in SUBSET ReplaySignals /\ rows[d].generation \in Nat
    BY <1>2, RowGoodFacts
  <2> QED
    BY <1>2, <2>1, <2>2, <2>3 DEF RowTask, Task, TaskKeys
<1>5. done = Completed(t, UNION {rows[d].ids : d \in answered})
  OBVIOUS
<1>6. /\ TablesGood(done) /\ MovesOn(t, done)
      /\ done.runs = t.runs /\ done.jobs = t.jobs /\ done.early = t.early
      /\ done.reopened = t.reopened
      /\ \A x \in ReplaySignals :
           /\ x \in UNION {rows[d].ids : d \in answered} => done.signals[x] \notin Actionable
           /\ x \notin UNION {rows[d].ids : d \in answered} => done.signals[x] = t.signals[x]
  BY <1>5, CompletedGood
<1> HIDE DEF done
<1>7. /\ TablesGood(scheduled) /\ MovesOn(done, scheduled)
      /\ scheduled.runs = t.runs /\ scheduled.jobs = t.jobs /\ scheduled.early = t.early
      /\ scheduled.reopened = t.reopened
      /\ \A x \in ReplaySignals :
           done.signals[x] \in Actionable => scheduled.signals[x] \in Actionable
  <2> DEFINE S == UNION {k.ids : k \in new}
  <2>1. /\ "scheduled" \in SignalStatus /\ "scheduled" # "absent"
        /\ "scheduled" \in Actionable /\ {"pending"} \subseteq Actionable
    BY DEF SignalStatus, Actionable
  <2>2. TablesTyped(done) /\ SignalsGood(done)
    BY <1>6 DEF TablesGood
  <2>3. ASSUME NEW x \in S \cap ReplaySignals, done.signals[x] \in {"pending"}
        PROVE  x[1] <= emitted
    <3>1. x[1] \in Nat /\ emitted \in Nat
      BY SignalFacts DEF ScopeGood
    <3> QED
      BY <2>2, <2>3, <3>1 DEF SignalsGood
  <2> HIDE DEF S
  <2>4. LET m == Marked(done, S, {"pending"}, "scheduled") IN
          TablesGood(m) /\ MovesOn(done, m)
    BY <1>6, <2>1, <2>3, MarkedGood
  <2>5. LET m == Marked(done, S, {"pending"}, "scheduled") IN
        /\ m.runs = done.runs /\ m.jobs = done.jobs /\ m.early = done.early
        /\ m.reopened = done.reopened
        /\ \A x \in ReplaySignals :
             m.signals[x] = IF x \in S /\ done.signals[x] \in {"pending"} THEN "scheduled"
                            ELSE done.signals[x]
    BY <2>1, <2>2, MarkedFacts
  <2> QED
    BY <1>6, <2>1, <2>4, <2>5 DEF S
<1> HIDE DEF scheduled
<1>8. /\ jobs \in [DOMAIN jobs -> TaskJobRows] /\ DOMAIN jobs \subseteq TaskKeys
      /\ DOMAIN jobs = DOMAIN t.jobs \cup new
      /\ \A k \in DOMAIN t.jobs : jobs[k] = t.jobs[k]
      /\ \A k \in new : jobs[k].status = "open"
  <2>1. new \subseteq TaskKeys
    BY <1>3, <1>4 DEF NewTasks
  <2>2. [status |-> "open", knows |-> 0] \in TaskJobRows
    BY DEF TaskJobRows, ScopeGood
  <2>3. \A k \in DOMAIN t.jobs : t.jobs[k] \in TaskJobRows
    BY <1>1 DEF TablesTyped
  <2>4. \A k \in new : k \notin DOMAIN t.jobs
    BY DEF NewTasks
  <2> HIDE DEF new
  <2> QED
    BY <1>1, <2>1, <2>2, <2>3, <2>4 DEF TablesTyped
<1>9. \A k \in DOMAIN jobs : JobGood(k, jobs[k])
  <2>1. ASSUME NEW k \in new PROVE JobGood(k, jobs[k])
    <3>1. PICK d \in taken : k = task(d)
      BY <2>1 DEF NewTasks
    <3>2. k.ids \subseteq SignalsOf(k.code)
      BY <1>2, <1>3, <1>4, <3>1 DEF RowGood
    <3> HIDE DEF jobs, new
    <3> QED
      BY <1>8, <2>1, <3>2 DEF JobGood
  <2>2. \A k \in DOMAIN t.jobs : JobGood(k, t.jobs[k])
    BY DEF TablesGood
  <2> HIDE DEF jobs, new
  <2> QED
    BY <1>8, <2>1, <2>2
<1> HIDE DEF jobs
<1>10. /\ TablesTyped(j)
       /\ j.runs = t.runs /\ j.signals = scheduled.signals /\ j.jobs = jobs
       /\ j.early = t.early /\ j.reopened = t.reopened
  <2>1. TablesTyped(scheduled)
    BY <1>7 DEF TablesGood
  <2>2. jobs \in [DOMAIN jobs -> TaskJobRows] /\ DOMAIN jobs \subseteq TaskKeys
    BY <1>8
  <2>3. /\ TablesTyped(j)
        /\ j.runs = scheduled.runs /\ j.signals = scheduled.signals /\ j.jobs = jobs
        /\ j.early = scheduled.early /\ j.reopened = scheduled.reopened
    BY <2>1, <2>2, WithJobsFacts
  <2> HIDE DEF j
  <2> QED
    BY <1>7, <2>3
<1> HIDE DEF j
<1>11. MovesOn(t, j)
  BY <1>6, <1>7, <1>8, <1>10 DEF MovesOn
<1>12. TablesGood(j)
  <2>1. SignalsGood(j) /\ j.early = {}
    BY <1>7, <1>10 DEF TablesGood, SignalsGood
  <2> QED
    BY <1>9, <1>10, <1>11, <2>1, UpdateGood
<1>13. ASSUME NEW d \in DataSets
       PROVE  /\ RowGood(j, d, rows2[d])
              /\ rows[d] # NoRow => rows2[d] # NoRow /\ rows2[d].ids = rows[d].ids
  <2>1. RowGood(j, d, rows[d])
    BY <1>1, <1>11, RowStaysGood
  <2>2. CASE d \notin pending
    BY <2>1, <2>2
  <2>3. CASE d \in pending
    <3> DEFINE row == rows[d]
    <3>0. rows2[d] = after(d)
      BY <2>3, <1>2
    <3>1. /\ row \in CoverageRows /\ row # NoRow /\ row.exec = "pending"
          /\ row.task \in {NoTask} \cup TaskKeys
      BY <1>2, <2>1, <2>3, RowGoodFacts
    <3>2. CASE d \in taken
      <4> DEFINE k == task(d)
      <4>1. rows2[d] = Row("RUNNING", "active", row.generation, row.ids, k)
        <5> DEFINE a == [row EXCEPT !.status = "RUNNING", !.exec = "active"]
        <5>1. a = Row("RUNNING", "active", row.generation, row.ids, row.task)
          <6> HIDE DEF row
          <6> QED
            BY <3>1, RowUpdates
        <5>2. rows2[d] = [a EXCEPT !.task = k]
          BY <3>0, <3>2 DEF RowEnqueued
        <5> HIDE DEF row, k, rows2, a
        <5> QED
          BY <5>1, <5>2 DEF Row
      <4>2. k \in TaskKeys /\ k \in DOMAIN j.jobs /\ k.ids = row.ids
        BY <1>4, <1>8, <1>10, <2>3, <3>2 DEF NewTasks
      <4> HIDE DEF row, k, rows2, task
      <4>3. JobGood(k, j.jobs[k])
        BY <1>9, <1>10, <4>2
      <4>4. j.jobs[k].status = "succeeded" => \A s \in row.ids : s[1] <= j.jobs[k].knows
        BY <4>2, <4>3 DEF JobGood
      <4>5. RowGood(j, d, row)
        BY <2>1 DEF row
      <4>6. "RUNNING" \in CoverageStatus /\ "active" \in Executions
        BY DEF CoverageStatus, Executions
      <4>7. /\ k \in {NoTask} \cup TaskKeys /\ row # NoRow
            /\ MayFollow(j, row, k)
        BY <3>1, <4>2, <4>4 DEF MayFollow
      <4>8. LET now == Row("RUNNING", "active", row.generation, row.ids, k) IN
            RowGood(j, d, now) /\ now # NoRow /\ now.ids = row.ids
        BY <4>5, <4>6, <4>7, RowRewritten
      <4> QED
        BY <4>1, <4>8 DEF row
    <3>3. CASE d \in looked
      <4> DEFINE st == IF Fresh(d, row) THEN "ANSWERED" ELSE "UNAVAILABLE"
      <4>1. st \in CoverageStatus /\ st # "APPLICABILITY_UNKNOWN"
            /\ "succeeded" \in Executions
        BY DEF CoverageStatus, Executions
      <4>2. rows2[d] = Row(st, "succeeded", row.generation, row.ids, row.task)
        <5>1. rows2[d] = [row EXCEPT !.exec = "succeeded", !.status = st]
          BY <1>3, <3>0, <3>3 DEF RowEnqueued
        <5> HIDE DEF row, st, rows2
        <5> QED
          BY <3>1, <5>1, RowUpdates
      <4> HIDE DEF row, st, rows2
      <4>3. RowGood(j, d, row)
        BY <2>1 DEF row
      <4>4. /\ row # NoRow /\ row.task \in {NoTask} \cup TaskKeys
            /\ MayFollow(j, row, row.task)
        BY <3>1 DEF MayFollow
      <4>5. LET now == Row(st, "succeeded", row.generation, row.ids, row.task) IN
            RowGood(j, d, now) /\ now # NoRow /\ now.ids = row.ids
        BY <4>1, <4>3, <4>4, RowRewritten
      <4> QED
        BY <4>2, <4>5 DEF row
    <3>4. CASE d \notin taken /\ d \notin looked
      <4>1. rows2[d] = Row("UNAVAILABLE", "failed", row.generation, row.ids, row.task)
        <5>1. rows2[d] = [row EXCEPT !.status = "UNAVAILABLE", !.exec = "failed"]
          BY <3>0, <3>4 DEF RowEnqueued
        <5> HIDE DEF row, rows2
        <5> QED
          BY <3>1, <5>1, RowUpdates
      <4> HIDE DEF row, rows2
      <4>2. RowGood(j, d, row)
        BY <2>1 DEF row
      <4>3. "UNAVAILABLE" \in CoverageStatus /\ "failed" \in Executions
        BY DEF CoverageStatus, Executions
      <4>4. /\ row # NoRow /\ row.task \in {NoTask} \cup TaskKeys
            /\ MayFollow(j, row, row.task)
        BY <3>1 DEF MayFollow
      <4>5. LET now == Row("UNAVAILABLE", "failed", row.generation, row.ids, row.task) IN
            RowGood(j, d, now) /\ now # NoRow /\ now.ids = row.ids
        BY <4>2, <4>3, <4>4, RowRewritten
      <4> QED
        BY <4>1, <4>5 DEF row
    <3> QED
      BY <3>2, <3>3, <3>4
  <2> QED
    BY <2>2, <2>3
<1>14. RowsGood(j, rows2)
  BY <1>13 DEF RowsGood
<1> HIDE DEF rows2
<1>15. ASSUME NEW s \in ReplaySignals, t.signals[s] \in Actionable,
              j.signals[s] \notin Actionable
       PROVE  rows2[s[2]] # NoRow /\ s \in rows2[s[2]].ids
  <2>1. s \in UNION {rows[d].ids : d \in answered}
    BY <1>6, <1>7, <1>10, <1>15
  <2>2. PICK d \in answered : s \in rows[d].ids
    BY <2>1
  <2>3. d \in pending
    BY <1>3
  <2>4. s[2] = d /\ d \in DataSets /\ rows[d] # NoRow
    BY <1>2, <2>2, <2>3 DEF RowGood, SignalsOf
  <2> QED
    BY <1>13, <2>2, <2>4
<1>16. Worked(t, u, n)
  <2>1. Covers(rows, rows2)
    BY <1>13 DEF Covers
  <2>2. ClosesCovered(t, j, rows2)
    BY <1>15 DEF ClosesCovered
  <2>3. TablesGood(j) /\ MovesOn(t, j) /\ j.runs = t.runs /\ RowsGood(j, rows2)
    BY <1>10, <1>11, <1>12, <1>14
  <2>4. RowsWorked(t, j, n, rows2)
    BY <2>1, <2>2, <2>3, WithRowsWorked
  <2>5. u = WithRows(j, n, rows2)
    BY DEF WithRows
  <2> HIDE DEF u
  <2> QED
    BY <2>4, <2>5 DEF RowsWorked
<1>17. WorkEnqueued(t, n) = Refreshed(u, n, "none")
  <2>0. scheduled = SignalsEnqueued(t, n)
    BY DEF SignalsEnqueued, scheduled, done
  <2>1. scheduled.runs[n].rows = rows /\ scheduled.jobs = t.jobs
    BY <1>7
  <2>2. WorkEnqueued(t, n) = Refreshed([scheduled EXCEPT
          !.runs[n].rows = [d \in DataSets |-> IF d \in pending THEN after(d) ELSE @[d]],
          !.jobs = [k \in DOMAIN @ \cup new |->
                      IF k \in new THEN [status |-> "open", knows |-> 0] ELSE @[k]]],
          n, "none")
    BY <2>0, Zenon DEF WorkEnqueued
  <2>3. [scheduled EXCEPT
           !.runs[n].rows = [d \in DataSets |-> IF d \in pending THEN after(d) ELSE @[d]],
           !.jobs = [k \in DOMAIN @ \cup new |->
                       IF k \in new THEN [status |-> "open", knows |-> 0] ELSE @[k]]]
        = WithRowsAndJobs(scheduled, n, rows2, jobs)
    BY <2>1 DEF rows2, jobs, WithRowsAndJobs
  <2>4. WithRowsAndJobs(scheduled, n, rows2, jobs) = u
    <3>1. TablesTyped(scheduled)
      BY <1>7 DEF TablesGood
    <3>2. WithRowsAndJobs(scheduled, n, rows2, jobs)
            = WithRows([scheduled EXCEPT !.jobs = jobs], n, rows2)
      BY <3>1, RowsThenJobs
    <3>3. WithRows([scheduled EXCEPT !.jobs = jobs], n, rows2) = u
      BY DEF j, WithRows
    <3> QED
      BY <3>2, <3>3
  <2> QED
    BY <2>2, <2>3, <2>4
<1> HIDE DEF u
<1>18. Concludes(u, Refreshed(u, n, "none"), n, "none")
  BY <1>16, RefreshedConcludes DEF Worked
<1> QED
  BY <1>16, <1>17, <1>18, ConcludesAfter

\* An operation that asks no engine concludes no run as ready.
LEMMA NoneConcludes ==
    ASSUME NEW t, NEW w, NEW n, NEW outcome, Concludes(t, w, n, "none")
    PROVE  ~w.runs[n].ready /\ Concludes(t, w, n, outcome)
  BY DEF Concludes

\* reconcile_enrichment_run.
LEMMA ReconciledConcludes ==
    ASSUME ScopeGood, NEW t, TablesGood(t), NEW n \in DOMAIN t.runs, NEW outcome \in Outcomes
    PROVE  Concludes(t, Reconciled(t, n, outcome), n, outcome)
<1> DEFINE first == Refreshed(t, n, "none")
           second == IF PendingRows(first, n) = {} THEN first ELSE WorkEnqueued(first, n)
           third == Refreshed(second, n, outcome)
<1>1. Reconciled(t, n, outcome) = second \/ Reconciled(t, n, outcome) = third
  BY DEF Reconciled
<1>2. Concludes(t, first, n, "none")
  BY RefreshedConcludes
<1> HIDE DEF first
<1>3. Worked(t, first, n) /\ TablesGood(first) /\ n \in DOMAIN first.runs
  BY <1>2 DEF Concludes, Worked
<1>4. Concludes(t, second, n, "none")
  <2>1. Concludes(first, WorkEnqueued(first, n), n, "none")
    BY <1>3, WorkEnqueuedConcludes
  <2>2. Concludes(t, WorkEnqueued(first, n), n, "none")
    BY <1>3, <2>1, ConcludesAfter
  <2> QED
    BY <1>2, <2>2
<1> HIDE DEF second
<1>5. Worked(t, second, n) /\ TablesGood(second) /\ n \in DOMAIN second.runs
  BY <1>4 DEF Concludes, Worked
<1>6. Concludes(t, second, n, outcome)
  BY <1>4, NoneConcludes
<1>7. Concludes(t, third, n, outcome)
  <2>1. Concludes(second, third, n, outcome)
    BY <1>5, RefreshedConcludes
  <2> QED
    BY <1>5, <2>1, ConcludesAfter
<1> QED
  BY <1>1, <1>6, <1>7

-----------------------------------------------------------------------------
(* Restarting and creating.                                                *)

LEMMA WithReopenedFacts ==
    ASSUME NEW t, TablesTyped(t), NEW S
    PROVE  LET u == [t EXCEPT !.reopened = S] IN
           /\ TablesTyped(u)
           /\ u.runs = t.runs /\ u.signals = t.signals /\ u.jobs = t.jobs
           /\ u.early = t.early /\ u.reopened = S
<1> DEFINE u == [t EXCEPT !.reopened = S]
<1>1. u = Database(t.runs, t.signals, t.jobs, t.early, S)
  BY DEF TablesTyped, Database
<1>2. /\ u.runs = t.runs /\ u.signals = t.signals /\ u.jobs = t.jobs
      /\ u.early = t.early /\ u.reopened = S
  <2> HIDE DEF u
  <2> QED
    BY <1>1, DatabaseFields
<1>3. TablesTyped(u)
  <2> HIDE DEF u
  <2> QED
    BY <1>1, <1>2 DEF TablesTyped
<1> QED
  BY <1>2, <1>3

LEMMA RunWithRestarts ==
    ASSUME NEW run \in RunRows, NEW restarts \in 0..MaxRestarts
    PROVE  LET new == [run EXCEPT !.restarts = restarts] IN
           new \in RunRows /\ new.rows = run.rows /\ new.restarts = restarts
  BY DEF RunRows

\* The history and the four fields of a run that a restart writes.
Reset(t, n, S, rows) ==
    [t EXCEPT !.reopened = S, !.runs[n].restarts = @ + 1, !.runs[n].status = "open",
              !.runs[n].ready = FALSE, !.runs[n].rows = rows]

LEMMA ResetFacts ==
    ASSUME NEW t, TablesTyped(t), NEW n \in DOMAIN t.runs, NEW S, NEW rows \in RowTables,
           t.runs[n].restarts + 1 \in 0..MaxRestarts
    PROVE  LET u == Reset(t, n, S, rows)
           IN /\ TablesTyped(u)
              /\ DOMAIN u.runs = DOMAIN t.runs
              /\ u.runs[n].rows = rows
              /\ \A m \in DOMAIN t.runs : m # n => u.runs[m] = t.runs[m]
              /\ u.signals = t.signals /\ u.jobs = t.jobs /\ u.early = t.early
              /\ u.reopened = S
<1> DEFINE a == [t EXCEPT !.reopened = S]
           r1 == [a.runs[n] EXCEPT !.restarts = a.runs[n].restarts + 1]
           b == [a EXCEPT !.runs[n].restarts = @ + 1]
           r2 == [b.runs[n] EXCEPT !.status = "open"]
           c == [b EXCEPT !.runs[n].status = "open"]
           r3 == [c.runs[n] EXCEPT !.ready = FALSE]
           e == [c EXCEPT !.runs[n].ready = FALSE]
           r4 == [e.runs[n] EXCEPT !.rows = rows]
           u == [e EXCEPT !.runs[n].rows = rows]
<1>1. /\ TablesTyped(a)
      /\ a.runs = t.runs /\ a.signals = t.signals /\ a.jobs = t.jobs
      /\ a.early = t.early /\ a.reopened = S
  BY WithReopenedFacts
<1>2. Reset(t, n, S, rows) = u
  BY DEF Reset
<1>3. n \in DOMAIN a.runs /\ a.runs[n] \in RunRows
  BY <1>1 DEF TablesTyped
<1>4. b = [a EXCEPT !.runs[n] = r1]
  OBVIOUS
<1> HIDE DEF a
<1>5. r1 \in RunRows
  BY <1>1, <1>3, RunWithRestarts
<1> HIDE DEF r1
<1>6. /\ TablesTyped(b)
      /\ DOMAIN b.runs = DOMAIN t.runs /\ b.runs[n] \in RunRows
      /\ \A m \in DOMAIN t.runs : m # n => b.runs[m] = t.runs[m]
      /\ b.signals = t.signals /\ b.jobs = t.jobs /\ b.early = t.early /\ b.reopened = S
  <2> HIDE DEF b
  <2> QED
    BY <1>1, <1>3, <1>4, <1>5, WithRunFacts
<1>7. c = [b EXCEPT !.runs[n] = r2]
  OBVIOUS
<1> HIDE DEF b
<1>8. r2 \in RunRows
  BY <1>6 DEF RunRows
<1> HIDE DEF r2
<1>9. /\ TablesTyped(c)
      /\ DOMAIN c.runs = DOMAIN t.runs /\ c.runs[n] \in RunRows
      /\ \A m \in DOMAIN t.runs : m # n => c.runs[m] = t.runs[m]
      /\ c.signals = t.signals /\ c.jobs = t.jobs /\ c.early = t.early /\ c.reopened = S
  <2> HIDE DEF c
  <2> QED
    BY <1>6, <1>7, <1>8, WithRunFacts
<1>10. e = [c EXCEPT !.runs[n] = r3]
  OBVIOUS
<1> HIDE DEF c
<1>11. r3 \in RunRows
  BY <1>9 DEF RunRows
<1> HIDE DEF r3
<1>12. /\ TablesTyped(e)
       /\ DOMAIN e.runs = DOMAIN t.runs /\ e.runs[n] \in RunRows
       /\ \A m \in DOMAIN t.runs : m # n => e.runs[m] = t.runs[m]
       /\ e.signals = t.signals /\ e.jobs = t.jobs /\ e.early = t.early /\ e.reopened = S
  <2> HIDE DEF e
  <2> QED
    BY <1>9, <1>10, <1>11, WithRunFacts
<1>13. u = [e EXCEPT !.runs[n] = r4]
  OBVIOUS
<1> HIDE DEF e
<1>14. r4 \in RunRows /\ r4.rows = rows
  BY <1>12, RunWithRows
<1> HIDE DEF r4
<1>15. /\ TablesTyped(u)
       /\ DOMAIN u.runs = DOMAIN t.runs /\ u.runs[n].rows = rows
       /\ \A m \in DOMAIN t.runs : m # n => u.runs[m] = t.runs[m]
       /\ u.signals = t.signals /\ u.jobs = t.jobs /\ u.early = t.early /\ u.reopened = S
  <2> HIDE DEF u
  <2> QED
    BY <1>12, <1>13, <1>14, WithRunFacts
<1> HIDE DEF u
<1> QED
  BY <1>2, <1>15

\* restart_enrichment_run: the failed signals that it makes pending again are
\* the exception that the history records.
LEMMA RestartedConcludes ==
    ASSUME ScopeGood, NEW t, TablesGood(t), NEW n \in DOMAIN t.runs,
           t.runs[n].restarts < MaxRestarts
    PROVE  Concludes(t, Restarted(t, n), n, "none")
<1> DEFINE rows == t.runs[n].rows
           again == {d \in DataSets : rows[d] # NoRow /\ (\/ rows[d].status = "UNAVAILABLE"
                                                          \/ rows[d].exec = "failed")}
           reset(d) == [rows[d] EXCEPT !.status = "PENDING", !.exec = "pending", !.task = NoTask]
           ids == UNION {rows[d].ids : d \in again}
           u == Marked(t, ids, {"failed"}, "pending")
           S == u.reopened \cup {s \in ids : t.signals[s] = "failed"}
           rows2 == [d \in DataSets |-> IF d \in again THEN reset(d) ELSE u.runs[n].rows[d]]
           v == [u EXCEPT !.reopened = S, !.runs[n].restarts = @ + 1, !.runs[n].status = "open",
                          !.runs[n].ready = FALSE, !.runs[n].rows = rows2]
<1>1. Restarted(t, n) = WorkEnqueued(v, n)
  BY DEF Restarted
<1>2. TablesTyped(t) /\ SignalsGood(t) /\ \A d \in DataSets : RowGood(t, d, rows[d])
  BY RunsGood DEF TablesGood
<1>3. /\ TablesTyped(u)
      /\ u.runs = t.runs /\ u.jobs = t.jobs /\ u.early = t.early /\ u.reopened = t.reopened
      /\ \A x \in ReplaySignals :
           u.signals[x] = IF x \in ids /\ t.signals[x] \in {"failed"} THEN "pending"
                          ELSE t.signals[x]
  <2>1. TablesTyped(t) /\ "pending" \in SignalStatus
    BY <1>2 DEF SignalStatus
  <2> HIDE DEF ids
  <2> QED
    BY <2>1, MarkedFacts
<1>4. \A d \in DataSets : rows2[d] = IF d \in again THEN reset(d) ELSE rows[d]
  BY <1>3
<1>5. rows2 = [d \in DataSets |-> rows2[d]]
  OBVIOUS
<1> HIDE DEF u, rows2
<1>6. ASSUME NEW d \in again
      PROVE  /\ d \in DataSets /\ rows[d] # NoRow
             /\ reset(d) = Row("PENDING", "pending", rows[d].generation, rows[d].ids, NoTask)
             /\ rows[d].ids \in SUBSET SignalsOf(d) /\ rows[d].ids \in SUBSET ReplaySignals
             /\ rows[d].generation \in Nat /\ rows[d].generation <= dataSet[d].generation
  <2>1. d \in DataSets /\ rows[d] # NoRow /\ RowGood(t, d, rows[d])
    BY <1>2
  <2> DEFINE row == rows[d]
             a == [row EXCEPT !.status = "PENDING", !.exec = "pending"]
  <2> HIDE DEF row
  <2>2. /\ row \in CoverageRows
        /\ row.ids \in SUBSET SignalsOf(d) /\ row.ids \in SUBSET ReplaySignals
        /\ row.generation \in Nat /\ row.generation <= dataSet[d].generation
    BY <2>1, RowGoodFacts DEF row
  <2>3. a = Row("PENDING", "pending", row.generation, row.ids, row.task)
    BY <2>2, RowUpdates
  <2>4. reset(d) = [a EXCEPT !.task = NoTask]
    BY DEF row
  <2>5. [a EXCEPT !.task = NoTask] = Row("PENDING", "pending", row.generation, row.ids, NoTask)
    <3> HIDE DEF a
    <3> QED
      BY <2>3 DEF Row
  <2> QED
    BY <2>1, <2>2, <2>4, <2>5 DEF row
<1> HIDE DEF reset, again
<1>7. ASSUME NEW q, NEW d \in DataSets, RowGood(q, d, rows[d])
      PROVE  /\ RowGood(q, d, rows2[d])
             /\ rows2[d] \in MaybeRows
             /\ rows[d] # NoRow => rows2[d] # NoRow /\ rows2[d].ids = rows[d].ids
  <2>1. CASE d \notin again
    BY <1>4, <1>7, <2>1 DEF RowGood
  <2>2. CASE d \in again
    <3>1. rows2[d] = Row("PENDING", "pending", rows[d].generation, rows[d].ids, NoTask)
      BY <1>4, <1>6, <2>2
    <3> DEFINE row == rows[d]
    <3>2. RowGood(q, d, row) /\ row # NoRow /\ MayFollow(q, row, NoTask)
      BY <1>6, <1>7, <2>2 DEF MayFollow
    <3>3. "PENDING" \in CoverageStatus /\ "pending" \in Executions
      BY DEF CoverageStatus, Executions
    <3> HIDE DEF row
    <3>4. LET new == Row("PENDING", "pending", row.generation, row.ids, NoTask) IN
          RowGood(q, d, new) /\ new # NoRow /\ new.ids = row.ids
      BY <3>2, <3>3, RowRewritten
    <3>5. RowGood(q, d, rows2[d]) /\ rows2[d] # NoRow /\ rows2[d].ids = rows[d].ids
      BY <3>1, <3>4 DEF row
    <3> QED
      BY <3>5 DEF RowGood
  <2> QED
    BY <2>1, <2>2
<1>8. rows2 \in RowTables
  BY <1>2, <1>5, <1>7 DEF RowTables
<1>9. t.runs[n].restarts + 1 \in 0..MaxRestarts
  BY RunsGood, RunFields, EnrichmentAssumption
<1>10. /\ TablesTyped(v)
       /\ DOMAIN v.runs = DOMAIN t.runs
       /\ v.runs[n].rows = rows2
       /\ \A m \in DOMAIN t.runs : m # n => v.runs[m] = t.runs[m]
       /\ v.signals = u.signals /\ v.jobs = t.jobs /\ v.early = t.early
       /\ v.reopened = S
  <2> HIDE DEF S, rows
  <2>1. n \in DOMAIN u.runs /\ u.runs[n].restarts + 1 \in 0..MaxRestarts
    BY <1>3, <1>9
  <2>2. v = Reset(u, n, S, rows2)
    BY DEF Reset
  <2>3. /\ TablesTyped(v)
        /\ DOMAIN v.runs = DOMAIN u.runs
        /\ v.runs[n].rows = rows2
        /\ \A m \in DOMAIN u.runs : m # n => v.runs[m] = u.runs[m]
        /\ v.signals = u.signals /\ v.jobs = u.jobs /\ v.early = u.early
        /\ v.reopened = S
    <3> HIDE DEF v
    <3> QED
      BY <1>3, <1>8, <2>1, <2>2, ResetFacts
  <2> HIDE DEF v
  <2> QED
    BY <1>3, <2>3
<1> HIDE DEF v
<1>11. /\ t.reopened \subseteq v.reopened
       /\ \A s \in ids : t.signals[s] = "failed" => s \in v.reopened
  BY <1>3, <1>10
<1> HIDE DEF S, ids
<1>12. MovesOn(t, v)
  <2>1. ASSUME NEW s \in ReplaySignals, v.signals[s] \in Actionable
        PROVE  t.signals[s] \in Actionable \/ s \in v.reopened
    BY <1>3, <1>10, <1>11, <2>1
  <2> QED
    BY <1>10, <1>11, <2>1 DEF MovesOn
<1>13. RowsGood(v, rows2)
  <2>1. \A d \in DataSets : RowGood(v, d, rows[d])
    BY <1>2, <1>12, RowStaysGood
  <2> QED
    BY <1>5, <1>7, <2>1 DEF RowsGood
<1>14. TablesGood(v)
  <2>1. ASSUME NEW s \in ReplaySignals
        PROVE  v.signals[s] = "absent" <=> s[1] > emitted
    <3>1. t.signals[s] = "absent" <=> s[1] > emitted
      BY <1>2 DEF SignalsGood
    <3> QED
      BY <1>3, <1>10, <3>1
  <2>2. SignalsGood(v)
    BY <2>1 DEF SignalsGood
  <2>3. v.early = {} /\ \A k \in DOMAIN v.jobs : JobGood(k, v.jobs[k])
    BY <1>10 DEF TablesGood
  <2>4. ASSUME NEW m \in DOMAIN v.runs
        PROVE  \/ m \in DOMAIN t.runs /\ v.runs[m].rows = t.runs[m].rows
               \/ RowsGood(v, v.runs[m].rows)
    BY <1>10, <1>13
  <2> QED
    BY <1>10, <1>12, <2>2, <2>3, <2>4, UpdateGood
<1>15. Worked(t, v, n)
  <2>1. ASSUME NEW s \in ReplaySignals, Accounted(t, n, s)
        PROVE  Accounted(v, n, s)
    <3>1. s[2] \in DataSets
      BY SignalFacts
    <3>2. t.signals[s] \in Actionable => v.signals[s] \in Actionable
      BY <1>3, <1>10 DEF Actionable
    <3>3. Represents(t.runs[n], s) => Represents(v.runs[n], s)
      BY <1>2, <1>7, <1>10, <3>1 DEF Represents
    <3> QED
      BY <2>1, <3>2, <3>3 DEF Accounted
  <2> QED
    BY <1>10, <1>14, <2>1 DEF Worked
<1>16. Concludes(v, WorkEnqueued(v, n), n, "none")
  BY <1>10, <1>14, WorkEnqueuedConcludes
<1> QED
  BY <1>1, <1>15, <1>16, ConcludesAfter

\* What an operation on the tables may do: besides keeping them good, it makes
\* a run ready only if the run represents what it can and must.
Lawful(t, w) ==
    /\ TablesGood(w)
    /\ \A n \in DOMAIN w.runs : RunComplete(w.runs[n])
    /\ \A n \in DOMAIN w.runs :
         w.runs[n].ready /\ (n \notin DOMAIN t.runs \/ w.runs[n] # t.runs[n]) =>
           \A s \in ReplaySignals :
             t.signals[s] \in Actionable /\ Plannable(s[2])
                /\ Decision(s[2]) # "NOT_APPLICABLE"
             => Represents(w.runs[n], s)

LEMMA ConcludesLawful ==
    ASSUME NEW t, TablesGood(t), \A n \in DOMAIN t.runs : RunComplete(t.runs[n]),
           NEW n \in DOMAIN t.runs, NEW outcome, NEW w, Concludes(t, w, n, outcome)
    PROVE  Lawful(t, w)
<1>1. /\ TablesGood(w) /\ DOMAIN w.runs = DOMAIN t.runs
      /\ \A m \in DOMAIN t.runs : m # n => w.runs[m] = t.runs[m]
  BY DEF Concludes, Worked
<1>2. \A m \in DOMAIN w.runs : RunComplete(w.runs[m])
  BY <1>1 DEF Concludes
<1>3. w.runs[n].ready => \A s \in ReplaySignals :
        t.signals[s] \in Actionable /\ Plannable(s[2]) => Represents(w.runs[n], s)
  BY DEF Concludes, Accounted
<1> QED
  BY <1>1, <1>2, <1>3 DEF Lawful

\* create_enrichment_run.
LEMMA CreatedGood ==
    ASSUME ScopeGood, NEW t, TablesGood(t), NEW trigger \in Triggers,
           NEW wanted, NEW ids \in SUBSET ReplaySignals,
           \A s \in ids : t.signals[s] # "absent"
    PROVE  LET u == Created(t, trigger, wanted, ids)
               n == Len(t.runs) + 1 IN
           /\ TablesGood(u)
           /\ n \in DOMAIN u.runs /\ n \notin DOMAIN t.runs
           /\ \A m \in DOMAIN u.runs : m # n => m \in DOMAIN t.runs /\ u.runs[m] = t.runs[m]
<1> DEFINE n == Len(t.runs) + 1
           mine(d) == {s \in ids : s[2] = d}
           row(d) == IF Decision(d) = "UNKNOWN"
                     THEN NewRow("APPLICABILITY_UNKNOWN", "blocked", dataSet[d].generation, mine(d))
                     ELSE NewRow("PENDING", "pending", dataSet[d].generation, mine(d))
           rows == [d \in DataSets |-> IF d \in Frozen(wanted) THEN row(d) ELSE NoRow]
           key == IF trigger = "replay" THEN ids ELSE {}
           run == [trigger |-> trigger, key |-> key, status |-> "open", ready |-> FALSE,
                   restarts |-> 0, rows |-> rows]
           runs == Append(t.runs, run)
           u == [t EXCEPT !.runs = runs]
<1>1. TablesTyped(t) /\ SignalsGood(t)
  BY DEF TablesGood
<1>2. t = Database(t.runs, t.signals, t.jobs, t.early, t.reopened)
      /\ t.runs \in Seq(RunRows)
  BY <1>1 DEF TablesTyped
<1>3. Created(t, trigger, wanted, ids) = u
  BY DEF Created
<1>4. ASSUME NEW q, NEW d \in DataSets
      PROVE  RowGood(q, d, rows[d])
  <2>1. CASE d \notin Frozen(wanted)
    BY <2>1 DEF RowGood, MaybeRows
  <2>2. CASE d \in Frozen(wanted)
    <3>1. mine(d) \in SUBSET SignalsOf(d)
      <4>1. ASSUME NEW s \in mine(d) PROVE s \in SignalsOf(d)
        <5>1. s \in ReplaySignals /\ s[2] = d /\ t.signals[s] # "absent"
          OBVIOUS
        <5>2. s[1] \in Nat /\ emitted \in Nat
          BY <5>1, SignalFacts DEF ScopeGood
        <5> QED
          BY <1>1, <5>1, <5>2 DEF SignalsGood, SignalsOf
      <4> QED
        BY <4>1
    <3>2. dataSet[d].generation \in Nat
      BY DEF ScopeGood, DataSetState
    <3>3. rows[d] = row(d)
      BY <2>2
    <3>4. CASE Decision(d) = "UNKNOWN"
      <4>1. rows[d] = Row("APPLICABILITY_UNKNOWN", "blocked", dataSet[d].generation, mine(d), NoTask)
        BY <3>3, <3>4 DEF NewRow, Row
      <4>2. /\ "APPLICABILITY_UNKNOWN" \in CoverageStatus /\ "blocked" \in Executions
            /\ NoTask \in {NoTask} \cup TaskKeys
            /\ dataSet[d].generation <= dataSet[d].generation
        BY <3>2 DEF CoverageStatus, Executions
      <4> HIDE DEF rows, mine
      <4> QED
        BY <3>1, <3>2, <4>1, <4>2, RowIntro
    <3>5. CASE Decision(d) # "UNKNOWN"
      <4>1. rows[d] = Row("PENDING", "pending", dataSet[d].generation, mine(d), NoTask)
        BY <3>3, <3>5 DEF NewRow, Row
      <4>2. /\ "PENDING" \in CoverageStatus /\ "pending" \in Executions
            /\ NoTask \in {NoTask} \cup TaskKeys
            /\ dataSet[d].generation <= dataSet[d].generation
        BY <3>2 DEF CoverageStatus, Executions
      <4> HIDE DEF rows, mine
      <4> QED
        BY <3>1, <3>2, <4>1, <4>2, RowIntro
    <3> QED
      BY <3>4, <3>5
  <2> QED
    BY <2>1, <2>2
<1>5. rows = [d \in DataSets |-> rows[d]]
  OBVIOUS
<1> HIDE DEF rows
<1>6. rows \in RowTables
  BY <1>4, <1>5 DEF RowTables, RowGood
<1>7. run \in RunRows /\ run.rows = rows
  <2> DEFINE isReady == FALSE
  <2>1. isReady \in BOOLEAN /\ key \in SUBSET ReplaySignals /\ 0 \in 0..MaxRestarts
    BY EnrichmentAssumption
  <2>2. run = Run(trigger, key, "open", isReady, 0, rows)
    BY DEF Run
  <2> HIDE DEF isReady, run, key
  <2> QED
    BY <1>6, <2>1, <2>2 DEF Run, RunRows
<1> HIDE DEF run
<1>8. /\ runs \in Seq(RunRows) /\ n \in DOMAIN runs /\ n \notin DOMAIN t.runs
      /\ runs[n] = run
      /\ \A m \in DOMAIN runs : m # n => m \in DOMAIN t.runs /\ runs[m] = t.runs[m]
      /\ \A m \in DOMAIN t.runs : m \in DOMAIN runs /\ runs[m] = t.runs[m]
  BY <1>2, <1>7
<1> HIDE DEF runs
<1>9. u = Database(runs, t.signals, t.jobs, t.early, t.reopened)
  BY <1>2 DEF Database
<1>10. /\ u.runs = runs /\ u.signals = t.signals /\ u.jobs = t.jobs
       /\ u.early = t.early /\ u.reopened = t.reopened
  <2> HIDE DEF u
  <2> QED
    BY <1>9, DatabaseFields
<1> HIDE DEF u
<1>11. TablesTyped(u)
  BY <1>1, <1>8, <1>9, <1>10 DEF TablesTyped
<1>12. MovesOn(t, u)
  BY <1>10 DEF MovesOn
<1>13. RowsGood(u, rows)
  BY <1>4, <1>5 DEF RowsGood
<1>14. TablesGood(u)
  <2>1. SignalsGood(u) /\ u.early = {} /\ \A k \in DOMAIN u.jobs : JobGood(k, u.jobs[k])
    BY <1>10 DEF TablesGood, SignalsGood
  <2>2. ASSUME NEW m \in DOMAIN u.runs
        PROVE  \/ m \in DOMAIN t.runs /\ u.runs[m].rows = t.runs[m].rows
               \/ RowsGood(u, u.runs[m].rows)
    <3> HIDE DEF n
    <3> QED
      BY <1>7, <1>8, <1>10, <1>13
  <2> QED
    BY <1>11, <1>12, <2>1, <2>2, UpdateGood
<1> QED
  BY <1>3, <1>8, <1>10, <1>14

\* create_enrichment_run, and what is enqueued for the run.
LEMMA CreateLawful ==
    ASSUME ScopeGood, NEW t, TablesGood(t), \A n \in DOMAIN t.runs : RunComplete(t.runs[n]),
           NEW trigger \in Triggers, NEW wanted, NEW ids \in SUBSET ReplaySignals,
           \A s \in ids : t.signals[s] # "absent"
    PROVE  Lawful(t, WorkEnqueued(Created(t, trigger, wanted, ids), Len(t.runs) + 1))
<1> DEFINE n == Len(t.runs) + 1
           u == Created(t, trigger, wanted, ids)
           w == WorkEnqueued(u, n)
<1>1. /\ TablesGood(u)
      /\ n \in DOMAIN u.runs /\ n \notin DOMAIN t.runs
      /\ \A m \in DOMAIN u.runs : m # n => m \in DOMAIN t.runs /\ u.runs[m] = t.runs[m]
  BY CreatedGood
<1> HIDE DEF n, u
<1>2. Concludes(u, w, n, "none")
  BY <1>1, WorkEnqueuedConcludes
<1> HIDE DEF w
<1>3. /\ TablesGood(w) /\ DOMAIN w.runs = DOMAIN u.runs
      /\ \A m \in DOMAIN u.runs : m # n => w.runs[m] = u.runs[m]
      /\ RunComplete(w.runs[n]) /\ ~w.runs[n].ready
  BY <1>2 DEF Concludes, Worked
<1>4. \A m \in DOMAIN w.runs : m # n => m \in DOMAIN t.runs /\ w.runs[m] = t.runs[m]
  BY <1>1, <1>3
<1>5. \A m \in DOMAIN w.runs : RunComplete(w.runs[m])
  BY <1>3, <1>4
<1>6. Lawful(t, w)
  BY <1>3, <1>4, <1>5 DEF Lawful
<1> QED
  BY <1>6 DEF w, u, n

\* recover_legacy_replay_denominators, for a run that succeeded.
LEMMA RecoveredLawful ==
    ASSUME ScopeGood, NEW t, TablesGood(t), \A n \in DOMAIN t.runs : RunComplete(t.runs[n]),
           NEW n \in DOMAIN t.runs, t.runs[n].status = "succeeded", NEW outcome \in Outcomes
    PROVE  LET open == [t EXCEPT !.runs[n].status = "open", !.runs[n].ready = FALSE] IN
           /\ Lawful(t, Reconciled(open, n, outcome))
           /\ ~HasUnresolved(t, n) => Lawful(t, Denominators(t, n))
<1> DEFINE isReady == FALSE
           run == Became(t.runs[n], "open", isReady)
           a == [t EXCEPT !.runs[n].status = "open"]
           open == [a EXCEPT !.runs[n].ready = FALSE]
           w == Denominators(t, n)
<1>1. [t EXCEPT !.runs[n].status = "open", !.runs[n].ready = FALSE] = open
  OBVIOUS
<1>2. open = [t EXCEPT !.runs[n] = run]
  BY DEF Became
<1>3. Worked(t, open, n) /\ TablesGood(open) /\ n \in DOMAIN open.runs
  <2>1. isReady \in BOOLEAN /\ t.runs[n] \in RunRows
    BY RunsGood
  <2> HIDE DEF isReady
  <2>2. run \in RunRows /\ run.rows = t.runs[n].rows
    BY <2>1, RunWithStatus
  <2> HIDE DEF run, open
  <2>3. Worked(t, open, n)
    BY <1>2, <2>2, WithRunWorked
  <2> QED
    BY <2>3 DEF Worked
<1> HIDE DEF open
<1>4. Lawful(t, Reconciled(open, n, outcome))
  <2>1. Concludes(open, Reconciled(open, n, outcome), n, outcome)
    BY <1>3, ReconciledConcludes
  <2>2. Concludes(t, Reconciled(open, n, outcome), n, outcome)
    BY <1>3, <2>1, ConcludesAfter
  <2> QED
    BY <2>2, ConcludesLawful
<1>5. ASSUME ~HasUnresolved(t, n) PROVE Lawful(t, w)
  <2>1. RowsComplete(t.runs[n])
    BY DEF RunComplete, RowsComplete
  <2>2. Aligned(t, n)
    BY <2>1 DEF Aligned, Answerable, Follows, RowsComplete
  <2>3. /\ Worked(t, w, n)
        /\ \A s \in ReplaySignals :
             Accounted(t, n, s) /\ Plannable(s[2]) => Represents(w.runs[n], s)
        /\ w.runs[n].status = t.runs[n].status
        /\ RowsComplete(w.runs[n])
    BY <1>5, <2>1, <2>2, DenominatorsWorked
  <2> HIDE DEF w
  <2>4. RunComplete(w.runs[n])
    BY <2>3 DEF RunComplete, RowsComplete
  <2>5. /\ TablesGood(w) /\ DOMAIN w.runs = DOMAIN t.runs
        /\ \A m \in DOMAIN t.runs : m # n => w.runs[m] = t.runs[m]
    BY <2>3 DEF Worked
  <2>6. \A m \in DOMAIN w.runs : RunComplete(w.runs[m])
    BY <2>4, <2>5
  <2>7. \A s \in ReplaySignals :
          t.signals[s] \in Actionable /\ Plannable(s[2]) => Represents(w.runs[n], s)
    BY <2>3 DEF Accounted
  <2> QED
    BY <2>5, <2>6, <2>7 DEF Lawful
<1> QED
  BY <1>1, <1>4, <1>5

\* _recalculate_ruleset_members, for a run with nothing left to answer.
LEMMA RecalculatedLawful ==
    ASSUME ScopeGood, NEW t, TablesGood(t), \A n \in DOMAIN t.runs : RunComplete(t.runs[n]),
           NEW n \in DOMAIN t.runs, t.runs[n].status = "succeeded", ~HasUnresolved(t, n)
    PROVE  Lawful(t, [t EXCEPT !.runs[n].ready = TRUE])
<1> DEFINE run == [t.runs[n] EXCEPT !.ready = TRUE]
           w == [t EXCEPT !.runs[n].ready = TRUE]
<1>1. w = [t EXCEPT !.runs[n] = run]
  OBVIOUS
<1>2. run \in RunRows /\ run.rows = t.runs[n].rows /\ run.status = "succeeded"
  <2>1. t.runs[n] \in RunRows
    BY RunsGood
  <2> QED
    BY <2>1 DEF RunRows
<1> HIDE DEF run, w
<1>3. Worked(t, w, n) /\ w.runs[n] = run
  BY <1>1, <1>2, WithRunWorked
<1>4. /\ TablesGood(w) /\ DOMAIN w.runs = DOMAIN t.runs
      /\ \A m \in DOMAIN t.runs : m # n => w.runs[m] = t.runs[m]
  BY <1>3 DEF Worked
<1>5. RunComplete(run)
  BY <1>2 DEF RunComplete
<1>6. \A m \in DOMAIN w.runs : RunComplete(w.runs[m])
  BY <1>3, <1>4, <1>5
<1>7. ASSUME NEW s \in ReplaySignals, t.signals[s] \in Actionable, Plannable(s[2]),
             Decision(s[2]) # "NOT_APPLICABLE"
      PROVE  Represents(run, s)
  <2>1. s[2] \in DataSets /\ Decision(s[2]) \in Decisions
    BY SignalFacts DEF ScopeGood, DataSetState, Decision
  <2>2. /\ t.signals[s] \in Blocking /\ Operational(s[2])
        /\ Decision(s[2]) \in {"APPLICABLE", "UNKNOWN"}
    BY <1>7, <2>1 DEF Actionable, Blocking, Operational, Plannable, Decisions
  <2>3. Resolved(t, n, s)
    BY <2>2 DEF HasUnresolved, Unresolved
  <2>4. NoRow.status \notin Successful
    BY DEF NoRow, Successful
  <2> QED
    BY <1>2, <2>3, <2>4 DEF Resolved, Represents
<1>8. Lawful(t, w)
  BY <1>3, <1>4, <1>6, <1>7 DEF Lawful
<1> QED
  BY <1>8 DEF w

-----------------------------------------------------------------------------
(* Steps.                                                                  *)

\* What RiskSeesSignals says of a step.
RiskStep ==
    \A n \in DOMAIN db'.runs :
      (db'.runs[n].ready /\ (n \notin DOMAIN db.runs \/ db'.runs[n] # db.runs[n]))
        => \A s \in MustSee : Resolved(db', n, s)

\* Good tables stay good as changes are emitted and generations replaced.
LEMMA TablesStayGood ==
    ASSUME ScopeGood, scope' = scope,
           emitted' \in Nat, emitted <= emitted',
           dataSet' \in [DataSets -> DataSetState],
           \A d \in DataSets : dataSet[d].generation <= dataSet'[d].generation,
           TablesTyped(db'),
           \A n \in DOMAIN db'.runs : RowsGood(db', db'.runs[n].rows),
           \A k \in DOMAIN db'.jobs : JobGood(k, db'.jobs[k]),
           \A s \in ReplaySignals : db'.signals[s] = "absent" <=> s[1] > emitted',
           db'.early = {}
    PROVE  ScopeGood' /\ TablesGood(db)'
<1>1. DataSets' = DataSets /\ ReplaySignals' = ReplaySignals
  BY DEF DataSets, ReplaySignals
<1>2. TaskKeys' = TaskKeys
  BY <1>1 DEF TaskKeys
<1>3. MaybeRows' = MaybeRows
  BY <1>1, <1>2 DEF MaybeRows, CoverageRows
<1>4. RunRows' = RunRows
  BY <1>1, <1>3 DEF RunRows, RowTables
<1>5. TaskJobRows \subseteq TaskJobRows'
  BY DEF TaskJobRows, ScopeGood
<1>6. \A d \in DataSets : SignalsOf(d) \subseteq SignalsOf(d)'
  <2>1. \A s \in ReplaySignals : s[1] \in Nat
    BY SignalFacts
  <2> QED
    BY <1>1, <2>1 DEF SignalsOf, ScopeGood
<1>7. TablesTyped(db)'
  BY <1>1, <1>2, <1>4, <1>5 DEF TablesTyped
<1>8. ScopeGood'
  BY <1>1 DEF ScopeGood, DataSetState
<1>9. ASSUME NEW n \in DOMAIN db'.runs, NEW d \in DataSets
      PROVE  RowGood(db, d, db.runs[n].rows[d])'
  <2> DEFINE row == db'.runs[n].rows[d]
  <2>1. RowGood(db', d, row)
    BY DEF RowsGood
  <2>2. row \in MaybeRows'
    BY <1>3, <2>1 DEF RowGood
  <2>3. ASSUME row # NoRow
        PROVE  /\ row.ids \subseteq SignalsOf(d)'
               /\ row.generation <= dataSet'[d].generation
               /\ row.task # NoTask => row.task \in DOMAIN db'.jobs
               /\ StatusesAgree(row)
               /\ (Follows(row) /\ db'.jobs[row.task].status = "succeeded"
                     /\ (scope.mode[d] = "point" \/ row.generation = dataSet'[d].generation)
                   => \A s \in row.ids : \/ s[1] <= db'.jobs[row.task].knows
                                         \/ s \in db'.reopened
                                         \/ db'.signals[s] \notin Actionable)
    <3> HIDE DEF row
    <3>1. /\ row.ids \subseteq SignalsOf(d)
          /\ row.generation \in Nat /\ dataSet[d].generation \in Nat
          /\ row.generation <= dataSet[d].generation
          /\ row.task # NoTask => row.task \in DOMAIN db'.jobs
          /\ StatusesAgree(row) /\ AnswerIsLater(db', d, row)
      BY <2>1, <2>3, RowGoodFacts DEF RowGood
    <3>2. dataSet'[d].generation \in Nat /\ dataSet[d].generation <= dataSet'[d].generation
      BY DEF DataSetState
    <3>3. row.generation <= dataSet'[d].generation
      BY <3>1, <3>2
    <3>4. row.generation = dataSet'[d].generation => row.generation = dataSet[d].generation
      BY <3>1, <3>2
    <3> QED
      BY <1>6, <3>1, <3>3, <3>4 DEF AnswerIsLater, Answerable, Fresh
  <2> QED
    BY <2>2, <2>3 DEF RowGood, StatusesAgree, AnswerIsLater, Answerable, Fresh, Follows,
                      NoRow, Actionable
<1>10. ASSUME NEW n \in DOMAIN db'.runs
       PROVE  RowsGood(db, db.runs[n].rows)'
  <2>1. RowsGood(db', db'.runs[n].rows)
    OBVIOUS
  <2>2. db'.runs[n].rows = [d \in DataSets |-> db'.runs[n].rows[d]]
    BY <2>1 DEF RowsGood
  <2> QED
    BY <1>1, <1>9, <2>2 DEF RowsGood
<1>11. ASSUME NEW k \in DOMAIN db'.jobs
       PROVE  JobGood(k, db.jobs[k])'
  <2>1. JobGood(k, db'.jobs[k]) /\ k \in TaskKeys
    BY DEF TablesTyped
  <2>2. k.code \in DataSets
    BY <2>1 DEF TaskKeys
  <2> QED
    BY <1>6, <2>1, <2>2 DEF JobGood
<1>12. SignalsGood(db)'
  BY <1>1 DEF SignalsGood
<1> QED
  BY <1>7, <1>8, <1>10, <1>11, <1>12 DEF TablesGood

\* A run that is as it was stays complete.
LEMMA RunsStayComplete ==
    ASSUME scope' = scope, \A n \in DOMAIN db'.runs : RunComplete(db'.runs[n])
    PROVE  (\A n \in DOMAIN db.runs : RunComplete(db.runs[n]))'
<1>1. DataSets' = DataSets
  BY DEF DataSets
<1>2. ASSUME NEW n \in DOMAIN db'.runs PROVE RunComplete(db.runs[n])'
  <2>1. RunComplete(db'.runs[n])
    OBVIOUS
  <2> QED
    BY <1>1, <2>1 DEF RunComplete, NoRow, Successful
<1> QED
  BY <1>2

LEMMA LawfulStep ==
    ASSUME EnrichmentInv, UNCHANGED <<scope, dataSet, emitted>>, Lawful(db, db')
    PROVE  EnrichmentInv' /\ RiskStep
<1>1. ScopeGood /\ TablesGood(db') /\ \A n \in DOMAIN db'.runs : RunComplete(db'.runs[n])
  BY DEF EnrichmentInv, Lawful
<1>2. ScopeGood' /\ TablesGood(db)'
  <2>1. emitted' \in Nat /\ emitted <= emitted' /\ dataSet' \in [DataSets -> DataSetState]
        /\ \A d \in DataSets : dataSet[d].generation <= dataSet'[d].generation
    BY <1>1 DEF ScopeGood, DataSetState
  <2>2. /\ TablesTyped(db')
        /\ \A n \in DOMAIN db'.runs : RowsGood(db', db'.runs[n].rows)
        /\ \A k \in DOMAIN db'.jobs : JobGood(k, db'.jobs[k])
        /\ \A s \in ReplaySignals : db'.signals[s] = "absent" <=> s[1] > emitted'
        /\ db'.early = {}
    BY <1>1 DEF TablesGood, SignalsGood
  <2> QED
    BY <1>1, <2>1, <2>2, TablesStayGood
<1>3. (\A n \in DOMAIN db.runs : RunComplete(db.runs[n]))'
  BY <1>1, RunsStayComplete
<1>4. RiskStep
  <2> SUFFICES ASSUME NEW n \in DOMAIN db'.runs, db'.runs[n].ready,
                      n \notin DOMAIN db.runs \/ db'.runs[n] # db.runs[n],
                      NEW s \in MustSee
               PROVE  Resolved(db', n, s)
    BY DEF RiskStep
  <2>1. Represents(db'.runs[n], s) /\ s[2] \in DataSets
    BY SignalFacts DEF MustSee, Lawful
  <2>2. /\ db'.runs[n].rows[s[2]].status \in Successful
        /\ db'.runs[n].rows[s[2]].exec = "succeeded"
    BY <1>1, <2>1 DEF RunComplete, Represents
  <2> QED
    BY <2>1, <2>2 DEF Resolved, Represents
<1> QED
  BY <1>2, <1>3, <1>4 DEF EnrichmentInv

\* A step that leaves the runs alone draws no conclusion.
LEMMA RunsUnchanged ==
    ASSUME db'.runs = db.runs
    PROVE  RiskStep
  BY DEF RiskStep

\* A job ends: it has seen what was emitted before.
LEMMA TaskEndsKeeps ==
    ASSUME EnrichmentInv, NEW k, NEW st \in {"succeeded", "failed"},
           NEW signal \in {"complete", "failed"}, TaskEnds(k, st, signal)
    PROVE  EnrichmentInv' /\ RiskStep
<1> DEFINE m == Marked(db, k.ids, SignalStatus, signal)
           job == [status |-> st, knows |-> IF st = "succeeded" THEN emitted ELSE 0]
           jobs == [m.jobs EXCEPT ![k] = job]
           w == [m EXCEPT !.jobs = jobs]
<1>1. /\ ScopeGood /\ TablesGood(db)
      /\ \A n \in DOMAIN db.runs : RunComplete(db.runs[n])
      /\ TablesTyped(db) /\ SignalsGood(db)
  BY DEF EnrichmentInv, TablesGood
<1>2. /\ k \in DOMAIN db.jobs /\ db.jobs[k].status = "open"
      /\ db' = [m EXCEPT !.jobs[k] = job]
      /\ UNCHANGED <<scope, dataSet, emitted>>
  BY DEF TaskEnds, OnlyTables
<1>3. db' = w
  BY <1>2
<1>4. \A s \in ReplaySignals : s[1] \in Nat
  BY SignalFacts
<1>5. k \in TaskKeys /\ k.code \in DataSets /\ k.ids \subseteq SignalsOf(k.code)
  BY <1>1, <1>2 DEF TablesTyped, TaskKeys, TablesGood, JobGood
<1>6. /\ TablesGood(m) /\ MovesOn(db, m) /\ TablesTyped(m)
      /\ m.runs = db.runs /\ m.jobs = db.jobs /\ m.early = db.early
  <2>1. signal \in SignalStatus /\ signal # "absent" /\ signal \notin Actionable
    BY DEF SignalStatus, Actionable
  <2>2. \A x \in k.ids \cap ReplaySignals : db.signals[x] \in SignalStatus => x[1] <= emitted
    BY <1>5 DEF SignalsOf
  <2>3. TablesGood(m) /\ MovesOn(db, m)
    BY <1>1, <2>1, <2>2, MarkedGood
  <2>4. m.runs = db.runs /\ m.jobs = db.jobs /\ m.early = db.early
    BY <1>1, <2>1, MarkedFacts
  <2> QED
    BY <2>3, <2>4 DEF TablesGood
<1> HIDE DEF m
<1>7. job \in TaskJobRows /\ job.status = st /\ (st = "succeeded" => job.knows = emitted)
  BY <1>1 DEF TaskJobRows, ScopeGood
<1> HIDE DEF job
<1>8. /\ jobs \in [DOMAIN jobs -> TaskJobRows] /\ DOMAIN jobs = DOMAIN db.jobs
      /\ jobs[k] = job
      /\ \A j \in DOMAIN jobs : j # k => jobs[j] = db.jobs[j]
  <2>1. db.jobs \in [DOMAIN db.jobs -> TaskJobRows]
    BY <1>1 DEF TablesTyped
  <2> QED
    BY <1>2, <1>6, <1>7, <2>1
<1> HIDE DEF jobs
<1>9. /\ TablesTyped(w)
      /\ w.runs = db.runs /\ w.signals = m.signals /\ w.jobs = jobs
      /\ w.early = db.early /\ w.reopened = m.reopened
  <2>1. DOMAIN jobs \subseteq TaskKeys
    BY <1>1, <1>8 DEF TablesTyped
  <2> QED
    BY <1>6, <1>8, <2>1, WithJobsFacts
<1> HIDE DEF w
<1>10. ASSUME NEW d \in DataSets, NEW row, RowGood(m, d, row)
       PROVE  RowGood(w, d, row)
  <2>1. CASE row = NoRow
    BY <2>1 DEF RowGood, MaybeRows
  <2>2. CASE row # NoRow
    <3>1. AnswerIsLater(m, d, row) /\ row.ids \subseteq SignalsOf(d)
          /\ (row.task # NoTask => row.task \in DOMAIN db.jobs)
      BY <1>6, <1>10, <2>2 DEF RowGood
    <3>2. CASE row.task = k
      <4>1. ASSUME Answerable(w, d, row), NEW s \in row.ids
            PROVE  s[1] <= w.jobs[row.task].knows
        BY <1>7, <1>8, <1>9, <3>1, <3>2, <4>1 DEF Answerable, SignalsOf
      <4>2. AnswerIsLater(w, d, row)
        BY <4>1 DEF AnswerIsLater
      <4> QED
        BY <1>6, <1>8, <1>9, <1>10, <2>2, <4>2 DEF RowGood
    <3>3. CASE row.task # k
      <4>1. AnswerIsLater(w, d, row)
        BY <1>6, <1>8, <1>9, <3>1, <3>3 DEF AnswerIsLater, Answerable, Follows
      <4> QED
        BY <1>6, <1>8, <1>9, <1>10, <2>2, <4>1 DEF RowGood
    <3> QED
      BY <3>2, <3>3
  <2> QED
    BY <2>1, <2>2
<1>11. ASSUME NEW j \in DOMAIN w.jobs
       PROVE  JobGood(j, w.jobs[j])
  <2>1. JobGood(j, db.jobs[j])
    BY <1>1, <1>8, <1>9 DEF TablesGood
  <2>2. CASE j = k
    BY <1>5, <1>7, <1>8, <1>9, <2>2 DEF JobGood, SignalsOf
  <2>3. CASE j # k
    BY <1>8, <1>9, <2>1, <2>3
  <2> QED
    BY <2>2, <2>3
<1>12. TablesGood(w)
  <2>1. SignalsGood(w)
    BY <1>6, <1>9 DEF TablesGood, SignalsGood
  <2>2. ASSUME NEW n \in DOMAIN w.runs PROVE RowsGood(w, w.runs[n].rows)
    <3>1. RowsGood(m, m.runs[n].rows)
      BY <1>6, <1>9 DEF TablesGood
    <3> QED
      BY <1>6, <1>9, <1>10, <3>1 DEF RowsGood
  <2>3. w.early = {}
    BY <1>1, <1>9 DEF TablesGood
  <2> QED
    BY <1>9, <1>11, <2>1, <2>2, <2>3 DEF TablesGood
<1>13. Lawful(db, w)
  BY <1>1, <1>9, <1>12 DEF Lawful
<1> QED
  BY <1>2, <1>3, <1>13, LawfulStep

\* A change of the company emits a signal for every data set.
LEMMA EmitKeeps ==
    ASSUME EnrichmentInv, NEW registry \in BOOLEAN, Emit(registry)
    PROVE  EnrichmentInv' /\ RiskStep
<1> DEFINE S == {emitted + 1} \X DataSets
           w == Marked(db, S, {"absent"}, "pending")
<1>1. /\ ScopeGood /\ TablesGood(db)
      /\ \A n \in DOMAIN db.runs : RunComplete(db.runs[n])
      /\ TablesTyped(db) /\ SignalsGood(db) /\ emitted \in Nat
  BY DEF EnrichmentInv, TablesGood, ScopeGood
<1>2. /\ emitted' = emitted + 1 /\ db' = w /\ scope' = scope
      /\ dataSet' = IF registry THEN [d \in DataSets |-> [dataSet[d] EXCEPT !.state = "due"]]
                    ELSE dataSet
  BY DEF Emit
<1>3. /\ TablesTyped(w)
      /\ w.runs = db.runs /\ w.jobs = db.jobs /\ w.early = db.early
      /\ w.reopened = db.reopened
      /\ \A x \in ReplaySignals :
           w.signals[x] = IF x \in S /\ db.signals[x] \in {"absent"} THEN "pending"
                          ELSE db.signals[x]
  BY <1>1, MarkedFacts DEF SignalStatus
<1> HIDE DEF w
<1>4. \A s \in ReplaySignals : s[1] \in Nat /\ s[2] \in DataSets /\ s = <<s[1], s[2]>>
  BY DEF ReplaySignals
<1>5. ASSUME NEW s \in ReplaySignals
      PROVE  w.signals[s] = "absent" <=> s[1] > emitted'
  <2>1. s \in S <=> s[1] = emitted + 1
    BY <1>4
  <2>2. db.signals[s] = "absent" <=> s[1] > emitted
    BY <1>1 DEF SignalsGood
  <2> HIDE DEF S
  <2> QED
    BY <1>1, <1>2, <1>3, <1>4, <2>1, <2>2
<1>6. ASSUME NEW d \in DataSets, NEW row, RowGood(db, d, row)
      PROVE  RowGood(w, d, row)
  <2>1. CASE row = NoRow
    BY <2>1 DEF RowGood, MaybeRows
  <2>2. CASE row # NoRow
    <3>1. row.ids \subseteq SignalsOf(d) /\ AnswerIsLater(db, d, row)
      BY <1>6, <2>2 DEF RowGood
    <3>2. \A s \in row.ids : w.signals[s] = db.signals[s]
      BY <1>1, <1>3, <1>4, <3>1 DEF SignalsOf
    <3>3. AnswerIsLater(w, d, row)
      BY <1>3, <3>1, <3>2 DEF AnswerIsLater, Answerable
    <3> QED
      BY <1>3, <1>6, <2>2, <3>3 DEF RowGood
  <2> QED
    BY <2>1, <2>2
<1>7. \A n \in DOMAIN w.runs : RowsGood(w, w.runs[n].rows)
  BY <1>1, <1>3, <1>6 DEF TablesGood, RowsGood
<1>8. (\A k \in DOMAIN w.jobs : JobGood(k, w.jobs[k])) /\ w.early = {}
  BY <1>1, <1>3 DEF TablesGood
<1>9. /\ dataSet' \in [DataSets -> DataSetState]
      /\ \A d \in DataSets : dataSet[d].generation <= dataSet'[d].generation
  <2>1. \A d \in DataSets : dataSet[d] \in DataSetState /\ dataSet[d].generation \in Nat
    BY <1>1 DEF ScopeGood, DataSetState
  <2>2. ASSUME NEW d \in DataSets
        PROVE  LET x == [dataSet[d] EXCEPT !.state = "due"] IN
               x \in DataSetState /\ x.generation = dataSet[d].generation
    BY <2>1 DEF DataSetState
  <2> QED
    BY <1>1, <1>2, <2>1, <2>2 DEF ScopeGood
<1>10. ScopeGood' /\ TablesGood(db)'
  <2>1. emitted' \in Nat /\ emitted <= emitted'
    BY <1>1, <1>2
  <2> QED
    BY <1>1, <1>2, <1>3, <1>5, <1>7, <1>8, <1>9, <2>1, TablesStayGood
<1>11. (\A n \in DOMAIN db.runs : RunComplete(db.runs[n]))'
  BY <1>1, <1>2, <1>3, RunsStayComplete
<1> QED
  BY <1>2, <1>3, <1>10, <1>11, RunsUnchanged DEF EnrichmentInv

\* What happens to a data set changes no table, and its generation only grows.
LEMMA SourceKeeps ==
    ASSUME EnrichmentInv, UNCHANGED <<scope, emitted, db>>, NEW d \in DataSets,
           NEW becomes \in DataSetState, dataSet[d].generation <= becomes.generation,
           dataSet' = [dataSet EXCEPT ![d] = becomes]
    PROVE  EnrichmentInv' /\ RiskStep
<1>1. /\ ScopeGood /\ TablesGood(db)
      /\ \A n \in DOMAIN db.runs : RunComplete(db.runs[n])
  BY DEF EnrichmentInv
<1>2. /\ emitted' \in Nat /\ emitted <= emitted' /\ scope' = scope
      /\ dataSet' \in [DataSets -> DataSetState]
      /\ \A c \in DataSets : dataSet[c].generation <= dataSet'[c].generation
  BY <1>1 DEF ScopeGood, DataSetState
<1>3. /\ TablesTyped(db')
      /\ \A n \in DOMAIN db'.runs : RowsGood(db', db'.runs[n].rows)
      /\ \A k \in DOMAIN db'.jobs : JobGood(k, db'.jobs[k])
      /\ \A s \in ReplaySignals : db'.signals[s] = "absent" <=> s[1] > emitted'
      /\ db'.early = {}
  BY <1>1 DEF TablesGood, SignalsGood
<1>4. ScopeGood' /\ TablesGood(db)'
  BY <1>1, <1>2, <1>3, TablesStayGood
<1>5. (\A n \in DOMAIN db.runs : RunComplete(db.runs[n]))'
  BY <1>1, RunsStayComplete
<1> QED
  BY <1>4, <1>5, RunsUnchanged DEF EnrichmentInv

\* The operations of a cycle and of the operator.
LEMMA CycleKeeps ==
    ASSUME EnrichmentInv,
           \/ PrioritiseNew \/ PrioritiseOpen \/ PrioritiseFailed
           \/ Seed \/ Consume \/ Recalculate
           \/ \E o \in Outcomes : Recover(o) \/ \E n \in DOMAIN db.runs : Reconcile(n, o)
           \/ \E n \in DOMAIN db.runs : RestartMember(n)
           \/ \E d \in DataSets : Backfill(d)
    PROVE  EnrichmentInv' /\ RiskStep
<1>1. /\ ScopeGood /\ TablesGood(db)
      /\ \A n \in DOMAIN db.runs : RunComplete(db.runs[n])
      /\ TablesTyped(db) /\ SignalsGood(db) /\ db.runs \in Seq(RunRows)
  BY DEF EnrichmentInv, TablesGood, TablesTyped
<1>2. Latest(db) > 0 => Latest(db) \in DOMAIN db.runs
  BY <1>1 DEF Latest
<1>3. ASSUME NEW trigger \in Triggers, NEW wanted, NEW ids \in SUBSET ReplaySignals,
             \A s \in ids : db.signals[s] # "absent", Create(trigger, wanted, ids),
             UNCHANGED <<scope, dataSet, emitted>>
      PROVE  EnrichmentInv' /\ RiskStep
  <2>1. db' = WorkEnqueued(Created(db, trigger, wanted, ids), Len(db.runs) + 1)
    BY <1>3 DEF Create
  <2>2. Lawful(db, db')
    BY <1>1, <1>3, <2>1, CreateLawful
  <2> QED
    BY <1>3, <2>2, LawfulStep
<1>4. PendingSignals \in SUBSET ReplaySignals
      /\ \A s \in PendingSignals : db.signals[s] # "absent"
  BY DEF PendingSignals, Unresolved, Actionable
<1>5. ASSUME NEW n \in DOMAIN db.runs, NEW outcome, Concludes(db, db', n, outcome),
             UNCHANGED <<scope, dataSet, emitted>>
      PROVE  EnrichmentInv' /\ RiskStep
  <2>1. Lawful(db, db')
    BY <1>1, <1>5, ConcludesLawful
  <2> QED
    BY <1>5, <2>1, LawfulStep
<1>6. CASE PrioritiseNew
  <2>1. "cohort" \in Triggers
    BY DEF Triggers
  <2> QED
    BY <1>3, <1>4, <1>6, <2>1 DEF PrioritiseNew, OnlyTables
<1>7. CASE PrioritiseOpen
  <2>1. Latest(db) \in DOMAIN db.runs /\ db' = WorkEnqueued(db, Latest(db))
        /\ UNCHANGED <<scope, dataSet, emitted>>
    BY <1>2, <1>7 DEF PrioritiseOpen, OnlyTables
  <2> QED
    BY <1>1, <1>5, <2>1, WorkEnqueuedConcludes
<1>8. CASE PrioritiseFailed
  <2> DEFINE n == Latest(db)
             v == Restarted(db, n)
  <2>1. /\ n \in DOMAIN db.runs /\ db.runs[n].restarts < MaxRestarts
        /\ db' = WorkEnqueued(v, n) /\ UNCHANGED <<scope, dataSet, emitted>>
    BY <1>2, <1>8 DEF PrioritiseFailed, OnlyTables, MayRestart
  <2> HIDE DEF n
  <2>2. Concludes(db, v, n, "none")
    BY <1>1, <2>1, RestartedConcludes
  <2> HIDE DEF v
  <2>3. Worked(db, v, n) /\ TablesGood(v) /\ n \in DOMAIN v.runs
    BY <2>1, <2>2 DEF Concludes, Worked
  <2>4. Concludes(v, db', n, "none")
    BY <1>1, <2>1, <2>3, WorkEnqueuedConcludes
  <2>5. Concludes(db, db', n, "none")
    BY <2>1, <2>3, <2>4, ConcludesAfter
  <2> QED
    BY <1>5, <2>1, <2>5
<1>9. CASE Seed
  <2>1. "bootstrap" \in Triggers
    BY DEF Triggers
  <2> QED
    BY <1>3, <1>4, <1>9, <2>1 DEF Seed, OnlyTables
<1>10. CASE Consume
  <2> DEFINE pending == {s \in ReplaySignals :
                           /\ db.signals[s] = "pending"
                           /\ Operational(s[2]) /\ Decision(s[2]) # "NOT_APPLICABLE"}
             wanted == Frozen(CodesOf(pending))
             ids == {s \in pending : s[2] \in wanted}
             known == {n \in DOMAIN db.runs :
                         db.runs[n].trigger = "replay" /\ db.runs[n].key = ids}
  <2>1. /\ IF known = {} THEN Create("replay", wanted, ids)
           ELSE \E n \in known : db' = WorkEnqueued(db, n)
        /\ UNCHANGED <<scope, dataSet, emitted>>
    BY <1>10 DEF Consume, OnlyTables
  <2>2. ids \in SUBSET ReplaySignals /\ \A s \in ids : db.signals[s] # "absent"
    OBVIOUS
  <2>3. \A n \in known : n \in DOMAIN db.runs
    OBVIOUS
  <2> HIDE DEF ids, wanted, known
  <2>4. CASE known = {}
    <3>1. "replay" \in Triggers /\ Create("replay", wanted, ids)
      BY <2>1, <2>4 DEF Triggers
    <3> QED
      BY <1>3, <2>1, <2>2, <3>1
  <2>5. CASE known # {}
    <3>1. PICK n \in known : db' = WorkEnqueued(db, n)
      BY <2>1, <2>5
    <3> QED
      BY <1>1, <1>5, <2>1, <2>3, <3>1, WorkEnqueuedConcludes
  <2> QED
    BY <2>4, <2>5
<1>11. CASE Recalculate
  <2>1. PICK n \in CompleteRuns : db' = [db EXCEPT !.runs[n].ready = TRUE]
    BY <1>11 DEF Recalculate
  <2>2. /\ n \in DOMAIN db.runs /\ db.runs[n].status = "succeeded" /\ ~HasUnresolved(db, n)
        /\ UNCHANGED <<scope, dataSet, emitted>>
    BY <1>11 DEF CompleteRuns, Recalculate, OnlyTables
  <2>3. Lawful(db, db')
    BY <1>1, <2>1, <2>2, RecalculatedLawful
  <2> QED
    BY <2>2, <2>3, LawfulStep
<1>12. ASSUME NEW o \in Outcomes, Recover(o)
       PROVE  EnrichmentInv' /\ RiskStep
  <2> DEFINE n == Latest(db)
             open == [db EXCEPT !.runs[n].status = "open", !.runs[n].ready = FALSE]
  <2>1. /\ n \in DOMAIN db.runs /\ db.runs[n].status = "succeeded"
        /\ db' = IF HasUnresolved(db, n) THEN Reconciled(open, n, o) ELSE Denominators(db, n)
        /\ UNCHANGED <<scope, dataSet, emitted>>
    BY <1>2, <1>12 DEF Recover, OnlyTables
  <2>2. /\ Lawful(db, Reconciled(open, n, o))
        /\ ~HasUnresolved(db, n) => Lawful(db, Denominators(db, n))
    BY <1>1, <2>1, RecoveredLawful
  <2> QED
    BY <2>1, <2>2, LawfulStep
<1>13. ASSUME NEW o \in Outcomes, NEW n \in DOMAIN db.runs, Reconcile(n, o)
       PROVE  EnrichmentInv' /\ RiskStep
  <2>1. db' = Reconciled(db, n, o) /\ UNCHANGED <<scope, dataSet, emitted>>
    BY <1>13 DEF Reconcile, OnlyTables
  <2> QED
    BY <1>1, <1>5, <2>1, ReconciledConcludes
<1>14. ASSUME NEW n \in DOMAIN db.runs, RestartMember(n)
       PROVE  EnrichmentInv' /\ RiskStep
  <2>1. /\ db' = Restarted(db, n) /\ db.runs[n].restarts < MaxRestarts
        /\ UNCHANGED <<scope, dataSet, emitted>>
    BY <1>14 DEF RestartMember, MayRestart, OnlyTables
  <2> QED
    BY <1>1, <1>5, <2>1, RestartedConcludes
<1>15. ASSUME NEW d \in DataSets, Backfill(d)
       PROVE  EnrichmentInv' /\ RiskStep
  <2>1. UNCHANGED <<scope, dataSet, emitted>>
    BY <1>15 DEF Backfill
  <2>2. CASE Create("generation", {d}, {})
    <3>1. "generation" \in Triggers
      BY DEF Triggers
    <3> QED
      BY <1>3, <2>1, <2>2, <3>1
  <2>3. CASE UNCHANGED db
    <3>1. Lawful(db, db')
      BY <1>1, <2>3 DEF Lawful
    <3> QED
      BY <2>1, <3>1, LawfulStep
  <2> QED
    BY <1>15, <2>2, <2>3 DEF Backfill
<1> QED
  BY <1>6, <1>7, <1>8, <1>9, <1>10, <1>11, <1>12, <1>13, <1>14, <1>15

\* The invariant is inductive, and no step calculates risk too early.
LEMMA NextKeeps ==
    ASSUME EnrichmentInv, [EnrichmentNext]_enrichmentVars
    PROVE  EnrichmentInv' /\ (RiskStep \/ UNCHANGED enrichmentVars)
<1>1. CASE \/ PrioritiseNew \/ PrioritiseOpen \/ PrioritiseFailed
           \/ Seed \/ Consume \/ Recalculate
           \/ \E o \in Outcomes : Recover(o) \/ \E n \in DOMAIN db.runs : Reconcile(n, o)
           \/ \E n \in DOMAIN db.runs : RestartMember(n)
           \/ \E d \in DataSets : Backfill(d)
  BY <1>1, CycleKeeps
<1>2. ASSUME NEW k \in DOMAIN db.jobs, TaskSucceeds(k) \/ TaskFails(k)
      PROVE  EnrichmentInv' /\ RiskStep
  BY <1>2, TaskEndsKeeps DEF TaskSucceeds, TaskFails
<1>3. ASSUME NEW registry \in BOOLEAN, Emit(registry)
      PROVE  EnrichmentInv' /\ RiskStep
  BY <1>3, EmitKeeps
<1>4. ASSUME NEW d \in DataSets,
             SourceChecked(d) \/ ComesDue(d) \/ Ages(d) \/ NewGeneration(d)
               \/ \E decision \in Decisions : SetPolicy(d, decision)
      PROVE  EnrichmentInv' /\ RiskStep
  <2>1. dataSet \in [DataSets -> DataSetState] /\ dataSet[d] \in DataSetState
    BY DEF EnrichmentInv, ScopeGood
  <2>2. dataSet[d].generation \in Nat
    BY <2>1 DEF DataSetState
  <2>3. CASE SourceChecked(d)
    <3> DEFINE x == [dataSet[d] EXCEPT !.state = "current"]
    <3>1. x \in DataSetState /\ dataSet[d].generation <= x.generation
      BY <2>1, <2>2 DEF DataSetState
    <3>2. dataSet' = [dataSet EXCEPT ![d] = x] /\ UNCHANGED <<scope, emitted, db>>
      BY <2>3 DEF SourceChecked
    <3> HIDE DEF x
    <3> QED
      BY <3>1, <3>2, SourceKeeps
  <2>4. ASSUME NEW x \in DataSetState, dataSet[d].generation <= x.generation, SourceEvent(d, x)
        PROVE  EnrichmentInv' /\ RiskStep
    <3>1. dataSet' = [dataSet EXCEPT ![d] = x] /\ UNCHANGED <<scope, emitted, db>>
      BY <2>4 DEF SourceEvent
    <3> QED
      BY <2>4, <3>1, SourceKeeps
  <2>5. CASE ComesDue(d)
    <3> DEFINE x == [dataSet[d] EXCEPT !.state = "due"]
    <3>1. x \in DataSetState /\ dataSet[d].generation <= x.generation
      BY <2>1, <2>2 DEF DataSetState
    <3>2. SourceEvent(d, x)
      BY <2>5 DEF ComesDue
    <3> HIDE DEF x
    <3> QED
      BY <2>4, <3>1, <3>2
  <2>6. CASE Ages(d)
    <3> DEFINE x == [dataSet[d] EXCEPT !.state = "aged"]
    <3>1. x \in DataSetState /\ dataSet[d].generation <= x.generation
      BY <2>1, <2>2 DEF DataSetState
    <3>2. SourceEvent(d, x)
      BY <2>6 DEF Ages
    <3> HIDE DEF x
    <3> QED
      BY <2>4, <3>1, <3>2
  <2>7. CASE NewGeneration(d)
    <3> DEFINE y == [dataSet[d] EXCEPT !.generation = dataSet[d].generation + 1]
               x == [dataSet[d] EXCEPT !.generation = @ + 1, !.state = "current"]
    <3>1. y \in DataSetState /\ y.generation = dataSet[d].generation + 1
      BY <2>1, <2>2 DEF DataSetState
    <3>2. x = [y EXCEPT !.state = "current"]
      OBVIOUS
    <3>3. x \in DataSetState /\ dataSet[d].generation <= x.generation
      <4> HIDE DEF x, y
      <4> QED
        BY <2>2, <3>1, <3>2 DEF DataSetState
    <3>4. SourceEvent(d, x)
      BY <2>7 DEF NewGeneration
    <3> HIDE DEF x
    <3> QED
      BY <2>4, <3>3, <3>4
  <2>8. ASSUME NEW decision \in Decisions, SetPolicy(d, decision)
        PROVE  EnrichmentInv' /\ RiskStep
    <3> DEFINE x == [dataSet[d] EXCEPT !.policy = decision]
    <3>1. x \in DataSetState /\ dataSet[d].generation <= x.generation
      BY <2>1, <2>2 DEF DataSetState
    <3>2. SourceEvent(d, x)
      BY <2>8 DEF SetPolicy
    <3> HIDE DEF x
    <3> QED
      BY <2>4, <3>1, <3>2
  <2> QED
    BY <1>4, <2>3, <2>5, <2>6, <2>7, <2>8
<1>5. CASE UNCHANGED enrichmentVars
  <2>1. UNCHANGED <<scope, dataSet, emitted, db>>
    BY <1>5 DEF enrichmentVars
  <2>2. Lawful(db, db')
    BY <2>1 DEF Lawful, EnrichmentInv
  <2> QED
    BY <1>5, <2>1, <2>2, LawfulStep
<1> QED
  BY <1>1, <1>2, <1>3, <1>4, <1>5 DEF EnrichmentNext

LEMMA InitKeeps == EnrichmentInit => EnrichmentInv
<1> SUFFICES ASSUME EnrichmentInit PROVE EnrichmentInv
  OBVIOUS
<1> DEFINE signals == [s \in ReplaySignals |-> "absent"]
<1>1. db = Database(<<>>, signals, <<>>, {}, {})
  BY DEF EnrichmentInit, Database
<1>2. /\ db.runs = <<>> /\ db.signals = signals /\ db.jobs = <<>>
      /\ db.early = {} /\ db.reopened = {}
  BY <1>1, DatabaseFields
<1>3. ScopeGood
  <2>1. ScopeOK(scope) /\ scope \in Scopes /\ emitted = 0
    BY EnrichmentAssumption DEF EnrichmentInit
  <2>2. \A d \in DataSets : scope.policy[d] \in Decisions
    BY <2>1 DEF ScopeOK, DataSets
  <2> QED
    BY <2>1, <2>2 DEF ScopeGood, EnrichmentInit, DataSetState
<1>4. TablesTyped(db)
  <2>1. DOMAIN db.jobs = {}
    BY <1>2
  <2>2. db.jobs \in [DOMAIN db.jobs -> TaskJobRows]
    BY <1>2, <2>1
  <2>3. signals \in [ReplaySignals -> SignalStatus]
    BY DEF SignalStatus
  <2>4. db.runs \in Seq(RunRows)
    BY <1>2
  <2>5. db = Database(db.runs, db.signals, db.jobs, db.early, db.reopened)
    <3> HIDE DEF signals
    <3> QED
      BY <1>1, <1>2
  <2>6. db.signals \in [ReplaySignals -> SignalStatus]
    BY <1>2, <2>3
  <2> QED
    BY <2>1, <2>2, <2>4, <2>5, <2>6 DEF TablesTyped
<1>5. SignalsGood(db)
  <2>1. \A s \in ReplaySignals : s[1] \in 1..scope.changes
    BY SignalFacts
  <2> QED
    BY <1>2, <2>1 DEF SignalsGood, EnrichmentInit
<1>6. DOMAIN db.runs = {} /\ DOMAIN db.jobs = {}
  BY <1>2
<1> QED
  BY <1>2, <1>3, <1>4, <1>5, <1>6 DEF EnrichmentInv, TablesGood

-----------------------------------------------------------------------------
(* Theorems.                                                               *)

\* Whatever is created, restarted, recovered and recalculated, the tables of
\* the company stay good and its runs complete.
THEOREM EnrichmentInvariant == EnrichmentSpec => []EnrichmentInv
<1>1. EnrichmentInit => EnrichmentInv
  BY InitKeeps
<1>2. EnrichmentInv /\ [EnrichmentNext]_enrichmentVars => EnrichmentInv'
  BY NextKeeps
<1> QED
  BY <1>1, <1>2, PTL DEF EnrichmentSpec

\* The types of the tables (company_source_coverage, replay signals, jobs).
THEOREM EnrichmentTypes == EnrichmentSpec => []EnrichmentTypeOK
<1>1. ASSUME EnrichmentInv PROVE EnrichmentTypeOK
  <2>1. /\ dataSet \in [DataSets -> DataSetState] /\ TablesTyped(db) /\ SignalsGood(db)
        /\ TablesGood(db)
    BY <1>1 DEF EnrichmentInv, ScopeGood, TablesGood
  <2>2. ASSUME NEW n \in DOMAIN db.runs
        PROVE  /\ db.runs[n].trigger \in Triggers
               /\ db.runs[n].status \in {"open", "succeeded", "failed"}
               /\ db.runs[n].restarts \in 0..MaxRestarts
               /\ \A d \in DataSets : RowOK(db.runs[n].rows[d])
    <3>1. db.runs[n] \in RunRows /\ \A d \in DataSets : RowGood(db, d, db.runs[n].rows[d])
      BY <2>1, RunsGood
    <3>2. ASSUME NEW d \in DataSets PROVE RowOK(db.runs[n].rows[d])
      <4> DEFINE row == db.runs[n].rows[d]
      <4> HIDE DEF row
      <4>1. RowGood(db, d, row)
        BY <3>1 DEF row
      <4>2. row # NoRow =>
              /\ row.status \in CoverageStatus /\ row.exec \in Executions
              /\ row.ids \subseteq ReplaySignals
              /\ row.task = NoTask \/ row.task \in DOMAIN db.jobs
        BY <1>1, <4>1, RowGoodFacts DEF EnrichmentInv
      <4>3. RowOK(row)
        BY <4>2 DEF RowOK
      <4> QED
        BY <4>3 DEF row
    <3> QED
      BY <3>1, <3>2, RunFields
  <2>3. ASSUME NEW k \in DOMAIN db.jobs
        PROVE  db.jobs[k].status \in {"open", "succeeded", "failed"}
               /\ db.jobs[k].knows \in 0..emitted
    BY <2>1 DEF TablesTyped, TaskJobRows
  <2> QED
    BY <2>1, <2>2, <2>3 DEF EnrichmentTypeOK, TablesTyped, SignalsGood
<1> QED
  BY <1>1, EnrichmentInvariant, PTL

\* get_company_public_readiness says READY only of a run all of whose data
\* sets answered.
THEOREM ReadyAlwaysComplete == EnrichmentSpec => []ReadyIsComplete
<1>1. ASSUME EnrichmentInv PROVE ReadyIsComplete
  BY <1>1 DEF EnrichmentInv, ReadyIsComplete, PublicReady, RunComplete
<1> QED
  BY <1>1, EnrichmentInvariant, PTL

\* _sync_coverage_from_job completes no signal by an answer that was obtained
\* before its change, unless a restart made the signal pending again.
THEOREM AnswersAlwaysLater == EnrichmentSpec => []AnswersAreLater
<1>1. ASSUME EnrichmentInv PROVE AnswersAreLater
  BY <1>1 DEF EnrichmentInv, TablesGood, AnswersAreLater
<1> QED
  BY <1>1, EnrichmentInvariant, PTL

\* The final replay scan of _refresh_run_state: no run becomes ready that does
\* not represent every signal that it can and must.
THEOREM RiskAlwaysSeesSignals == EnrichmentSpec => RiskSeesSignals
<1>1. EnrichmentInv /\ [EnrichmentNext]_enrichmentVars => [RiskStep]_enrichmentVars
  BY NextKeeps
<1> QED
  BY <1>1, EnrichmentInvariant, PTL DEF EnrichmentSpec, RiskSeesSignals, RiskStep
=============================================================================
