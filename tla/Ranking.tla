------------------------------- MODULE Ranking -------------------------------
(***************************************************************************)
(* The ranking of a property's employees in one period                     *)
(* (app/services/ranking_service.py, app/repositories/ranking_repository.py *)
(* and app/api/v1/endpoints/ranking.py).  A recalculation goes through the *)
(* employees one by one, each under a savepoint, ranks those it could      *)
(* calculate and commits; whoever fails keeps an old score and rank.       *)
(* Recalculations of one period do not overlap here.  The stored KRA score *)
(* is left out: it is calculated again before each use.                    *)
(***************************************************************************)
EXTENDS Integers, FiniteSets, FiniteSetsExt, Desks

CONSTANTS
    Employee,
    Criterion,  \* DEFAULT_CRITERIA
    Kra,        \* KRA_CRITERION
    Weight,     \* weightage of each criterion
    Full,       \* max_points of each criterion
    TaskPeriod,     \* periods of the employees' KRA tasks
    Entered,    \* bound: raw points that are recorded
    Deducted,   \* bound: deductions from them
    Outcome     \* bound: what may become of a task in a period

VARIABLES
    counts,     \* employee_counts_for_property and is_active of each employee
    criteria,   \* ranking_criteria_config: the names
    announced,  \* history: the default criteria were announced as initialized
    points,     \* employee_ranking_scores: final_points of the other criteria
    work,       \* what became of an employee's tasks; a task reassigned has two rows
    ranking,    \* employee_rankings; rank 0 is no row
    job,        \* the recalculation in progress
    latest      \* history: the employees the last recalculation ranked

wvars == <<counts, criteria, announced, points, work, ranking, job, latest>>

Unranked == [score |-> 0, rank |-> 0, total |-> 0]
Score == 0 .. 100
EmployeeRanking == [score : Score, rank : 0 .. Cardinality(Employee), total : 0 .. Cardinality(Employee)]

ASSUME RankingAssumption ==
    /\ IsFiniteSet(Employee) /\ IsFiniteSet(Criterion) /\ IsFiniteSet(TaskPeriod)
    /\ Weight \in [Criterion -> Nat] /\ Full \in Nat \ {0}
    /\ Entered \subseteq Nat /\ Deducted \subseteq Nat
    /\ Outcome \subseteq {"on_time", "completed_after_delay", "late_without_mark", "not_completed"}
    /\ Null \notin EmployeeRanking

WTypeOK ==
    /\ counts \in [Employee -> BOOLEAN]
    /\ criteria \subseteq Criterion /\ announced \in BOOLEAN
    /\ points \in [Employee -> [Criterion \ {Kra} -> Nat \cup {Null}]]
    /\ work \in [Employee -> [TaskPeriod -> SUBSET Outcome]]
    /\ ranking \in [Employee -> EmployeeRanking]
    /\ job \in {Vacant} \cup
          [pc : {"next", "write"}, todo : SUBSET Employee, at : Employee \cup {Null},
           score : Score, row : [Employee -> EmployeeRanking \cup {Null}]]
    /\ latest \subseteq Employee

WInit ==
    /\ counts = [e \in Employee |-> TRUE]
    /\ criteria = {} /\ announced = FALSE
    /\ points = [e \in Employee |-> [c \in Criterion \ {Kra} |-> Null]]
    /\ work = [e \in Employee |-> [p \in TaskPeriod |-> {}]]
    /\ ranking = [e \in Employee |-> Unranked]
    /\ job = Vacant
    /\ latest = {}

-----------------------------------------------------------------------------
(* Scores. *)

\* The sum of a function, as the number of pairs of an x and one of f[x] points.
SumOf(f) == Cardinality(UNION {{x} \X (1 .. f[x]) : x \in DOMAIN f})

\* kra_credit, in hundredths.
Credit(outcome) ==
    CASE outcome = "on_time" -> 100
      [] outcome \in {"completed_after_delay", "late_without_mark"} -> 50
      [] outcome = "not_completed" -> 0

\* score_kra_occurrences: the mean of the best credits, Null when none counts.
KraPoints(e) ==
    LET counted == {p \in TaskPeriod : work[e][p] # {}}
        best == [p \in counted |-> Max({Credit(o) : o \in work[e][p]})]
    IN  IF counted = {} THEN Null
        ELSE SumOf(best) \div Cardinality(counted)

\* create_score
FinalPoints(raw, deductions) == Max({0, raw - deductions})

\* The row for a criterion and the period.
ScoreOf(e, c) == points[e][c]

\* The points of a criterion out of 100; a score that was never entered is 0.
Normalized(e, c) ==
    CASE c = Kra -> KraPoints(e)
      [] c # Kra -> IF ScoreOf(e, c) = Null THEN 0 ELSE (100 * ScoreOf(e, c)) \div Full

\* KRA Completion is left out when nothing counts: the other weights scale up.
Applying(e) == {c \in criteria : c = Kra => KraPoints(e) # Null}

\* calculate_employee_ranking
Overall(e) ==
    LET total == SumOf([c \in Applying(e) |-> Weight[c]])
        sum == SumOf([c \in Applying(e) |-> Weight[c] * Normalized(e, c)])
    IN  IF total = 0 THEN 0 ELSE Min({100, sum \div total})

-----------------------------------------------------------------------------
(* Criteria, and what the scores are made of. *)

\* initialize_ranking_criteria announces criteria that are never committed.
Initialize ==
    /\ announced' = TRUE
    /\ UNCHANGED <<counts, criteria, points, work, ranking, job, latest>>

\* create_ranking_criterion; uq_property_criterion refuses a second.
CreateCriterion(c) ==
    /\ c \notin criteria
    /\ criteria' = criteria \cup {c}
    /\ UNCHANGED <<counts, announced, points, work, ranking, job, latest>>

\* record_employee_score; uq_employee_criterion_period refuses a second.
RecordScore(e, c, raw, deductions) ==
    /\ c \in criteria \ {Kra} /\ ScoreOf(e, c) = Null
    /\ points' = [points EXCEPT ![e][c] = FinalPoints(raw, deductions)]
    /\ UNCHANGED <<counts, criteria, announced, work, ranking, job, latest>>

\* The employee works on a task, or it is assigned to them again.
Works(e, p, outcomes) ==
    /\ work' = [work EXCEPT ![e][p] = outcomes]
    /\ UNCHANGED <<counts, criteria, announced, points, ranking, job, latest>>

\* The employee, or their login, leaves the property or is deactivated.
Leaves(e) ==
    /\ counts[e]
    /\ counts' = [counts EXCEPT ![e] = FALSE]
    /\ UNCHANGED <<criteria, announced, points, work, ranking, job, latest>>

-----------------------------------------------------------------------------
(* recalculate_property_rankings. *)

Tables == <<counts, criteria, announced, points, work, ranking, latest>>

\* employee_counts_for_property and is_active.
Counted == {e \in Employee : counts[e]}

Recalculate ==
    /\ job = Vacant
    /\ Counted # {}
    /\ job' = [pc |-> "next", todo |-> Counted, at |-> Null, score |-> 0,
               row |-> [e \in Employee |-> Null]]
    /\ UNCHANGED Tables

Calculates(e) ==
    /\ job.pc = "next" /\ e \in job.todo
    /\ job' = [job EXCEPT !.pc = "write", !.at = e, !.todo = @ \ {e}, !.score = Overall(e)]
    /\ UNCHANGED Tables

\* create_ranking: check_rank wants a rank.
Provisional(score) == [score |-> score, rank |-> 1, total |-> 0]

\* get_ranking_for_period
Stored(e) == ranking[e] # Unranked

Writes ==
    /\ job.pc = "write"
    /\ job' = [job EXCEPT !.pc = "next", !.at = Null, !.score = 0,
                          !.row[job.at] = IF Stored(job.at)
                                          THEN [ranking[job.at] EXCEPT !.score = job.score]
                                          ELSE Provisional(job.score)]
    /\ UNCHANGED Tables

\* Any error of the database or the calculation: back to the savepoint.
Fails ==
    /\ job.pc = "write"
    /\ job' = [job EXCEPT !.pc = "next", !.at = Null, !.score = 0]
    /\ UNCHANGED Tables

Ranked == {e \in Employee : job.row[e] # Null}

\* Mutant: the employees sorted by what their rows had before.
OrdersLoaded ==
    {order \in [1 .. Cardinality(Ranked) -> Ranked] :
        \A i, j \in DOMAIN order :
            i < j => order[i] # order[j] /\ ranking[order[i]].score >= ranking[order[j]].score}

\* The employees sorted by score, ties in any order.
Orders ==
    {order \in [1 .. Cardinality(Ranked) -> Ranked] :
        \A i, j \in DOMAIN order :
            i < j => order[i] # order[j] /\ job.row[order[i]].score >= job.row[order[j]].score}

\* update_ranking
Placed(e, order) ==
    [job.row[e] EXCEPT !.rank = CHOOSE i \in DOMAIN order : order[i] = e,
                       !.total = Cardinality(Ranked)]

\* The ranks, and the commit.
Ranks ==
    /\ job # Vacant /\ job.pc = "next" /\ job.todo = {}
    /\ \E order \in Orders :
          ranking' = [e \in Employee |-> IF e \in Ranked THEN Placed(e, order) ELSE ranking[e]]
    /\ latest' = Ranked
    /\ job' = Vacant
    /\ UNCHANGED <<counts, criteria, announced, points, work>>

RAbandon ==
    /\ job # Vacant
    /\ job' = Vacant
    /\ UNCHANGED Tables

WNext ==
    \/ Initialize \/ Recalculate \/ Writes \/ Fails \/ Ranks \/ RAbandon
    \/ \E c \in Criterion : CreateCriterion(c)
    \/ \E e \in Employee :
          \/ Leaves(e) \/ Calculates(e)
          \/ \E c \in Criterion, raw \in Entered, deductions \in Deducted :
                RecordScore(e, c, raw, deductions)
          \/ \E p \in TaskPeriod, outcomes \in SUBSET Outcome : Works(e, p, outcomes)

WSpec == WInit /\ [][WNext]_wvars

-----------------------------------------------------------------------------
(* Properties. *)

\* The employees that the last recalculation could calculate have the ranks
\* 1 to n in the order of their scores, whoever failed, left or got points
\* while it ran.
RanksFollowScores ==
    /\ {ranking[e].rank : e \in latest} = 1 .. Cardinality(latest)
    /\ \A e, f \in latest :
          /\ ranking[e].score > ranking[f].score => ranking[e].rank < ranking[f].rank
          /\ ranking[e].total = Cardinality(latest)

\* "Creates 8 default criteria": the criteria that were announced exist.
AnnouncedCriteriaExist == announced => criteria = Criterion
=============================================================================
