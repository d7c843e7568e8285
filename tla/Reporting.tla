----------------------------- MODULE Reporting -----------------------------
(***************************************************************************)
(* report.py: mark-fails compares the failed tests of a TestRail plan with *)
(* those of a plan whose failures were looked into, and gives them the     *)
(* defects found there; create-report counts the defects of a plan.  Both  *)
(* read run after run, while testers and the jobs of other builds add      *)
(* results.  TestRail keeps all results of a test.                         *)
(***************************************************************************)
EXTENDS Naturals, Sequences, FiniteSets, SequencesExt

CONSTANTS
  MarkedRuns, PlanRuns, \* runs of the two plans, in their order
  NameOf,               \* NameOf[r]: the name of run r
  Titles,
  Outcomes,             \* a status, and the defects that are given with it
  MaxResults            \* nobody adds a result, or marks, above this number

TheRuns == ToSet(MarkedRuns) \cup ToSet(PlanRuns)
Statuses == {o.status : o \in Outcomes}
Defects == UNION {ToSet(o.defects) : o \in Outcomes}
NoDefects == <<>>

ASSUME ReportingAssumption ==
  /\ MarkedRuns \in Seq(TheRuns) /\ PlanRuns \in Seq(TheRuns)
  /\ \A o \in Outcomes : o.defects \in Seq(Defects)

VARIABLES
  testrail, \* its results: run, title, status, defects, who added it, and its id
  phase,   \* of mark-fails or create-report: "idle", "marked", "failed", "post", "table"
  queue,   \* runs that are still to be read
  marked, failed,
  updates, \* tests_to_update: a failed test and a marked one
  known,   \* results that were there when it began
  through, \* mark-fails came to its end, after those results
  listed,  \* list_of_results: a result, and which of its defects, to be counted
  table,   \* rows of create-report
  description \* of the plan: the table that was pushed last

reporting ==
  <<testrail, phase, queue, marked, failed, updates, known, through, listed, table,
    description>>

ReportingInit ==
  /\ testrail = <<>> /\ phase = "idle" /\ queue = <<>> /\ marked = {} /\ failed = {}
  /\ updates = {} /\ known = 0 /\ through = FALSE /\ listed = {} /\ table = <<>>
  /\ description = <<>>

\* Somebody adds a result.
AddResult(r, t, o) ==
  /\ Len(testrail) < MaxResults
  /\ testrail' = Append(testrail, [run |-> r, title |-> t, status |-> o.status,
                                   defects |-> o.defects, by |-> "others",
                                   id |-> Len(testrail) + 1])
  /\ UNCHANGED <<phase, queue, marked, failed, updates, known, through, listed, table,
                 description>>

\* get_failed_results, for the failed ones and for the others.  A list is kept as the
\* set of what is in it, which stays in order: run after run, as they were added.
Undefected(x) == x.status = "failed" /\ x.defects = NoDefects
Defected(x) == x.status # "none" /\ x.defects # NoDefects
FailedOf(r) == {x \in ToSet(testrail) : x.run = r /\ Undefected(x)}
DefectedOf(r) == {x \in ToSet(testrail) : x.run = r /\ Defected(x)}
Position(runs, r) == CHOOSE i \in DOMAIN runs : runs[i] = r
Before(runs, x, y) ==
  \/ Position(runs, x.run) < Position(runs, y.run)
  \/ x.run = y.run /\ x.id < y.id

\* get_runs; without testrail_only_run, of both plans.
BeginMarking ==
  /\ phase = "idle" /\ Len(testrail) <= MaxResults
  /\ phase' = "marked" /\ queue' = MarkedRuns
  /\ marked' = {} /\ failed' = {} /\ updates' = {}
  /\ known' = Len(testrail) /\ through' = FALSE
  /\ UNCHANGED <<testrail, listed, table, description>>

ReadMarked ==
  /\ phase = "marked" /\ queue # <<>>
  /\ marked' = marked \cup DefectedOf(Head(queue)) /\ queue' = Tail(queue)
  /\ UNCHANGED <<testrail, phase, failed, updates, known, through, listed, table, description>>

MarkedRead ==
  /\ phase = "marked" /\ queue = <<>>
  /\ phase' = "failed" /\ queue' = PlanRuns
  /\ UNCHANGED <<testrail, marked, failed, updates, known, through, listed, table,
                 description>>

ReadFailed ==
  /\ phase = "failed" /\ queue # <<>>
  /\ failed' = failed \cup FailedOf(Head(queue)) /\ queue' = Tail(queue)
  /\ UNCHANGED <<testrail, phase, marked, updates, known, through, listed, table, description>>

\* Mutant: tests are compared by their titles alone.
SameTitle(f, m) == f.title = m.title
SameTest(f, m) == f.title = m.title /\ NameOf[f.run] = NameOf[m.run]

\* generate_result: the status, and the first of the defects.
Update(f, m) == [run |-> f.run, title |-> f.title, status |-> m.status,
                 defects |-> <<m.defects[1]>>, by |-> "mark_fails", id |-> 0]

\* mark_failed_results.
Compare ==
  /\ phase = "failed" /\ queue = <<>>
  /\ updates' = {u \in failed \X marked : SameTest(u[1], u[2])}
  /\ phase' = "post"
  /\ UNCHANGED <<testrail, queue, marked, failed, known, through, listed, table,
                 description>>

FirstUpdate(u) ==
  \A v \in updates \ {u} : \/ Before(PlanRuns, u[1], v[1])
                            \/ (u[1] = v[1] /\ Before(MarkedRuns, u[2], v[2]))

\* update_report; without --push-to-testrail nothing is added.
PostUpdate ==
  /\ phase = "post"
  /\ \E u \in updates :
       /\ FirstUpdate(u)
       /\ testrail' = Append(testrail, [Update(u[1], u[2]) EXCEPT !.id = Len(testrail) + 1])
       /\ updates' = updates \ {u}
  /\ UNCHANGED <<phase, queue, marked, failed, known, through, listed, table, description>>

MarkingEnds ==
  /\ phase = "post" /\ updates = {}
  /\ phase' = "idle" /\ through' = TRUE
  /\ UNCHANGED <<testrail, queue, marked, failed, updates, known, listed, table, description>>

\* A request to TestRail raises, or --push-to-testrail was not given.
ReportingStops ==
  /\ phase # "idle"
  /\ phase' = "idle" /\ queue' = <<>> /\ updates' = {} /\ listed' = {}
  /\ UNCHANGED <<testrail, marked, failed, known, through, table, description>>

\* create_report; get_results has the filter of the marked ones.
BeginReport ==
  /\ phase = "idle"
  /\ phase' = "table" /\ queue' = PlanRuns /\ table' = <<>>
  /\ known' = Len(testrail) /\ through' = FALSE
  /\ UNCHANGED <<testrail, marked, failed, updates, listed, description>>

\* get_all_results.
ReadResults ==
  /\ phase = "table" /\ queue # <<>>
  /\ listed' = listed \cup UNION {{x} \X DOMAIN x.defects : x \in DefectedOf(Head(queue))}
  /\ queue' = Tail(queue)
  /\ UNCHANGED <<testrail, phase, marked, failed, updates, known, through, table, description>>

\* get_defects_table: one result is counted for each of its defects.
Row == [fails |-> 0, blocks |-> 0, results |-> {}]
With(rows, d, row) == [e \in DOMAIN rows \cup {d} |-> IF e = d THEN row ELSE rows[e]]
Of(rows, d) == IF d \in DOMAIN rows THEN rows[d] ELSE Row
CountResult(row, x) ==
  IF x.status = "blocked" THEN [row EXCEPT !.blocks = @ + 1, !.results = @ \cup {x}]
                          ELSE [row EXCEPT !.fails = @ + 1, !.results = @ \cup {x}]
FirstListed(p) ==
  \A q \in listed \ {p} : \/ Before(PlanRuns, p[1], q[1])
                           \/ (p[1] = q[1] /\ p[2] < q[2])

\* A defect that Jira does not have is a row like the others.
CountDefect ==
  /\ phase = "table" /\ queue = <<>>
  /\ \E p \in listed :
       LET x == p[1]
           d == x.defects[p[2]]
       IN  /\ FirstListed(p) /\ listed' = listed \ {p}
           /\ table' = With(table, d, CountResult(Of(table, d), x))
  /\ UNCHANGED <<testrail, phase, queue, marked, failed, updates, known, through, description>>

\* get_defect_info: Jira refuses to tell of a new defect.
JiraRaises ==
  /\ phase = "table" /\ queue = <<>>
  /\ \E p \in listed : FirstListed(p) /\ p[1].defects[p[2]] \notin DOMAIN table
  /\ phase' = "idle" /\ listed' = {}
  /\ UNCHANGED <<testrail, queue, marked, failed, updates, known, through, table, description>>

\* push_report: the description of the plan is replaced.
PushReport ==
  /\ phase = "table" /\ queue = <<>> /\ listed = {}
  /\ description' = table /\ phase' = "idle"
  /\ UNCHANGED <<testrail, queue, marked, failed, updates, known, through, listed, table>>

ReportingNext ==
  \/ \E r \in TheRuns, t \in Titles, o \in Outcomes : AddResult(r, t, o)
  \/ BeginMarking \/ ReadMarked \/ MarkedRead \/ ReadFailed \/ Compare
  \/ PostUpdate \/ MarkingEnds \/ ReportingStops
  \/ BeginReport \/ ReadResults \/ CountDefect \/ JiraRaises \/ PushReport

-----------------------------------------------------------------------------

\* What mark-fails added stands on a failure and on a mark.
Explained(i) ==
  \E j, k \in 1..(i - 1) :
    /\ testrail[j].run = testrail[i].run /\ testrail[j].title = testrail[i].title
    /\ Undefected(testrail[j])
    /\ testrail[k].run \in ToSet(MarkedRuns)
    /\ NameOf[testrail[k].run] = NameOf[testrail[i].run]
    /\ testrail[k].title = testrail[i].title /\ testrail[k].status = testrail[i].status
    /\ testrail[k].defects # NoDefects /\ testrail[k].defects[1] = testrail[i].defects[1]
\* A failure that has its mark waiting and was given none.
HasMark(j) ==
  \E k \in 1..known :
    /\ testrail[k].run \in ToSet(MarkedRuns) /\ Defected(testrail[k])
    /\ testrail[k].title = testrail[j].title
    /\ NameOf[testrail[k].run] = NameOf[testrail[j].run]
WasMarked(j) ==
  \E i \in DOMAIN testrail : /\ testrail[i].by = "mark_fails"
                             /\ testrail[i].run = testrail[j].run
                             /\ testrail[i].title = testrail[j].title
Missing(j) ==
  /\ testrail[j].run \in ToSet(PlanRuns) /\ Undefected(testrail[j])
  /\ HasMark(j) /\ ~ WasMarked(j)
\* mark-fails adds what was missing, and that only.
MarksAreTheMissingOnes ==
  /\ \A i \in DOMAIN testrail : testrail[i].by = "mark_fails" => Explained(i)
  /\ through => \A j \in 1..known : ~ Missing(j)

\* Every row counts the results that name its defect, as often as they name it, by
\* what they are.
Named(R, d) == {p \in UNION {{x} \X DOMAIN x.defects : x \in R} : p[1].defects[p[2]] = d}
Blocked(P) == {p \in P : p[1].status = "blocked"}
RowsAreCounted(rows) ==
  \A d \in DOMAIN rows :
    LET P == Named(rows[d].results, d)
    IN  /\ rows[d].blocks = Cardinality(Blocked(P))
        /\ rows[d].fails = Cardinality(P \ Blocked(P))
        /\ \A x \in rows[d].results : d \in ToSet(x.defects)
\* A table that is made has every result that was there at the start.
TableIsComplete ==
  \A i \in 1..known : testrail[i].run \in ToSet(PlanRuns) /\ Defected(testrail[i]) =>
    \A d \in ToSet(testrail[i].defects) : testrail[i] \in Of(table, d).results

\* Whatever is added while mark-fails reads: what it adds goes to tests that
\* failed without a defect, with the status and first defect that the test of
\* that title has in the marked run of that name; and when it comes to its
\* end no test that had failed when it began, and was marked then, is left
\* without.  And create-report counts every defect right, before the table is
\* pushed and in the description of the plan.
DefectsAreKept ==
  /\ MarksAreTheMissingOnes
  /\ RowsAreCounted(description)
  /\ phase = "table" /\ queue = <<>> /\ listed = {} => TableIsComplete /\ RowsAreCounted(table)
=============================================================================
