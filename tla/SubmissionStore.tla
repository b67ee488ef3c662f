----------------------------- MODULE SubmissionStore -----------------------------
(***************************************************************************)
(* The PostgreSQL repositories of the OJ module (crates/nexus-oj/src/      *)
(* infrastructure.rs) under the default isolation level, READ COMMITTED:   *)
(* a statement sees what is committed when it starts, and an update waits  *)
(* for the transaction that has written the same row.                      *)
(*                                                                         *)
(* One problem, which authors save while one submission of it is created,  *)
(* turned into a job, judged by one or more deliveries of that job, and    *)
(* looked at.  A save and a projected event are transactions; a detail is  *)
(* read by several statements outside of any transaction.                  *)
(***************************************************************************)
EXTENDS Naturals

CONSTANTS
  Authors,    \* callers of save
  Judges,     \* deliveries of the job, each with its own worker
  Drafts,     \* what an author may save: the set of languages it has limits for
  Languages,
  MaxSaves,   \* bound: saves
  MaxEvents,  \* bound: runtime events
  MaxErrors,  \* bound: statements that fail
  Nothing

\* What the row of a submission was last told: nothing yet, or an event.
Statuses == {"pending", "running", "completed", "failed", "retrying", "dead_lettered"}

ASSUME SubmissionStoreAssumption ==
  /\ Authors \cap Judges = {}
  /\ MaxSaves \in Nat /\ MaxEvents \in Nat /\ MaxErrors \in Nat
  /\ \A draft \in Drafts : draft \subseteq Languages /\ draft # {}
  /\ Nothing \notin [id : Nat, status : Statuses]

VARIABLES
  db,        \* what is committed: the contents of each table
  pending,   \* what each open transaction has written
  pc,        \* the next statement of each writer
  doing,     \* the version a save writes, the event a projection applies
  last,      \* the status of each delivery's last event
  handler,   \* create_submission: its place, its language and what it has read
  job,       \* the job, once it is dispatched
  visitor,   \* get_submission: its place and what it has read
  saves, events, errors

vars == <<db, pending, pc, doing, last, handler, job, visitor, saves, events, errors>>

bounds == <<saves, events, errors>>
others == <<handler, job, visitor>>

Tables == {"problems", "limits", "testcases", "submissions", "case_results"}

Writers == Authors \cup Judges

-----------------------------------------------------------------------------
\* Transactions.

\* The tables with new contents for some.
Overwritten(tables, contents) ==
  [table \in DOMAIN tables \cup DOMAIN contents |->
     IF table \in DOMAIN contents THEN contents[table] ELSE tables[table]]

\* Mutant: the statements run on the pool instead of the transaction.
Write_ThroughThePool(w, contents) ==
  /\ db' = Overwritten(db, contents)
  /\ UNCHANGED pending

\* A statement of the transaction of w.
Write(w, contents) ==
  /\ pending' = [pending EXCEPT ![w] = Overwritten(@, contents)]
  /\ UNCHANGED db

\* No other transaction has written the row.
Unlocked(w, table) == \A o \in Writers \ {w} : table \notin DOMAIN pending[o]

NoWrites == [table \in {} |-> Nothing]

Commit(w) ==
  /\ pc[w] = "commit"
  /\ db' = Overwritten(db, pending[w])
  /\ pending' = [pending EXCEPT ![w] = NoWrites]
  /\ pc' = [pc EXCEPT ![w] = "begin"]
  /\ UNCHANGED <<doing, last, others, bounds>>

\* A statement or the connection fails: the transaction is rolled back.  A save
\* returns the error; the event of a projection is dropped with a warning.
Rollback(w) ==
  /\ pc[w] # "begin"
  /\ errors < MaxErrors
  /\ errors' = errors + 1
  /\ pending' = [pending EXCEPT ![w] = NoWrites]
  /\ pc' = [pc EXCEPT ![w] = "begin"]
  /\ UNCHANGED <<db, doing, last, others, saves, events>>

-----------------------------------------------------------------------------
\* PgProblemRepository::save.

Version(id, draft) == [id |-> id, languages |-> draft]

UpsertProblem(a, draft) ==
  /\ pc[a] = "begin"
  /\ saves < MaxSaves
  /\ Unlocked(a, "problems")
  /\ saves' = saves + 1
  /\ doing' = [doing EXCEPT ![a] = Version(saves + 1, draft)]
  /\ Write(a, [table \in {"problems"} |-> doing'[a]])
  /\ pc' = [pc EXCEPT ![a] = "delete"]
  /\ UNCHANGED <<last, others, events, errors>>

Parts == {"limits", "testcases"}

DeleteParts(a) ==
  /\ pc[a] = "delete"
  /\ Write(a, [table \in Parts |-> Nothing])
  /\ pc' = [pc EXCEPT ![a] = "insert"]
  /\ UNCHANGED <<doing, last, others, bounds>>

InsertParts(a) ==
  /\ pc[a] = "insert"
  /\ Write(a, [table \in Parts |-> doing[a]])
  /\ pc' = [pc EXCEPT ![a] = "commit"]
  /\ UNCHANGED <<doing, last, others, bounds>>

-----------------------------------------------------------------------------
\* PgSubmissionRepository::apply_runtime_event.

\* Statuses whose event carries the outcome of an execution.
WithOutcome == {"completed", "failed"}

\* What a delivery reports after what.
Follows(status) ==
  IF status \in {"none", "retrying"} THEN {"running"}
  ELSE IF status = "running" THEN {"completed", "failed", "retrying", "dead_lettered"}
  ELSE {}

Event(id, status) == [id |-> id, status |-> status]

UpdateSubmission(j, status) ==
  /\ job # Nothing
  /\ pc[j] = "begin"
  /\ events < MaxEvents
  /\ status \in Follows(last[j])
  /\ Unlocked(j, "submissions")
  /\ events' = events + 1
  /\ last' = [last EXCEPT ![j] = status]
  /\ doing' = [doing EXCEPT ![j] = Event(events + 1, status)]
  /\ Write(j, [table \in {"submissions"} |-> doing'[j]])
  /\ pc' = [pc EXCEPT ![j] = IF status \in WithOutcome THEN "delete" ELSE "commit"]
  /\ UNCHANGED <<others, saves, errors>>

DeleteCases(j) ==
  /\ pc[j] = "delete"
  /\ Write(j, [table \in {"case_results"} |-> Nothing])
  /\ pc' = [pc EXCEPT ![j] = "insert"]
  /\ UNCHANGED <<doing, last, others, bounds>>

InsertCases(j) ==
  /\ pc[j] = "insert"
  /\ Write(j, [table \in {"case_results"} |-> doing[j]])
  /\ pc' = [pc EXCEPT ![j] = "commit"]
  /\ UNCHANGED <<doing, last, others, bounds>>

-----------------------------------------------------------------------------
\* The handler of POST /submissions: the problem is read, the submission inserted,
\* the problem read again and the job dispatched.

\* The order of the statements of find_detail.
AfterTable(table) ==
  CASE table = "problems" -> "limits"
    [] table = "limits" -> "testcases"
    [] table = "testcases" -> "read"

Empty == [table \in {"problems", "limits", "testcases"} |-> Nothing]

\* One statement of find_detail.
ReadProblem ==
  /\ handler.at \in {"problems", "limits", "testcases"}
  /\ handler' = [handler EXCEPT !.at = AfterTable(@), !.read[handler.at] = db[handler.at]]
  /\ UNCHANGED <<db, pending, pc, doing, last, job, visitor, bounds>>

\* validate_problem and the checks of the language, of what was read.
MayJudge(read, language) ==
  /\ read["limits"] # Nothing /\ read["testcases"] # Nothing
  /\ language \in read["limits"].languages

\* create_submission: the row is inserted.
InsertSubmission ==
  /\ handler.at = "read" /\ db["submissions"] = Nothing
  /\ IF MayJudge(handler.read, handler.language)
     THEN /\ db' = [db EXCEPT !["submissions"] = Event(0, "pending")]
          /\ handler' = [handler EXCEPT !.at = "problems", !.read = Empty]
     ELSE handler' = [handler EXCEPT !.at = "rejected"] /\ UNCHANGED db
  /\ UNCHANGED <<pending, pc, doing, last, job, visitor, bounds>>

\* build_job_definition: of the problem as it is read now.
Dispatch ==
  /\ handler.at = "read" /\ db["submissions"] # Nothing
  /\ IF MayJudge(handler.read, handler.language)
     THEN job' = handler.read /\ handler' = [handler EXCEPT !.at = "dispatched"]
     ELSE handler' = [handler EXCEPT !.at = "refused"] /\ UNCHANGED job
  /\ UNCHANGED <<db, pending, pc, doing, last, visitor, bounds>>

-----------------------------------------------------------------------------
\* The handler of GET /submissions/:id: find_submission.

\* Mutant: the case results are read before the row.
FirstTable_Cases == "case_results"

\* The table of the first statement; the second reads the other one.
FirstTable == "submissions"

SecondTable == IF FirstTable = "submissions" THEN "case_results" ELSE "submissions"

ReadFirst ==
  /\ visitor.at = "begin"
  /\ db["submissions"] # Nothing
  /\ visitor' = [visitor EXCEPT !.at = "second", ![FirstTable] = db[FirstTable]]
  /\ UNCHANGED <<db, pending, pc, doing, last, handler, job, bounds>>

\* The case results come joined with the testcases as they are now.
ReadSecond ==
  /\ visitor.at = "second"
  /\ visitor' = [visitor EXCEPT !.at = "shown", ![SecondTable] = db[SecondTable],
                               !.testcases = db["testcases"]]
  /\ UNCHANGED <<db, pending, pc, doing, last, handler, job, bounds>>

NotRead ==
  [at |-> "begin", submissions |-> Nothing, case_results |-> Nothing,
   testcases |-> Nothing]

\* The next visitor.
Leave ==
  /\ visitor.at = "shown"
  /\ visitor' = NotRead
  /\ UNCHANGED <<db, pending, pc, doing, last, handler, job, bounds>>

-----------------------------------------------------------------------------
Init ==
  /\ \E draft \in Drafts :
       db = [table \in Tables |->
               IF table \in {"submissions", "case_results"} THEN Nothing
               ELSE Version(0, draft)]
  /\ pending = [w \in Writers |-> NoWrites]
  /\ pc = [w \in Writers |-> "begin"]
  /\ doing = [w \in Writers |-> Nothing]
  /\ last = [j \in Judges |-> "none"]
  /\ \E l \in Languages : handler = [at |-> "problems", language |-> l, read |-> Empty]
  /\ job = Nothing
  /\ visitor = NotRead
  /\ saves = 0 /\ events = 0 /\ errors = 0

Save(a) == (\E draft \in Drafts : UpsertProblem(a, draft)) \/ DeleteParts(a) \/ InsertParts(a)

ApplyRuntimeEvent(j) ==
  \/ \E status \in Statuses : UpdateSubmission(j, status)
  \/ DeleteCases(j)
  \/ InsertCases(j)

CreateSubmission == ReadProblem \/ InsertSubmission \/ Dispatch

GetSubmission == ReadFirst \/ ReadSecond \/ Leave

Next ==
  \/ \E a \in Authors : Save(a)
  \/ \E j \in Judges : ApplyRuntimeEvent(j)
  \/ \E w \in Writers : Commit(w) \/ Rollback(w)
  \/ CreateSubmission
  \/ GetSubmission

Spec == Init /\ [][Next]_vars

-----------------------------------------------------------------------------
(***************************************************************************)
(* What must hold.                                                         *)
(***************************************************************************)
Versions == [id : 0 .. MaxSaves, languages : Drafts]

TypeOK ==
  /\ \A table \in {"problems"} \cup Parts : db[table] \in Versions \cup {Nothing}
  /\ \A w \in Writers : DOMAIN pending[w] \subseteq Tables
  /\ pc \in [Writers -> {"begin", "delete", "insert", "commit"}]
  /\ saves \in 0 .. MaxSaves /\ events \in 0 .. MaxEvents /\ errors \in 0 .. MaxErrors

(***************************************************************************)
(* Whatever saves and projections overlap or fail half way, what is        *)
(* committed is one save, and the case results of the event that last had  *)
(* an outcome: when the row shows an outcome, they are that outcome's.     *)
(***************************************************************************)
StoreInvariant ==
  /\ TypeOK
  /\ db["problems"] = db["limits"] /\ db["limits"] = db["testcases"]
  /\ db["submissions"] # Nothing /\ db["submissions"].status \in WithOutcome =>
       db["case_results"] = db["submissions"]

(***************************************************************************)
(* A detail may mix two commits, and only in one direction: the case       *)
(* results are never older than an outcome that the row next to them       *)
(* shows, and a job that mixes two saves has its language among the limits *)
(* it carries, and testcases that are no older than those.                 *)
(***************************************************************************)
DetailsAreOrdered ==
  /\ visitor.at = "shown" /\ visitor.submissions.status \in WithOutcome =>
       /\ visitor.case_results # Nothing
       /\ visitor.case_results.id >= visitor.submissions.id
  /\ job # Nothing =>
       /\ handler.language \in job["limits"].languages
       /\ job["problems"].id <= job["limits"].id
       /\ job["limits"].id <= job["testcases"].id
=============================================================================
