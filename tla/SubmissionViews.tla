---------------------------- MODULE SubmissionViews ----------------------------
(***************************************************************************)
(* What GET /submissions/{id} shows.  Two repositories answer it, in       *)
(* memory (crates/nexus-oj/src/application.rs) and in PostgreSQL           *)
(* (infrastructure.rs): the first builds the result when an event is       *)
(* applied, the second whenever it is asked, from the last event and from  *)
(* rows of its own.  Here both have applied the events of Judging.         *)
(*                                                                         *)
(* Times are left out: every time shown is a sum over the last event's     *)
(* outcome, as memory in InMemory is a maximum over it.                    *)
(***************************************************************************)
EXTENDS Judging

SomeText(texts) ==
  IF texts = {} THEN Nothing ELSE "plain"

CaseTexts(results) == {results[i].text : i \in DOMAIN results} \ {Nothing}

MaxUsed(results) == Max({results[i].used : i \in DOMAIN results} \cup {0})

\* What a stage of the compilers left.
StageText(stage) == IF stage = Nothing THEN Nothing ELSE stage.text

-----------------------------------------------------------------------------
\* InMemorySubmissionRepository.

\* judge_compile.or(compile): the checker's compiler hides the program's.
InMemoryCompileOutput(outcome) ==
  StageText(IF outcome.judge_compile # Nothing THEN outcome.judge_compile
            ELSE outcome.compile)

\* The case of an outcome, as it is shown.
ShownCase(case, expected) ==
  [case_no |-> case.case_no, status |-> case.status, score |-> case.score,
   memory |-> case.used, message |-> case.text, expected |-> expected]

\* build_runtime_submission_result.
InMemoryResult ==
  LET outcome == summary.outcome
      results == outcome.cases
  IN [overall_status |-> verdict.status,
      compile_output |-> InMemoryCompileOutput(outcome),
      runtime_output |-> SomeText(CaseTexts(results)),
      memory_used |-> MaxUsed(results),
      judge_summary |-> verdict.message,
      case_results |-> {ShownCase(results[i], Nothing) : i \in DOMAIN results}]

\* create_direct_submission.
InMemoryDirect ==
  [overall_status |-> verdict.status, compile_output |-> Nothing,
   runtime_output |-> verdict.message, memory_used |-> 0,
   judge_summary |-> verdict.message, case_results |-> {}]

\* find_submission.
InMemory ==
  CASE summary # Nothing -> InMemoryResult
    [] summary = Nothing /\ phase = "done" -> InMemoryDirect
    [] summary = Nothing /\ phase # "done" -> Nothing

-----------------------------------------------------------------------------
\* PgSubmissionRepository.

\* extract_compile_output: the checker's compiler, when it left text.
PgCompileOutput(outcome) ==
  IF StageText(outcome.judge_compile) # Nothing THEN StageText(outcome.judge_compile)
  ELSE StageText(outcome.compile)

\* The answer that the problem has today for a row: a left join.
ExpectedToday(row) ==
  LET same == {i \in DOMAIN problem.testcases : problem.testcases[i].case_no = row.case_no}
  IN IF same = {} THEN Nothing ELSE problem.testcases[Min(same)].answer

\* build_submission_result, of the rows.
PgResult ==
  LET outcome == IF summary = Nothing THEN NoOutcome ELSE summary.outcome
      row_texts == {row.text : row \in rows} \ {Nothing}
  IN [overall_status |-> verdict.status,
      compile_output |-> PgCompileOutput(outcome),
      runtime_output |-> IF CaseTexts(outcome.cases) # {} THEN "plain"
                         ELSE SomeText(row_texts),
      memory_used |-> Max({row.used : row \in rows} \cup {0}),
      judge_summary |-> IF summary = Nothing THEN verdict.message ELSE summary.status,
      case_results |-> {ShownCase(row, ExpectedToday(row)) : row \in rows}]

-----------------------------------------------------------------------------
Without(result, fields) ==
  [field \in DOMAIN result \ fields |-> result[field]]

\* The cases without the expected output, which only PostgreSQL shows.
Judged(result) ==
  {[case_no |-> c.case_no, status |-> c.status, score |-> c.score, memory |-> c.memory,
    message |-> c.message] : c \in result.case_results}

HasOutcome == summary # Nothing /\ summary.outcome # NoOutcome

(***************************************************************************)
(* Two pieces of code written apart show one submission alike, whatever    *)
(* its stages did and however often it was delivered.  They differ only    *)
(* in what is named here: the summary is the projected message in memory   *)
(* and the event's own in PostgreSQL; a checker that compiled silently     *)
(* hides what the program's compiler said; and while a job that was        *)
(* judged is judged again, PostgreSQL still shows the cases of before,     *)
(* next to a score of 0.                                                   *)
(***************************************************************************)
ViewsAgree ==
  /\ HasOutcome =>
       /\ Without(InMemory, {"compile_output", "judge_summary", "case_results"})
            = Without(PgResult, {"compile_output", "judge_summary", "case_results"})
       /\ Judged(InMemory) = Judged(PgResult)
       /\ \/ InMemory.compile_output = PgResult.compile_output
          \/ judge_compile # Nothing /\ StageText(judge_compile) = Nothing
       /\ verdict.score = Total(
            [row \in {c \in PgResult.case_results : c.status = "accepted"} |-> row.score])
  /\ summary # Nothing /\ ~HasOutcome =>
       /\ Without(InMemory, {"runtime_output", "memory_used", "case_results"})
            = Without(PgResult, {"runtime_output", "memory_used", "case_results"})
       /\ InMemory.case_results = {} /\ verdict.score = 0
  /\ summary = Nothing => PgResult.case_results = {} /\ PgResult.memory_used = 0
  /\ task # Nothing /\ problem.testcases = task.testcases =>
       \A c \in PgResult.case_results : c.expected = AnswerFile(task, c.case_no)
=============================================================================
