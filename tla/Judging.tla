-------------------------------- MODULE Judging --------------------------------
(***************************************************************************)
(* How a submission gets its verdict: OjService (crates/nexus-oj/src/      *)
(* application.rs) checks the problem and builds the job, RuntimeWorker    *)
(* (crates/nexus-runtime/src/executor.rs, planning.rs, judge.rs) checks it *)
(* again, plans, compiles and runs it, and the projection turns the        *)
(* outcome into a status and a score.                                      *)
(*                                                                         *)
(* One problem, which its author may save again at any time, and one       *)
(* submission of it.  What a child process does is a choice: its exit, the *)
(* signs of a limit or a violation, and the text it leaves.                *)
(***************************************************************************)
EXTENDS OutputComparison

CONSTANTS
  Problems,     \* the problems an author may save, valid or not
  Answers,      \* what may be answered to an easy_judge problem
  Outputs,      \* what a program may print
  MaxEdits,     \* bound: problems saved
  MaxTroubles,  \* bound: stages that end in an error or leave text that is not plain
  Nothing

Testcases == [case_no : Nat, score : Nat, answer : Printed]

ASSUME JudgingAssumption ==
  /\ MaxEdits \in Nat /\ MaxTroubles \in Nat
  /\ Outputs \subseteq Printed
  /\ \A p \in Problems :
       /\ {"mode", "sandbox", "method", "validator", "spj", "signature", "supported",
           "limits", "zero", "testcases", "easy"} \subseteq DOMAIN p
       /\ p.method \in {"none", "validator", "spj"}
       /\ p.validator \in Options \cup {Nothing}
       /\ p.testcases \in Seq(Testcases)

VARIABLES
  problem,        \* what the repository has
  language,       \* of the submission
  task,           \* the payload of the job
  built_from,     \* history: the problem the payload was built from
  phase,          \* where the submission is
  attempt,
  compile,        \* the outcome of this attempt: the stages executed so far
  judge_compile,
  cases,
  verdict,        \* of the submission: its status, score and message
  summary,        \* the last event applied to it
  rows,           \* its rows of oj.submission_case_results
  seen,           \* history: what the last stage did, and how many cases are right
  edits, troubles

vars == <<problem, language, task, built_from, phase, attempt, compile,
          judge_compile, cases, verdict, summary, rows, seen, edits, troubles>>

execution == <<compile, judge_compile, cases, seen>>
submission == <<verdict, summary, rows>>
bounds == <<edits, troubles>>

Phases == {"none", "created", "refused", "queued", "compile", "judge_compile",
           "run", "done", "dead", "panicked"}

FailureKinds == {"security_violation", "output_limit_exceeded",
                 "time_limit_exceeded", "memory_limit_exceeded", "runtime_error"}

CaseStatuses == FailureKinds \cup {"accepted", "wrong_answer"}

Statuses == CaseStatuses \cup {"compile_error", "pending", "queued", "running"}

\* What is seen of a child process.  Every sign is an exit code, a signal, a
\* measured size or time, or words in the text it left.
Signs == {"security", "output", "time", "memory"}

Exits == {"zero", "one", "other"}

\* read_to_string refuses text that is not UTF-8; a long text can be cut inside a
\* character.
Texts == {"plain", "silent", "binary", "split"}

\* The excerpt of a text that cannot be read is empty.
Excerpt(text) == IF text = "plain" THEN text ELSE Nothing

\* The signs of a stage that succeeds, or panics, are never looked at; of a stage
\* that fails, a text that cannot be read shows what no text shows.
Stages ==
  {stage \in [exit : Exits, signs : SUBSET Signs, text : Texts] :
     /\ stage.exit = "zero" \/ stage.text = "split" => stage.signs = {}
     /\ stage.text = "binary" => stage.exit = "zero"}

Succeeded(stage) == stage.exit = "zero"

Successes == {stage \in Stages : Succeeded(stage)}

\* Which code it is matters for a checker only.
Failures == {stage \in Stages : stage.exit = "one"}

-----------------------------------------------------------------------------
\* What a stage shows of itself, and the projection of an event that reports it.

\* classify_stage_failure: the first of these.
FailureKind(stage) ==
  CASE Succeeded(stage) -> Nothing
    [] ~Succeeded(stage) /\ "security" \in stage.signs -> "security_violation"
    [] ~Succeeded(stage) /\ stage.signs \cap {"security", "output"} = {"output"} ->
         "output_limit_exceeded"
    [] ~Succeeded(stage) /\ stage.signs \cap {"security", "output", "time"} = {"time"} ->
         "time_limit_exceeded"
    [] ~Succeeded(stage) /\ stage.signs = {"memory"} -> "memory_limit_exceeded"
    [] ~Succeeded(stage) /\ stage.signs = {} -> "runtime_error"

\* RuntimeStageOutcome.
StageOutcome(stage) ==
  [failure_kind |-> FailureKind(stage), text |-> Excerpt(stage.text)]

StageOutcomes == {StageOutcome(stage) : stage \in Stages}

\* RuntimeCaseOutcome.
Results ==
  [case_no : Nat, score : Nat, status : CaseStatuses, text : {"plain", Nothing},
   used : Nat]

\* map_compile_failure_status.
CompileStatus(failed) ==
  IF failed.failure_kind = "runtime_error" THEN "compile_error" ELSE failed.failure_kind

IsFailed(stage) == stage # Nothing /\ stage.failure_kind # Nothing

\* classify_failure: the status, and what is left of the text of what failed.
ClassifyFailure(outcome) ==
  LET failed == {i \in DOMAIN outcome.cases : outcome.cases[i].status # "accepted"} IN
  CASE IsFailed(outcome.judge_compile) ->
         <<CompileStatus(outcome.judge_compile), outcome.judge_compile.text>>
    [] ~IsFailed(outcome.judge_compile) /\ IsFailed(outcome.compile) ->
         <<CompileStatus(outcome.compile), outcome.compile.text>>
    [] ~IsFailed(outcome.judge_compile) /\ ~IsFailed(outcome.compile) ->
         IF \E i \in failed : outcome.cases[i].status = "wrong_answer"
         THEN <<"wrong_answer", "wrong answer">>
         ELSE IF failed # {}
         THEN <<outcome.cases[Min(failed)].status, outcome.cases[Min(failed)].text>>
         ELSE <<"runtime_error", Nothing>>

\* A sum of natural numbers: each counts for as many points.
Total(scores) == Cardinality(UNION {{x} \X (1 .. scores[x]) : x \in DOMAIN scores})

TotalScore(results) == Total([i \in DOMAIN results |-> results[i].score])

Accepted(results) == {i \in DOMAIN results : results[i].status = "accepted"}

AcceptedScore(results) == Total([i \in Accepted(results) |-> results[i].score])

NoOutcome == [compile |-> Nothing, judge_compile |-> Nothing, cases |-> <<>>]

\* derive_submission_projection.  An event's own message is named by its status.
Projected(status, outcome) ==
  LET failure == ClassifyFailure(outcome)
      shown(shown_status, message) ==
        [status |-> shown_status, score |-> AcceptedScore(outcome.cases),
         max_score |-> TotalScore(outcome.cases), message |-> message]
  IN CASE status \in {"queued", "retrying", "compiling"} -> shown("queued", status)
       [] status = "running" -> shown("running", status)
       [] status = "completed" -> shown("accepted", "accepted")
       [] status = "failed" ->
            shown(failure[1], IF failure[2] = Nothing THEN status ELSE failure[2])
       [] status = "dead_lettered" -> shown("runtime_error", status)

\* The rows of an outcome, by number.
Rows(outcome) == {outcome.cases[i] : i \in DOMAIN outcome.cases}

\* Mutant: the rows of an earlier outcome stay.
RowsAfter_Kept(outcome) == rows \cup Rows(outcome)

\* apply_runtime_event replaces the rows when there is an outcome.
RowsAfter(outcome) == IF outcome = NoOutcome THEN rows ELSE Rows(outcome)

EventStatuses ==
  {"queued", "retrying", "compiling", "running", "completed", "failed", "dead_lettered"}

\* What oj.submissions keeps of the last event.
Summaries ==
  [status : EventStatuses,
   outcome : [compile : StageOutcomes \cup {Nothing},
              judge_compile : StageOutcomes \cup {Nothing}, cases : Seq(Results)]]

\* Nothing is told apart from what it stands in for.
ASSUME NothingAssumption ==
  Nothing \notin FailureKinds /\ Nothing \notin StageOutcomes /\ Nothing \notin Summaries

\* An event reaches the repository of the submissions.
ApplyEvent(status, outcome) ==
  /\ verdict' = Projected(status, outcome)
  /\ summary' = [status |-> status, outcome |-> outcome]
  /\ rows' = RowsAfter(outcome)

-----------------------------------------------------------------------------
\* OjService.

\* Mutant: the languages of a wasm problem are not looked at.
WasmProblem_AnyLanguage(p) == p.method # "spj"

\* The conditions of a problem that is judged in a wasm sandbox.
WasmProblem(p) ==
  /\ p.supported \subseteq {"cpp", "rust"}
  /\ p.method # "spj"

\* validate_judge_config.
ValidJudgeConfig(p) ==
  CASE p.method = "none" -> TRUE
    [] p.method = "validator" -> p.spj = Nothing
    [] p.method = "spj" -> p.spj # Nothing

Easy(p) == p.mode = "easy_judge"

\* validate_problem.
ValidProblem(p) ==
  /\ IF Easy(p) THEN p.easy # Nothing
     ELSE p.supported # {} /\ p.limits # {} /\ p.testcases # <<>>
  /\ p.sandbox \in {"wasm", "nsjail_wasm"} => ~Easy(p) /\ WasmProblem(p)
  /\ ValidJudgeConfig(p)

\* derive_runtime_lane.
Lane(p, l) ==
  CASE p.mode = "functional" -> "heavy"
    [] p.mode # "functional" /\ p.method = "spj" -> "special"
    [] p.mode # "functional" /\ p.method # "spj" ->
         IF l = "python" THEN "normal" ELSE "fast"

\* default_runtime_worker_groups: the lanes of oj_judge that a group is bound to.
ServedLanes == {"fast", "normal", "heavy", "special"}

\* build_job_definition, once the problem has passed.
Task(p, l) ==
  [language |-> l, mode |-> p.mode, sandbox |-> p.sandbox, method |-> p.method,
   validator |-> p.validator, spj |-> p.spj, signature |-> p.signature,
   zero |-> p.zero, testcases |-> p.testcases, lane |-> Lane(p, l)]

MaxAttempts == 3

SaveProblem(p) ==
  /\ edits < MaxEdits
  /\ ValidProblem(p)
  /\ problem' = p
  /\ edits' = edits + 1
  /\ UNCHANGED <<language, task, built_from, phase, attempt, execution, submission,
                 troubles>>

CreateSubmission(l) ==
  /\ phase = "none"
  /\ ~Easy(problem)
  /\ l \in problem.supported \cap problem.limits
  /\ language' = l
  /\ phase' = "created"
  /\ UNCHANGED <<problem, task, built_from, attempt, execution, submission, bounds>>

\* The problem is read again: it may have been saved in between.
BuildJob ==
  /\ phase = "created"
  /\ IF ~Easy(problem) /\ language \in problem.limits
     THEN /\ task' = Task(problem, language)
          /\ built_from' = problem
          /\ phase' = "queued"
          /\ ApplyEvent("queued", NoOutcome)
     ELSE phase' = "refused" /\ UNCHANGED <<task, built_from, submission>>
  /\ UNCHANGED <<problem, language, attempt, execution, bounds>>

\* normalize_easy_answer: the options, one after the other.  A text is one option.
Joined(answer) == FlattenSeq(answer.options)

\* normalize_multi_answer: a text is as many options as it has letters.
Chosen(answer) ==
  IF answer.kind = "text" THEN {<<letter>> : letter \in ToSet(Joined(answer))}
  ELSE ToSet(answer.options) \ {<<>>}

\* judge_easy_answer.
EasyAccepted(easy, answer) ==
  IF easy.question_type = "multiple_choice"
  THEN Chosen(answer) = Chosen(easy.standard_answer)
  ELSE Joined(answer) = Joined(easy.standard_answer)

\* What create_direct_submission stores.
Direct(right) ==
  [status |-> IF right THEN "accepted" ELSE "wrong_answer",
   score |-> IF right THEN 100 ELSE 0, max_score |-> 100, message |-> "judged"]

\* judge_easy_submission: judged at once, no job.
JudgeEasy(answer) ==
  /\ phase = "none"
  /\ Easy(problem)
  /\ problem.easy.question_type = "multiple_choice" =>
       Chosen(answer) # {} /\ Chosen(problem.easy.standard_answer) # {}
  /\ verdict' = Direct(EasyAccepted(problem.easy, answer))
  /\ phase' = "done"
  /\ UNCHANGED <<problem, language, task, built_from, attempt, execution, summary, rows,
                 bounds>>

-----------------------------------------------------------------------------
\* RuntimeWorker: preparation.

Catalog == {"cpp", "python", "rust"}

CheckerLanguages == {"python", "python3", "rust", "cpp", "c++"}

Wasm(t) == t.sandbox \in {"wasm", "nsjail_wasm"}

DistinctCases(t) ==
  \A i, j \in DOMAIN t.testcases :
    t.testcases[i].case_no = t.testcases[j].case_no => i = j

\* validate_oj_task.
ValidTask(t) ==
  /\ t.language \notin t.zero
  /\ t.testcases # <<>>
  /\ DistinctCases(t)
  /\ t.mode = "functional" => t.signature
  /\ ~(Wasm(t) /\ t.method = "spj")

\* RuntimeLanguageCatalog::resolve and build_recipe.
Planned(t) == t.language \in Catalog /\ (t.language = "python" => ~Wasm(t))

\* build_spj_artifacts.
CheckerPlanned(t) == t.method = "spj" => t.spj \in CheckerLanguages

Preparable(t) == ValidTask(t) /\ Planned(t) /\ CheckerPlanned(t)

\* build_recipe: the languages with a compile command.
Compiled == {"cpp", "rust"}

NeedsCompiler(t) == t.language \in Compiled

CheckerNeedsCompiler(t) ==
  t.method = "spj" /\ t.spj \notin {"python", "python3"}

\* handle_delivery_failure: another attempt, which starts from nothing, or a dead
\* letter, whose event has no outcome.
Again ==
  IF attempt < MaxAttempts
  THEN phase' = "queued" /\ attempt' = attempt + 1 /\ ApplyEvent("retrying", NoOutcome)
  ELSE phase' = "dead" /\ UNCHANGED attempt /\ ApplyEvent("dead_lettered", NoOutcome)

NothingSeen == [at |-> "prepared", signs |-> {}, right |-> 0, wrong |-> FALSE]

\* A delivery is reserved and prepared.  Of the events preparing to running only the
\* last is kept; while a program compiles, its submission is queued still.
Prepare ==
  /\ phase = "queued"
  /\ task.lane \in ServedLanes
  /\ compile' = Nothing /\ judge_compile' = Nothing /\ cases' = <<>>
  /\ seen' = NothingSeen
  /\ IF Preparable(task)
     THEN phase' = "compile" /\ UNCHANGED attempt /\ ApplyEvent(IF NeedsCompiler(task) THEN "compiling" ELSE "running", NoOutcome)
     ELSE Again
  /\ UNCHANGED <<problem, language, task, built_from, bounds>>

\* read_excerpt slices by bytes: inside a character it panics, and the panic ends
\* the task of the worker loop.
Panics(stage) == stage.text = "split"

Panic ==
  /\ phase' = "panicked"
  /\ UNCHANGED <<execution, attempt, submission>>

\* Bound: a stage whose text cannot be read is a trouble.
Trouble(stage) ==
  LET unreadable == stage.text \in {"binary", "split"} IN
  /\ unreadable => troubles < MaxTroubles
  /\ troubles' = IF unreadable THEN troubles + 1 ELSE troubles

Outcome(c, j, results) == [compile |-> c, judge_compile |-> j, cases |-> results]

\* The outcome is observed and the delivery acknowledged.
Finish(outcome, completed) ==
  /\ phase' = "done"
  /\ ApplyEvent(IF completed THEN "completed" ELSE "failed", outcome)
  /\ compile' = outcome.compile /\ judge_compile' = outcome.judge_compile
  /\ cases' = outcome.cases
  /\ UNCHANGED attempt

-----------------------------------------------------------------------------
\* RuntimeWorker::execute.

Compile(stage) ==
  /\ phase = "compile"
  /\ NeedsCompiler(task)
  /\ Trouble(stage)
  /\ IF Panics(stage) THEN Panic
     ELSE /\ seen' = [seen EXCEPT !.at = "compile", !.signs = stage.signs]
          /\ IF Succeeded(stage)
             THEN /\ phase' = "judge_compile" /\ compile' = StageOutcome(stage)
                  /\ UNCHANGED <<judge_compile, cases, attempt, submission>>
             ELSE Finish(Outcome(StageOutcome(stage), Nothing, <<>>), FALSE)
  /\ UNCHANGED <<problem, language, task, built_from, edits>>

\* Nothing to compile.
SkipCompile ==
  /\ \/ phase = "compile" /\ ~NeedsCompiler(task) /\ phase' = "judge_compile"
     \/ phase = "judge_compile" /\ ~CheckerNeedsCompiler(task) /\ phase' = "run"
  /\ UNCHANGED <<problem, language, task, built_from, attempt, execution, submission,
                 bounds>>

CompileChecker(stage) ==
  /\ phase = "judge_compile"
  /\ CheckerNeedsCompiler(task)
  /\ Trouble(stage)
  /\ IF Panics(stage) THEN Panic
     ELSE /\ seen' = [seen EXCEPT !.at = "judge_compile", !.signs = stage.signs]
          /\ IF Succeeded(stage)
             THEN /\ phase' = "run" /\ judge_compile' = StageOutcome(stage)
                  /\ UNCHANGED <<compile, cases, attempt, submission>>
             ELSE Finish(Outcome(compile, StageOutcome(stage), <<>>), FALSE)
  /\ UNCHANGED <<problem, language, task, built_from, edits>>

\* A file of the stage cannot be opened or its program not be started: the
\* execution is an error, and what it had is dropped.
StageError ==
  /\ \/ phase = "compile" /\ NeedsCompiler(task)
     \/ phase = "judge_compile" /\ CheckerNeedsCompiler(task)
     \/ phase = "run"
  /\ troubles < MaxTroubles
  /\ troubles' = troubles + 1
  /\ Again
  /\ UNCHANGED <<problem, language, task, built_from, execution, edits>>

\* The case of the next run stage.
Testcase == task.testcases[Len(cases) + 1]

\* effective_validator_config.
DefaultConfig ==
  [ignore_whitespace |-> TRUE, ignore_case |-> FALSE, is_unordered |-> FALSE,
   is_token_mode |-> FALSE, is_float |-> FALSE, epsilon |-> 0]

EffectiveConfig(t) ==
  IF t.method = "validator" /\ t.validator # Nothing THEN t.validator ELSE DefaultConfig

\* prepare_testcase_dir names a directory by the number of the case: of two with
\* one number, the later one writes the answer that both are compared with.
AnswerFile(t, case_no) ==
  t.testcases[Max({i \in DOMAIN t.testcases : t.testcases[i].case_no = case_no})].answer

\* What the case used is told apart by its number.
CaseResult(status, text) ==
  [case_no |-> Testcase.case_no, score |-> Testcase.score, status |-> status,
   text |-> Excerpt(text), used |-> Testcase.case_no]

\* A case has its status: the first that is not accepted ends the execution.
CaseEnds(status, text) ==
  LET results == Append(cases, CaseResult(status, text))
      outcome == Outcome(compile, judge_compile, results)
  IN IF status # "accepted" THEN Finish(outcome, FALSE)
     ELSE IF Len(results) = Len(task.testcases) THEN Finish(outcome, TRUE)
     ELSE /\ cases' = results
          /\ UNCHANGED <<phase, compile, judge_compile, attempt, submission>>

\* The run stage fails.
RunFails(stage) ==
  /\ phase = "run"
  /\ stage \in Failures
  /\ Trouble(stage)
  /\ IF Panics(stage) THEN Panic
     ELSE /\ seen' = [seen EXCEPT !.at = "run", !.signs = stage.signs]
          /\ CaseEnds(FailureKind(stage), stage.text)
  /\ UNCHANGED <<problem, language, task, built_from, edits>>

\* The run stage succeeds and what it printed is compared.  Without the text
\* the execution is an error: the outcome is dropped and the delivery retried.
RunAndCompare(stage, output) ==
  /\ phase = "run"
  /\ task.method # "spj"
  /\ stage \in Successes
  /\ stage.text = "silent" => output.tokens = <<>>
  /\ Trouble(stage)
  /\ LET right == CompareOutputs(output, AnswerFile(task, Testcase.case_no),
                                EffectiveConfig(task))
         truth == Matches(output, Testcase.answer, EffectiveConfig(task))
     IN CASE Panics(stage) -> Panic
          [] stage.text = "binary" -> Again /\ UNCHANGED execution
          [] stage.text \in {"plain", "silent"} ->
               /\ seen' = [at |-> "run", signs |-> stage.signs, wrong |-> ~truth,
                           right |-> IF truth THEN seen.right + 1 ELSE seen.right]
               /\ CaseEnds(IF right THEN "accepted" ELSE "wrong_answer", stage.text)
  /\ UNCHANGED <<problem, language, task, built_from, edits>>

\* execute_spj_case.
CheckerStatus(stage) ==
  CASE stage.exit = "zero" -> "accepted"
    [] stage.exit = "one" -> "wrong_answer"
    [] stage.exit = "other" -> FailureKind(stage)

\* The run stage succeeds and the problem's checker, a stage of its own, judges.
RunAndCheck(stage) ==
  /\ phase = "run"
  /\ task.method = "spj"
  /\ Trouble(stage)
  /\ IF Panics(stage) THEN Panic
     ELSE /\ seen' = [at |-> "checker", signs |-> stage.signs, wrong |-> stage.exit = "one",
                      right |-> IF Succeeded(stage) THEN seen.right + 1 ELSE seen.right]
          /\ CaseEnds(CheckerStatus(stage), "plain")
  /\ UNCHANGED <<problem, language, task, built_from, edits>>

\* The acknowledgement is lost, and the broker delivers what was judged again.
Redeliver ==
  /\ phase = "done" /\ task # Nothing
  /\ troubles < MaxTroubles
  /\ troubles' = troubles + 1
  /\ phase' = "queued"
  /\ UNCHANGED <<problem, language, task, built_from, attempt, execution, submission,
                 edits>>

-----------------------------------------------------------------------------
Init ==
  /\ problem \in {p \in Problems : ValidProblem(p)}
  /\ language = Nothing /\ task = Nothing /\ built_from = Nothing
  /\ phase = "none" /\ attempt = 1
  /\ compile = Nothing /\ judge_compile = Nothing /\ cases = <<>>
  /\ verdict = [status |-> "pending", score |-> 0, max_score |-> 0, message |-> Nothing]
  /\ summary = Nothing /\ rows = {}
  /\ seen = NothingSeen
  /\ edits = 0 /\ troubles = 0

Execute ==
  \/ SkipCompile
  \/ StageError
  \/ \E stage \in Successes \cup Failures : Compile(stage) \/ CompileChecker(stage)
  \/ \E stage \in Stages : RunAndCheck(stage)
  \/ \E stage \in Failures : RunFails(stage)
  \/ \E stage \in Successes, output \in Outputs : RunAndCompare(stage, output)

Next ==
  \/ \E p \in Problems : SaveProblem(p)
  \/ \E l \in Catalog \cup {"java"} : CreateSubmission(l)
  \/ BuildJob
  \/ \E a \in Answers : JudgeEasy(a)
  \/ Prepare
  \/ Execute
  \/ Redeliver

Spec == Init /\ [][Next]_vars

-----------------------------------------------------------------------------
(***************************************************************************)
(* What must hold.                                                         *)
(***************************************************************************)
TypeOK ==
  /\ problem \in Problems /\ ValidProblem(problem)
  /\ built_from \in Problems \cup {Nothing}
  /\ phase \in Phases /\ attempt \in 1 .. MaxAttempts
  /\ {compile, judge_compile} \subseteq StageOutcomes \cup {Nothing}
  /\ \A i \in DOMAIN cases : cases[i].status \in CaseStatuses
  /\ verdict.status \in Statuses /\ verdict.score <= verdict.max_score
  /\ edits \in 0 .. MaxEdits /\ troubles \in 0 .. MaxTroubles

\* What OjService lets through and RuntimeWorker does not prepare.
Gap(p, l) ==
  \/ p.mode = "functional" /\ ~p.signature
  \/ \E i, j \in DOMAIN p.testcases :
       i # j /\ p.testcases[i].case_no = p.testcases[j].case_no
  \/ p.method = "spj" /\ p.spj \notin CheckerLanguages
  \/ l \in p.zero
  \/ l \notin Catalog
  \/ l \notin p.supported   \* edited after the submission was accepted

(***************************************************************************)
(* The two checks of a problem, validate_problem and validate_oj_task, are *)
(* written apart and can drift: a job that was let through has a lane that *)
(* some worker group serves, and is prepared, except for the gaps named    *)
(* above; and a submission only ends as a dead letter for such a gap, or   *)
(* for an error of a stage or output that could not be read on each of its *)
(* attempts.                                                               *)
(***************************************************************************)
JudgingInvariant ==
  /\ TypeOK
  /\ task # Nothing => task.lane \in ServedLanes
  /\ task # Nothing /\ ~Preparable(task) => Gap(built_from, language)
  /\ phase = "dead" => ~Preparable(task) \/ troubles >= MaxAttempts

StrongestFirst == <<"security", "output", "time", "memory">>

StatusOf(sign) ==
  CASE sign = "security" -> "security_violation"
    [] sign = "output" -> "output_limit_exceeded"
    [] sign = "time" -> "time_limit_exceeded"
    [] sign = "memory" -> "memory_limit_exceeded"

\* The status names the strongest sign of the stage.
NamesTheSign(status, at, signs) ==
  IF signs = {}
  THEN status = IF at \in {"compile", "judge_compile"} THEN "compile_error"
                ELSE "runtime_error"
  ELSE \E i \in DOMAIN StrongestFirst :
         /\ StrongestFirst[i] \in signs
         /\ \A j \in 1 .. i - 1 : StrongestFirst[j] \notin signs
         /\ status = StatusOf(StrongestFirst[i])

Points(n) == Total([i \in 1 .. n |-> task.testcases[i].score])

(***************************************************************************)
(* Through planning, compiling, running, comparing, classifying and        *)
(* projecting, retries included, the verdict is the one the last attempt   *)
(* earned: accepted exactly when every testcase was answered right, as the *)
(* options define right; wrong answer exactly when one was answered wrong; *)
(* the points of the testcases answered right before; and otherwise the    *)
(* strongest sign of the stage that failed.                                *)
(***************************************************************************)
VerdictIsEarned ==
  phase = "done" /\ task # Nothing =>
    /\ verdict.status = "accepted" <=> seen.right = Len(task.testcases)
    /\ verdict.status = "accepted" => verdict.score = verdict.max_score
    /\ verdict.status = "wrong_answer" <=> seen.wrong
    /\ verdict.score = Points(seen.right)
    /\ verdict.status \notin {"accepted", "wrong_answer"} =>
         NamesTheSign(verdict.status, seen.at, seen.signs)
=============================================================================
