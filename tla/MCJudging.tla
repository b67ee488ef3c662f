------------------------------- MODULE MCJudging -------------------------------
\* The instance of Judging for TLC.
EXTENDS SubmissionViews

\* Tokens, by spelling.
Token(spelling) ==
  [spelling |-> spelling, lower |-> IF spelling = "YES" THEN "yes" ELSE spelling,
   is_number |-> spelling \in {"1", "2", "3"},
   number |-> CASE spelling = "1" -> 1 [] spelling = "2" -> 2 [] spelling = "3" -> 3
                [] OTHER -> 0]

Text(layout, spellings) ==
  [layout |-> layout, tokens |-> [i \in DOMAIN spellings |-> Token(spellings[i])]]

MCOutputs ==
  {Text("line", <<"1", "2">>), Text("lines", <<"1", "2">>), Text("line", <<"2", "1">>),
   Text("line", <<"3", "1">>), Text("line", <<"1">>), Text("line", <<"YES", "2">>),
   Text("line", <<"2", "yes">>), Text("line", <<>>)}

Config(whitespace, case, unordered, float, epsilon) ==
  [ignore_whitespace |-> whitespace, ignore_case |-> case, is_unordered |-> unordered,
   is_token_mode |-> FALSE, is_float |-> float, epsilon |-> epsilon]

Cases(first_no, second_no) ==
  <<[case_no |-> first_no, score |-> 1, answer |-> Text("line", <<"1", "2">>)],
    [case_no |-> second_no, score |-> 2, answer |-> Text("line", <<"yes", "2">>)]>>

Numeric ==
  <<[case_no |-> 1, score |-> 1, answer |-> Text("line", <<"1", "2">>)],
    [case_no |-> 2, score |-> 2, answer |-> Text("line", <<"3", "2">>)]>>

Plain ==
  [mode |-> "acm", sandbox |-> "nsjail", method |-> "none", validator |-> Nothing,
   spj |-> Nothing, signature |-> FALSE, supported |-> {"cpp", "python"},
   limits |-> {"cpp", "python"}, zero |-> {}, testcases |-> Cases(1, 2),
   easy |-> Nothing]

Validated(config) == [Plain EXCEPT !.method = "validator", !.validator = config]

Checked(checker) ==
  [Plain EXCEPT !.method = "spj", !.spj = checker, !.supported = {"rust"},
   !.limits = {"rust"}]

Choice(type, answer) ==
  [Plain EXCEPT !.mode = "easy_judge", !.supported = {}, !.limits = {},
   !.testcases = <<>>, !.easy = [question_type |-> type, standard_answer |-> answer]]

MCAnswers ==
  {[kind |-> "text", options |-> <<<<"A", "B">>>>],
   [kind |-> "options", options |-> <<<<"A">>, <<"B">>>>],
   [kind |-> "options", options |-> <<<<"B">>, <<"A">>, <<"B">>>>],
   [kind |-> "options", options |-> <<<<>>>>]}

MCProblems ==
  {[Plain EXCEPT !.supported = {"cpp", "java"}, !.limits = {"cpp", "java"},
    !.zero = {"cpp"}],
   [Plain EXCEPT !.sandbox = "wasm"],
   Checked("rust"),
   Choice("multiple_choice", [kind |-> "text", options |-> <<<<"A", "B">>>>]),
   Plain,
   [Plain EXCEPT !.testcases = Cases(1, 1)],
   Validated(Config(TRUE, TRUE, TRUE, FALSE, 0)),
   Validated(Config(FALSE, FALSE, FALSE, FALSE, 0)),
   [Validated(Config(TRUE, FALSE, TRUE, TRUE, 1)) EXCEPT !.testcases = Numeric],
   [Validated(Config(TRUE, FALSE, FALSE, TRUE, 0)) EXCEPT !.testcases = Numeric,
    !.sandbox = "wasm", !.supported = {"cpp"}],
   [Plain EXCEPT !.mode = "functional", !.supported = {"rust"}, !.limits = {"rust"}],
   [Checked("python3") EXCEPT !.mode = "functional", !.signature = TRUE],
   Checked("java"), Checked(Nothing),
   Choice("single_choice", [kind |-> "text", options |-> <<<<"A", "B">>>>])}
=============================================================================
