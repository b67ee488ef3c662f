--------------------------- MODULE OutputComparison ---------------------------
(***************************************************************************)
(* compare_outputs (crates/nexus-runtime/src/judge.rs): whether what a     *)
(* program printed is the expected output, under a validator's options.    *)
(*                                                                         *)
(* A text is its tokens and its layout; a token is its spelling, its       *)
(* spelling in lower case, whether it parses as a number, and which one.   *)
(* Numbers are natural, in units in which every epsilon is natural too.    *)
(***************************************************************************)
EXTENDS Naturals, Sequences, FiniteSets, SequencesExt

Tokens == [spelling : STRING, lower : STRING, is_number : BOOLEAN, number : Nat]

Printed == [layout : STRING, tokens : Seq(Tokens)]

\* OjValidatorConfig.
Options ==
  [ignore_whitespace : BOOLEAN, ignore_case : BOOLEAN, is_unordered : BOOLEAN,
   is_token_mode : BOOLEAN, is_float : BOOLEAN, epsilon : Nat]

Distance(m, n) == IF m < n THEN n - m ELSE m - n

\* The ways to put n things in an order.
Orders(n) ==
  {p \in [1 .. n -> 1 .. n] : \A i, j \in 1 .. n : p[i] = p[j] => i = j}

\* sort, on numbers.
Sorted(numbers) ==
  LET order == CHOOSE p \in Orders(Len(numbers)) :
        \A i, j \in DOMAIN numbers : i < j => numbers[p[i]] <= numbers[p[j]]
  IN [i \in DOMAIN numbers |-> numbers[order[i]]]

Numbers(tokens) == [i \in DOMAIN tokens |-> tokens[i].number]

\* Mutant: unordered numbers are compared as they come.
InOrder_AsPrinted(numbers, config) == numbers

InOrder(numbers, config) == IF config.is_unordered THEN Sorted(numbers) ELSE numbers

\* compare_float_tokens.
SameNumbers(user, expected, config) ==
  /\ Len(user) = Len(expected)
  /\ \A i \in DOMAIN user : user[i].is_number /\ expected[i].is_number
  /\ LET us == InOrder(Numbers(user), config)
         es == InOrder(Numbers(expected), config)
     IN \A i \in DOMAIN us : Distance(us[i], es[i]) <= config.epsilon

Spelling(token, config) == IF config.ignore_case THEN token.lower ELSE token.spelling

Spellings(tokens, config) == [i \in DOMAIN tokens |-> Spelling(tokens[i], config)]

Occurrences(s, x) == Cardinality({i \in DOMAIN s : s[i] = x})

\* Sorted, two sequences are equal when they have the same members equally often.
SameSpellings(user, expected, config) ==
  LET us == Spellings(user, config) es == Spellings(expected, config) IN
  IF config.is_unordered
  THEN \A x \in ToSet(us) \cup ToSet(es) : Occurrences(us, x) = Occurrences(es, x)
  ELSE us = es

Strict(config) ==
  ~config.ignore_whitespace /\ ~config.is_float /\ ~config.is_unordered
    /\ ~config.is_token_mode

CompareOutputs(user, expected, config) ==
  CASE Strict(config) -> /\ user.layout = expected.layout
                         /\ Spellings(user.tokens, config)
                              = Spellings(expected.tokens, config)
    [] ~Strict(config) /\ config.is_float ->
         SameNumbers(user.tokens, expected.tokens, config)
    [] ~Strict(config) /\ ~config.is_float ->
         SameSpellings(user.tokens, expected.tokens, config)

-----------------------------------------------------------------------------
(***************************************************************************)
(* What the options promise: there is a way to pair the tokens, the        *)
(* identity unless the order is left open, in which every pair agrees.     *)
(***************************************************************************)
Agree(u, e, config) ==
  IF config.is_float
  THEN u.is_number /\ e.is_number /\ Distance(u.number, e.number) <= config.epsilon
  ELSE IF config.ignore_case THEN u.lower = e.lower ELSE u.spelling = e.spelling

Pairings(n, config) ==
  IF config.is_unordered THEN Orders(n) ELSE {[i \in 1 .. n |-> i]}

Matches(user, expected, config) ==
  LET n == Len(user.tokens) IN
  /\ Strict(config) => user.layout = expected.layout
  /\ n = Len(expected.tokens)
  /\ \E p \in Pairings(n, config) :
       \A i \in 1 .. n : Agree(user.tokens[i], expected.tokens[p[i]], config)
=============================================================================
