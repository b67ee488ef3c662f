--------------------------- MODULE MCSubmissionStore ---------------------------
\* The instance of SubmissionStore for TLC.
EXTENDS SubmissionStore
LOCAL INSTANCE TLC

CONSTANTS first, second, original, redelivered, cpp, rust

MCAuthors == {first, second}
MCJudges == {original, redelivered}
MCLanguages == {cpp, rust}
MCDrafts == {{cpp}, {cpp, rust}}

\* Authors are interchangeable, and deliveries are.
Symmetry == Permutations(MCAuthors) \cup Permutations(MCJudges)
=============================================================================
