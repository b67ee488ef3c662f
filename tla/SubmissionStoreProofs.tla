------------------------ MODULE SubmissionStoreProofs ------------------------
(***************************************************************************)
(* The two promises of the PostgreSQL repositories, for any number of      *)
(* authors, deliveries, languages, saves, events and errors.               *)
(*                                                                         *)
(* The argument is the row lock.  The first statement of a transaction     *)
(* writes the row of the problem or of the submission, so at most one save *)
(* and one projection are open at a time; the open one has a number above  *)
(* everything committed, and when it may commit it has written every table *)
(* it must.  What a detail has read is then never newer than what is       *)
(* committed, and its statements read in the order of the versions.        *)
(***************************************************************************)
EXTENDS SubmissionStore, TLAPS

ProblemTables == {"problems", "limits", "testcases"}

Events == [id : Nat, status : Statuses]

\* What is committed.
Committed ==
  /\ DOMAIN db = Tables
  /\ \A table \in ProblemTables : db[table] = db["problems"]
  /\ db["problems"] \in Versions /\ db["problems"].id <= saves
  /\ db["submissions"] \in Events \cup {Nothing}
  /\ db["submissions"] # Nothing =>
       /\ db["submissions"].id <= events
       /\ db["submissions"].status \in WithOutcome =>
            db["case_results"] = db["submissions"]

\* What an open save has written so far.
SaveOK(a) ==
  /\ pc[a] = "begin" => DOMAIN pending[a] = {}
  /\ pc[a] = "delete" => DOMAIN pending[a] = {"problems"}
  /\ pc[a] \in {"insert", "commit"} => DOMAIN pending[a] = ProblemTables
  /\ pc[a] # "begin" =>
       /\ doing[a] \in Versions
       /\ db["problems"].id < doing[a].id /\ doing[a].id <= saves
       /\ pending[a]["problems"] = doing[a]
  /\ pc[a] = "commit" => \A table \in ProblemTables : pending[a][table] = doing[a]

\* What an open projection has written so far.
ProjectionOK(j) ==
  /\ pc[j] = "begin" => DOMAIN pending[j] = {}
  /\ pc[j] = "delete" => DOMAIN pending[j] = {"submissions"}
  /\ pc[j] = "insert" => DOMAIN pending[j] = {"submissions", "case_results"}
  /\ pc[j] \in {"delete", "insert"} => doing[j].status \in WithOutcome
  /\ pc[j] # "begin" =>
       /\ job # Nothing
       /\ doing[j] \in Events
       /\ db["submissions"].id < doing[j].id /\ doing[j].id <= events
       /\ pending[j]["submissions"] = doing[j]
  /\ pc[j] = "commit" =>
       IF doing[j].status \in WithOutcome
       THEN /\ DOMAIN pending[j] = {"submissions", "case_results"}
            /\ pending[j]["case_results"] = doing[j]
       ELSE DOMAIN pending[j] = {"submissions"}

\* The row locks.
Alone(S) == \A v, w \in S : pc[v] # "begin" /\ pc[w] # "begin" => v = w

\* What the handler of POST /submissions has read so far, and the job it made.
HandlerOK ==
  LET read == handler.read IN
  /\ handler \in [at : ProblemTables \cup {"read", "rejected", "refused", "dispatched"},
                  language : Languages,
                  read : [ProblemTables -> Versions \cup {Nothing}]]
  /\ handler.at \in {"limits", "testcases", "read"} =>
       read["problems"] \in Versions /\ read["problems"].id <= db["problems"].id
  /\ handler.at \in {"testcases", "read"} =>
       /\ read["limits"] \in Versions /\ read["limits"].id <= db["problems"].id
       /\ read["problems"].id <= read["limits"].id
  /\ handler.at = "read" =>
       read["testcases"] \in Versions /\ read["limits"].id <= read["testcases"].id

JobOK ==
  job # Nothing =>
    /\ db["submissions"] # Nothing
    /\ handler.at = "dispatched"
    /\ handler.language \in job["limits"].languages
    /\ job["problems"].id <= job["limits"].id
    /\ job["limits"].id <= job["testcases"].id

\* Case results that are no older than a row.
NoOlder(cases, row) ==
  row.status \in WithOutcome => cases \in Events /\ cases.id >= row.id

\* What the handler of GET /submissions/:id has read so far.
VisitorOK ==
  /\ DOMAIN visitor = {"at", "submissions", "case_results", "testcases"}
  /\ visitor.at \in {"begin", "second", "shown"}
  /\ visitor.at = "second" =>
       /\ visitor.submissions \in Events
       /\ db["submissions"] # Nothing /\ visitor.submissions.id <= db["submissions"].id
       /\ NoOlder(db["case_results"], visitor.submissions)
  /\ visitor.at = "shown" => NoOlder(visitor.case_results, visitor.submissions)

Typed ==
  /\ DOMAIN pending = Writers /\ DOMAIN doing = Writers
  /\ pc \in [Writers -> {"begin", "delete", "insert", "commit"}]
  /\ saves \in 0 .. MaxSaves /\ events \in 0 .. MaxEvents /\ errors \in 0 .. MaxErrors

Inv ==
  /\ Typed
  /\ Committed
  /\ \A a \in Authors : SaveOK(a)
  /\ \A j \in Judges : ProjectionOK(j)
  /\ Alone(Authors) /\ Alone(Judges)
  /\ HandlerOK /\ JobOK /\ VisitorOK

-----------------------------------------------------------------------------
\* An event is not what stands for none.
LEMMA EventIsSomething == Nothing \notin Events
  BY SubmissionStoreAssumption DEF Events

LEMMA InvImplies ==
  ASSUME Inv
  PROVE  StoreInvariant /\ DetailsAreOrdered
<1>1. TypeOK
  <2>1. ASSUME NEW w \in Writers PROVE DOMAIN pending[w] \subseteq Tables
    BY DEF Inv, Typed, SaveOK, ProjectionOK, Writers, ProblemTables, Tables
  <2>2. QED
    BY <2>1 DEF Inv, Typed, Committed, TypeOK, ProblemTables, Parts
<1>2. StoreInvariant
  BY <1>1 DEF Inv, Committed, StoreInvariant, ProblemTables
<1>3. DetailsAreOrdered
  BY EventIsSomething DEF Inv, JobOK, VisitorOK, NoOlder, DetailsAreOrdered
<1>4. QED
  BY <1>2, <1>3

LEMMA InvInit == Init => Inv
<1> SUFFICES ASSUME Init PROVE Inv
  OBVIOUS
<1>1. PICK draft \in Drafts :
        db = [table \in Tables |-> IF table \in {"submissions", "case_results"}
                                   THEN Nothing ELSE Version(0, draft)]
  BY DEF Init
<1>2. Version(0, draft) \in Versions /\ Version(0, draft).id = 0
  BY SubmissionStoreAssumption DEF Version, Versions
<1>3. Typed
  BY SubmissionStoreAssumption DEF Init, Typed
<1>4. Committed
  BY <1>1, <1>2, <1>3 DEF Init, Committed, Tables, ProblemTables
<1>5. \A a \in Authors : SaveOK(a)
  BY DEF Init, SaveOK, Writers, NoWrites
<1>6. \A j \in Judges : ProjectionOK(j)
  BY DEF Init, ProjectionOK, Writers, NoWrites
<1>7. HandlerOK
  BY DEF Init, HandlerOK, Empty, ProblemTables
<1>8. Alone(Authors) /\ Alone(Judges) /\ JobOK /\ VisitorOK
  BY DEF Init, Alone, Writers, JobOK, VisitorOK, NotRead
<1>9. QED
  BY <1>3, <1>4, <1>5, <1>6, <1>7, <1>8 DEF Inv

-----------------------------------------------------------------------------
\* Statements of a transaction.

LEMMA OverwrittenTables ==
  ASSUME NEW tables, NEW contents
  PROVE  /\ DOMAIN Overwritten(tables, contents) = DOMAIN tables \cup DOMAIN contents
         /\ \A t \in DOMAIN contents : Overwritten(tables, contents)[t] = contents[t]
         /\ \A t \in DOMAIN tables \ DOMAIN contents :
              Overwritten(tables, contents)[t] = tables[t]
  BY DEF Overwritten

LEMMA WrittenRows ==
  ASSUME Typed, NEW w \in Writers, NEW contents, Write(w, contents)
  PROVE  /\ DOMAIN pending' = Writers
         /\ \A o \in Writers \ {w} : pending'[o] = pending[o]
         /\ DOMAIN pending'[w] = DOMAIN pending[w] \cup DOMAIN contents
         /\ \A t \in DOMAIN contents : pending'[w][t] = contents[t]
         /\ \A t \in DOMAIN pending[w] \ DOMAIN contents : pending'[w][t] = pending[w][t]
         /\ UNCHANGED db
<1>1. pending' = [pending EXCEPT ![w] = Overwritten(pending[w], contents)]
  BY DEF Write
<1>2. pending'[w] = Overwritten(pending[w], contents)
  BY <1>1 DEF Typed
<1>3. /\ DOMAIN pending' = Writers
      /\ \A o \in Writers \ {w} : pending'[o] = pending[o]
  BY <1>1 DEF Typed
<1>4. /\ DOMAIN pending'[w] = DOMAIN pending[w] \cup DOMAIN contents
      /\ \A t \in DOMAIN contents : pending'[w][t] = contents[t]
      /\ \A t \in DOMAIN pending[w] \ DOMAIN contents : pending'[w][t] = pending[w][t]
  BY <1>2 DEF Overwritten
<1>5. QED
  BY <1>3, <1>4 DEF Write

\* A statement of w changes only what w has written and where it is.
Alike(w) ==
  /\ DOMAIN pending' = Writers /\ DOMAIN doing' = Writers
  /\ pc' \in [Writers -> {"begin", "delete", "insert", "commit"}]
  /\ \A o \in Writers \ {w} :
       pc'[o] = pc[o] /\ pending'[o] = pending[o] /\ doing'[o] = doing[o]
  /\ UNCHANGED <<db, others, errors>>

LEMMA OneStatement ==
  ASSUME Inv, NEW w \in Writers, Alike(w),
         saves' \in saves .. MaxSaves, events' \in events .. MaxEvents
  PROVE  /\ Typed' /\ Committed' /\ HandlerOK' /\ JobOK' /\ VisitorOK'
         /\ \A a \in Authors \ {w} : SaveOK(a)'
         /\ \A j \in Judges \ {w} : ProjectionOK(j)'
<1>1. /\ saves \in Nat /\ events \in Nat /\ MaxSaves \in Nat /\ MaxEvents \in Nat
      /\ saves' \in 0 .. MaxSaves /\ saves <= saves'
      /\ events' \in 0 .. MaxEvents /\ events <= events'
  BY SubmissionStoreAssumption DEF Inv, Typed
<1>2. Typed'
  BY <1>1 DEF Inv, Typed, Alike
<1>3. Committed'
  BY <1>1 DEF Inv, Committed, Versions, Events, Alike
<1>4. HandlerOK' /\ JobOK'
  BY DEF Inv, HandlerOK, JobOK, Alike, others, Versions
<1>5. VisitorOK'
  BY DEF Inv, VisitorOK, NoOlder, Alike, others
<1>6. ASSUME NEW a \in Authors \ {w} PROVE SaveOK(a)'
  BY <1>1 DEF Inv, SaveOK, Alike, Writers, Versions
<1>7. ASSUME NEW j \in Judges \ {w} PROVE ProjectionOK(j)'
  BY <1>1 DEF Inv, ProjectionOK, Alike, Writers, Events, others
<1>8. QED
  BY <1>2, <1>3, <1>4, <1>5, <1>6, <1>7

\* A save goes on, and is the only one.
LEMMA SaveStatement ==
  ASSUME Inv, NEW a \in Authors, Alike(a), saves' \in saves .. MaxSaves,
         UNCHANGED events, SaveOK(a)',
         \A b \in Authors \ {a} : pc[b] = "begin"
  PROVE  Inv'
<1>1. a \in Writers /\ a \notin Judges /\ events' \in events .. MaxEvents
  BY SubmissionStoreAssumption DEF Writers, Inv, Typed
<1>2. /\ Typed' /\ Committed' /\ HandlerOK' /\ JobOK' /\ VisitorOK'
      /\ \A b \in Authors \ {a} : SaveOK(b)'
      /\ \A j \in Judges \ {a} : ProjectionOK(j)'
  BY <1>1, OneStatement
<1>3. Alone(Authors)' /\ Alone(Judges)'
  BY <1>1 DEF Inv, Alone, Alike, Writers
<1>4. QED
  BY <1>1, <1>2, <1>3 DEF Inv

\* A projection goes on, and is the only one.
LEMMA ProjectionStatement ==
  ASSUME Inv, NEW j \in Judges, Alike(j), events' \in events .. MaxEvents,
         UNCHANGED saves, ProjectionOK(j)',
         \A i \in Judges \ {j} : pc[i] = "begin"
  PROVE  Inv'
<1>1. j \in Writers /\ j \notin Authors /\ saves' \in saves .. MaxSaves
  BY SubmissionStoreAssumption DEF Writers, Inv, Typed
<1>2. /\ Typed' /\ Committed' /\ HandlerOK' /\ JobOK' /\ VisitorOK'
      /\ \A a \in Authors \ {j} : SaveOK(a)'
      /\ \A i \in Judges \ {j} : ProjectionOK(i)'
  BY <1>1, OneStatement
<1>3. Alone(Authors)' /\ Alone(Judges)'
  BY <1>1 DEF Inv, Alone, Alike, Writers
<1>4. QED
  BY <1>1, <1>2, <1>3 DEF Inv

-----------------------------------------------------------------------------
\* PgProblemRepository::save.

LEMMA UpsertProblemKeeps ==
  ASSUME Inv, NEW a \in Authors, NEW draft \in Drafts, UpsertProblem(a, draft)
  PROVE  Inv'
<1> DEFINE version == Version(saves + 1, draft)
<1>1. a \in Writers /\ Typed
  BY DEF Writers, Inv
<1>2. /\ saves \in Nat /\ MaxSaves \in Nat /\ saves < MaxSaves /\ saves' = saves + 1
  BY <1>1, SubmissionStoreAssumption DEF UpsertProblem, Typed
<1>3. doing' = [doing EXCEPT ![a] = version] /\ doing'[a] = version
  BY <1>1 DEF UpsertProblem, Typed
<1>4. version \in Versions /\ version.id = saves + 1
  BY <1>2 DEF Version, Versions
<1> DEFINE contents == [table \in {"problems"} |-> version]
<1>5. Write(a, contents)
  BY <1>3 DEF UpsertProblem
<1>6. DOMAIN contents = {"problems"} /\ contents["problems"] = version
  OBVIOUS
<1> HIDE DEF version, contents
<1>7. /\ DOMAIN pending' = Writers
      /\ \A o \in Writers \ {a} : pending'[o] = pending[o]
      /\ DOMAIN pending'[a] = DOMAIN pending[a] \cup {"problems"}
      /\ pending'[a]["problems"] = version
      /\ UNCHANGED db
  BY <1>1, <1>5, <1>6, WrittenRows
<1>8. Alike(a)
  BY <1>1, <1>3, <1>7 DEF UpsertProblem, Alike, Typed
<1>9. SaveOK(a)'
  <2>1. pc'[a] = "delete" /\ DOMAIN pending'[a] = {"problems"}
    BY <1>1, <1>7 DEF UpsertProblem, Inv, Typed, SaveOK
  <2>2. db'["problems"].id < saves + 1
    BY <1>2, <1>7 DEF Inv, Committed, Versions
  <2>3. QED
    BY <1>2, <1>3, <1>4, <1>7, <2>1, <2>2 DEF SaveOK
<1>10. \A b \in Authors \ {a} : pc[b] = "begin"
  <2>1. \A b \in Authors \ {a} : "problems" \notin DOMAIN pending[b]
    BY DEF UpsertProblem, Unlocked, Writers
  <2>2. QED
    BY <1>1, <2>1 DEF Inv, SaveOK, Typed, Writers, ProblemTables
<1>11. saves' \in saves .. MaxSaves /\ UNCHANGED events
  BY <1>2 DEF UpsertProblem
<1>12. QED
  BY <1>8, <1>9, <1>10, <1>11, SaveStatement

LEMMA PartsWritten ==
  ASSUME Inv, NEW a \in Authors, NEW value, NEW next \in {"insert", "commit"},
         pc[a] # "begin", Write(a, [table \in Parts |-> value]),
         pc' = [pc EXCEPT ![a] = next],
         next = "commit" => value = doing[a],
         UNCHANGED <<doing, others, bounds>>
  PROVE  Inv'
<1> DEFINE contents == [table \in Parts |-> value]
<1>1. a \in Writers /\ Typed
  BY DEF Writers, Inv
<1>2. DOMAIN contents = {"limits", "testcases"}
      /\ \A t \in {"limits", "testcases"} : contents[t] = value
  BY DEF Parts
<1>3. /\ DOMAIN pending[a] \in {{"problems"}, ProblemTables}
      /\ pending[a]["problems"] = doing[a]
  BY <1>1 DEF Inv, SaveOK, Typed
<1>4. Write(a, contents)
  OBVIOUS
<1> HIDE DEF contents
<1>5. /\ DOMAIN pending' = Writers
      /\ \A o \in Writers \ {a} : pending'[o] = pending[o]
      /\ DOMAIN pending'[a] = DOMAIN pending[a] \cup {"limits", "testcases"}
      /\ \A t \in {"limits", "testcases"} : pending'[a][t] = value
      /\ \A t \in DOMAIN pending[a] \ {"limits", "testcases"} :
           pending'[a][t] = pending[a][t]
      /\ UNCHANGED db
  BY <1>1, <1>2, <1>4, WrittenRows
<1>6. /\ DOMAIN pending'[a] = ProblemTables
      /\ pending'[a]["problems"] = doing[a]
  BY <1>3, <1>5 DEF ProblemTables
<1>7. Alike(a)
  BY <1>1, <1>5 DEF Alike, Typed, bounds
<1>8. SaveOK(a)'
  <2>1. pc'[a] = next
    BY <1>1 DEF Typed
  <2>2. next = "commit" => \A table \in ProblemTables : pending'[a][table] = doing[a]
    BY <1>5, <1>6 DEF ProblemTables
  <2>3. /\ doing[a] \in Versions
        /\ db'["problems"].id < doing[a].id /\ doing[a].id <= saves
    BY <1>5 DEF Inv, SaveOK
  <2>4. QED
    BY <1>6, <2>1, <2>2, <2>3 DEF SaveOK, bounds
<1>9. \A b \in Authors \ {a} : pc[b] = "begin"
  BY DEF Inv, Alone
<1>10. saves' \in saves .. MaxSaves /\ UNCHANGED events
  BY <1>1, SubmissionStoreAssumption DEF Typed, bounds
<1>11. QED
  BY <1>7, <1>8, <1>9, <1>10, SaveStatement

LEMMA SaveKeeps ==
  ASSUME Inv, NEW a \in Authors, Save(a)
  PROVE  Inv'
<1>1. CASE DeleteParts(a)
  BY <1>1, PartsWritten DEF DeleteParts
<1>2. CASE InsertParts(a)
  BY <1>2, PartsWritten DEF InsertParts
<1>3. QED
  BY <1>1, <1>2, UpsertProblemKeeps DEF Save

-----------------------------------------------------------------------------
\* PgSubmissionRepository::apply_runtime_event.

LEMMA UpdateSubmissionKeeps ==
  ASSUME Inv, NEW j \in Judges, NEW status \in Statuses, UpdateSubmission(j, status)
  PROVE  Inv'
<1> DEFINE event == Event(events + 1, status)
<1>1. j \in Writers /\ Typed
  BY DEF Writers, Inv
<1>2. /\ events \in Nat /\ MaxEvents \in Nat /\ events < MaxEvents
      /\ events' = events + 1
  BY <1>1, SubmissionStoreAssumption DEF UpdateSubmission, Typed
<1>3. doing' = [doing EXCEPT ![j] = event] /\ doing'[j] = event
  BY <1>1 DEF UpdateSubmission, Typed
<1>4. event \in Events /\ event.id = events + 1 /\ event.status = status
  BY <1>2 DEF Event, Events
<1> DEFINE contents == [table \in {"submissions"} |-> event]
<1>5. Write(j, contents)
  BY <1>3 DEF UpdateSubmission
<1>6. DOMAIN contents = {"submissions"} /\ contents["submissions"] = event
  OBVIOUS
<1> HIDE DEF event, contents
<1>7. /\ DOMAIN pending' = Writers
      /\ \A o \in Writers \ {j} : pending'[o] = pending[o]
      /\ DOMAIN pending'[j] = DOMAIN pending[j] \cup {"submissions"}
      /\ pending'[j]["submissions"] = event
      /\ UNCHANGED db
  BY <1>1, <1>5, <1>6, WrittenRows
<1>8. Alike(j)
  BY <1>1, <1>3, <1>7 DEF UpdateSubmission, Alike, Typed
<1>9. ProjectionOK(j)'
  <2>1. /\ pc'[j] = IF status \in WithOutcome THEN "delete" ELSE "commit"
        /\ DOMAIN pending'[j] = {"submissions"}
    BY <1>1, <1>7 DEF UpdateSubmission, Inv, Typed, ProjectionOK
  <2>2. job' # Nothing
    BY DEF UpdateSubmission, others
  <2>3. db'["submissions"].id < events + 1
    <3>1. db["submissions"] # Nothing
      BY DEF UpdateSubmission, Inv, JobOK
    <3>2. db["submissions"] \in Events /\ db["submissions"].id <= events
      BY <3>1 DEF Inv, Committed
    <3>3. db["submissions"].id \in Nat
      BY <3>2 DEF Events
    <3>4. QED
      BY <1>2, <1>7, <3>2, <3>3
  <2>4. QED
    BY <1>2, <1>3, <1>4, <1>7, <2>1, <2>2, <2>3 DEF ProjectionOK
<1>10. \A i \in Judges \ {j} : pc[i] = "begin"
  <2>1. \A i \in Judges \ {j} : "submissions" \notin DOMAIN pending[i]
    BY DEF UpdateSubmission, Unlocked, Writers
  <2>2. QED
    BY <1>1, <2>1 DEF Inv, ProjectionOK, Typed, Writers
<1>11. events' \in events .. MaxEvents /\ UNCHANGED saves
  BY <1>2 DEF UpdateSubmission
<1>12. QED
  BY <1>8, <1>9, <1>10, <1>11, ProjectionStatement

LEMMA CasesWritten ==
  ASSUME Inv, NEW j \in Judges, NEW value, NEW next \in {"insert", "commit"},
         pc[j] \in {"delete", "insert"},
         Write(j, [table \in {"case_results"} |-> value]),
         pc' = [pc EXCEPT ![j] = next],
         next = "commit" => value = doing[j],
         UNCHANGED <<doing, others, bounds>>
  PROVE  Inv'
<1> DEFINE contents == [table \in {"case_results"} |-> value]
<1>1. j \in Writers /\ Typed
  BY DEF Writers, Inv
<1>2. DOMAIN contents = {"case_results"} /\ contents["case_results"] = value
  OBVIOUS
<1>3. /\ DOMAIN pending[j] \in {{"submissions"}, {"submissions", "case_results"}}
      /\ pending[j]["submissions"] = doing[j]
      /\ doing[j].status \in WithOutcome
  BY DEF Inv, ProjectionOK
<1>4. Write(j, contents)
  OBVIOUS
<1> HIDE DEF contents
<1>5. /\ DOMAIN pending' = Writers
      /\ \A o \in Writers \ {j} : pending'[o] = pending[o]
      /\ DOMAIN pending'[j] = DOMAIN pending[j] \cup {"case_results"}
      /\ pending'[j]["case_results"] = value
      /\ \A t \in DOMAIN pending[j] \ {"case_results"} : pending'[j][t] = pending[j][t]
      /\ UNCHANGED db
  BY <1>1, <1>2, <1>4, WrittenRows
<1>6. /\ DOMAIN pending'[j] = {"submissions", "case_results"}
      /\ pending'[j]["submissions"] = doing[j]
  BY <1>3, <1>5
<1>7. Alike(j)
  BY <1>1, <1>5 DEF Alike, Typed, bounds
<1>8. ProjectionOK(j)'
  <2>1. pc'[j] = next
    BY <1>1 DEF Typed
  <2>2. /\ job # Nothing /\ doing[j] \in Events
        /\ db'["submissions"].id < doing[j].id /\ doing[j].id <= events
    BY <1>5 DEF Inv, ProjectionOK
  <2>3. QED
    BY <1>3, <1>5, <1>6, <2>1, <2>2 DEF ProjectionOK, bounds, others
<1>9. \A i \in Judges \ {j} : pc[i] = "begin"
  BY DEF Inv, Alone
<1>10. events' \in events .. MaxEvents /\ UNCHANGED saves
  BY <1>1, SubmissionStoreAssumption DEF Typed, bounds
<1>11. QED
  BY <1>7, <1>8, <1>9, <1>10, ProjectionStatement

LEMMA ApplyRuntimeEventKeeps ==
  ASSUME Inv, NEW j \in Judges, ApplyRuntimeEvent(j)
  PROVE  Inv'
<1>1. CASE DeleteCases(j)
  BY <1>1, CasesWritten DEF DeleteCases
<1>2. CASE InsertCases(j)
  BY <1>2, CasesWritten DEF InsertCases
<1>3. QED
  BY <1>1, <1>2, UpdateSubmissionKeeps DEF ApplyRuntimeEvent

-----------------------------------------------------------------------------
\* The end of a transaction.

LEMMA RollbackKeeps ==
  ASSUME Inv, NEW w \in Writers, Rollback(w)
  PROVE  Inv'
<1>1. Typed
  BY DEF Inv
<1>2. /\ pending' = [pending EXCEPT ![w] = NoWrites]
      /\ pc' = [pc EXCEPT ![w] = "begin"]
      /\ UNCHANGED <<db, doing, others, saves, events>>
  BY DEF Rollback
<1>3. Typed'
  BY <1>1, <1>2, SubmissionStoreAssumption DEF Typed, Rollback
<1>4. pc'[w] = "begin" /\ DOMAIN pending'[w] = {}
  BY <1>1, <1>2 DEF Typed, NoWrites
<1>5. \A o \in Writers \ {w} : pc'[o] = pc[o] /\ pending'[o] = pending[o]
  BY <1>1, <1>2 DEF Typed
<1>6. \A a \in Authors : SaveOK(a)'
  BY <1>2, <1>4, <1>5 DEF Inv, SaveOK, Writers
<1>7. \A j \in Judges : ProjectionOK(j)'
  BY <1>2, <1>4, <1>5 DEF Inv, ProjectionOK, Writers, others
<1>8. Alone(Authors)' /\ Alone(Judges)'
  BY <1>4, <1>5 DEF Inv, Alone, Writers
<1>9. Committed' /\ HandlerOK' /\ JobOK' /\ VisitorOK'
  BY <1>2 DEF Inv, Committed, HandlerOK, JobOK, VisitorOK, NoOlder, others
<1>10. QED
  BY <1>3, <1>6, <1>7, <1>8, <1>9 DEF Inv

LEMMA CommittedRows ==
  ASSUME Inv, NEW w \in Writers, Commit(w)
  PROVE  /\ Typed'
         /\ DOMAIN db' = Tables \cup DOMAIN pending[w]
         /\ \A t \in DOMAIN pending[w] : db'[t] = pending[w][t]
         /\ \A t \in Tables \ DOMAIN pending[w] : db'[t] = db[t]
         /\ pc[w] = "commit"
         /\ pc'[w] = "begin" /\ DOMAIN pending'[w] = {}
         /\ \A o \in Writers \ {w} : pc'[o] = pc[o] /\ pending'[o] = pending[o]
         /\ UNCHANGED <<doing, others, bounds>>
<1>1. Typed /\ DOMAIN db = Tables
  BY DEF Inv, Committed
<1>2. /\ db' = Overwritten(db, pending[w])
      /\ pending' = [pending EXCEPT ![w] = NoWrites]
      /\ pc' = [pc EXCEPT ![w] = "begin"]
      /\ UNCHANGED <<doing, others, bounds>>
      /\ pc[w] = "commit"
  BY DEF Commit
<1>3. /\ DOMAIN db' = Tables \cup DOMAIN pending[w]
      /\ \A t \in DOMAIN pending[w] : db'[t] = pending[w][t]
      /\ \A t \in Tables \ DOMAIN pending[w] : db'[t] = db[t]
  BY <1>1, <1>2 DEF Overwritten
<1>4. Typed'
  BY <1>1, <1>2 DEF Typed, bounds
<1>5. /\ pc'[w] = "begin" /\ DOMAIN pending'[w] = {}
      /\ \A o \in Writers \ {w} : pc'[o] = pc[o] /\ pending'[o] = pending[o]
  BY <1>1, <1>2 DEF Typed, NoWrites
<1>6. QED
  BY <1>2, <1>3, <1>4, <1>5

LEMMA CommitSaveKeeps ==
  ASSUME Inv, NEW a \in Authors, Commit(a)
  PROVE  Inv'
<1> DEFINE version == doing[a]
<1>1. a \in Writers /\ a \notin Judges
  BY SubmissionStoreAssumption DEF Writers
<1>2. /\ Typed'
      /\ pc[a] = "commit"
      /\ pc'[a] = "begin" /\ DOMAIN pending'[a] = {}
      /\ \A o \in Writers \ {a} : pc'[o] = pc[o] /\ pending'[o] = pending[o]
      /\ UNCHANGED <<doing, others, bounds>>
  BY <1>1, CommittedRows
<1>3. /\ DOMAIN pending[a] = ProblemTables
      /\ \A t \in ProblemTables : pending[a][t] = version
      /\ version \in Versions /\ version.id <= saves
      /\ db["problems"].id < version.id
  BY <1>2 DEF Inv, SaveOK
<1>4. /\ DOMAIN db' = Tables
      /\ \A t \in ProblemTables : db'[t] = version
      /\ db'["submissions"] = db["submissions"]
      /\ db'["case_results"] = db["case_results"]
  BY <1>1, <1>3, CommittedRows DEF ProblemTables, Tables
<1> HIDE DEF version
<1>5. Committed'
  BY <1>2, <1>3, <1>4 DEF Inv, Committed, ProblemTables, bounds
<1>6. \A b \in Authors : SaveOK(b)'
  <2>1. \A b \in Authors \ {a} : pc[b] = "begin"
    BY <1>2 DEF Inv, Alone
  <2>2. QED
    BY <1>2, <2>1 DEF Inv, SaveOK, Writers
<1>7. \A j \in Judges : ProjectionOK(j)'
  BY <1>1, <1>2, <1>4 DEF Inv, ProjectionOK, Writers, others, bounds
<1>8. Alone(Authors)' /\ Alone(Judges)'
  BY <1>1, <1>2 DEF Inv, Alone, Writers
<1>9. HandlerOK'
  <2>1. db["problems"] \in Versions /\ db'["problems"] = version
    BY <1>4 DEF Inv, Committed, ProblemTables
  <2>2. QED
    BY <1>2, <1>3, <2>1, SubmissionStoreAssumption DEF Inv, HandlerOK, Versions, others
<1>10. JobOK' /\ VisitorOK'
  BY <1>2, <1>4 DEF Inv, JobOK, VisitorOK, NoOlder, others
<1>11. QED
  BY <1>2, <1>5, <1>6, <1>7, <1>8, <1>9, <1>10 DEF Inv

LEMMA CommitProjectionKeeps ==
  ASSUME Inv, NEW j \in Judges, Commit(j)
  PROVE  Inv'
<1> DEFINE event == doing[j]
<1>1. j \in Writers /\ j \notin Authors
  BY SubmissionStoreAssumption DEF Writers
<1>2. /\ Typed'
      /\ pc[j] = "commit"
      /\ pc'[j] = "begin" /\ DOMAIN pending'[j] = {}
      /\ \A o \in Writers \ {j} : pc'[o] = pc[o] /\ pending'[o] = pending[o]
      /\ UNCHANGED <<doing, others, bounds>>
  BY <1>1, CommittedRows
<1>3. /\ event \in Events /\ event.id <= events /\ job # Nothing
      /\ db["submissions"].id < event.id
      /\ pending[j]["submissions"] = event
      /\ IF event.status \in WithOutcome
         THEN /\ DOMAIN pending[j] = {"submissions", "case_results"}
              /\ pending[j]["case_results"] = event
         ELSE DOMAIN pending[j] = {"submissions"}
  BY <1>2 DEF Inv, ProjectionOK
<1>4. /\ DOMAIN db' = Tables
      /\ \A t \in ProblemTables : db'[t] = db[t]
      /\ db'["submissions"] = event
      /\ db'["case_results"] = IF event.status \in WithOutcome THEN event
                               ELSE db["case_results"]
  BY <1>1, <1>3, CommittedRows DEF ProblemTables, Tables
<1>5. db["submissions"] \in Events /\ event # Nothing
  BY <1>3, EventIsSomething DEF Inv, JobOK, Committed
<1> HIDE DEF event
<1>6. Committed'
  BY <1>2, <1>3, <1>4 DEF Inv, Committed, ProblemTables, bounds
<1>7. \A i \in Judges : ProjectionOK(i)'
  <2>1. \A i \in Judges \ {j} : pc[i] = "begin"
    BY <1>2 DEF Inv, Alone
  <2>2. QED
    BY <1>2, <2>1 DEF Inv, ProjectionOK, Writers
<1>8. \A a \in Authors : SaveOK(a)'
  BY <1>1, <1>2, <1>4 DEF Inv, SaveOK, Writers, ProblemTables, bounds
<1>9. Alone(Authors)' /\ Alone(Judges)'
  BY <1>1, <1>2 DEF Inv, Alone, Writers
<1>10. HandlerOK' /\ JobOK'
  BY <1>2, <1>4, <1>5 DEF Inv, HandlerOK, JobOK, ProblemTables, others
<1>11. VisitorOK'
  BY <1>2, <1>3, <1>4, <1>5 DEF Inv, VisitorOK, NoOlder, Events, others
<1>12. QED
  BY <1>2, <1>6, <1>7, <1>8, <1>9, <1>10, <1>11 DEF Inv

-----------------------------------------------------------------------------
\* The handlers.

\* The transactions do not see the reader of a problem or of a submission.
LEMMA TransactionsKept ==
  ASSUME Inv, UNCHANGED <<db, pending, pc, doing, job, bounds>>
  PROVE  /\ Typed' /\ Committed' /\ Alone(Authors)' /\ Alone(Judges)'
         /\ \A a \in Authors : SaveOK(a)'
         /\ \A j \in Judges : ProjectionOK(j)'
  BY DEF Inv, Typed, Committed, SaveOK, ProjectionOK, Alone, bounds

LEMMA ReadProblemKeeps ==
  ASSUME Inv, ReadProblem
  PROVE  Inv'
<1>1. UNCHANGED <<db, pending, pc, doing, job, visitor, bounds>>
  BY DEF ReadProblem
<1>2. /\ handler'.at = AfterTable(handler.at)
      /\ handler'.language = handler.language
      /\ handler'.read = [handler.read EXCEPT ![handler.at] = db[handler.at]]
      /\ DOMAIN handler' = DOMAIN handler
      /\ handler' = [at |-> handler'.at, language |-> handler'.language,
                     read |-> handler'.read]
  BY DEF ReadProblem, Inv, HandlerOK
<1>3. handler.at \in ProblemTables
  BY DEF ReadProblem, ProblemTables
<1>4. /\ handler.read \in [ProblemTables -> Versions \cup {Nothing}]
      /\ handler.language \in Languages
  BY DEF Inv, HandlerOK
<1>5. db[handler.at] = db["problems"] /\ db["problems"] \in Versions
      /\ db["problems"].id \in Nat
  BY <1>3, SubmissionStoreAssumption DEF Inv, Committed, Versions
<1>6. HandlerOK'
  <2>1. AfterTable(handler.at) \in ProblemTables \cup {"read"}
    BY <1>3 DEF AfterTable, ProblemTables
  <2>2. handler'.read \in [ProblemTables -> Versions \cup {Nothing}]
    BY <1>2, <1>3, <1>4, <1>5
  <2>3. handler' \in [at : ProblemTables \cup {"read", "rejected", "refused", "dispatched"},
                      language : Languages,
                      read : [ProblemTables -> Versions \cup {Nothing}]]
    BY <1>2, <1>4, <2>1, <2>2
  <2>4. CASE handler.at = "problems"
    BY <1>1, <1>2, <1>4, <1>5, <2>3, <2>4 DEF HandlerOK, AfterTable, ProblemTables
  <2>5. CASE handler.at = "limits"
    BY <1>1, <1>2, <1>4, <1>5, <2>3, <2>5 DEF Inv, HandlerOK, AfterTable, ProblemTables
  <2>6. CASE handler.at = "testcases"
    BY <1>1, <1>2, <1>4, <1>5, <2>3, <2>6 DEF Inv, HandlerOK, AfterTable, ProblemTables
  <2>7. QED
    BY <1>3, <2>4, <2>5, <2>6 DEF ProblemTables
<1>7. JobOK' /\ VisitorOK'
  BY <1>1, <1>3 DEF Inv, JobOK, VisitorOK, NoOlder, ProblemTables
<1>8. QED
  BY <1>1, <1>6, <1>7, TransactionsKept DEF Inv

LEMMA InsertSubmissionKeeps ==
  ASSUME Inv, InsertSubmission
  PROVE  Inv'
<1>1. /\ UNCHANGED <<pending, pc, doing, job, visitor, bounds>>
      /\ handler.at = "read" /\ db["submissions"] = Nothing
  BY DEF InsertSubmission
<1>2. CASE MayJudge(handler.read, handler.language)
  <2> DEFINE row == Event(0, "pending")
  <2>1. row \in Events /\ row.id = 0 /\ row.status \notin WithOutcome
    BY DEF Event, Events, Statuses, WithOutcome
  <2>2. /\ DOMAIN db' = Tables
        /\ db'["submissions"] = row
        /\ db'["case_results"] = db["case_results"]
        /\ \A t \in ProblemTables : db'[t] = db[t]
        /\ handler' = [handler EXCEPT !.at = "problems", !.read = Empty]
    BY <1>2 DEF InsertSubmission, Inv, Committed, Tables, ProblemTables
  <2> HIDE DEF row
  <2>3. job = Nothing /\ \A j \in Judges : pc[j] = "begin"
    BY <1>1 DEF Inv, JobOK, ProjectionOK
  <2>4. Typed' /\ Alone(Authors)' /\ Alone(Judges)'
    BY <1>1 DEF Inv, Typed, Alone, bounds
  <2>5. Committed'
    BY <1>1, <2>1, <2>2, <2>4 DEF Inv, Committed, ProblemTables, Typed, bounds
  <2>6. \A a \in Authors : SaveOK(a)'
    BY <1>1, <2>2 DEF Inv, SaveOK, ProblemTables, bounds
  <2>7. \A j \in Judges : ProjectionOK(j)'
    BY <1>1, <2>3 DEF Inv, ProjectionOK
  <2>8. HandlerOK'
    BY <2>2 DEF Inv, HandlerOK, Empty, ProblemTables
  <2>9. JobOK' /\ VisitorOK'
    BY <1>1, <2>2, <2>3 DEF Inv, JobOK, VisitorOK, NoOlder
  <2>10. QED
    BY <2>4, <2>5, <2>6, <2>7, <2>8, <2>9 DEF Inv
<1>3. CASE ~MayJudge(handler.read, handler.language)
  <2>1. handler' = [handler EXCEPT !.at = "rejected"] /\ UNCHANGED db
    BY <1>3 DEF InsertSubmission
  <2>2. HandlerOK'
    BY <2>1 DEF Inv, HandlerOK, ProblemTables
  <2>3. JobOK' /\ VisitorOK'
    BY <1>1, <2>1 DEF Inv, HandlerOK, JobOK, VisitorOK, NoOlder
  <2>4. QED
    BY <1>1, <2>1, <2>2, <2>3, TransactionsKept DEF Inv
<1>4. QED
  BY <1>2, <1>3

LEMMA DispatchKeeps ==
  ASSUME Inv, Dispatch
  PROVE  Inv'
<1>1. /\ UNCHANGED <<db, pending, pc, doing, visitor, bounds>>
      /\ handler.at = "read" /\ db["submissions"] # Nothing
  BY DEF Dispatch
<1>2. VisitorOK'
  BY <1>1 DEF Inv, VisitorOK, NoOlder
<1>3. CASE MayJudge(handler.read, handler.language)
  <2>1. job' = handler.read /\ handler' = [handler EXCEPT !.at = "dispatched"]
    BY <1>3 DEF Dispatch
  <2>2. HandlerOK'
    BY <2>1 DEF Inv, HandlerOK, ProblemTables
  <2>3. JobOK'
    BY <1>1, <1>3, <2>1 DEF Inv, HandlerOK, JobOK, MayJudge
  <2>4. Typed' /\ Committed' /\ Alone(Authors)' /\ Alone(Judges)'
    BY <1>1 DEF Inv, Typed, Committed, Alone, bounds
  <2>5. \A a \in Authors : SaveOK(a)'
    BY <1>1 DEF Inv, SaveOK, bounds
  <2>6. \A j \in Judges : pc[j] = "begin"
    BY <1>1 DEF Inv, JobOK, ProjectionOK
  <2>7. QED
    BY <1>1, <1>2, <2>1, <2>2, <2>3, <2>4, <2>5, <2>6 DEF Inv, ProjectionOK, bounds
<1>4. CASE ~MayJudge(handler.read, handler.language)
  <2>1. UNCHANGED job /\ handler' = [handler EXCEPT !.at = "refused"]
    BY <1>4 DEF Dispatch
  <2>2. HandlerOK' /\ JobOK'
    BY <1>1, <2>1 DEF Inv, HandlerOK, JobOK, ProblemTables
  <2>3. QED
    BY <1>1, <1>2, <2>1, <2>2, TransactionsKept DEF Inv
<1>5. QED
  BY <1>3, <1>4

LEMMA GetSubmissionKeeps ==
  ASSUME Inv, GetSubmission
  PROVE  Inv'
<1>1. UNCHANGED <<db, pending, pc, doing, handler, job, bounds>>
  BY DEF GetSubmission, ReadFirst, ReadSecond, Leave
<1>2. HandlerOK' /\ JobOK'
  BY <1>1 DEF Inv, HandlerOK, JobOK
<1>3. VisitorOK'
  <2>1. CASE ReadFirst
    <3>1. /\ visitor'.at = "second"
          /\ visitor'.submissions = db["submissions"]
          /\ DOMAIN visitor' = DOMAIN visitor
          /\ db["submissions"] # Nothing
      BY <2>1 DEF ReadFirst, FirstTable, Inv, VisitorOK
    <3>2. db["submissions"] \in Events
      BY <3>1 DEF Inv, Committed
    <3>3. NoOlder(db["case_results"], db["submissions"])
      BY <3>1, <3>2 DEF Inv, Committed, NoOlder, Events
    <3>4. QED
      BY <1>1, <3>1, <3>2, <3>3 DEF Inv, VisitorOK, Events
  <2>2. CASE ReadSecond
    <3>1. /\ visitor.at = "second"
          /\ visitor'.at = "shown"
          /\ visitor'.submissions = visitor.submissions
          /\ visitor'.case_results = db["case_results"]
          /\ DOMAIN visitor' = DOMAIN visitor
      BY <2>2 DEF ReadSecond, SecondTable, FirstTable, Inv, VisitorOK
    <3>2. QED
      BY <3>1 DEF Inv, VisitorOK
  <2>3. CASE Leave
    BY <2>3 DEF Leave, NotRead, VisitorOK
  <2>4. QED
    BY <2>1, <2>2, <2>3 DEF GetSubmission
<1>4. QED
  BY <1>1, <1>2, <1>3, TransactionsKept DEF Inv

-----------------------------------------------------------------------------
LEMMA InvNext == Inv /\ [Next]_vars => Inv'
<1> SUFFICES ASSUME Inv, [Next]_vars PROVE Inv'
  OBVIOUS
<1>1. ASSUME NEW a \in Authors, Save(a) PROVE Inv'
  BY <1>1, SaveKeeps
<1>2. ASSUME NEW j \in Judges, ApplyRuntimeEvent(j) PROVE Inv'
  BY <1>2, ApplyRuntimeEventKeeps
<1>3. ASSUME NEW w \in Writers, Commit(w) \/ Rollback(w) PROVE Inv'
  BY <1>3, CommitSaveKeeps, CommitProjectionKeeps, RollbackKeeps DEF Writers
<1>4. CASE CreateSubmission
  BY <1>4, ReadProblemKeeps, InsertSubmissionKeeps, DispatchKeeps DEF CreateSubmission
<1>5. CASE GetSubmission
  BY <1>5, GetSubmissionKeeps
<1>6. CASE UNCHANGED vars
  <2>1. UNCHANGED <<db, pending, pc, doing, handler, job, visitor, bounds>>
    BY <1>6 DEF vars, bounds
  <2>2. HandlerOK' /\ JobOK' /\ VisitorOK'
    BY <2>1 DEF Inv, HandlerOK, JobOK, VisitorOK, NoOlder
  <2>3. QED
    BY <2>1, <2>2, TransactionsKept DEF Inv
<1>7. QED
  BY <1>1, <1>2, <1>3, <1>4, <1>5, <1>6 DEF Next

LEMMA InvAlways == Spec => []Inv
  BY InvInit, InvNext, PTL DEF Spec

\* What is committed is one save of the problem, and the case results of the
\* event that last had an outcome.
THEOREM CommittedTogether == Spec => []StoreInvariant
  BY InvAlways, InvImplies, PTL

\* A detail that mixes two commits mixes them in one direction: case results are
\* no older than the outcome next to them, and the parts of a job are read in the
\* order of the saves.
THEOREM ReadInOrder == Spec => []DetailsAreOrdered
  BY InvAlways, InvImplies, PTL

=============================================================================
