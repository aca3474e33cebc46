---------------------------- MODULE DailySummary ----------------------------
(* The summary of a project's developer day: getToday() of the daily summary  *)
(* service. A request reads the day's facts, outside any transaction, and     *)
(* then finds or writes the summary of these facts in a serializable one.     *)
EXTENDS Integers, Sequences, FiniteSets

CONSTANTS
    Readers,        \* requests at work at a time
    DayFacts,       \* what the facts of the day can be
    MaxTurns        \* bound on changes of the facts

ASSUME SummaryAssumption == DayFacts # {} /\ MaxTurns \in Nat

VARIABLES
    facts,          \* commits, events, run and state of the day
    summaries,      \* DailyDevelopmentSummary rows, in the order of their commits
    reader,         \* the request each slot is in
    turns

summaryVars == <<facts, summaries, reader, turns>>

AnyFacts == CHOOSE f \in DayFacts : TRUE

NoReader == [pc |-> "idle", facts |-> AnyFacts, seen |-> 0, row |-> 0]

SummaryInit ==
    /\ facts \in DayFacts
    /\ summaries = <<>>
    /\ reader = [r \in Readers |-> NoReader]
    /\ turns = 0

-----------------------------------------------------------------------------
(* getToday() *)

EndReading(r) == reader' = [reader EXCEPT ![r] = NoReader]

AnswerSummary(r, n) ==
    reader' = [reader EXCEPT ![r] = [@ EXCEPT !.pc = "answer", !.row = n]]

\* The facts are read in one query and fingerprinted.
ReadFacts(r) ==
    /\ reader[r].pc = "idle"
    /\ reader' = [reader EXCEPT ![r] = [NoReader EXCEPT !.pc = "begin", !.facts = facts]]
    /\ UNCHANGED <<facts, summaries, turns>>

\* Rows of the day with this input fingerprint.
SameFacts(r) == {n \in DOMAIN summaries : summaries[n].facts = reader[r].facts}

\* The transaction takes its snapshot; a summary of the same facts ends it.
FindSummary(r) ==
    /\ reader[r].pc = "begin"
    /\ \/ \E n \in SameFacts(r) : AnswerSummary(r, n)
       \/ /\ SameFacts(r) = {}
          /\ reader' = [reader EXCEPT ![r] =
                [@ EXCEPT !.pc = "write", !.seen = Len(summaries)]]
    /\ UNCHANGED <<facts, summaries, turns>>

\* Slip: only the fingerprint is unique.
NewFactsOnly(r) == SameFacts(r) = {}

\* The latest version, and with it the next one's number, is as the snapshot
\* had it, and nothing conflicts with the unique indexes on the day's versions,
\* fingerprints and current row.
SummaryInsertable(r) == reader[r].seen = Len(summaries)

NextSummaryVersion(r) == reader[r].seen + 1

\* The earlier rows cease to be current and the new one is written. The rows
\* the update finds are those of the snapshot.
WriteSummary(r) ==
    /\ reader[r].pc = "write"
    /\ SummaryInsertable(r)
    /\ summaries' = Append(
          [n \in DOMAIN summaries |->
             [summaries[n] EXCEPT !.isCurrent = @ /\ n > reader[r].seen]],
          [facts |-> reader[r].facts, version |-> NextSummaryVersion(r),
           isCurrent |-> TRUE])
    /\ AnswerSummary(r, Len(summaries) + 1)
    /\ UNCHANGED <<facts, turns>>

\* A transaction may fail at any statement, as one that lost a race must.
WriteSummaryFails(r) ==
    /\ reader[r].pc \in {"begin", "write"}
    /\ reader' = [reader EXCEPT ![r].pc = "caught"]
    /\ UNCHANGED <<facts, summaries, turns>>

Concurrent(r) == SameFacts(r)

\* After an error: a summary of the same facts written by another request, or
\* the error.
FindConcurrent(r) ==
    /\ reader[r].pc = "caught"
    /\ \/ \E n \in Concurrent(r) : AnswerSummary(r, n)
       \/ Concurrent(r) = {} /\ EndReading(r)
    /\ UNCHANGED <<facts, summaries, turns>>

AnswerReader(r) ==
    /\ reader[r].pc = "answer"
    /\ EndReading(r)
    /\ UNCHANGED <<facts, summaries, turns>>

\* The day goes on: commits, events, runs and states change, or change back.
FactsChange(f) ==
    /\ turns < MaxTurns
    /\ f # facts
    /\ facts' = f
    /\ turns' = turns + 1
    /\ UNCHANGED <<summaries, reader>>

SummaryNext ==
    \/ \E r \in Readers :
         \/ ReadFacts(r) \/ FindSummary(r) \/ WriteSummary(r)
         \/ WriteSummaryFails(r) \/ FindConcurrent(r) \/ AnswerReader(r)
    \/ \E f \in DayFacts : FactsChange(f)

SummarySpec == SummaryInit /\ [][SummaryNext]_summaryVars

-----------------------------------------------------------------------------
(* Properties *)

\* Type correctness, with the indexes on the rows: one row per facts.
SummaryTypeOK ==
    /\ facts \in DayFacts
    /\ summaries \in Seq([facts : DayFacts, version : Nat \ {0}, isCurrent : BOOLEAN])
    /\ \A r \in Readers : reader[r].row \in 0 .. Len(summaries)
    /\ turns \in 0 .. MaxTurns

\* The summaries of a day are versions one to n, each of different facts, and
\* the last is the only current one, however requests overlapped.
CurrentSummaryIsLatest ==
    \A n \in DOMAIN summaries :
        /\ summaries[n].version = n
        /\ summaries[n].isCurrent <=> n = Len(summaries)
        /\ \A m \in DOMAIN summaries : summaries[m].facts = summaries[n].facts => m = n

\* A request that lost the race, or failed, is still answered with the summary
\* of the facts it read.
AnsweredFromItsFacts ==
    \A r \in Readers : reader[r].pc = "answer" =>
        summaries[reader[r].row].facts = reader[r].facts

SummaryRecords == INSTANCE KeyedRecords WITH
    rows <- [n \in DOMAIN summaries |->
               [key |-> summaries[n].facts, subject |-> "day",
                version |-> summaries[n].version]],
    current <- {n \in DOMAIN summaries : summaries[n].isCurrent},
    answers <- [f \in DayFacts |->
                  {reader[r].row : r \in {s \in Readers : /\ reader[s].pc = "answer"
                                                       /\ reader[s].facts = f}}]

\* Summaries match their facts, and they are recorded as KeyedRecords states: one
\* row per facts of the day, never rewritten, one of them current, which never
\* returns once facts have changed, and requests answered with the row of the facts
\* they read.
SummariesImplementRecords ==
    /\ [](CurrentSummaryIsLatest /\ AnsweredFromItsFacts)
    /\ SummaryRecords!RecordsSpec
=============================================================================
