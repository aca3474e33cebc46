-------------------------- MODULE DashboardProofs --------------------------
(***************************************************************************)
(* Theorems about what a user does and sees: the summary of a day, the day *)
(* it is of, the feedback on its opportunities, the connections of the     *)
(* user's projects and the state they are shown in, for every value of the *)
(* constants of DailySummary, DeveloperDay, Feedback, Connections and      *)
(* ProjectMemory.                                                          *)
(***************************************************************************)
EXTENDS DailySummary, DeveloperDay, Feedback, Connections, ProjectMemory,
        FiniteSetTheorems, WellFoundedInduction, TLAPS

-----------------------------------------------------------------------------
(* DailySummary                                                              *)

SummaryRow == [facts : DayFacts, version : Nat \ {0}, isCurrent : BOOLEAN]

Reader == [pc : {"idle", "begin", "write", "caught", "answer"},
           facts : DayFacts, seen : Nat, row : Nat]

\* What a request knows: the rows of its snapshot are rows still, none of them
\* is of its facts when it writes, and the row it answers with is.
Knows(r) ==
    /\ reader[r].pc = "write" =>
          /\ reader[r].seen <= Len(summaries)
          /\ \A n \in 1 .. reader[r].seen : summaries[n].facts # reader[r].facts
    /\ reader[r].pc = "answer" =>
          /\ reader[r].row \in 1 .. Len(summaries)
          /\ summaries[reader[r].row].facts = reader[r].facts

SummaryTypes ==
    /\ facts \in DayFacts
    /\ summaries \in Seq(SummaryRow)
    /\ reader \in [Readers -> Reader]

\* The inductive invariant.
SummaryInv == SummaryTypes /\ CurrentSummaryIsLatest /\ \A r \in Readers : Knows(r)

LEMMA AnyFactsType == AnyFacts \in DayFacts
BY SummaryAssumption DEF AnyFacts

LEMMA NoReaderType == NoReader \in Reader /\ NoReader.pc = "idle"
BY AnyFactsType DEF NoReader, Reader

\* A request with a snapshot of n rows, and one with row n to answer.
LEMMA ReaderUpdates ==
    ASSUME NEW x \in Reader, NEW n \in Nat
    PROVE  LET writing == [x EXCEPT !.pc = "write", !.seen = n]
               answering == [x EXCEPT !.pc = "answer", !.row = n]
           IN  /\ writing \in Reader /\ writing.pc = "write"
               /\ writing.seen = n /\ writing.facts = x.facts
               /\ answering \in Reader /\ answering.pc = "answer"
               /\ answering.row = n /\ answering.facts = x.facts
BY DEF Reader

LEMMA SummaryBegins == SummaryInit => SummaryInv
BY AnyFactsType, NoReaderType
DEF SummaryInit, SummaryInv, SummaryTypes, CurrentSummaryIsLatest, Knows

\* A step of a request that writes no row keeps what the others know.
LEMMA ReaderMoves ==
    ASSUME SummaryInv, NEW r \in Readers, NEW new \in Reader,
           reader' = [reader EXCEPT ![r] = new],
           UNCHANGED <<facts, summaries>>,
           new.pc = "write" =>
              /\ new.seen <= Len(summaries)
              /\ \A n \in 1 .. new.seen : summaries[n].facts # new.facts,
           new.pc = "answer" =>
              /\ new.row \in 1 .. Len(summaries)
              /\ summaries[new.row].facts = new.facts
    PROVE  SummaryInv'
<1>1. SummaryTypes'
  BY DEF SummaryInv, SummaryTypes
<1>2. CurrentSummaryIsLatest'
  BY DEF SummaryInv, CurrentSummaryIsLatest
<1>3. ASSUME NEW q \in Readers PROVE Knows(q)'
  <2>1. CASE q = r
    BY <2>1 DEF SummaryInv, SummaryTypes, Knows
  <2>2. CASE q # r
    BY <2>2 DEF SummaryInv, SummaryTypes, Knows
  <2> QED BY <2>1, <2>2
<1> QED BY <1>1, <1>2, <1>3 DEF SummaryInv

LEMMA ReadingEnds ==
    ASSUME SummaryInv, NEW r \in Readers, EndReading(r), UNCHANGED <<facts, summaries>>
    PROVE  SummaryInv'
BY ReaderMoves, NoReaderType DEF EndReading

\* A request is answered with a row of its facts.
LEMMA SummaryAnswered ==
    ASSUME SummaryInv, NEW r \in Readers, NEW n \in SameFacts(r), AnswerSummary(r, n),
           UNCHANGED <<facts, summaries>>
    PROVE  SummaryInv'
<1> DEFINE new == [reader[r] EXCEPT !.pc = "answer", !.row = n]
<1>1. /\ n \in 1 .. Len(summaries) /\ n \in Nat
      /\ summaries[n].facts = reader[r].facts
      /\ reader[r] \in Reader
  BY DEF SameFacts, SummaryInv, SummaryTypes
<1>2. new \in Reader /\ new.pc = "answer" /\ new.row = n /\ new.facts = reader[r].facts
  BY <1>1 DEF Reader
<1>3. reader' = [reader EXCEPT ![r] = new]
  BY DEF AnswerSummary
<1> HIDE DEF new
<1> QED BY <1>1, <1>2, <1>3, ReaderMoves

\* The rows after a write: those before it, none current, and the new one.
LEMMA WrittenRows ==
    ASSUME SummaryInv, NEW r \in Readers, WriteSummary(r)
    PROVE  /\ summaries' \in Seq(SummaryRow)
           /\ Len(summaries') = Len(summaries) + 1
           /\ \A n \in 1 .. Len(summaries) :
                 /\ summaries'[n].facts = summaries[n].facts
                 /\ summaries'[n].version = summaries[n].version
                 /\ ~summaries'[n].isCurrent
           /\ summaries'[Len(summaries) + 1] =
                 [facts |-> reader[r].facts, version |-> Len(summaries) + 1,
                  isCurrent |-> TRUE]
<1> DEFINE old == [n \in DOMAIN summaries |->
                     [summaries[n] EXCEPT !.isCurrent = @ /\ n > reader[r].seen]]
           row == [facts |-> reader[r].facts, version |-> NextSummaryVersion(r),
                   isCurrent |-> TRUE]
<1>1. reader[r].seen = Len(summaries) /\ summaries' = Append(old, row)
  BY DEF WriteSummary, SummaryInsertable
<1>2. \A n \in 1 .. Len(summaries) : summaries[n] \in SummaryRow
  BY DEF SummaryInv, SummaryTypes
<1>3. \A n \in 1 .. Len(summaries) :
         /\ old[n] \in SummaryRow
         /\ old[n].facts = summaries[n].facts
         /\ old[n].version = summaries[n].version
         /\ ~old[n].isCurrent
  <2> SUFFICES ASSUME NEW n \in 1 .. Len(summaries)
               PROVE  /\ old[n] \in SummaryRow
                      /\ old[n].facts = summaries[n].facts
                      /\ old[n].version = summaries[n].version
                      /\ ~old[n].isCurrent
    OBVIOUS
  <2>1. ~(n > reader[r].seen)
    BY <1>1 DEF SummaryInv, SummaryTypes
  <2>2. old[n] = [summaries[n] EXCEPT !.isCurrent = @ /\ n > reader[r].seen]
    <3>1. n \in DOMAIN summaries
      BY DEF SummaryInv, SummaryTypes
    <3> QED BY <3>1
  <2>3. old[n] = [summaries[n] EXCEPT !.isCurrent = FALSE]
    BY <2>1, <2>2, <1>2 DEF SummaryRow
  <2> QED BY <2>3, <1>2, ZenonT(30) DEF SummaryRow
<1>4. old \in Seq(SummaryRow) /\ Len(old) = Len(summaries)
  <2>1. Len(summaries) \in Nat /\ DOMAIN summaries = 1 .. Len(summaries)
    BY DEF SummaryInv, SummaryTypes
  <2>2. old \in [1 .. Len(summaries) -> SummaryRow]
    BY <1>3, <2>1
  <2> HIDE DEF old
  <2> QED BY <2>1, <2>2
<1>5. row \in SummaryRow /\ row.version = Len(summaries) + 1
  BY <1>1 DEF NextSummaryVersion, SummaryInv, SummaryTypes, Reader, SummaryRow
<1> HIDE DEF old
<1>6. /\ Append(old, row) \in Seq(SummaryRow)
      /\ Len(Append(old, row)) = Len(old) + 1
      /\ \A n \in 1 .. Len(old) : Append(old, row)[n] = old[n]
      /\ Append(old, row)[Len(old) + 1] = row
  BY <1>4, <1>5
<1> QED BY <1>1, <1>3, <1>4, <1>5, <1>6

LEMMA SummaryWritten ==
    ASSUME SummaryInv, NEW r \in Readers, WriteSummary(r)
    PROVE  SummaryInv'
<1> DEFINE k == Len(summaries)
<1>1. k \in Nat
  BY DEF SummaryInv, SummaryTypes
<1>2. /\ reader[r] \in Reader
      /\ reader[r].seen = k
      /\ \A n \in 1 .. k : summaries[n].facts # reader[r].facts
  BY DEF WriteSummary, SummaryInsertable, SummaryInv, SummaryTypes, Knows
<1>3. reader' = [reader EXCEPT ![r] = [@ EXCEPT !.pc = "answer", !.row = k + 1]]
      /\ UNCHANGED facts
  BY DEF WriteSummary, AnswerSummary
<1>4. /\ summaries' \in Seq(SummaryRow)
      /\ Len(summaries') = k + 1
      /\ \A n \in 1 .. k :
            /\ summaries'[n].facts = summaries[n].facts
            /\ summaries'[n].version = summaries[n].version
            /\ ~summaries'[n].isCurrent
      /\ summaries'[k + 1] = [facts |-> reader[r].facts, version |-> k + 1,
                              isCurrent |-> TRUE]
  BY WrittenRows
<1>5. DOMAIN summaries = 1 .. k
  BY DEF SummaryInv, SummaryTypes
<1> HIDE DEF k
<1>6. \A n \in 1 .. k + 1 : n \in 1 .. k \/ n = k + 1
  BY <1>1
<1>7. SummaryTypes'
  <2>1. [reader[r] EXCEPT !.pc = "answer", !.row = k + 1] \in Reader
    BY <1>1, <1>2, k + 1 \in Nat, ReaderUpdates
  <2> QED BY <2>1, <1>3, <1>4 DEF SummaryInv, SummaryTypes
<1>8. CurrentSummaryIsLatest'
  <2>1. DOMAIN summaries' = 1 .. k + 1
    BY <1>1, <1>4
  <2>2. \A n \in 1 .. k : summaries[n].version = n
    BY <1>5 DEF SummaryInv, CurrentSummaryIsLatest
  <2>3. ASSUME NEW n \in 1 .. k + 1
        PROVE  /\ summaries'[n].version = n
               /\ summaries'[n].isCurrent <=> n = k + 1
    <3>1. CASE n \in 1 .. k
      BY <1>1, <1>4, <2>2, <3>1
    <3>2. CASE n = k + 1
      BY <1>4, <3>2
    <3> QED BY <1>6, <3>1, <3>2
  <2>4. \A m, n \in 1 .. k : summaries[m].facts = summaries[n].facts => m = n
    BY <1>5 DEF SummaryInv, CurrentSummaryIsLatest
  <2>5. ASSUME NEW m \in 1 .. k + 1, NEW n \in 1 .. k + 1,
               summaries'[m].facts = summaries'[n].facts
        PROVE  m = n
    <3>1. CASE m \in 1 .. k /\ n \in 1 .. k
      BY <1>4, <2>4, <2>5, <3>1
    <3>2. CASE m \in 1 .. k /\ n = k + 1
      BY <1>2, <1>4, <2>5, <3>2
    <3>3. CASE m = k + 1 /\ n \in 1 .. k
      BY <1>2, <1>4, <2>5, <3>3
    <3> QED BY <1>6, <3>1, <3>2, <3>3
  <2> QED BY <1>4, <2>1, <2>3, <2>5 DEF CurrentSummaryIsLatest
<1>9. ASSUME NEW q \in Readers PROVE Knows(q)'
  <2>1. CASE q = r
    <3>1. /\ reader'[q].pc = "answer"
          /\ reader'[q].row = k + 1
          /\ reader'[q].facts = reader[r].facts
      BY <1>2, <1>3, <2>1 DEF SummaryInv, SummaryTypes, Reader
    <3>2. k + 1 \in 1 .. Len(summaries')
      BY <1>1, <1>4
    <3> QED BY <3>1, <3>2, <1>4 DEF Knows
  <2>2. CASE q # r
    <3>1. reader'[q] = reader[q] /\ reader[q] \in Reader
      BY <1>3, <2>2 DEF SummaryInv, SummaryTypes
    <3>2. Knows(q)
      BY DEF SummaryInv
    <3>3. ASSUME reader[q].pc = "write"
          PROVE  /\ reader[q].seen <= k + 1
                 /\ \A n \in 1 .. reader[q].seen : summaries'[n].facts # reader[q].facts
      <4>1. reader[q].seen \in Nat /\ reader[q].seen <= k
        BY <3>1, <3>2, <3>3 DEF Knows, Reader, k
      <4>2. \A n \in 1 .. reader[q].seen : n \in 1 .. k
        BY <1>1, <4>1
      <4> QED BY <1>1, <1>4, <3>2, <3>3, <4>1, <4>2 DEF Knows
    <3>4. ASSUME reader[q].pc = "answer"
          PROVE  /\ reader[q].row \in 1 .. k + 1
                 /\ summaries'[reader[q].row].facts = reader[q].facts
      <4>1. reader[q].row \in 1 .. k /\ summaries[reader[q].row].facts = reader[q].facts
        BY <3>2, <3>4 DEF Knows, k
      <4> QED BY <1>1, <1>4, <4>1
    <3> QED BY <1>4, <3>1, <3>3, <3>4 DEF Knows
  <2> QED BY <2>1, <2>2
<1> QED BY <1>7, <1>8, <1>9 DEF SummaryInv

LEMMA SummaryStep == SummaryInv /\ [SummaryNext]_summaryVars => SummaryInv'
<1> SUFFICES ASSUME SummaryInv, [SummaryNext]_summaryVars PROVE SummaryInv'
  OBVIOUS
<1>1. ASSUME NEW r \in Readers, ReadFacts(r) PROVE SummaryInv'
  <2> DEFINE new == [NoReader EXCEPT !.pc = "begin", !.facts = facts]
  <2>1. new \in Reader /\ new.pc = "begin"
    BY NoReaderType DEF SummaryInv, SummaryTypes, NoReader, Reader
  <2>2. reader' = [reader EXCEPT ![r] = new] /\ UNCHANGED <<facts, summaries>>
    BY <1>1 DEF ReadFacts
  <2> HIDE DEF new
  <2> QED BY <2>1, <2>2, ReaderMoves
<1>2. ASSUME NEW r \in Readers, FindSummary(r) PROVE SummaryInv'
  <2>1. CASE \E n \in SameFacts(r) : AnswerSummary(r, n)
    BY <1>2, <2>1, SummaryAnswered DEF FindSummary
  <2>2. CASE SameFacts(r) = {} /\ ~\E n \in SameFacts(r) : AnswerSummary(r, n)
    <3> DEFINE new == [reader[r] EXCEPT !.pc = "write", !.seen = Len(summaries)]
    <3>1. reader' = [reader EXCEPT ![r] = new] /\ UNCHANGED <<facts, summaries>>
      BY <1>2, <2>2 DEF FindSummary
    <3>2. Len(summaries) \in Nat /\ reader[r] \in Reader
      BY DEF SummaryInv, SummaryTypes
    <3>3. new \in Reader /\ new.pc = "write" /\ new.seen = Len(summaries)
          /\ new.facts = reader[r].facts
      BY <3>2, ReaderUpdates
    <3>4. \A n \in 1 .. Len(summaries) : summaries[n].facts # reader[r].facts
      BY <2>2 DEF SameFacts, SummaryInv, SummaryTypes
    <3> HIDE DEF new
    <3>5. /\ new.seen <= Len(summaries)
          /\ \A n \in 1 .. new.seen : summaries[n].facts # new.facts
      BY <3>3, <3>4, <3>2
    <3>6. new.pc # "answer"
      BY <3>3
    <3> QED BY <3>1, <3>3, <3>5, <3>6, ReaderMoves
  <2> QED BY <1>2, <2>1, <2>2 DEF FindSummary
<1>3. ASSUME NEW r \in Readers, WriteSummary(r) PROVE SummaryInv'
  BY <1>3, SummaryWritten
<1>4. ASSUME NEW r \in Readers, WriteSummaryFails(r) PROVE SummaryInv'
  <2> DEFINE new == [reader[r] EXCEPT !.pc = "caught"]
  <2>1. new \in Reader /\ new.pc = "caught"
    BY DEF SummaryInv, SummaryTypes, Reader
  <2>2. reader' = [reader EXCEPT ![r] = new] /\ UNCHANGED <<facts, summaries>>
    BY <1>4 DEF WriteSummaryFails
  <2> HIDE DEF new
  <2> QED BY <2>1, <2>2, ReaderMoves
<1>5. ASSUME NEW r \in Readers, FindConcurrent(r) PROVE SummaryInv'
  BY <1>5, SummaryAnswered, ReadingEnds DEF FindConcurrent, Concurrent
<1>6. ASSUME NEW r \in Readers, AnswerReader(r) PROVE SummaryInv'
  BY <1>6, ReadingEnds DEF AnswerReader
<1>7. ASSUME NEW f \in DayFacts, FactsChange(f) PROVE SummaryInv'
  BY <1>7 DEF FactsChange, SummaryInv, SummaryTypes, CurrentSummaryIsLatest, Knows
<1>8. CASE UNCHANGED summaryVars
  BY <1>8 DEF summaryVars, SummaryInv, SummaryTypes, CurrentSummaryIsLatest, Knows
<1> QED BY <1>1, <1>2, <1>3, <1>4, <1>5, <1>6, <1>7, <1>8 DEF SummaryNext

\* Whatever requests overlap, and however the day's facts change, its summaries
\* are versions one to n of different facts, the last of them current, and each
\* request is answered with a summary of the facts it read.
THEOREM SummariesFollowFacts ==
    SummarySpec => [](CurrentSummaryIsLatest /\ AnsweredFromItsFacts)
<1>1. SummaryInv => CurrentSummaryIsLatest /\ AnsweredFromItsFacts
  BY DEF SummaryInv, Knows, AnsweredFromItsFacts
<1> QED BY <1>1, SummaryBegins, SummaryStep, PTL DEF SummarySpec

\* A request's row is one there is, or none; facts change a bounded number of times.
LEMMA RowsStep ==
    ASSUME SummaryInv, SummaryInv', SummaryTypeOK, [SummaryNext]_summaryVars
    PROVE  SummaryTypeOK'
<1>1. /\ reader \in [Readers -> Reader]
      /\ \A r \in Readers : reader[r] \in Reader /\ reader[r].row \in 0 .. Len(summaries)
      /\ summaries \in Seq(SummaryRow) /\ Len(summaries) \in Nat
  BY DEF SummaryInv, SummaryTypes, SummaryTypeOK
<1>2. facts' \in DayFacts /\ summaries' \in Seq(SummaryRow) /\ Len(summaries') \in Nat
  BY DEF SummaryInv, SummaryTypes
<1>3. turns' \in 0 .. MaxTurns
  <2>1. ASSUME NEW r \in Readers,
               \/ ReadFacts(r) \/ FindSummary(r) \/ WriteSummary(r)
               \/ WriteSummaryFails(r) \/ FindConcurrent(r) \/ AnswerReader(r)
        PROVE  turns' = turns
    BY <2>1 DEF ReadFacts, FindSummary, WriteSummary, WriteSummaryFails,
                FindConcurrent, AnswerReader
  <2>2. ASSUME NEW f \in DayFacts, FactsChange(f)
        PROVE  turns < MaxTurns /\ turns' = turns + 1
    BY <2>2 DEF FactsChange
  <2>3. CASE UNCHANGED summaryVars
    BY <2>3 DEF summaryVars, SummaryTypeOK
  <2>4. CASE \E r \in Readers :
               \/ ReadFacts(r) \/ FindSummary(r) \/ WriteSummary(r)
               \/ WriteSummaryFails(r) \/ FindConcurrent(r) \/ AnswerReader(r)
    BY <2>1, <2>4 DEF SummaryTypeOK
  <2>5. CASE \E f \in DayFacts : FactsChange(f)
    BY <2>2, <2>5, SummaryAssumption DEF SummaryTypeOK
  <2> QED BY <2>3, <2>4, <2>5 DEF SummaryNext
<1> DEFINE Rows == \A r \in Readers : reader'[r].row \in 0 .. Len(summaries')
<1>4. ASSUME NEW r \in Readers, NEW new, new.row \in 0 .. Len(summaries'),
             reader' = [reader EXCEPT ![r] = new],
             Len(summaries') >= Len(summaries)
      PROVE  Rows
  <2> SUFFICES ASSUME NEW s \in Readers PROVE reader'[s].row \in 0 .. Len(summaries')
    OBVIOUS
  <2>1. reader'[s] = new \/ reader'[s] = reader[s]
    BY <1>1, <1>4
  <2> QED BY <1>1, <1>2, <1>4, <2>1
<1>14. ASSUME NEW r \in Readers, NEW new, new.row \in 0 .. Len(summaries),
             reader' = [reader EXCEPT ![r] = new], UNCHANGED summaries
      PROVE  Rows
  <2>1. Len(summaries') >= Len(summaries) /\ new.row \in 0 .. Len(summaries')
    BY <1>1, <1>14
  <2> HIDE DEF Rows
  <2> QED BY <1>4, <1>14, <2>1
<1>5. ASSUME UNCHANGED <<reader, summaries>> PROVE Rows
  BY <1>1, <1>5
<1>6. ASSUME NEW r \in Readers, NEW n \in 0 .. Len(summaries'), AnswerSummary(r, n),
             Len(summaries') >= Len(summaries)
      PROVE  Rows
  <2> DEFINE new == [reader[r] EXCEPT !.pc = "answer", !.row = n]
  <2>1. reader' = [reader EXCEPT ![r] = new]
    BY <1>6 DEF AnswerSummary
  <2>2. new.row = n
    BY <1>1 DEF Reader
  <2> HIDE DEF new, Rows
  <2> QED BY <1>4, <1>6, <2>1, <2>2
<1>7. ASSUME NEW r \in Readers, EndReading(r), UNCHANGED summaries PROVE Rows
  <2>1. NoReader.row \in 0 .. Len(summaries)
    BY <1>1 DEF NoReader
  <2> HIDE DEF Rows
  <2> QED BY <1>7, <1>14, <2>1 DEF EndReading
<1>8. \A r \in Readers : SameFacts(r) \subseteq 0 .. Len(summaries)
  BY <1>1 DEF SameFacts
<1>9. ASSUME NEW r \in Readers, ReadFacts(r) PROVE Rows
  <2> DEFINE new == [NoReader EXCEPT !.pc = "begin", !.facts = facts]
  <2>1. reader' = [reader EXCEPT ![r] = new] /\ UNCHANGED summaries
    BY <1>9 DEF ReadFacts
  <2>2. new.row \in 0 .. Len(summaries)
    BY <1>1 DEF NoReader
  <2> HIDE DEF new, Rows
  <2> QED BY <1>14, <2>1, <2>2
<1>10. ASSUME NEW r \in Readers, FindSummary(r) PROVE Rows
  <2>1. UNCHANGED summaries
    BY <1>10 DEF FindSummary
  <2>2. CASE \E n \in SameFacts(r) : AnswerSummary(r, n)
    <3> HIDE DEF Rows
    <3> QED BY <1>1, <1>6, <1>8, <2>1, <2>2
  <2>3. CASE reader' = [reader EXCEPT ![r] =
                          [@ EXCEPT !.pc = "write", !.seen = Len(summaries)]]
    <3> DEFINE new == [reader[r] EXCEPT !.pc = "write", !.seen = Len(summaries)]
    <3>1. reader' = [reader EXCEPT ![r] = new]
      BY <2>3
    <3>2. new.row = reader[r].row
      BY <1>1 DEF Reader
    <3>3. new.row \in 0 .. Len(summaries)
      BY <1>1, <3>2
    <3> HIDE DEF new, Rows
    <3> QED BY <1>14, <2>1, <3>1, <3>3
  <2> QED BY <1>10, <2>2, <2>3 DEF FindSummary
<1>11. ASSUME NEW r \in Readers, WriteSummary(r) PROVE Rows
  <2>1. Len(summaries') = Len(summaries) + 1
    BY <1>11, WrittenRows
  <2>2. AnswerSummary(r, Len(summaries) + 1)
    BY <1>11 DEF WriteSummary
  <2> HIDE DEF Rows
  <2> QED BY <1>1, <1>6, <2>1, <2>2
<1>12. ASSUME NEW r \in Readers, WriteSummaryFails(r) PROVE Rows
  <2> DEFINE new == [reader[r] EXCEPT !.pc = "caught"]
  <2>1. reader' = [reader EXCEPT ![r] = new] /\ UNCHANGED summaries
    BY <1>12 DEF WriteSummaryFails
  <2>2. new.row = reader[r].row
    BY <1>1 DEF Reader
  <2>3. new.row \in 0 .. Len(summaries)
    BY <1>1, <2>2
  <2> HIDE DEF new, Rows
  <2> QED BY <1>14, <2>1, <2>3
<1>13. ASSUME NEW r \in Readers, FindConcurrent(r) \/ AnswerReader(r) PROVE Rows
  <2>1. UNCHANGED summaries
    BY <1>13 DEF FindConcurrent, AnswerReader
  <2> HIDE DEF Rows
  <2> QED BY <1>1, <1>6, <1>7, <1>8, <1>13, <2>1 DEF FindConcurrent, AnswerReader, Concurrent
<1>15. Rows
  <2> HIDE DEF Rows
  <2> QED BY <1>5, <1>9, <1>10, <1>11, <1>12, <1>13
          DEF SummaryNext, FactsChange, summaryVars
<1> QED BY <1>2, <1>3, <1>15 DEF SummaryTypeOK, SummaryRow

\* A request answers a row there is, whatever was written meanwhile.
THEOREM SummaryTypeCorrect == SummarySpec => []SummaryTypeOK
<1>1. SummaryInit => SummaryTypeOK
  <2> SUFFICES ASSUME SummaryInit PROVE SummaryTypeOK
    OBVIOUS
  <2>1. \A r \in Readers : reader[r].row = 0
    BY DEF SummaryInit, NoReader
  <2> QED BY <2>1, SummaryAssumption DEF SummaryInit, SummaryTypeOK
<1>2. SummaryInv /\ SummaryTypeOK /\ [SummaryNext]_summaryVars
        => SummaryInv' /\ SummaryTypeOK'
  BY SummaryStep, RowsStep
<1> QED BY <1>1, <1>2, SummaryBegins, PTL DEF SummarySpec

-----------------------------------------------------------------------------
(* Summaries are records *)

LEMMA SummariesStay ==
    ASSUME UNCHANGED summaries
    PROVE  SummaryRecords!WriteRows /\ SummaryRecords!GiveWay
BY DEF SummaryRecords!WriteRows, SummaryRecords!GiveWay, SummaryRecords!Written

\* A write adds a row of facts that no row is of, and the rows before it give way.
LEMMA SummaryRecorded ==
    ASSUME SummaryInv, SummaryInv', NEW r \in Readers, WriteSummary(r)
    PROVE  SummaryRecords!WriteRows /\ SummaryRecords!GiveWay
<1> DEFINE k == Len(summaries)
<1>1. /\ k \in Nat
      /\ DOMAIN summaries = 1 .. k /\ DOMAIN summaries' = 1 .. k + 1
  <2>1. Len(summaries') = k + 1
    BY WrittenRows
  <2>2. summaries \in Seq(SummaryRow) /\ summaries' \in Seq(SummaryRow)
    BY DEF SummaryInv, SummaryTypes
  <2> QED BY <2>1, <2>2
<1>2. \A n \in 1 .. k : /\ summaries'[n].facts = summaries[n].facts
                        /\ summaries'[n].version = summaries[n].version
  BY WrittenRows
<1>3. \A n \in 1 .. k + 1 :
         /\ \A m \in 1 .. k + 1 : summaries'[m].facts = summaries'[n].facts => m = n
         /\ summaries'[n].isCurrent => n = k + 1
  BY <1>1, WrittenRows DEF SummaryInv, CurrentSummaryIsLatest
<1> HIDE DEF k
<1>4. SummaryRecords!Written = {k + 1}
  BY <1>1 DEF SummaryRecords!Written
<1>5. SummaryRecords!WriteRows
  BY <1>1, <1>2, <1>3, <1>4 DEF SummaryRecords!WriteRows
<1>6. SummaryRecords!GiveWay
  BY <1>1, <1>3, <1>4 DEF SummaryRecords!GiveWay
<1> QED BY <1>5, <1>6

\* A request that is answered has a row of the facts it read.
LEMMA SummariesAnswered ==
    ASSUME SummaryInv'
    PROVE  SummaryRecords!AnswerCallers
BY DEF SummaryInv, SummaryTypes, Knows, SummaryRecords!AnswerCallers

LEMMA RecordsSummaries ==
    SummaryInv /\ SummaryInv' /\ [SummaryNext]_summaryVars => SummaryRecords!RecordsNext
<1> SUFFICES ASSUME SummaryInv, SummaryInv', [SummaryNext]_summaryVars
             PROVE  SummaryRecords!RecordsNext
  OBVIOUS
<1>1. UNCHANGED summaries \/ \E r \in Readers : WriteSummary(r)
  BY DEF SummaryNext, summaryVars, ReadFacts, FindSummary, WriteSummaryFails,
         FindConcurrent, AnswerReader, FactsChange
<1>2. SummaryRecords!WriteRows /\ SummaryRecords!GiveWay
  BY <1>1, SummariesStay, SummaryRecorded
<1> QED BY <1>2, SummariesAnswered DEF SummaryRecords!RecordsNext

\* Summaries match their facts and are recorded as KeyedRecords states, whatever
\* requests overlap and however the facts of the day change, or change back.
THEOREM SummariesAreRecords == SummarySpec => SummariesImplementRecords
<1>1. SummaryInit => SummaryRecords!RecordsInit
  BY DEF SummaryInit, NoReader, SummaryRecords!RecordsInit
<1> QED BY <1>1, SummaryBegins, SummaryStep, SummariesFollowFacts, RecordsSummaries, PTL
        DEF SummarySpec, SummariesImplementRecords, SummaryRecords!RecordsSpec

\* A summary that gave way to one of later facts is never current again, not even
\* when the facts of the day change back.
THEOREM SummariesStayFinal == SummarySpec => SummaryRecords!AnswersAreFinal
BY SummariesAreRecords, SummaryRecords!AnswersStayFinal, PTL
   DEF SummariesImplementRecords

-----------------------------------------------------------------------------
(* DeveloperDay                                                              *)

LEMMA ZoneTypes ==
    ASSUME zone \in Zones
    PROVE  /\ zone.before \in Int /\ zone.after \in Int /\ zone.at \in Int
           /\ -DayUnits <= zone.before /\ zone.before <= DayUnits
           /\ -DayUnits <= zone.after /\ zone.after <= DayUnits
           /\ zone.after - zone.before \in {-1, 0, 1}
           /\ DayUnits \in Int /\ DayUnits >= 1 /\ MaxNow \in Nat
<1>1. /\ {zone.before, zone.after} \subseteq -DayUnits .. DayUnits
      /\ zone.after - zone.before \in {-1, 0, 1}
      /\ zone.at \in Int
      /\ DayUnits \in Nat \ {0} /\ MaxNow \in Nat
  BY DayAssumption
<1> QED BY <1>1

\* The bounds of a calendar day, and where the next begins.
LEMMA CalendarDay ==
    ASSUME NEW D \in Nat \ {0}, NEW x \in Int
    PROVE  /\ x \div D \in Int
           /\ (x \div D) * D <= x
           /\ x < (x \div D) * D + D
OBVIOUS

LEMMA DayAfter ==
    ASSUME NEW D \in Nat \ {0}, NEW d \in Int
    PROVE  /\ d * D \in Int
           /\ (d + 1) * D = d * D + D
           /\ (d - 1) * D = d * D - D
           /\ \A c \in Int : c < d => c * D + D <= d * D
<1>1. d * D \in Int /\ (d + 1) * D = d * D + D /\ (d - 1) * D = d * D - D
  OBVIOUS
<1>2. ASSUME NEW c \in Int, c < d
      PROVE  c * D + D <= d * D
  <2>1. d - 1 - c \in Nat /\ (d - 1 - c) * D \in Nat
    BY <1>2
  <2>2. (d - 1 - c) * D = d * D - D - c * D
    OBVIOUS
  <2> QED BY <2>1, <2>2
<1> QED BY <1>1, <1>2

\* What three corrections of a guess come to: the target at one of the offsets,
\* and a midnight when there is one.
LEMMA ThreeCorrections ==
    ASSUME zone \in Zones, NEW target \in Int
    PROVE  LET x == Corrected(target, Corrected(target, Corrected(target, target)))
           IN  /\ x \in {target - zone.before, target - zone.after}
               /\ (\E t \in Int : Local(t) = target) => Local(x) = target
<1> DEFINE p == target - zone.before
           q == target - zone.after
<1>1. zone.before \in Int /\ zone.after \in Int /\ zone.at \in Int
  BY ZoneTypes
<1>2. ASSUME NEW x \in Int
      PROVE  Corrected(target, x) = IF x < zone.at THEN p ELSE q
  BY <1>1, <1>2 DEF Corrected, Local
<1>3. p \in Int /\ q \in Int
  BY <1>1
<1>4. ASSUME NEW t \in Int, Local(t) = target
      PROVE  p < zone.at \/ q >= zone.at
  BY <1>1, <1>4 DEF Local
<1>5. /\ p < zone.at => Local(p) = target
      /\ q >= zone.at => Local(q) = target
  BY <1>1 DEF Local
<1> DEFINE g1 == Corrected(target, target)
           g2 == Corrected(target, g1)
           g3 == Corrected(target, g2)
<1>6. g1 \in {p, q}
  BY <1>2
<1> HIDE DEF p, q, g1
<1>7. g2 = (IF g1 < zone.at THEN p ELSE q)
  BY <1>2, <1>3, <1>6
<1> HIDE DEF g2
<1>8. g3 = (IF g2 < zone.at THEN p ELSE q)
  BY <1>2, <1>3, <1>6, <1>7
<1> HIDE DEF g3
<1>9. g3 \in {p, q}
  BY <1>8
<1>10. ASSUME p < zone.at \/ q >= zone.at
       PROVE  (g3 = p /\ p < zone.at) \/ (g3 = q /\ q >= zone.at)
  BY <1>1, <1>3, <1>6, <1>7, <1>8, <1>10
<1>11. (\E t \in Int : Local(t) = target) => Local(g3) = target
  BY <1>4, <1>5, <1>10
<1> QED BY <1>9, <1>11 DEF p, q, g1, g2, g3

LEMMA Midnight ==
    ASSUME zone \in Zones, NEW d \in Int
    PROVE  /\ MidnightUtc(d) \in Int
           /\ MidnightUtc(d) \in {d * DayUnits - zone.before,
                                  d * DayUnits - zone.after}
           /\ (\E t \in Int : Local(t) = d * DayUnits) =>
                 Local(MidnightUtc(d)) = d * DayUnits
<1>1. d * DayUnits \in Int
  BY ZoneTypes
<1>2. zone.before \in Int /\ zone.after \in Int
  BY ZoneTypes
<1> QED BY <1>1, <1>2, ThreeCorrections DEF MidnightUtc

\* A day has its midnights at one of the two instants that are looked at: one
\* before and one after the change of the clocks.
LEMMA MidnightsAre ==
    ASSUME zone \in Zones, NEW d \in Int
    PROVE  MidnightsOf(d) = {t \in Int : Local(t) = d * DayUnits}
<1> DEFINE T == d * DayUnits
<1>1. T \in Int
  BY ZoneTypes, DayAfter, DayAssumption
<1>2. MidnightsOf(d) = {t \in {T - zone.before, T - zone.after} : Local(t) = T}
  BY DEF MidnightsOf
<1> HIDE DEF T
<1>3. ASSUME NEW t \in Int, Local(t) = T
      PROVE  t \in {T - zone.before, T - zone.after}
  BY <1>1, <1>3, ZoneTypes DEF Local
<1>4. {T - zone.before, T - zone.after} \subseteq Int
  BY <1>1, ZoneTypes
<1> QED BY <1>2, <1>3, <1>4 DEF T

\* Later days begin later, or at the same instant.
LEMMA LaterDay ==
    ASSUME zone \in Zones, NEW c \in Int, NEW d \in Int, c < d
    PROVE  /\ MidnightUtc(c) <= MidnightUtc(d)
           /\ d = c + 1 => MidnightUtc(d) - MidnightUtc(c)
                              \in DayUnits - 1 .. DayUnits + 1
<1>1. /\ c * DayUnits \in Int /\ d * DayUnits \in Int
      /\ c * DayUnits + DayUnits <= d * DayUnits
      /\ d = c + 1 => d * DayUnits = c * DayUnits + DayUnits
  BY DayAfter, DayAssumption
<1> DEFINE C == c * DayUnits
           T == d * DayUnits
<1>2. /\ MidnightUtc(c) \in {C - zone.before, C - zone.after}
      /\ MidnightUtc(d) \in {T - zone.before, T - zone.after}
  BY Midnight
<1>3. /\ C \in Int /\ T \in Int /\ C + DayUnits <= T
      /\ d = c + 1 => T = C + DayUnits
  BY <1>1
<1> HIDE DEF C, T
<1>4. /\ zone.before \in Int /\ zone.after \in Int
      /\ \/ zone.after = zone.before \/ zone.after = zone.before + 1
         \/ zone.after = zone.before - 1
      /\ DayUnits \in Int /\ DayUnits >= 1
  BY ZoneTypes
<1> QED BY <1>2, <1>3, <1>4

\* The calendar day an instant is in.
LEMMA DayOfInstant ==
    ASSUME zone \in Zones, NEW t \in Int
    PROVE  /\ LocalDay(t) \in Int /\ Local(t) \in Int
           /\ LocalDay(t) * DayUnits <= Local(t)
           /\ Local(t) < LocalDay(t) * DayUnits + DayUnits
<1>1. Local(t) \in Int
  BY ZoneTypes DEF Local
<1>2. DayUnits \in Nat \ {0}
  BY DayAssumption
<1> QED BY <1>1, <1>2, CalendarDay DEF LocalDay

-----------------------------------------------------------------------------
(* The windows asked for                                                     *)

\* Each window is that of the instant it was asked at.
DayInv ==
    /\ zone \in Zones
    /\ now \in 0 .. MaxNow
    /\ today.at \in Int /\ earlier.at \in Int
    /\ earlier.at <= today.at /\ today.at <= now
    /\ today = DayWindow(today.at)
    /\ earlier = DayWindow(earlier.at)

\* The window of an instant in a time zone: DayWindow depends on nothing else.
WindowIn(z, t) ==
    LET local(x)    == x + IF x < z.at THEN z.before ELSE z.after
        fix(x, g)   == g + (x - local(g))
        midnight(d) == fix(d * DayUnits,
                           fix(d * DayUnits, fix(d * DayUnits, d * DayUnits)))
        day         == local(t) \div DayUnits
    IN  [at |-> t, start |-> midnight(day), end |-> midnight(day + 1)]

LEMMA WindowOfZone == \A t : DayWindow(t) = WindowIn(zone, t)
BY Zenon DEF DayWindow, WindowIn, MidnightUtc, Corrected, LocalDay, Local

\* What is asked of a time zone is the same as long as the zone is.
LEMMA SameZone ==
    ASSUME zone' = zone
    PROVE  /\ DayWindow(today.at)' = DayWindow(today'.at)
           /\ DayWindow(earlier.at)' = DayWindow(earlier'.at)
<1>1. /\ DayWindow(today.at)' = WindowIn(zone', today'.at)
      /\ DayWindow(earlier.at)' = WindowIn(zone', earlier'.at)
  BY Zenon DEF DayWindow, WindowIn, MidnightUtc, Corrected, LocalDay, Local
<1>2. /\ WindowIn(zone', today'.at) = WindowIn(zone, today'.at)
      /\ WindowIn(zone', earlier'.at) = WindowIn(zone, earlier'.at)
  BY Zenon
<1> QED BY <1>1, <1>2, WindowOfZone, Zenon

LEMMA DayInvHolds == DaySpec => []DayInv
<1>1. DayInit => DayInv
  BY DayAssumption DEF DayInit, DayInv, DayWindow
<1>2. DayInv /\ [DayNext]_dayVars => DayInv'
  <2> SUFFICES ASSUME DayInv, [DayNext]_dayVars
               PROVE  DayInv'
    OBVIOUS
  <2> USE DEF DayInv
  <2>1. MaxNow \in Nat
    BY DayAssumption
  <2>2. CASE AskForDay
    <3>1. /\ zone' = zone /\ now' = now
          /\ today' = DayWindow(now) /\ earlier' = today
      BY <2>2 DEF AskForDay
    <3>2. DayWindow(now).at = now
      BY DEF DayWindow
    <3>3. today'.at = now /\ earlier'.at = today.at
      BY <3>1, <3>2
    <3>4. /\ today' = DayWindow(today'.at)
          /\ earlier' = DayWindow(earlier'.at)
      BY <3>1, <3>3
    <3>5. /\ today' = DayWindow(today.at)'
          /\ earlier' = DayWindow(earlier.at)'
      BY <3>1, <3>4, SameZone
    <3> QED BY <2>1, <3>1, <3>3, <3>5
  <2>3. CASE TimePasses
    <3>1. /\ zone' = zone /\ today' = today /\ earlier' = earlier
          /\ now' \in 0 .. MaxNow /\ now' >= now
      BY <2>1, <2>3 DEF TimePasses
    <3>2. /\ today' = DayWindow(today.at)'
          /\ earlier' = DayWindow(earlier.at)'
      <4>1. /\ today' = DayWindow(today'.at)
            /\ earlier' = DayWindow(earlier'.at)
        BY <3>1
      <4> QED BY <3>1, <4>1, SameZone
    <3> QED BY <2>1, <3>1, <3>2
  <2>4. CASE UNCHANGED dayVars
    <3>1. /\ zone' = zone /\ now' = now /\ today' = today /\ earlier' = earlier
      BY <2>4 DEF dayVars
    <3>2. /\ today' = DayWindow(today'.at)
          /\ earlier' = DayWindow(earlier'.at)
      BY <3>1
    <3>3. /\ today' = DayWindow(today.at)'
          /\ earlier' = DayWindow(earlier.at)'
      BY <3>1, <3>2, SameZone
    <3> QED BY <3>1, <3>3
  <2> QED BY <2>2, <2>3, <2>4 DEF DayNext
<1> QED BY <1>1, <1>2, PTL DEF DaySpec

\* A day lasts a shift longer or shorter than its units at most.
LEMMA DaysHaveTheirLength == DayInv => DayTypeOK
<1> SUFFICES ASSUME DayInv PROVE DayTypeOK
  OBVIOUS
<1> USE DEF DayInv
<1>1. LocalDay(today.at) \in Int
  BY DayOfInstant
<1>2. /\ today.start = MidnightUtc(LocalDay(today.at))
      /\ today.end = MidnightUtc(LocalDay(today.at) + 1)
  BY DEF DayWindow
<1>3. today.end - today.start \in DayUnits - 1 .. DayUnits + 1
  BY <1>1, <1>2, LaterDay
<1>4. today.at \in earlier.at .. now
  BY DayAssumption
<1> QED BY <1>3, <1>4 DEF DayTypeOK

LEMMA MidnightStarts == DayInv => StartsAtMidnight
<1> SUFFICES ASSUME DayInv, MidnightsOf(LocalDay(today.at)) # {}
             PROVE  today.start \in MidnightsOf(LocalDay(today.at))
  BY DEF StartsAtMidnight
<1>1. LocalDay(today.at) \in Int /\ zone \in Zones
  BY DayOfInstant DEF DayInv
<1>2. today.start = MidnightUtc(LocalDay(today.at))
  BY DEF DayInv, DayWindow
<1> QED BY <1>1, <1>2, Midnight, MidnightsAre

LEMMA DayHasNow == DayInv => NowIsInItsDay
<1> DEFINE t == today.at
           d == LocalDay(t)
           T == d * DayUnits
           s == today.start
           e == today.end
<1> SUFFICES ASSUME DayInv, Once(d), Once(d + 1)
             PROVE  t \in s .. e - 1
  BY DEF NowIsInItsDay
<1>1. /\ zone \in Zones /\ t \in Int /\ d \in Int /\ d + 1 \in Int
      /\ s = MidnightUtc(d) /\ e = MidnightUtc(d + 1)
  BY DayOfInstant DEF DayInv, DayWindow
<1>2. /\ Local(t) \in Int /\ T <= Local(t) /\ Local(t) < T + DayUnits
  BY <1>1, DayOfInstant
<1>3. /\ T \in Int /\ (d + 1) * DayUnits = T + DayUnits
  BY <1>1, DayAfter, DayAssumption
<1>4. /\ MidnightsOf(d) = {u \in Int : Local(u) = T}
      /\ MidnightsOf(d + 1) = {u \in Int : Local(u) = T + DayUnits}
  BY <1>1, <1>3, MidnightsAre
<1>5. \A u, v \in Int : Local(u) = T /\ Local(v) = T => u = v
  BY <1>4 DEF Once
<1>6. \E u \in Int : Local(u) = T
  BY <1>4 DEF Once
<1>7. \E u \in Int : Local(u) = T + DayUnits
  BY <1>4 DEF Once
<1>8. /\ s \in Int /\ Local(s) = T
      /\ e \in Int /\ Local(e) = T + DayUnits
  BY <1>1, <1>3, <1>6, <1>7, Midnight
<1> HIDE DEF t, d, T, s, e
<1>9. /\ zone.before \in Int /\ zone.after \in Int /\ zone.at \in Int
      /\ \/ zone.after = zone.before \/ zone.after = zone.before + 1
         \/ zone.after = zone.before - 1
      /\ DayUnits \in Int /\ DayUnits >= 1
  BY <1>1, ZoneTypes
<1>10. s <= t
  <2> SUFFICES ASSUME t < s PROVE FALSE
    BY <1>1, <1>8
  <2>1. t = s - 1 /\ Local(t) = T
    BY <1>1, <1>2, <1>3, <1>8, <1>9 DEF Local
  <2> QED BY <2>1, <1>1, <1>5, <1>8
<1>11. t < e
  BY <1>1, <1>2, <1>3, <1>8, <1>9 DEF Local
<1> QED BY <1>1, <1>8, <1>10, <1>11

LEMMA DaysAdjoin == DayInv => DaysPartitionTime
<1> DEFINE c == LocalDay(earlier.at)
           d == LocalDay(today.at)
<1> SUFFICES ASSUME DayInv
             PROVE  /\ d - c = 0 => [earlier EXCEPT !.at = 0] = [today EXCEPT !.at = 0]
                    /\ d - c = 1 => earlier.end = today.start
                    /\ d - c > 0 => earlier.end <= today.start
                    /\ d - c < 0 => today.end <= earlier.start
  BY DEF DaysPartitionTime
<1>1. zone \in Zones /\ c \in Int /\ d \in Int
  BY DayOfInstant DEF DayInv
<1>2. /\ today = [at |-> today.at, start |-> MidnightUtc(d), end |-> MidnightUtc(d + 1)]
      /\ earlier = [at |-> earlier.at, start |-> MidnightUtc(c),
                    end |-> MidnightUtc(c + 1)]
  BY DEF DayInv, DayWindow
<1>3. /\ today.start = MidnightUtc(d) /\ today.end = MidnightUtc(d + 1)
      /\ earlier.start = MidnightUtc(c) /\ earlier.end = MidnightUtc(c + 1)
  BY <1>2
<1> HIDE DEF c, d
<1>4. ASSUME d - c = 0
      PROVE  [earlier EXCEPT !.at = 0] = [today EXCEPT !.at = 0]
  <2>1. d = c
    BY <1>1, <1>4
  <2>2. /\ [today EXCEPT !.at = 0]
             = [at |-> 0, start |-> MidnightUtc(d), end |-> MidnightUtc(d + 1)]
        /\ [earlier EXCEPT !.at = 0]
             = [at |-> 0, start |-> MidnightUtc(c), end |-> MidnightUtc(c + 1)]
    BY <1>2
  <2> QED BY <2>1, <2>2
<1>5. d - c = 1 => d = c + 1
  BY <1>1
<1>6. MidnightUtc(d) \in Int /\ MidnightUtc(c) \in Int
  BY <1>1, Midnight
<1>7. ASSUME d - c > 0
      PROVE  earlier.end <= today.start
  <2>1. CASE d = c + 1
    BY <1>3, <1>6, <2>1
  <2>2. CASE d # c + 1
    <3>1. c + 1 \in Int /\ c + 1 < d
      BY <1>1, <1>7, <2>2
    <3> QED BY <1>1, <1>3, <3>1, LaterDay
  <2> QED BY <2>1, <2>2
<1>8. ASSUME d - c < 0
      PROVE  today.end <= earlier.start
  <2>1. CASE c = d + 1
    BY <1>3, <1>6, <2>1
  <2>2. CASE c # d + 1
    <3>1. d + 1 \in Int /\ d + 1 < c
      BY <1>1, <1>8, <2>2
    <3> QED BY <1>1, <1>3, <3>1, LaterDay
  <2> QED BY <2>1, <2>2
<1> QED BY <1>3, <1>4, <1>5, <1>7, <1>8

\* The window of a day keeps its length, but for the change of the clocks.
THEOREM DayTypeCorrect == DaySpec => []DayTypeOK
BY DayInvHolds, DaysHaveTheirLength, PTL

\* In any time zone whose clocks change once, by one unit at most: a day starts
\* at a midnight when it has one, an instant is in its own day unless one of its
\* midnights is skipped or comes twice, and the days of two instants are the
\* same window or do not overlap, those of consecutive dates adjoining.
THEOREM DaysStayWhole == DaySpec => []DaysAreWhole
<1>1. DayInv => DaysAreWhole
  BY MidnightStarts, DayHasNow, DaysAdjoin DEF DaysAreWhole
<1> QED BY <1>1, DayInvHolds, PTL

-----------------------------------------------------------------------------
(* Feedback                                                                  *)

Call == [pc : {"idle", "begin", "lock", "write", "prior", "answer"},
         attempt : Nat, asked : Clicks \cup {AnyClick},
         seen : Nat, stale : SUBSET Nat, fresh : BOOLEAN, row : Nat]

\* A row says what a click asked, under its key.
Says(f, d) ==
    /\ f \in 1 .. Len(feedback)
    /\ feedback[f].key = d.key
    /\ feedback[f].opportunity = d.opportunity
    /\ feedback[f].action = d.action

\* What holds of a call: its snapshot is of rows there are, one that has its
\* locks has them on what its snapshot saw, and its answer says what it asked.
SoundCall(x) ==
    /\ x \in Call
    /\ x.pc # "idle" => x.asked \in Clicks
    /\ x.pc \in {"lock", "write"} => x.seen <= Len(feedback)
    /\ x.pc = "write" => x.fresh
    /\ x.pc = "answer" => Says(x.row, x.asked)

KeysAreUnique ==
    \A f, g \in 1 .. Len(feedback) : feedback[f].key = feedback[g].key => f = g

AnswersHaveKey ==
    /\ answered \in [Keys -> SUBSET Nat]
    /\ \A k \in Keys : \A f \in answered[k] :
          f \in 1 .. Len(feedback) /\ feedback[f].key = k

\* The inductive invariant.
FeedbackInv ==
    /\ feedback \in Seq(Decision)
    /\ request \in [Requests -> Call]
    /\ \A c \in Requests : SoundCall(request[c])
    /\ CurrentIsNewest
    /\ KeysAreUnique
    /\ AnswersHaveKey

-----------------------------------------------------------------------------
(* Records *)

LEMMA ClickType ==
    ASSUME NEW d \in Clicks
    PROVE  d \in Decision /\ d.isCurrent = TRUE
BY FeedbackAssumption DEF Decision

LEMMA NoRequestType == SoundCall(NoRequest)
BY DEF NoRequest, SoundCall, Call, NoFeedback

\* The ways in which a step changes a call.
LEMMA CallGoesOn ==
    ASSUME NEW x \in Call, NEW label \in {"begin", "lock", "write", "prior"}
    PROVE  LET new == [x EXCEPT !.pc = label] IN
           /\ new \in Call /\ new.pc = label
           /\ new.asked = x.asked /\ new.seen = x.seen /\ new.fresh = x.fresh
BY DEF Call

LEMMA CallAnswers ==
    ASSUME NEW x \in Call, NEW n \in Nat
    PROVE  LET new == [x EXCEPT !.pc = "answer", !.row = n] IN
           /\ new \in Call /\ new.pc = "answer"
           /\ new.asked = x.asked /\ new.row = n
BY DEF Call

\* A change of the fields that nothing is said about.
LEMMA CallStays ==
    ASSUME NEW x \in Call, NEW y \in Call, SoundCall(x),
           y.pc = x.pc, y.asked = x.asked, y.seen = x.seen, y.row = x.row,
           x.pc = "write" => y.fresh = x.fresh
    PROVE  SoundCall(y)
BY DEF SoundCall

-----------------------------------------------------------------------------
(* Steps of a call that write no row *)

LEMMA CallMoves ==
    ASSUME FeedbackInv, NEW c \in Requests, NEW new, SoundCall(new),
           request' = [request EXCEPT ![c] = new],
           UNCHANGED <<feedback, answered>>
    PROVE  FeedbackInv'
<1>1. request' \in [Requests -> Call]
  BY DEF FeedbackInv, SoundCall
<1>2. ASSUME NEW d \in Requests PROVE SoundCall(request[d])'
  <2>1. SoundCall(request'[d])
    BY DEF FeedbackInv
  <2> QED BY <2>1 DEF SoundCall, Says
<1>3. CurrentIsNewest' /\ KeysAreUnique' /\ AnswersHaveKey'
  BY DEF FeedbackInv, CurrentIsNewest, KeysAreUnique, AnswersHaveKey
<1> QED BY <1>1, <1>2, <1>3 DEF FeedbackInv

LEMMA CallEnds ==
    ASSUME FeedbackInv, NEW c \in Requests, EndRequest(c),
           UNCHANGED <<feedback, answered>>
    PROVE  FeedbackInv'
BY CallMoves, NoRequestType DEF EndRequest

LEMMA TransactionRetried ==
    ASSUME FeedbackInv, NEW c \in Requests, request[c].pc # "idle",
           RetryTransaction(c), UNCHANGED <<feedback, answered>>
    PROVE  FeedbackInv'
<1> DEFINE new == [request[c] EXCEPT !.pc = "begin"]
<1>1. request[c] \in Call /\ SoundCall(request[c])
  BY DEF FeedbackInv
<1>2. new \in Call /\ new.pc = "begin" /\ new.asked = request[c].asked
  BY <1>1 DEF Call
<1>3. SoundCall(new)
  <2> HIDE DEF new
  <2> QED BY <1>1, <1>2 DEF SoundCall
<1>4. CASE request[c].attempt < MaxTransactions
  <2>1. request' = [request EXCEPT ![c] = new]
    BY <1>4 DEF RetryTransaction
  <2> HIDE DEF new
  <2> QED BY <2>1, <1>3, CallMoves
<1>5. CASE ~(request[c].attempt < MaxTransactions)
  BY <1>5, CallEnds DEF RetryTransaction
<1> QED BY <1>4, <1>5

LEMMA RowAnswered ==
    ASSUME FeedbackInv, NEW c \in Requests, request[c].pc # "idle",
           NEW f \in 1 .. Len(feedback), Says(f, Asked(c)), AnswerRow(c, f),
           UNCHANGED <<feedback, answered>>
    PROVE  FeedbackInv'
<1> DEFINE new == [request[c] EXCEPT !.pc = "answer", !.row = f]
<1>1. request[c] \in Call /\ SoundCall(request[c]) /\ f \in Nat
  BY DEF FeedbackInv
<1>2. new \in Call /\ new.pc = "answer" /\ new.asked = request[c].asked /\ new.row = f
  BY <1>1, CallAnswers
<1>3. request' = [request EXCEPT ![c] = new]
  BY DEF AnswerRow
<1> HIDE DEF new
<1>4. SoundCall(new)
  BY <1>1, <1>2 DEF SoundCall, Asked
<1> QED BY <1>3, <1>4, CallMoves

\* A repeated request that finds the row of its key.
LEMMA SameRequestSays ==
    ASSUME FeedbackInv, NEW c \in Requests, NEW f \in Prior(c), SameRequest(f, Asked(c))
    PROVE  f \in 1 .. Len(feedback) /\ Says(f, Asked(c))
BY DEF FeedbackInv, Prior, SameRequest, Says

LEMMA ReplayIsPrior ==
    ASSUME FeedbackInv, NEW c \in Requests, request[c].pc = "write"
    PROVE  Replay(c) \subseteq Prior(c)
<1>1. request[c] \in Call /\ request[c].seen <= Len(feedback)
  BY DEF FeedbackInv, SoundCall
<1>2. DOMAIN feedback = 1 .. Len(feedback) /\ Len(feedback) \in Nat
  BY DEF FeedbackInv
<1> QED BY <1>1, <1>2 DEF Replay, Prior, SeenRows, Call

-----------------------------------------------------------------------------
(* The write *)

\* The rows after a write: those before it with their decisions, and the new
\* one; of its opportunity it is the only current one.
LEMMA DecisionRows ==
    ASSUME FeedbackInv, NEW c \in Requests, WriteDecision(c)
    PROVE  LET k == Len(feedback) IN
           /\ k \in Nat
           /\ feedback' \in Seq(Decision)
           /\ Len(feedback') = k + 1
           /\ feedback'[k + 1] = Asked(c)
           /\ \A f \in 1 .. k :
                 /\ feedback'[f].key = feedback[f].key
                 /\ feedback'[f].opportunity = feedback[f].opportunity
                 /\ feedback'[f].action = feedback[f].action
                 /\ feedback[f].opportunity = Asked(c).opportunity
                       => ~feedback'[f].isCurrent
                 /\ feedback[f].opportunity # Asked(c).opportunity
                       => (feedback'[f].isCurrent <=> feedback[f].isCurrent)
<1> DEFINE k == Len(feedback)
           old == [f \in DOMAIN feedback |->
                     [feedback[f] EXCEPT !.isCurrent = @ /\ f \notin CurrentSeen(c)]]
<1>1. feedback' = Append(old, Asked(c))
  BY DEF WriteDecision
<1>2. /\ k \in Nat /\ DOMAIN feedback = 1 .. k
      /\ \A f \in 1 .. k : feedback[f] \in Decision
  BY DEF FeedbackInv
<1>3. Asked(c) \in Decision
  BY ClickType DEF FeedbackInv, SoundCall, Asked, WriteDecision
<1>4. ASSUME NEW f \in 1 .. k
      PROVE  /\ old[f] \in Decision
             /\ old[f].key = feedback[f].key
             /\ old[f].opportunity = feedback[f].opportunity
             /\ old[f].action = feedback[f].action
             /\ old[f].isCurrent <=> feedback[f].isCurrent /\ f \notin CurrentSeen(c)
  <2>1. old[f] = [feedback[f] EXCEPT !.isCurrent =
                    feedback[f].isCurrent /\ f \notin CurrentSeen(c)]
    BY <1>2
  <2>2. ASSUME NEW b \in BOOLEAN
        PROVE  LET new == [feedback[f] EXCEPT !.isCurrent = b] IN
               /\ new \in Decision
               /\ new.key = feedback[f].key /\ new.opportunity = feedback[f].opportunity
               /\ new.action = feedback[f].action /\ new.isCurrent = b
    BY <1>2 DEF Decision
  <2> HIDE DEF old
  <2> QED BY <2>1, <2>2
<1>5. old \in Seq(Decision) /\ Len(old) = k
  <2>1. old \in [1 .. k -> Decision]
    BY <1>2, <1>4
  <2> HIDE DEF old, k
  <2> QED BY <2>1, <1>2
<1>6. /\ feedback' \in Seq(Decision)
      /\ Len(feedback') = k + 1
      /\ feedback'[k + 1] = Asked(c)
      /\ \A f \in 1 .. k : feedback'[f] = old[f]
  <2> HIDE DEF old, k
  <2> QED BY <1>1, <1>2, <1>3, <1>5
<1>7. ASSUME NEW f \in 1 .. k, feedback[f].opportunity = Asked(c).opportunity
      PROVE  ~old[f].isCurrent
  <2>1. f \notin CurrentSeen(c) => ~feedback[f].isCurrent
    BY <1>2, <1>7 DEF WriteDecision, OneCurrentIndex
  <2> QED BY <2>1, <1>4
<1>8. ASSUME NEW f \in 1 .. k, feedback[f].opportunity # Asked(c).opportunity
      PROVE  old[f].isCurrent <=> feedback[f].isCurrent
  <2>1. f \notin CurrentSeen(c)
    BY <1>8 DEF CurrentSeen
  <2> QED BY <2>1, <1>4
<1> HIDE DEF old
<1> QED BY <1>2, <1>4, <1>6, <1>7, <1>8

LEMMA DecisionWritten ==
    ASSUME FeedbackInv, NEW c \in Requests, WriteDecision(c)
    PROVE  FeedbackInv'
<1> DEFINE k == Len(feedback)
<1>1. /\ k \in Nat
      /\ feedback' \in Seq(Decision)
      /\ Len(feedback') = k + 1
      /\ feedback'[k + 1] = Asked(c)
  BY DecisionRows
<1>2. \A f \in 1 .. k :
         /\ feedback'[f].key = feedback[f].key
         /\ feedback'[f].opportunity = feedback[f].opportunity
         /\ feedback'[f].action = feedback[f].action
         /\ feedback[f].opportunity = Asked(c).opportunity => ~feedback'[f].isCurrent
         /\ feedback[f].opportunity # Asked(c).opportunity
               => (feedback'[f].isCurrent <=> feedback[f].isCurrent)
  BY DecisionRows
<1>3. DOMAIN feedback = 1 .. k /\ DOMAIN feedback' = 1 .. k + 1
  BY <1>1 DEF FeedbackInv
<1>4. Asked(c) \in Clicks /\ Asked(c).isCurrent = TRUE
  BY ClickType DEF FeedbackInv, SoundCall, Asked, WriteDecision
<1> HIDE DEF k
<1>5. \A f \in 1 .. k + 1 : f \in 1 .. k \/ f = k + 1
  BY <1>1
<1>6. CurrentIsNewest'
  <2>1. SUFFICES ASSUME NEW f \in 1 .. k + 1
                 PROVE  feedback'[f].isCurrent <=>
                          \A g \in 1 .. k + 1 : g > f =>
                             feedback'[g].opportunity # feedback'[f].opportunity
    BY <1>3 DEF CurrentIsNewest
  <2>2. CASE f = k + 1
    BY <1>1, <1>4, <2>2
  <2>3. CASE f \in 1 .. k /\ feedback[f].opportunity = Asked(c).opportunity
    BY <1>1, <1>2, <2>3
  <2>4. CASE f \in 1 .. k /\ feedback[f].opportunity # Asked(c).opportunity
    <3>1. feedback'[f].isCurrent <=>
            \A g \in 1 .. k : g > f => feedback[g].opportunity # feedback[f].opportunity
      BY <1>2, <1>3, <2>4 DEF FeedbackInv, CurrentIsNewest
    <3>2. feedback'[k + 1].opportunity # feedback'[f].opportunity
      BY <1>1, <1>2, <2>4
    <3>3. \A g \in 1 .. k : feedback'[g].opportunity = feedback[g].opportunity
      BY <1>2
    <3>4. 1 .. k \subseteq 1 .. k + 1
      BY <1>1
    <3> QED BY <1>5, <2>4, <3>1, <3>2, <3>3, <3>4
  <2> QED BY <1>5, <2>2, <2>3, <2>4
<1>7. KeysAreUnique'
  <2>1. \A f \in 1 .. k : feedback[f].key # Asked(c).key
    BY <1>3 DEF WriteDecision, KeyIndex, Prior
  <2>2. SUFFICES ASSUME NEW f \in 1 .. k + 1, NEW g \in 1 .. k + 1,
                        feedback'[f].key = feedback'[g].key
                 PROVE  f = g
    BY <1>1 DEF KeysAreUnique
  <2>3. CASE f \in 1 .. k /\ g \in 1 .. k
    BY <1>2, <2>2, <2>3 DEF FeedbackInv, KeysAreUnique, k
  <2> QED BY <1>1, <1>2, <1>5, <2>1, <2>2, <2>3
<1>8. AnswersHaveKey'
  BY <1>1, <1>2 DEF FeedbackInv, AnswersHaveKey, WriteDecision, k
<1>9. ASSUME NEW d \in Requests
      PROVE  request'[d] \in Call /\ SoundCall(request[d])'
  <2>1. /\ request[d] \in Call /\ SoundCall(request[d])
        /\ request[c] \in Call /\ SoundCall(request[c])
        /\ request[c].pc = "write"
    BY DEF FeedbackInv, WriteDecision
  <2>2. ASSUME NEW f, NEW x \in Clicks, Says(f, x) PROVE Says(f, x)'
    BY <1>1, <1>2, <2>2 DEF Says, k
  <2>3. CASE d = c
    <3> DEFINE new == [request[c] EXCEPT !.pc = "answer", !.row = k + 1]
    <3>1. request'[c] = new
      BY DEF WriteDecision, NoteWrite, k
    <3>2. new \in Call /\ new.pc = "answer" /\ new.asked = Asked(c) /\ new.row = k + 1
      BY <1>1, <2>1, k + 1 \in Nat, CallAnswers DEF Asked
    <3> HIDE DEF new
    <3>3. /\ k + 1 \in 1 .. Len(feedback')
          /\ feedback'[k + 1] = new.asked
          /\ new.asked \in Clicks
      BY <1>1, <1>4, <3>2
    <3> QED BY <2>3, <3>1, <3>2, <3>3 DEF SoundCall, Says
  <2>4. CASE d # c
    <3>1. /\ request'[d] \in Call
          /\ request'[d].pc = request[d].pc
          /\ request'[d].asked = request[d].asked
          /\ request'[d].seen = request[d].seen
          /\ request'[d].fresh = request[d].fresh
          /\ request'[d].row = request[d].row
      <4>1. CurrentSeen(c) \subseteq Nat
        BY <2>1 DEF CurrentSeen, SeenRows, Call
      <4>2. \/ request'[d] = request[d]
            \/ request'[d] = [request[d] EXCEPT !.stale = @ \cup CurrentSeen(c)]
        BY <2>4 DEF WriteDecision, NoteWrite
      <4> QED BY <2>1, <4>1, <4>2 DEF Call
    <3>2. request[d].seen <= Len(feedback) => request[d].seen <= k + 1
      BY <1>1, <2>1 DEF Call, k
    <3> QED BY <1>1, <2>1, <2>2, <3>1, <3>2 DEF SoundCall
  <2> QED BY <2>3, <2>4
<1>10. request' \in [Requests -> Call]
  <2>1. DOMAIN request' = Requests /\ request' = [d \in Requests |-> request'[d]]
    BY DEF WriteDecision, NoteWrite
  <2> QED BY <1>9, <2>1
<1> QED BY <1>1, <1>6, <1>7, <1>8, <1>9, <1>10 DEF FeedbackInv

-----------------------------------------------------------------------------
(* The invariant *)

LEMMA FeedbackBegins == FeedbackInit => FeedbackInv
<1> SUFFICES ASSUME FeedbackInit PROVE FeedbackInv
  OBVIOUS
<1>1. NoRequest \in Call /\ SoundCall(NoRequest)
  BY NoRequestType DEF SoundCall
<1>2. Len(feedback) = 0 /\ feedback \in Seq(Decision)
  BY DEF FeedbackInit
<1>3. \A c \in Requests : request[c] = NoRequest
  BY DEF FeedbackInit
<1>4. request \in [Requests -> Call] /\ \A c \in Requests : SoundCall(request[c])
  BY <1>1, <1>3 DEF FeedbackInit
<1> QED BY <1>2, <1>4
        DEF FeedbackInit, FeedbackInv, CurrentIsNewest, KeysAreUnique, AnswersHaveKey

\* The steps of record(), but for the write.
LEMMA RecordStepKeeps ==
    ASSUME FeedbackInv, NEW c \in Requests, RecordStep(c)
    PROVE  FeedbackInv'
<1>1. request[c] \in Call /\ SoundCall(request[c]) /\ Len(feedback) \in Nat
  BY DEF FeedbackInv
<1>2. CASE TakeSnapshot(c)
  <2> DEFINE x == request[c]
             m == x.attempt + 1
             n == Len(feedback)
             y == [x EXCEPT !.pc = "lock", !.attempt = m, !.seen = n]
             new == [x EXCEPT !.pc = "lock", !.attempt = m, !.seen = n,
                              !.stale = {}, !.fresh = TRUE]
  <2>1. request' = [request EXCEPT ![c] = new] /\ UNCHANGED <<feedback, answered>>
    BY <1>2 DEF TakeSnapshot
  <2>2. new \in Call /\ new.pc = "lock" /\ new.asked = x.asked /\ new.seen = n
    <3>1. m \in Nat /\ n \in Nat /\ x \in Call
      BY <1>1 DEF Call
    <3>2. new = [y EXCEPT !.stale = {}, !.fresh = TRUE]
      OBVIOUS
    <3>3. y \in Call /\ y.pc = "lock" /\ y.asked = x.asked /\ y.seen = n
      <4> HIDE DEF m, n, x
      <4> QED BY <3>1 DEF Call
    <3> HIDE DEF m, n, x, y, new
    <3> QED BY <3>2, <3>3 DEF Call
  <2> HIDE DEF new
  <2>3. SoundCall(new)
    BY <1>1, <1>2, <2>2 DEF SoundCall, TakeSnapshot
  <2> QED BY <2>1, <2>3, CallMoves
<1>3. CASE LockRows(c)
  <2>1. request[c].pc = "lock" /\ UNCHANGED <<feedback, answered>>
    BY <1>3 DEF LockRows
  <2>2. CASE Lockable(c) /\ request' = [request EXCEPT ![c].pc = "write"]
    <3> DEFINE new == [request[c] EXCEPT !.pc = "write"]
    <3>1. request' = [request EXCEPT ![c] = new]
      BY <2>2
    <3>2. /\ new \in Call /\ new.pc = "write" /\ new.asked = request[c].asked
          /\ new.seen = request[c].seen /\ new.fresh = request[c].fresh
      BY <1>1, CallGoesOn
    <3> HIDE DEF new
    <3>3. SoundCall(new)
      BY <1>1, <2>1, <2>2, <3>2 DEF SoundCall, Lockable
    <3> QED BY <2>1, <3>1, <3>3, CallMoves
  <2>3. CASE RetryTransaction(c) \/ EndRequest(c)
    BY <2>1, <2>3, TransactionRetried, CallEnds
  <2> QED BY <1>3, <2>2, <2>3 DEF LockRows
<1>4. CASE WriteDecision(c)
  BY <1>4, DecisionWritten
<1>5. CASE ReplayDecision(c)
  <2>1. request[c].pc = "write" /\ UNCHANGED <<feedback, answered>>
    BY <1>5 DEF ReplayDecision
  <2>2. PICK f \in Replay(c) :
           \/ SameRequest(f, Asked(c)) /\ AnswerRow(c, f)
           \/ EndRequest(c)
    BY <1>5 DEF ReplayDecision
  <2>3. f \in Prior(c)
    BY <2>1, ReplayIsPrior
  <2>4. CASE SameRequest(f, Asked(c)) /\ AnswerRow(c, f)
    BY <2>1, <2>3, <2>4, SameRequestSays, RowAnswered
  <2>5. CASE EndRequest(c)
    BY <2>1, <2>5, CallEnds
  <2> QED BY <2>2, <2>4, <2>5
<1>6. CASE RefuseDecision(c)
  BY <1>6, CallEnds DEF RefuseDecision
<1>7. CASE WriteRefused(c)
  <2>1. request[c].pc = "write" /\ UNCHANGED <<feedback, answered>>
    BY <1>7 DEF WriteRefused
  <2>2. CASE RetryTransaction(c)
    BY <2>1, <2>2, TransactionRetried
  <2>3. CASE request' = [request EXCEPT ![c].pc = "prior"]
    <3> DEFINE new == [request[c] EXCEPT !.pc = "prior"]
    <3>1. request' = [request EXCEPT ![c] = new]
      BY <2>3
    <3>2. new \in Call /\ new.pc = "prior" /\ new.asked = request[c].asked
      BY <1>1, CallGoesOn
    <3> HIDE DEF new
    <3>3. SoundCall(new)
      BY <1>1, <2>1, <3>2 DEF SoundCall
    <3> QED BY <2>1, <3>1, <3>3, CallMoves
  <2> QED BY <1>7, <2>2, <2>3 DEF WriteRefused
<1>8. CASE FindPrior(c)
  <2>1. request[c].pc = "prior" /\ UNCHANGED <<feedback, answered>>
    BY <1>8 DEF FindPrior
  <2>2. CASE \E f \in Prior(c) : SameRequest(f, Asked(c)) /\ AnswerRow(c, f)
    BY <2>1, <2>2, SameRequestSays, RowAnswered
  <2>3. CASE EndRequest(c)
    BY <2>1, <2>3, CallEnds
  <2> QED BY <1>8, <2>2, <2>3 DEF FindPrior
<1>9. CASE AnswerRequest(c)
  <2>1. Says(request[c].row, Asked(c)) /\ Asked(c) \in Clicks
    BY <1>1, <1>9 DEF AnswerRequest, SoundCall, Asked
  <2>2. Asked(c).key \in Keys
    BY <2>1, ClickType DEF Decision
  <2>3. request[c].row \in Nat
    BY <1>1 DEF Call
  <2>4. AnswersHaveKey'
    BY <1>9, <2>1, <2>2, <2>3 DEF AnswerRequest, FeedbackInv, AnswersHaveKey, Says
  <2>5. /\ UNCHANGED feedback
        /\ request' = [request EXCEPT ![c] = NoRequest]
    BY <1>9 DEF AnswerRequest, EndRequest
  <2>6. /\ request' \in [Requests -> Call]
        /\ \A d \in Requests : SoundCall(request'[d])
    BY <2>5, NoRequestType DEF FeedbackInv, SoundCall
  <2>7. \A d \in Requests : SoundCall(request[d])'
    BY <2>5, <2>6 DEF SoundCall, Says
  <2> QED BY <2>4, <2>5, <2>6, <2>7 DEF FeedbackInv, CurrentIsNewest, KeysAreUnique
<1> QED BY <1>2, <1>3, <1>4, <1>5, <1>6, <1>7, <1>8, <1>9 DEF RecordStep

LEMMA ExpiryKeeps ==
    ASSUME FeedbackInv, NEW o \in Opportunities, ExpireOpportunity(o)
    PROVE  FeedbackInv'
<1>1. UNCHANGED <<feedback, answered>>
  BY DEF ExpireOpportunity
<1>2. ASSUME NEW c \in Requests
      PROVE  request'[c] \in Call /\ SoundCall(request'[c])
  <2> DEFINE late == request[c].pc = "lock" /\ Asked(c).opportunity = o
             new == [request[c] EXCEPT !.fresh = @ /\ ~late]
  <2>1. request'[c] = new
    BY DEF ExpireOpportunity
  <2>2. request[c] \in Call /\ SoundCall(request[c])
    BY DEF FeedbackInv
  <2>3. /\ new \in Call /\ new.pc = request[c].pc /\ new.asked = request[c].asked
        /\ new.seen = request[c].seen /\ new.row = request[c].row
        /\ new.fresh = (request[c].fresh /\ ~late)
    <3> HIDE DEF late
    <3> QED BY <2>2 DEF Call
  <2>4. request[c].pc = "write" => new.fresh = request[c].fresh
    BY <2>2, <2>3 DEF Call
  <2> HIDE DEF new, late
  <2> QED BY <2>1, <2>2, <2>3, <2>4, CallStays
<1>3. request' \in [Requests -> Call]
  <2>1. DOMAIN request' = Requests /\ request' = [c \in Requests |-> request'[c]]
    BY DEF ExpireOpportunity
  <2> QED BY <1>2, <2>1
<1>4. \A c \in Requests : SoundCall(request[c])'
  BY <1>1, <1>2 DEF SoundCall, Says
<1> QED BY <1>1, <1>3, <1>4
        DEF FeedbackInv, CurrentIsNewest, KeysAreUnique, AnswersHaveKey

LEMMA FeedbackStep == FeedbackInv /\ [FeedbackNext]_feedbackVars => FeedbackInv'
<1> SUFFICES ASSUME FeedbackInv, [FeedbackNext]_feedbackVars PROVE FeedbackInv'
  OBVIOUS
<1>1. ASSUME NEW c \in Requests, NEW d \in Clicks, BeginRequest(c, d) PROVE FeedbackInv'
  <2> DEFINE new == [request[c] EXCEPT !.pc = "begin", !.asked = d]
  <2>1. request' = [request EXCEPT ![c] = new] /\ UNCHANGED <<feedback, answered>>
    BY <1>1 DEF BeginRequest
  <2>2. request[c] \in Call
    BY DEF FeedbackInv
  <2>3. new \in Call /\ new.pc = "begin" /\ new.asked = d
    BY <2>2 DEF Call
  <2> HIDE DEF new
  <2>4. SoundCall(new)
    BY <2>3 DEF SoundCall
  <2> QED BY <2>1, <2>4, CallMoves
<1>2. ASSUME NEW c \in Requests, RecordStep(c) PROVE FeedbackInv'
  BY <1>2, RecordStepKeeps
<1>3. ASSUME NEW c \in Requests, LoseRequest(c) PROVE FeedbackInv'
  BY <1>3, CallEnds DEF LoseRequest
<1>4. ASSUME NEW o \in Opportunities, ExpireOpportunity(o) PROVE FeedbackInv'
  BY <1>4, ExpiryKeeps
<1>5. CASE UNCHANGED feedbackVars
  BY <1>5 DEF feedbackVars, FeedbackInv, SoundCall, Says, CurrentIsNewest,
              KeysAreUnique, AnswersHaveKey
<1> QED BY <1>1, <1>2, <1>3, <1>4, <1>5 DEF FeedbackNext

-----------------------------------------------------------------------------
(* What it implies *)

LEMMA OneAnswer == FeedbackInv => OneAnswerPerKey
<1> SUFFICES ASSUME FeedbackInv, NEW k \in Keys PROVE Cardinality(answered[k]) <= 1
  BY DEF OneAnswerPerKey
<1>1. \A f, g \in answered[k] : f = g
  BY DEF FeedbackInv, AnswersHaveKey, KeysAreUnique
<1>2. CASE answered[k] = {}
  BY <1>2, FS_EmptySet
<1>3. CASE answered[k] # {}
  <2>1. PICK f : f \in answered[k]
    BY <1>3
  <2>2. answered[k] = {f}
    BY <1>1, <2>1
  <2>3. Cardinality({f}) = 1
    BY FS_Singleton
  <2> QED BY <2>2, <2>3
<1> QED BY <1>2, <1>3

LEMMA AnswersSayWhatWasAsked == FeedbackInv => AnsweredAsAsked
BY DEF FeedbackInv, SoundCall, Says, AnsweredAsAsked, Asked

\* Only the write adds a row, under locks taken on what its snapshot saw.
LEMMA TimelyDecision ==
    FeedbackInv /\ [FeedbackNext]_feedbackVars =>
        \A f \in DOMAIN feedback' \ DOMAIN feedback : feedback'[f].opportunity \in actionable
<1> SUFFICES ASSUME FeedbackInv, [FeedbackNext]_feedbackVars,
                    NEW f \in DOMAIN feedback' \ DOMAIN feedback
             PROVE  feedback'[f].opportunity \in actionable
  OBVIOUS
<1>1. feedback' # feedback
  OBVIOUS
<1>2. PICK c \in Requests : WriteDecision(c)
  BY <1>1 DEF FeedbackNext, RecordStep, feedbackVars, BeginRequest, TakeSnapshot,
              LockRows, ReplayDecision, RefuseDecision, WriteRefused, FindPrior,
              AnswerRequest, LoseRequest, ExpireOpportunity
<1>3. f = Len(feedback) + 1 /\ feedback'[f] = Asked(c)
  <2>1. /\ Len(feedback) \in Nat /\ Len(feedback') = Len(feedback) + 1
        /\ feedback' \in Seq(Decision)
        /\ feedback'[Len(feedback) + 1] = Asked(c)
    BY <1>2, DecisionRows
  <2>2. DOMAIN feedback = 1 .. Len(feedback) /\ DOMAIN feedback' = 1 .. Len(feedback')
    BY <2>1 DEF FeedbackInv
  <2> QED BY <2>1, <2>2
<1>4. request[c].fresh
  BY <1>2 DEF WriteDecision, FeedbackInv, SoundCall
<1> QED BY <1>2, <1>3, <1>4 DEF WriteDecision, ActionableSeen

\* Of the decisions on an opportunity exactly the newest is current, repeats of
\* a key are answered with one row that says what was asked, and no decision is
\* recorded on an expired opportunity, whatever calls overlap, wait on older
\* snapshots, are refused or die.
THEOREM DecisionsAreConsistent == FeedbackSpec => FeedbackIsConsistent
<1>1. FeedbackInv => CurrentIsNewest
  BY DEF FeedbackInv
<1>2. FeedbackSpec => []FeedbackInv
  BY FeedbackBegins, FeedbackStep, PTL DEF FeedbackSpec
<1>3. FeedbackSpec => [](CurrentIsNewest /\ OneAnswerPerKey /\ AnsweredAsAsked)
  BY <1>1, <1>2, OneAnswer, AnswersSayWhatWasAsked, PTL
<1>4. FeedbackSpec => NoDecisionAfterExpiry
  BY <1>2, TimelyDecision, PTL DEF FeedbackSpec, NoDecisionAfterExpiry
<1> QED BY <1>3, <1>4, PTL DEF FeedbackIsConsistent

\* A call has as many transactions as it may; the one it begins is one more.
Tries(x) ==
    /\ x.attempt <= MaxTransactions
    /\ x.pc = "idle" => x.attempt = 0
    /\ x.pc = "begin" => x.attempt < MaxTransactions
    /\ x.asked \in Clicks

LEMMA NoTries == Tries(NoRequest)
BY FeedbackAssumption DEF Tries, NoRequest, AnyClick

LEMMA TriesStay ==
    ASSUME FeedbackInv, \A c \in Requests : Tries(request[c]), [FeedbackNext]_feedbackVars
    PROVE  \A c \in Requests : Tries(request'[c])
<1> DEFINE Goal == \A c \in Requests : Tries(request'[c])
<1>1. /\ request \in [Requests -> Call]
      /\ \A c \in Requests : request[c] \in Call
      /\ MaxTransactions \in Nat /\ MaxTransactions >= 1
  BY FeedbackAssumption DEF FeedbackInv
<1>2. ASSUME NEW c \in Requests, NEW new, Tries(new), request' = [request EXCEPT ![c] = new]
      PROVE  Goal
  BY <1>2, <1>1
<1>3. ASSUME NEW c \in Requests, EndRequest(c) PROVE Goal
  BY <1>3, <1>2, NoTries DEF EndRequest
<1>4. ASSUME NEW c \in Requests, NEW label \in {"write", "prior"}, request[c].pc # "idle",
             request' = [request EXCEPT ![c].pc = label]
      PROVE  Goal
  <2> DEFINE new == [request[c] EXCEPT !.pc = label]
  <2>1. request' = [request EXCEPT ![c] = new]
    BY <1>4
  <2>2. new.pc = label /\ new.attempt = request[c].attempt /\ new.asked = request[c].asked
    BY <1>1 DEF Call
  <2> HIDE DEF new, Goal
  <2>3. Tries(new)
    BY <2>2, <1>4 DEF Tries
  <2> QED BY <1>2, <2>1, <2>3
<1>5. ASSUME NEW c \in Requests, RetryTransaction(c) PROVE Goal
  <2>1. CASE request[c].attempt < MaxTransactions
    <3> DEFINE new == [request[c] EXCEPT !.pc = "begin"]
    <3>1. request' = [request EXCEPT ![c] = new]
      BY <1>5, <2>1 DEF RetryTransaction
    <3>2. new.pc = "begin" /\ new.attempt = request[c].attempt /\ new.asked = request[c].asked
      BY <1>1 DEF Call
    <3> HIDE DEF new, Goal
    <3>3. Tries(new)
      BY <2>1, <3>2 DEF Tries
    <3> QED BY <1>2, <3>1, <3>3
  <2>2. CASE ~(request[c].attempt < MaxTransactions)
    BY <1>3, <1>5, <2>2 DEF RetryTransaction
  <2> QED BY <2>1, <2>2
<1>6. ASSUME NEW c \in Requests, NEW f \in Nat, AnswerRow(c, f) PROVE Goal
  <2> DEFINE new == [request[c] EXCEPT !.pc = "answer", !.row = f]
  <2>1. request' = [request EXCEPT ![c] = new]
    BY <1>6 DEF AnswerRow
  <2>2. new.pc = "answer" /\ new.attempt = request[c].attempt /\ new.asked = request[c].asked
    BY <1>1 DEF Call
  <2> HIDE DEF new, Goal
  <2>3. Tries(new)
    BY <2>2 DEF Tries
  <2> QED BY <1>2, <2>1, <2>3
<1>7. ASSUME NEW c \in Requests, NEW d \in Clicks, BeginRequest(c, d) PROVE Goal
  <2> DEFINE new == [request[c] EXCEPT !.pc = "begin", !.asked = d]
  <2>1. request' = [request EXCEPT ![c] = new]
    BY <1>7 DEF BeginRequest
  <2>2. new.pc = "begin" /\ new.attempt = request[c].attempt /\ new.asked = d
    BY <1>1 DEF Call
  <2>3. request[c].attempt = 0
    BY <1>7 DEF BeginRequest, Tries
  <2> HIDE DEF new, Goal
  <2>4. Tries(new)
    BY <1>1, <2>2, <2>3 DEF Tries
  <2> QED BY <1>2, <2>1, <2>4
<1>8. ASSUME NEW c \in Requests, TakeSnapshot(c) PROVE Goal
  <2> DEFINE x == request[c]
             m == x.attempt + 1
             n == Len(feedback)
             y == [x EXCEPT !.pc = "lock", !.attempt = m, !.seen = n]
             new == [x EXCEPT !.pc = "lock", !.attempt = m, !.seen = n,
                              !.stale = {}, !.fresh = TRUE]
  <2>1. request' = [request EXCEPT ![c] = new]
    BY <1>8 DEF TakeSnapshot
  <2>2. x \in Call /\ x.attempt \in Nat /\ x.attempt < MaxTransactions /\ x.asked \in Clicks
    BY <1>1, <1>8 DEF TakeSnapshot, Tries, Call
  <2>3. m \in Nat /\ n \in Nat /\ m <= MaxTransactions
    BY <1>1, <2>2 DEF FeedbackInv
  <2>4. new.pc = "lock" /\ new.attempt = m /\ new.asked = x.asked
    <3>1. new = [y EXCEPT !.stale = {}, !.fresh = TRUE]
      OBVIOUS
    <3>2. y \in Call /\ y.pc = "lock" /\ y.asked = x.asked /\ y.attempt = m
      <4> HIDE DEF m, n, x
      <4> QED BY <2>2, <2>3 DEF Call
    <3> HIDE DEF m, n, x, y, new
    <3> QED BY <3>1, <3>2 DEF Call
  <2> HIDE DEF m, n, x, y, new, Goal
  <2>5. Tries(new)
    BY <2>2, <2>3, <2>4 DEF Tries
  <2> QED BY <1>2, <2>1, <2>5
<1>9. ASSUME NEW c \in Requests, WriteDecision(c) PROVE Goal
  <2> SUFFICES ASSUME NEW d \in Requests PROVE Tries(request'[d])
    OBVIOUS
  <2>1. Tries(request[d]) /\ request[d] \in Call
    BY <1>1
  <2>2. CASE d = c
    <3> DEFINE k == Len(feedback) + 1
               new == [request[c] EXCEPT !.pc = "answer", !.row = k]
    <3>1. request'[d] = new
      BY <1>9, <2>2 DEF WriteDecision, NoteWrite
    <3>2. new.pc = "answer" /\ new.attempt = request[c].attempt
          /\ new.asked = request[c].asked
      BY <1>1 DEF Call
    <3> HIDE DEF new
    <3> QED BY <2>1, <2>2, <3>1, <3>2 DEF Tries
  <2>3. CASE d # c
    <3> DEFINE new == [request[d] EXCEPT !.stale = @ \cup CurrentSeen(c)]
    <3>1. request'[d] = new \/ request'[d] = request[d]
      BY <1>9, <2>3 DEF WriteDecision, NoteWrite
    <3>2. new.pc = request[d].pc /\ new.attempt = request[d].attempt
          /\ new.asked = request[d].asked
      BY <2>1 DEF Call
    <3> HIDE DEF new
    <3> QED BY <2>1, <3>1, <3>2 DEF Tries
  <2> QED BY <2>2, <2>3
<1>10. ASSUME NEW o \in Opportunities, ExpireOpportunity(o) PROVE Goal
  <2> SUFFICES ASSUME NEW d \in Requests PROVE Tries(request'[d])
    OBVIOUS
  <2>1. Tries(request[d]) /\ request[d] \in Call
    BY <1>1
  <2> DEFINE late == request[d].pc = "lock" /\ Asked(d).opportunity = o
             new == [request[d] EXCEPT !.fresh = @ /\ ~late]
  <2>2. request'[d] = new
    BY <1>10 DEF ExpireOpportunity
  <2>3. new.pc = request[d].pc /\ new.attempt = request[d].attempt
        /\ new.asked = request[d].asked
    <3> HIDE DEF late
    <3> QED BY <2>1 DEF Call
  <2> HIDE DEF new
  <2> QED BY <2>1, <2>2, <2>3 DEF Tries
<1>11. ASSUME NEW c \in Requests, Len(feedback) \in Nat
       PROVE  Replay(c) \subseteq Nat /\ Prior(c) \subseteq Nat
  BY <1>1 DEF Replay, Prior, SeenRows, FeedbackInv
<1>12. Len(feedback) \in Nat
  BY DEF FeedbackInv
<1>13. ASSUME UNCHANGED request PROVE Goal
  BY <1>13
<1> HIDE DEF Goal
<1>14. ASSUME NEW c \in Requests, LockRows(c) PROVE Goal
  BY <1>14, <1>3, <1>4, <1>5 DEF LockRows
<1>15. ASSUME NEW c \in Requests, ReplayDecision(c) PROVE Goal
  <2>1. Replay(c) \subseteq Nat
    BY <1>11, <1>12
  <2> QED BY <1>15, <1>3, <1>6, <2>1 DEF ReplayDecision
<1>16. ASSUME NEW c \in Requests, FindPrior(c) PROVE Goal
  <2>1. Prior(c) \subseteq Nat
    BY <1>11, <1>12
  <2> QED BY <1>16, <1>3, <1>6, <2>1 DEF FindPrior
<1>17. ASSUME NEW c \in Requests, WriteRefused(c) PROVE Goal
  BY <1>17, <1>4, <1>5 DEF WriteRefused
<1>18. ASSUME NEW c \in Requests, RefuseDecision(c) \/ AnswerRequest(c) \/ LoseRequest(c)
       PROVE  Goal
  BY <1>18, <1>3 DEF RefuseDecision, AnswerRequest, LoseRequest
<1>19. ASSUME UNCHANGED feedbackVars PROVE Goal
  BY <1>13, <1>19 DEF feedbackVars
<1>20. Goal
  BY <1>7, <1>8, <1>9, <1>10, <1>14, <1>15, <1>16, <1>17, <1>18, <1>19
     DEF FeedbackNext, RecordStep
<1> QED BY <1>20 DEF Goal

\* The rest of the types.
LEMMA BoundsStay ==
    ASSUME actionable \subseteq Opportunities, lost \in 0 .. MaxLost,
           [FeedbackNext]_feedbackVars
    PROVE  actionable' \subseteq Opportunities /\ lost' \in 0 .. MaxLost
<1>1. ASSUME NEW c \in Requests, RecordStep(c) \/ \E d \in Clicks : BeginRequest(c, d)
      PROVE  UNCHANGED <<actionable, lost>>
  BY <1>1 DEF RecordStep, BeginRequest, TakeSnapshot, LockRows, WriteDecision,
              ReplayDecision, RefuseDecision, WriteRefused, FindPrior, AnswerRequest
<1>2. ASSUME NEW c \in Requests, LoseRequest(c)
      PROVE  actionable' = actionable /\ lost' \in 0 .. MaxLost
  BY <1>2, FeedbackAssumption DEF LoseRequest
<1>3. ASSUME NEW o \in Opportunities, ExpireOpportunity(o)
      PROVE  actionable' \subseteq Opportunities /\ lost' = lost
  BY <1>3 DEF ExpireOpportunity
<1> QED BY <1>1, <1>2, <1>3 DEF FeedbackNext, feedbackVars

\* A call of record() makes at most MaxTransactions transactions, and its answers
\* are rows there are.
THEOREM FeedbackTypeCorrect == FeedbackSpec => []FeedbackTypeOK
<1> DEFINE Types == /\ \A c \in Requests : Tries(request[c])
                    /\ actionable \subseteq Opportunities /\ lost \in 0 .. MaxLost
<1>1. FeedbackInit => Types
  BY NoTries, FeedbackAssumption DEF FeedbackInit
<1>2. FeedbackInv /\ Types /\ [FeedbackNext]_feedbackVars => FeedbackInv' /\ Types'
  BY FeedbackStep, TriesStay, BoundsStay
<1>3. FeedbackInv /\ Types => FeedbackTypeOK
  <2> SUFFICES ASSUME FeedbackInv, Types PROVE FeedbackTypeOK
    OBVIOUS
  <2>1. request \in [Requests -> Request]
    <3> SUFFICES ASSUME NEW c \in Requests PROVE request[c] \in Request
      BY DEF FeedbackInv
    <3>1. request[c] \in Call /\ Tries(request[c])
      BY DEF FeedbackInv
    <3>2. request[c].attempt \in 0 .. MaxTransactions /\ request[c].asked \in Clicks
      BY <3>1, FeedbackAssumption DEF Tries, Call
    <3> QED BY <3>1, <3>2 DEF Call, Request
  <2>2. answered \in [Keys -> SUBSET (DOMAIN feedback)]
    <3>1. DOMAIN feedback = 1 .. Len(feedback)
      BY DEF FeedbackInv
    <3> QED BY <3>1 DEF FeedbackInv, AnswersHaveKey
  <2> QED BY <2>1, <2>2 DEF FeedbackTypeOK, FeedbackInv
<1> HIDE DEF Types
<1> QED BY <1>1, <1>2, <1>3, FeedbackBegins, PTL DEF FeedbackSpec

-----------------------------------------------------------------------------
(* Decisions are records *)

\* A step that writes no decision leaves the records and the current ones.
LEMMA DecisionsStay ==
    ASSUME UNCHANGED feedback
    PROVE  DecisionRecords!WriteRows /\ DecisionRecords!GiveWay
BY DEF DecisionRecords!WriteRows, DecisionRecords!GiveWay, DecisionRecords!Written

\* A write adds one, under a key of its own, to which the current decision of
\* its opportunity gives way.
LEMMA DecisionRecorded ==
    ASSUME FeedbackInv, FeedbackInv', NEW c \in Requests, WriteDecision(c)
    PROVE  DecisionRecords!WriteRows /\ DecisionRecords!GiveWay
<1> DEFINE k == Len(feedback)
<1>1. /\ k \in Nat /\ Len(feedback') = k + 1
      /\ feedback'[k + 1] = Asked(c)
      /\ DOMAIN feedback = 1 .. k /\ DOMAIN feedback' = 1 .. k + 1
  BY DecisionRows DEF FeedbackInv
<1>2. \A f \in 1 .. k :
         /\ feedback'[f].key = feedback[f].key
         /\ feedback'[f].opportunity = feedback[f].opportunity
         /\ feedback'[f].action = feedback[f].action
         /\ feedback[f].opportunity = Asked(c).opportunity => ~feedback'[f].isCurrent
         /\ feedback[f].opportunity # Asked(c).opportunity
               => (feedback'[f].isCurrent <=> feedback[f].isCurrent)
  BY DecisionRows
<1>3. \A f, g \in 1 .. k + 1 : feedback'[f].key = feedback'[g].key => f = g
  BY <1>1 DEF FeedbackInv, KeysAreUnique
<1> HIDE DEF k
<1>4. DecisionRecords!Written = {k + 1}
  BY <1>1 DEF DecisionRecords!Written
<1>5. DecisionRecords!WriteRows
  BY <1>1, <1>2, <1>3, <1>4 DEF DecisionRecords!WriteRows
<1>6. DecisionRecords!GiveWay
  BY <1>1, <1>2, <1>4 DEF DecisionRecords!GiveWay
<1> QED BY <1>5, <1>6

LEMMA DecisionsAnswered ==
    ASSUME FeedbackInv, FeedbackInv'
    PROVE  DecisionRecords!AnswerCallers
BY DEF FeedbackInv, AnswersHaveKey, DecisionRecords!AnswerCallers

LEMMA RecordsDecisions ==
    FeedbackInv /\ FeedbackInv' /\ [FeedbackNext]_feedbackVars => DecisionRecords!RecordsNext
<1> SUFFICES ASSUME FeedbackInv, FeedbackInv', [FeedbackNext]_feedbackVars
             PROVE  DecisionRecords!RecordsNext
  OBVIOUS
<1>1. UNCHANGED feedback \/ \E c \in Requests : WriteDecision(c)
  BY DEF FeedbackNext, RecordStep, feedbackVars, BeginRequest, TakeSnapshot,
         LockRows, ReplayDecision, RefuseDecision, WriteRefused, FindPrior,
         AnswerRequest, LoseRequest, ExpireOpportunity
<1>2. DecisionRecords!WriteRows /\ DecisionRecords!GiveWay
  BY <1>1, DecisionsStay, DecisionRecorded
<1> QED BY <1>2, DecisionsAnswered DEF DecisionRecords!RecordsNext

\* Decisions are consistent and implement the abstract specification of a table of
\* answers, however calls race, wait, are refused, tried again or die.
THEOREM DecisionsAreRecords == FeedbackSpec => FeedbackImplementsRecords
<1>1. FeedbackInit => DecisionRecords!RecordsInit
  BY DEF FeedbackInit, DecisionRecords!RecordsInit
<1>2. FeedbackSpec => []FeedbackInv
  BY FeedbackBegins, FeedbackStep, PTL DEF FeedbackSpec
<1> QED BY <1>1, <1>2, DecisionsAreConsistent, RecordsDecisions, PTL
        DEF FeedbackSpec, FeedbackImplementsRecords, DecisionRecords!RecordsSpec

\* A key is never answered with another row than before, and a decision that was
\* superseded is never current again, however late a call commits or answers.
THEOREM DecisionsStayFinal == FeedbackSpec => DecisionRecords!AnswersAreFinal
BY DecisionsAreRecords, DecisionRecords!AnswersStayFinal, PTL
   DEF FeedbackImplementsRecords

-----------------------------------------------------------------------------
(* Connections                                                               *)

Token == [user : Owners, project : Projects, expiresAt : Int, live : BOOLEAN]

RepositoryRow == [connection : Nat, provider : Repositories \cup {"none"},
                  name : Repositories \cup {"none"}]

Labels == {"idle", "start", "consume", "exchange", "project", "repository", "upsert"}

ConnectLabels == {"project", "repository", "upsert"}

Caller == [pc : Labels, user : Owners \cup {"none"}, project : Projects \cup {"none"},
           token : Nat, connection : Nat, provider : Repositories \cup {"none"},
           seen : SUBSET Nat, overlapped : BOOLEAN]

ConnectionsTypes ==
    /\ instant \in Nat
    /\ pending \in Seq(Token)
    /\ redeemed \in Seq(Seq(Owners))
    /\ Len(redeemed) = Len(pending)
    /\ connection \in [Owners -> Nat]
    /\ connectionsMade \in Nat
    /\ repository \in [Projects -> RepositoryRow]

\* A token that is live was not redeemed, another at most once, by its user.
TokensInv ==
    \A t \in 1 .. Len(pending) :
        /\ pending[t].live => redeemed[t] = <<>>
        /\ Len(redeemed[t]) <= 1
        /\ \A i \in 1 .. Len(redeemed[t]) : redeemed[t][i] = pending[t].user

RowsBelong ==
    \A p \in Projects :
        repository[p] # NoRepository => repository[p].connection # NoConnection

\* What a request may rely on. The last part is what its check of the project
\* is worth: the row is as it saw it, unless another request overlapped.
SoundCaller(x) ==
    /\ x \in Caller
    /\ x.pc \in {"start", "exchange"} \cup ConnectLabels => x.user \in Owners
    /\ x.pc \in {"start"} \cup ConnectLabels => x.project \in Projects
    /\ x.pc \in ConnectLabels => x.connection # NoConnection
    /\ x.pc \in ConnectLabels => x.provider \in Repositories
    /\ x.pc = "consume" => x.token \in 1 .. Len(pending) /\ x.user = pending[x.token].user
    /\ x.pc \in {"repository", "upsert"} /\ ~x.overlapped =>
          \/ repository[x.project] = NoRepository
          \/ repository[x.project].provider = x.provider

SlotsInv == caller \in [Slots -> Caller] /\ \A c \in Slots : SoundCaller(caller[c])

\* Requests that connect one project at the same time know of it.
OverlapsAreNoted ==
    \A c, d \in Slots :
        (/\ c # d
         /\ caller[c].pc \in ConnectLabels /\ caller[d].pc \in ConnectLabels
         /\ caller[c].project = caller[d].project) => caller[c].overlapped

\* The inductive invariant.
ConnectionsInv ==
    /\ ConnectionsTypes
    /\ TokensInv
    /\ RowsBelong
    /\ SlotsInv
    /\ OverlapsAreNoted
    /\ OneProjectPerRepository
    /\ NamesAreItsOwn

-----------------------------------------------------------------------------
(* Requests between their statements *)

LEMMA NoCallerSound == SoundCaller(NoCaller) /\ NoCaller.pc = "idle"
BY DEF NoCaller, SoundCaller, Caller, Labels, ConnectLabels, NoConnection

LEMMA NoRepositoryType == NoRepository \in RepositoryRow
BY DEF NoRepository, RepositoryRow, NoConnection

LEMMA CallerLabel ==
    ASSUME NEW x \in Caller, NEW label \in Labels
    PROVE  LET new == [x EXCEPT !.pc = label] IN
           /\ new \in Caller /\ new.pc = label /\ new.user = x.user
           /\ new.project = x.project /\ new.token = x.token
           /\ new.connection = x.connection /\ new.provider = x.provider
           /\ new.overlapped = x.overlapped
BY DEF Caller

\* A request takes a step and changes nothing else.
LEMMA CallerMoves ==
    ASSUME ConnectionsInv, NEW c \in Slots, NEW new, SoundCaller(new),
           caller' = [caller EXCEPT ![c] = new],
           UNCHANGED <<instant, pending, redeemed, connection, connectionsMade,
                       repository, raced>>,
           new.pc \in ConnectLabels =>
              /\ caller[c].pc \in ConnectLabels
              /\ new.project = caller[c].project
              /\ new.overlapped = caller[c].overlapped
    PROVE  ConnectionsInv'
<1>1. /\ ConnectionsTypes' /\ TokensInv' /\ RowsBelong'
      /\ OneProjectPerRepository' /\ NamesAreItsOwn'
  BY DEF ConnectionsInv, ConnectionsTypes, TokensInv, RowsBelong,
         OneProjectPerRepository, NamesAreItsOwn
<1>2. \A d \in Slots : caller'[d] = IF d = c THEN new ELSE caller[d]
  BY DEF ConnectionsInv, SlotsInv
<1>3. SlotsInv'
  <2>1. caller' \in [Slots -> Caller]
    BY DEF ConnectionsInv, SlotsInv, SoundCaller
  <2>2. \A d \in Slots : SoundCaller(caller'[d])
    BY <1>2 DEF ConnectionsInv, SlotsInv
  <2>3. \A d \in Slots : SoundCaller(caller[d])'
    BY <2>2 DEF SoundCaller
  <2> QED BY <2>1, <2>3 DEF SlotsInv
<1>4. OverlapsAreNoted'
  BY <1>2 DEF ConnectionsInv, OverlapsAreNoted
<1> QED BY <1>1, <1>3, <1>4 DEF ConnectionsInv

LEMMA CallerEnds ==
    ASSUME ConnectionsInv, NEW c \in Slots, EndCall(c),
           UNCHANGED <<instant, pending, redeemed, connection, connectionsMade,
                       repository, raced>>
    PROVE  ConnectionsInv'
BY NoCallerSound, CallerMoves DEF EndCall, ConnectLabels

\* The parts about callers when one of them ends and what the others rely on
\* stays.
LEMMA OthersRely ==
    ASSUME ConnectionsInv, NEW c \in Slots, EndCall(c),
           \A d \in Slots \ {c} : SoundCaller(caller[d])'
    PROVE  SlotsInv' /\ OverlapsAreNoted'
<1>1. \A d \in Slots : caller'[d] = IF d = c THEN NoCaller ELSE caller[d]
  BY DEF ConnectionsInv, SlotsInv, EndCall
<1>2. NoCaller \in Caller /\ NoCaller.pc = "idle"
  BY NoCallerSound DEF SoundCaller
<1>3. caller' \in [Slots -> Caller]
  BY <1>2 DEF ConnectionsInv, SlotsInv, EndCall
<1>4. SoundCaller(caller[c])'
  BY <1>1, <1>2 DEF SoundCaller, ConnectLabels
<1>5. SlotsInv'
  BY <1>3, <1>4 DEF SlotsInv
<1>6. OverlapsAreNoted'
  BY <1>1, <1>2 DEF ConnectionsInv, OverlapsAreNoted, ConnectLabels
<1> QED BY <1>5, <1>6

-----------------------------------------------------------------------------
(* Steps that change no row *)

LEMMA StartKeeps ==
    ASSUME ConnectionsInv, NEW c \in Slots, NEW p \in Projects, StartConnection(c, p)
    PROVE  ConnectionsInv'
<1> DEFINE new == [NoCaller EXCEPT !.pc = "start", !.user = OwnerOf[p], !.project = p,
                                   !.seen = Outdated(p)]
<1>1. Outdated(p) \in SUBSET Nat
  BY DEF Outdated, ConnectionsInv, ConnectionsTypes
<1>2. OwnerOf[p] \in Owners
  BY ConnectionsAssumption DEF Projects
<1>3. new \in Caller /\ new.pc = "start" /\ new.user = OwnerOf[p] /\ new.project = p
  <2> DEFINE S == Outdated(p)
             u == OwnerOf[p]
             y == [NoCaller EXCEPT !.pc = "start", !.user = u, !.project = p]
  <2>1. NoCaller \in Caller
    BY NoCallerSound DEF SoundCaller
  <2>2. new = [y EXCEPT !.seen = S]
    OBVIOUS
  <2>3. y \in Caller /\ y.pc = "start" /\ y.user = u /\ y.project = p
    <3> HIDE DEF u
    <3> QED BY <1>2, <2>1 DEF Caller, Labels, u
  <2> HIDE DEF S, y, new
  <2> QED BY <1>1, <2>2, <2>3 DEF Caller, S
<1>4. caller' = [caller EXCEPT ![c] = new]
      /\ UNCHANGED <<instant, pending, redeemed, connection, connectionsMade,
                     repository, raced>>
  BY DEF StartConnection
<1> HIDE DEF new
<1>5. SoundCaller(new) /\ new.pc = "start"
  BY <1>2, <1>3 DEF SoundCaller, ConnectLabels
<1> QED BY <1>4, <1>5, CallerMoves DEF ConnectLabels

LEMMA FindTokenKeeps ==
    ASSUME ConnectionsInv, NEW c \in Slots, NEW u \in Owners, NEW t \in DOMAIN pending,
           FindToken(c, u, t)
    PROVE  ConnectionsInv'
<1> DEFINE new == [NoCaller EXCEPT !.pc = "consume", !.user = u, !.token = t]
<1>1. t \in 1 .. Len(pending) /\ t \in Nat
  BY DEF ConnectionsInv, ConnectionsTypes
<1>2. new \in Caller /\ new.pc = "consume" /\ new.user = u /\ new.token = t
  <2>1. NoCaller \in Caller
    BY NoCallerSound DEF SoundCaller
  <2> QED BY <1>1, <2>1 DEF Caller, Labels
<1>3. caller' = [caller EXCEPT ![c] = new] /\ pending[t].user = u
      /\ UNCHANGED <<instant, pending, redeemed, connection, connectionsMade,
                     repository, raced>>
  BY DEF FindToken, Redeemable
<1> HIDE DEF new
<1>4. SoundCaller(new) /\ new.pc = "consume"
  BY <1>1, <1>2, <1>3 DEF SoundCaller, ConnectLabels
<1> QED BY <1>3, <1>4, CallerMoves DEF ConnectLabels

LEMMA CheckProjectKeeps ==
    ASSUME ConnectionsInv, NEW c \in Slots, CheckProject(c)
    PROVE  ConnectionsInv'
<1> DEFINE new == [caller[c] EXCEPT !.pc = "repository"]
<1>1. caller[c] \in Caller /\ SoundCaller(caller[c]) /\ caller[c].pc = "project"
      /\ UNCHANGED <<instant, pending, redeemed, connection, connectionsMade,
                     repository, raced>>
  BY DEF ConnectionsInv, SlotsInv, CheckProject
<1>2. CASE SameRepository(c) /\ GoOn(c, "repository")
  <2>1. caller' = [caller EXCEPT ![c] = new]
    BY <1>2 DEF GoOn
  <2>2. /\ new \in Caller /\ new.pc = "repository" /\ new.user = caller[c].user
        /\ new.project = caller[c].project /\ new.token = caller[c].token
        /\ new.connection = caller[c].connection /\ new.provider = caller[c].provider
        /\ new.overlapped = caller[c].overlapped
    BY <1>1, CallerLabel, "repository" \in Labels DEF Labels
  <2> HIDE DEF new
  <2>3. SoundCaller(new)
    BY <1>1, <1>2, <2>2 DEF SoundCaller, SameRepository, ConnectLabels
  <2> QED BY <1>1, <2>1, <2>2, <2>3, CallerMoves DEF ConnectLabels
<1>3. CASE EndCall(c)
  BY <1>1, <1>3, CallerEnds
<1> QED BY <1>2, <1>3 DEF CheckProject

LEMMA CheckRepositoryKeeps ==
    ASSUME ConnectionsInv, NEW c \in Slots, CheckRepository(c)
    PROVE  ConnectionsInv'
<1> DEFINE new == [caller[c] EXCEPT !.pc = "upsert"]
<1>1. caller[c] \in Caller /\ SoundCaller(caller[c]) /\ caller[c].pc = "repository"
      /\ UNCHANGED <<instant, pending, redeemed, connection, connectionsMade,
                     repository, raced>>
  BY DEF ConnectionsInv, SlotsInv, CheckRepository
<1>2. CASE GoOn(c, "upsert")
  <2>1. caller' = [caller EXCEPT ![c] = new]
    BY <1>2 DEF GoOn
  <2>2. /\ new \in Caller /\ new.pc = "upsert" /\ new.user = caller[c].user
        /\ new.project = caller[c].project /\ new.token = caller[c].token
        /\ new.connection = caller[c].connection /\ new.provider = caller[c].provider
        /\ new.overlapped = caller[c].overlapped
    BY <1>1, CallerLabel, "upsert" \in Labels DEF Labels
  <2> HIDE DEF new
  <2>3. SoundCaller(new)
    BY <1>1, <2>2 DEF SoundCaller, ConnectLabels
  <2> QED BY <1>1, <2>1, <2>2, <2>3, CallerMoves DEF ConnectLabels
<1>3. CASE EndCall(c)
  BY <1>1, <1>3, CallerEnds
<1> QED BY <1>2, <1>3 DEF CheckRepository

\* A request that begins to connect a project tells the others, and itself.
LEMMA ConnectKeeps ==
    ASSUME ConnectionsInv, NEW c \in Slots, NEW p \in Projects, NEW r \in Repositories,
           BeginConnecting(c, p, r)
    PROVE  ConnectionsInv'
<1> DEFINE new == [NoCaller EXCEPT
                     !.pc = "project", !.user = OwnerOf[p], !.project = p,
                     !.connection = connection[OwnerOf[p]], !.provider = r,
                     !.overlapped = Connecting(p) # {}]
<1>1. OwnerOf[p] \in Owners /\ connection[OwnerOf[p]] \in Nat \ {NoConnection}
  BY ConnectionsAssumption
  DEF Projects, BeginConnecting, ConnectionsInv, ConnectionsTypes, NoConnection
<1>2. /\ new \in Caller /\ new.pc = "project" /\ new.user = OwnerOf[p]
      /\ new.project = p /\ new.connection = connection[OwnerOf[p]] /\ new.provider = r
      /\ new.overlapped <=> Connecting(p) # {}
  <2> DEFINE b == Connecting(p) # {}
             u == OwnerOf[p]
             k == connection[OwnerOf[p]]
             y == [NoCaller EXCEPT !.pc = "project", !.user = u, !.project = p]
             z == [y EXCEPT !.connection = k, !.provider = r]
  <2>1. NoCaller \in Caller
    BY NoCallerSound DEF SoundCaller
  <2>2. new = [z EXCEPT !.overlapped = b]
    OBVIOUS
  <2>3. y \in Caller /\ y.pc = "project" /\ y.user = u /\ y.project = p
    <3> HIDE DEF u
    <3> QED BY <1>1, <2>1 DEF Caller, Labels, u
  <2>4. /\ z \in Caller /\ z.pc = "project" /\ z.user = u /\ z.project = p
        /\ z.connection = k /\ z.provider = r
    <3> HIDE DEF y, k, u
    <3> QED BY <1>1, <2>3 DEF Caller, k
  <2>5. b \in BOOLEAN
    OBVIOUS
  <2>6. /\ new \in Caller /\ new.pc = "project" /\ new.user = u /\ new.project = p
        /\ new.connection = k /\ new.provider = r /\ new.overlapped = b
    <3> HIDE DEF b, u, k, y, z, new
    <3> QED BY <2>2, <2>4, <2>5 DEF Caller
  <2> QED BY <2>6
<1>3. UNCHANGED <<instant, pending, redeemed, connection, connectionsMade,
                  repository, raced>>
  BY DEF BeginConnecting
<1>4. caller'[c] = new
  BY DEF BeginConnecting
<1>5. ASSUME NEW d \in Slots \ {c}
      PROVE  /\ caller'[d] \in Caller
             /\ caller'[d].pc = caller[d].pc /\ caller'[d].user = caller[d].user
             /\ caller'[d].project = caller[d].project
             /\ caller'[d].token = caller[d].token
             /\ caller'[d].connection = caller[d].connection
             /\ caller'[d].provider = caller[d].provider
             /\ caller'[d].overlapped <=> (caller[d].overlapped \/ d \in Connecting(p))
  <2>1. caller'[d] = [caller[d] EXCEPT !.overlapped =
                        caller[d].overlapped \/ d \in Connecting(p)]
    BY DEF BeginConnecting
  <2>2. caller[d] \in Caller
    BY DEF ConnectionsInv, SlotsInv
  <2>3. ASSUME NEW b \in BOOLEAN
        PROVE  LET x == [caller[d] EXCEPT !.overlapped = b] IN
               /\ x \in Caller /\ x.pc = caller[d].pc /\ x.user = caller[d].user
               /\ x.project = caller[d].project /\ x.token = caller[d].token
               /\ x.connection = caller[d].connection
               /\ x.provider = caller[d].provider /\ x.overlapped = b
    BY <2>2 DEF Caller
  <2> QED BY <2>1, <2>3
<1> HIDE DEF new
<1>6. SoundCaller(new)
  BY <1>1, <1>2 DEF SoundCaller, ConnectLabels
<1>7. SlotsInv'
  <2>1. DOMAIN caller' = Slots /\ caller' = [d \in Slots |-> caller'[d]]
    BY DEF BeginConnecting
  <2>2. caller' \in [Slots -> Caller]
    BY <1>4, <1>5, <1>2, <2>1
  <2>3. ASSUME NEW d \in Slots PROVE SoundCaller(caller[d])'
    <3>1. CASE d = c
      BY <1>3, <1>4, <1>6, <3>1 DEF SoundCaller
    <3>2. CASE d # c
      <4>1. SoundCaller(caller[d])
        BY DEF ConnectionsInv, SlotsInv
      <4> QED BY <1>3, <1>5, <3>2, <4>1 DEF SoundCaller
    <3> QED BY <3>1, <3>2
  <2> QED BY <2>2, <2>3 DEF SlotsInv
<1>8. OverlapsAreNoted'
  <2>1. SUFFICES ASSUME NEW d \in Slots, NEW e \in Slots, d # e,
                        caller'[d].pc \in ConnectLabels, caller'[e].pc \in ConnectLabels,
                        caller'[d].project = caller'[e].project
                 PROVE  caller'[d].overlapped
    BY DEF OverlapsAreNoted
  <2>2. CASE d = c
    <3>1. e \in Connecting(p)
      BY <1>4, <1>5, <1>2, <2>1, <2>2 DEF Connecting, ConnectLabels
    <3> QED BY <1>4, <1>2, <2>2, <3>1
  <2>3. CASE e = c
    <3>1. d \in Connecting(p)
      BY <1>4, <1>5, <1>2, <2>1, <2>3 DEF Connecting, ConnectLabels
    <3> QED BY <1>5, <2>1, <2>3, <3>1
  <2>4. CASE d # c /\ e # c
    BY <1>5, <2>1, <2>4 DEF ConnectionsInv, OverlapsAreNoted
  <2> QED BY <2>2, <2>3, <2>4
<1> QED BY <1>3, <1>7, <1>8
        DEF ConnectionsInv, ConnectionsTypes, TokensInv, RowsBelong,
            OneProjectPerRepository, NamesAreItsOwn

-----------------------------------------------------------------------------
(* Tokens *)

\* The tokens after a new one is issued: the earlier ones, live or not.
LEMMA IssuedTokens ==
    ASSUME ConnectionsInv, NEW c \in Slots, IssueToken(c)
    PROVE  LET k == Len(pending) IN
           /\ k \in Nat
           /\ pending' \in Seq(Token) /\ redeemed' \in Seq(Seq(Owners))
           /\ Len(pending') = k + 1 /\ Len(redeemed') = k + 1
           /\ redeemed'[k + 1] = <<>>
           /\ \A t \in 1 .. k :
                 /\ pending'[t].user = pending[t].user
                 /\ pending'[t].live => pending[t].live
                 /\ redeemed'[t] = redeemed[t]
<1> DEFINE k == Len(pending)
           old == [t \in DOMAIN pending |->
                     [pending[t] EXCEPT !.live = @ /\ t \notin caller[c].seen]]
           row == [user |-> caller[c].user, project |-> caller[c].project,
                   expiresAt |-> instant + Lifetime, live |-> TRUE]
<1>1. pending' = Append(old, row) /\ redeemed' = Append(redeemed, <<>>)
  BY DEF IssueToken
<1>2. /\ k \in Nat /\ DOMAIN pending = 1 .. k
      /\ \A t \in 1 .. k : pending[t] \in Token
      /\ redeemed \in Seq(Seq(Owners)) /\ Len(redeemed) = k
  BY DEF ConnectionsInv, ConnectionsTypes
<1>3. row \in Token
  BY ConnectionsAssumption
  DEF Token, ConnectionsInv, ConnectionsTypes, SlotsInv, SoundCaller, IssueToken
<1>4. ASSUME NEW t \in 1 .. k
      PROVE  /\ old[t] \in Token
             /\ old[t].user = pending[t].user
             /\ old[t].live => pending[t].live
  <2>1. old[t] = [pending[t] EXCEPT !.live = pending[t].live /\ t \notin caller[c].seen]
    BY <1>2
  <2>2. ASSUME NEW b \in BOOLEAN
        PROVE  LET x == [pending[t] EXCEPT !.live = b] IN
               x \in Token /\ x.user = pending[t].user /\ x.live = b
    BY <1>2 DEF Token
  <2> HIDE DEF old
  <2> QED BY <2>1, <2>2
<1>5. old \in Seq(Token) /\ Len(old) = k
  <2>1. old \in [1 .. k -> Token]
    BY <1>2, <1>4
  <2> HIDE DEF old, k
  <2> QED BY <2>1, <1>2
<1>6. /\ pending' \in Seq(Token) /\ Len(pending') = k + 1
      /\ \A t \in 1 .. k : pending'[t] = old[t]
  <2> HIDE DEF old, row, k
  <2> QED BY <1>1, <1>2, <1>3, <1>5
<1>7. /\ redeemed' \in Seq(Seq(Owners)) /\ Len(redeemed') = k + 1
      /\ redeemed'[k + 1] = <<>>
      /\ \A t \in 1 .. k : redeemed'[t] = redeemed[t]
  <2>1. <<>> \in Seq(Owners)
    OBVIOUS
  <2> HIDE DEF k
  <2> QED BY <1>1, <1>2, <2>1
<1> HIDE DEF old
<1> QED BY <1>2, <1>4, <1>6, <1>7

LEMMA IssueKeeps ==
    ASSUME ConnectionsInv, NEW c \in Slots, IssueToken(c)
    PROVE  ConnectionsInv'
<1> DEFINE k == Len(pending)
<1>1. /\ k \in Nat
      /\ pending' \in Seq(Token) /\ redeemed' \in Seq(Seq(Owners))
      /\ Len(pending') = k + 1 /\ Len(redeemed') = k + 1
      /\ redeemed'[k + 1] = <<>>
  BY IssuedTokens
<1>2. \A t \in 1 .. k :
         /\ pending'[t].user = pending[t].user
         /\ pending'[t].live => pending[t].live
         /\ redeemed'[t] = redeemed[t]
  BY IssuedTokens
<1>3. EndCall(c) /\ UNCHANGED <<instant, connection, connectionsMade, repository, raced>>
  BY DEF IssueToken
<1>4. ConnectionsTypes'
  BY <1>1, <1>3 DEF ConnectionsInv, ConnectionsTypes
<1>5. TokensInv'
  <2>1. \A t \in 1 .. k + 1 : t \in 1 .. k \/ t = k + 1
    BY <1>1
  <2>2. \A t \in 1 .. k :
           /\ pending[t].live => redeemed[t] = <<>>
           /\ Len(redeemed[t]) <= 1
           /\ \A i \in 1 .. Len(redeemed[t]) : redeemed[t][i] = pending[t].user
    BY DEF ConnectionsInv, TokensInv
  <2> HIDE DEF k
  <2>3. SUFFICES ASSUME NEW t \in 1 .. k + 1
                 PROVE  /\ pending'[t].live => redeemed'[t] = <<>>
                        /\ Len(redeemed'[t]) <= 1
                        /\ \A i \in 1 .. Len(redeemed'[t]) : redeemed'[t][i] = pending'[t].user
    BY <1>1 DEF TokensInv
  <2>4. CASE t \in 1 .. k
    BY <1>2, <2>2, <2>4
  <2>5. CASE t = k + 1
    BY <1>1, <2>5
  <2> QED BY <2>1, <2>4, <2>5
<1>6. ASSUME NEW d \in Slots \ {c} PROVE SoundCaller(caller[d])'
  <2>1. caller'[d] = caller[d] /\ SoundCaller(caller[d])
    BY <1>3 DEF EndCall, ConnectionsInv, SlotsInv
  <2> QED BY <1>1, <1>2, <1>3, <2>1 DEF SoundCaller
<1>7. SlotsInv' /\ OverlapsAreNoted'
  BY <1>3, <1>6, OthersRely
<1> QED BY <1>3, <1>4, <1>5, <1>7
        DEF ConnectionsInv, RowsBelong, OneProjectPerRepository, NamesAreItsOwn

LEMMA ConsumeKeeps ==
    ASSUME ConnectionsInv, NEW c \in Slots, ConsumeToken(c)
    PROVE  ConnectionsInv'
<1> DEFINE t == caller[c].token
           u == caller[c].user
<1>1. /\ caller[c] \in Caller /\ SoundCaller(caller[c]) /\ caller[c].pc = "consume"
      /\ UNCHANGED <<instant, connection, connectionsMade, repository, raced>>
  BY DEF ConnectionsInv, SlotsInv, ConsumeToken
<1>2. t \in 1 .. Len(pending) /\ u = pending[t].user
  BY <1>1 DEF SoundCaller
<1>3. /\ pending \in Seq(Token) /\ redeemed \in Seq(Seq(Owners))
      /\ Len(redeemed) = Len(pending) /\ Len(pending) \in Nat
      /\ pending[t] \in Token /\ u \in Owners
  <2>1. /\ pending \in Seq(Token) /\ redeemed \in Seq(Seq(Owners))
        /\ Len(redeemed) = Len(pending)
    BY DEF ConnectionsInv, ConnectionsTypes
  <2>2. Len(pending) \in Nat
    BY <2>1
  <2> HIDE DEF t, u
  <2>3. pending[t] \in Token
    BY <1>2, <2>1
  <2>4. u \in Owners
    BY <1>2, <2>3 DEF Token
  <2> QED BY <2>1, <2>2, <2>3, <2>4
<1>4. CASE ~Deleted(t)
  BY <1>1, <1>4, CallerEnds DEF ConsumeToken
<1>5. CASE /\ Deleted(t)
           /\ pending' = [pending EXCEPT ![t].live = FALSE]
           /\ redeemed' = [redeemed EXCEPT ![t] = Append(@, u)]
           /\ GoOn(c, "exchange")
  <2> DEFINE new == [caller[c] EXCEPT !.pc = "exchange"]
             row == [pending[t] EXCEPT !.live = FALSE]
  <2>1. redeemed[t] = <<>>
    BY <1>2, <1>5 DEF ConnectionsInv, TokensInv, Deleted
  <2>2. row \in Token /\ row.user = u /\ row.live = FALSE
    BY <1>2, <1>3 DEF Token
  <2>3. pending' = [pending EXCEPT ![t] = row] /\ redeemed' = [redeemed EXCEPT ![t] = <<u>>]
    BY <1>5, <2>1
  <2>4. /\ new \in Caller /\ new.pc = "exchange" /\ new.user = u
    BY <1>1, CallerLabel, "exchange" \in Labels DEF Labels
  <2>5. caller' = [caller EXCEPT ![c] = new]
    BY <1>5 DEF GoOn
  <2> HIDE DEF t, u, new, row
  <2>6. /\ pending' \in Seq(Token) /\ Len(pending') = Len(pending)
        /\ \A s \in 1 .. Len(pending) : pending'[s] = IF s = t THEN row ELSE pending[s]
    BY <1>2, <1>3, <2>2, <2>3
  <2>7. /\ redeemed' \in Seq(Seq(Owners)) /\ Len(redeemed') = Len(pending)
        /\ \A s \in 1 .. Len(pending) : redeemed'[s] = IF s = t THEN <<u>> ELSE redeemed[s]
    <3>1. <<u>> \in Seq(Owners)
      BY <1>3
    <3> QED BY <1>2, <1>3, <2>3, <3>1
  <2>8. ConnectionsTypes'
    BY <1>1, <2>6, <2>7 DEF ConnectionsInv, ConnectionsTypes
  <2>9. TokensInv'
    <3>1. SUFFICES ASSUME NEW s \in 1 .. Len(pending)
                   PROVE  /\ pending'[s].live => redeemed'[s] = <<>>
                          /\ Len(redeemed'[s]) <= 1
                          /\ \A i \in 1 .. Len(redeemed'[s]) : redeemed'[s][i] = pending'[s].user
      BY <2>6 DEF TokensInv
    <3>2. CASE s = t
      <4>1. pending'[s] = row /\ redeemed'[s] = <<u>>
        BY <2>6, <2>7, <3>2
      <4>2. Len(<<u>>) = 1 /\ \A i \in 1 .. Len(<<u>>) : <<u>>[i] = u
        OBVIOUS
      <4> QED BY <2>2, <4>1, <4>2
    <3>3. CASE s # t
      BY <2>6, <2>7, <3>3 DEF ConnectionsInv, TokensInv
    <3> QED BY <3>2, <3>3
  <2>10. \A d \in Slots : caller'[d] = IF d = c THEN new ELSE caller[d]
    BY <2>5 DEF ConnectionsInv, SlotsInv
  <2>11. \A s \in 1 .. Len(pending) : pending'[s].user = pending[s].user
    BY <1>2, <2>2, <2>6 DEF u, t
  <2>12. SlotsInv'
    <3>1. caller' \in [Slots -> Caller]
      BY <2>4, <2>5 DEF ConnectionsInv, SlotsInv
    <3>2. ASSUME NEW d \in Slots PROVE SoundCaller(caller[d])'
      <4>1. CASE d = c
        BY <1>3, <2>4, <2>10, <4>1 DEF SoundCaller, ConnectLabels
      <4>2. CASE d # c
        <5>1. caller'[d] = caller[d] /\ SoundCaller(caller[d])
          BY <2>10, <4>2 DEF ConnectionsInv, SlotsInv
        <5> QED BY <1>1, <2>6, <2>11, <5>1 DEF SoundCaller
      <4> QED BY <4>1, <4>2
    <3> QED BY <3>1, <3>2 DEF SlotsInv
  <2>13. OverlapsAreNoted'
    BY <2>4, <2>10 DEF ConnectionsInv, OverlapsAreNoted, ConnectLabels
  <2> QED BY <1>1, <2>8, <2>9, <2>12, <2>13
          DEF ConnectionsInv, RowsBelong, OneProjectPerRepository, NamesAreItsOwn
<1> QED BY <1>4, <1>5 DEF ConsumeToken
-----------------------------------------------------------------------------
(* Connections and rows *)

LEMMA UpsertConnectionKeeps ==
    ASSUME ConnectionsInv, NEW c \in Slots, UpsertConnection(c)
    PROVE  ConnectionsInv'
<1>1. EndCall(c) /\ UNCHANGED <<instant, pending, redeemed, repository, raced>>
  BY DEF UpsertConnection
<1>2. connection' \in [Owners -> Nat] /\ connectionsMade' \in Nat
  <2>1. CASE UNCHANGED <<connection, connectionsMade>>
    BY <2>1 DEF ConnectionsInv, ConnectionsTypes
  <2>2. CASE /\ connectionsMade' = connectionsMade + 1
             /\ connection' = [connection EXCEPT ![caller[c].user] = connectionsMade']
    <3>1. connection \in [Owners -> Nat] /\ connectionsMade \in Nat
      BY DEF ConnectionsInv, ConnectionsTypes
    <3>2. connectionsMade' \in Nat
      BY <2>2, <3>1
    <3> QED BY <2>2, <3>1, <3>2
  <2> QED BY <2>1, <2>2 DEF UpsertConnection
<1>3. ASSUME NEW d \in Slots \ {c} PROVE SoundCaller(caller[d])'
  <2>1. caller'[d] = caller[d] /\ SoundCaller(caller[d])
    BY <1>1 DEF EndCall, ConnectionsInv, SlotsInv
  <2> QED BY <1>1, <2>1 DEF SoundCaller
<1>4. SlotsInv' /\ OverlapsAreNoted'
  BY <1>1, <1>3, OthersRely
<1> QED BY <1>1, <1>2, <1>4
        DEF ConnectionsInv, ConnectionsTypes, TokensInv, RowsBelong,
            OneProjectPerRepository, NamesAreItsOwn

\* The request that writes the row of a project.
LEMMA AtUpsert ==
    ASSUME ConnectionsInv, NEW c \in Slots, caller[c].pc = "upsert"
    PROVE  /\ caller[c].project \in Projects
           /\ caller[c].connection \in Nat \ {NoConnection}
           /\ caller[c].provider \in Repositories
           /\ ~caller[c].overlapped =>
                 \/ repository[caller[c].project] = NoRepository
                 \/ repository[caller[c].project].provider = caller[c].provider
           /\ \A d \in Slots \ {c} :
                 /\ caller[d].pc \in ConnectLabels
                 /\ caller[d].project = caller[c].project
                 => caller[d].overlapped
<1>1. SoundCaller(caller[c])
  BY DEF ConnectionsInv, SlotsInv
<1>2. caller[c].connection \in Nat
  BY <1>1 DEF SoundCaller, Caller
<1> QED BY <1>1, <1>2 DEF SoundCaller, ConnectLabels, ConnectionsInv, OverlapsAreNoted

\* What the others rely on, when a request writes the row of its project.
LEMMA OthersSound ==
    ASSUME ConnectionsInv, NEW c \in Slots, caller[c].pc = "upsert", EndCall(c),
           UNCHANGED pending,
           \A q \in Projects \ {caller[c].project} : repository'[q] = repository[q]
    PROVE  SlotsInv' /\ OverlapsAreNoted'
<1>1. ASSUME NEW d \in Slots \ {c} PROVE SoundCaller(caller[d])'
  <2>1. caller'[d] = caller[d] /\ SoundCaller(caller[d])
    BY DEF EndCall, ConnectionsInv, SlotsInv
  <2>2. caller[d].pc \in {"repository", "upsert"} /\ ~caller[d].overlapped =>
           /\ caller[d].project \in Projects \ {caller[c].project}
           /\ \/ repository[caller[d].project] = NoRepository
              \/ repository[caller[d].project].provider = caller[d].provider
    BY <2>1, AtUpsert DEF SoundCaller, ConnectLabels
  <2> QED BY <2>1, <2>2 DEF SoundCaller
<1> QED BY <1>1, OthersRely

LEMMA CreateKeeps ==
    ASSUME ConnectionsInv, NEW c \in Slots, CreateRepository(c)
    PROVE  ConnectionsInv'
<1> DEFINE p == caller[c].project
           r == caller[c].provider
           k == caller[c].connection
           row == [connection |-> k, provider |-> r, name |-> r]
<1>1. /\ caller[c].pc = "upsert" /\ EndCall(c)
      /\ UNCHANGED <<instant, pending, redeemed, connection, connectionsMade>>
  BY DEF CreateRepository
<1>2. CASE UNCHANGED <<repository, raced>>
  BY <1>1, <1>2, CallerEnds
<1>3. CASE /\ ~Taken(c) /\ repository' = [repository EXCEPT ![p] = row]
           /\ raced' = raced \ {p}
  <2>1. p \in Projects /\ k \in Nat \ {NoConnection} /\ r \in Repositories
    BY <1>1, AtUpsert
  <2>2. repository \in [Projects -> RepositoryRow]
    BY DEF ConnectionsInv, ConnectionsTypes
  <2>3. \A q \in Projects \ {p} : ~(repository[q].connection = k /\ repository[q].provider = r)
    BY <1>3 DEF Taken
  <2>4. /\ row \in RepositoryRow /\ row.connection = k /\ row.provider = r /\ row.name = r
        /\ row # NoRepository
    BY <2>1 DEF RepositoryRow, NoRepository
  <2>5. \A q \in Projects : repository'[q] = IF q = p THEN row ELSE repository[q]
    BY <1>3, <2>1, <2>2
  <2>6. SlotsInv' /\ OverlapsAreNoted'
    BY <1>1, <2>5, OthersSound
  <2> HIDE DEF p, k, r, row
  <2>7. ConnectionsTypes'
    BY <1>1, <1>3, <2>1, <2>2, <2>4 DEF ConnectionsInv, ConnectionsTypes
  <2>8. RowsBelong'
    BY <2>1, <2>4, <2>5 DEF ConnectionsInv, RowsBelong
  <2>9. OneProjectPerRepository'
    BY <2>3, <2>4, <2>5 DEF ConnectionsInv, OneProjectPerRepository
  <2>10. NamesAreItsOwn'
    BY <1>3, <2>4, <2>5 DEF ConnectionsInv, NamesAreItsOwn
  <2> QED BY <1>1, <2>6, <2>7, <2>8, <2>9, <2>10 DEF ConnectionsInv, TokensInv
<1> QED BY <1>2, <1>3 DEF CreateRepository, RepositoryInsertable

\* The row of a project after its names were written.
LEMMA NamesWritten ==
    ASSUME NEW row \in RepositoryRow, NEW r \in Repositories \cup {"none"},
           row.connection # NoConnection
    PROVE  LET new == [row EXCEPT !.name = r] IN
           /\ new \in RepositoryRow /\ new # NoRepository
           /\ new.connection = row.connection /\ new.provider = row.provider
           /\ new.name = r
BY DEF RepositoryRow, NoRepository

LEMMA UpdateKeeps ==
    ASSUME ConnectionsInv, NEW c \in Slots, UpdateRepository(c)
    PROVE  ConnectionsInv'
<1> DEFINE p == caller[c].project
           r == caller[c].provider
           row == [repository[p] EXCEPT !.name = r]
<1>1. /\ caller[c].pc = "upsert" /\ EndCall(c) /\ repository[p] # NoRepository
      /\ UNCHANGED <<instant, pending, redeemed, connection, connectionsMade>>
      /\ raced' = IF caller[c].overlapped THEN raced \cup {p} ELSE raced
  BY DEF UpdateRepository
<1>2. p \in Projects /\ r \in Repositories
      /\ (~caller[c].overlapped => repository[p].provider = r)
  BY <1>1, AtUpsert
<1>3. repository \in [Projects -> RepositoryRow] /\ repository[p].connection # NoConnection
  BY <1>1, <1>2 DEF ConnectionsInv, ConnectionsTypes, RowsBelong
<1>4. /\ row \in RepositoryRow /\ row # NoRepository
      /\ row.connection = repository[p].connection /\ row.provider = repository[p].provider
      /\ row.name = r
  BY <1>2, <1>3, NamesWritten
<1>5. repository' = [repository EXCEPT ![p] = row]
  BY DEF UpdateRepository, Renamed
<1>6. \A q \in Projects : repository'[q] = IF q = p THEN row ELSE repository[q]
  BY <1>2, <1>3, <1>5
<1>7. SlotsInv' /\ OverlapsAreNoted'
  BY <1>1, <1>6, OthersSound
<1> HIDE DEF p, r, row
<1>8. ConnectionsTypes'
  BY <1>1, <1>2, <1>3, <1>4, <1>5 DEF ConnectionsInv, ConnectionsTypes
<1>9. RowsBelong'
  BY <1>3, <1>4, <1>6 DEF ConnectionsInv, RowsBelong
<1>10. OneProjectPerRepository'
  BY <1>1, <1>4, <1>6 DEF ConnectionsInv, OneProjectPerRepository
<1>11. NamesAreItsOwn'
  BY <1>1, <1>2, <1>4, <1>6 DEF ConnectionsInv, NamesAreItsOwn
<1> QED BY <1>1, <1>7, <1>8, <1>9, <1>10, <1>11 DEF ConnectionsInv, TokensInv

\* Requests go on while rows keep their provider or end.
LEMMA RowsStayOrEnd ==
    ASSUME ConnectionsInv, UNCHANGED <<pending, caller>>,
           \A q \in Projects : \/ repository'[q] = NoRepository
                               \/ /\ repository[q] # NoRepository
                                  /\ repository'[q].provider = repository[q].provider
    PROVE  SlotsInv' /\ OverlapsAreNoted'
<1>1. ASSUME NEW d \in Slots PROVE SoundCaller(caller[d])'
  <2>1. caller'[d] = caller[d] /\ SoundCaller(caller[d])
    BY DEF ConnectionsInv, SlotsInv
  <2> QED BY <2>1 DEF SoundCaller, ConnectLabels
<1> QED BY <1>1 DEF ConnectionsInv, SlotsInv, OverlapsAreNoted

LEMMA DisconnectKeeps ==
    ASSUME ConnectionsInv, NEW u \in Owners, DisconnectConnection(u)
    PROVE  ConnectionsInv'
<1>1. /\ UNCHANGED <<instant, pending, redeemed, connectionsMade, caller>>
      /\ connection' = [connection EXCEPT ![u] = NoConnection]
      /\ raced' = {p \in raced : repository'[p] # NoRepository}
  BY DEF DisconnectConnection
<1>2. \A p \in Projects : \/ repository'[p] = NoRepository
                          \/ repository'[p] = repository[p]
  BY DEF DisconnectConnection
<1>3. repository' = [p \in Projects |-> repository'[p]]
  BY DEF DisconnectConnection
<1>4. SlotsInv' /\ OverlapsAreNoted'
  BY <1>1, <1>2, RowsStayOrEnd
<1>5. ConnectionsTypes'
  <2>1. repository' \in [Projects -> RepositoryRow]
    BY <1>2, <1>3, NoRepositoryType DEF ConnectionsInv, ConnectionsTypes
  <2> QED BY <1>1, <2>1 DEF ConnectionsInv, ConnectionsTypes, NoConnection
<1>6. RowsBelong'
  BY <1>2 DEF ConnectionsInv, RowsBelong
<1>7. OneProjectPerRepository'
  <2>1. SUFFICES ASSUME NEW p \in Projects, NEW q \in Projects, p # q,
                        repository'[p] # NoRepository,
                        repository'[p].connection = repository'[q].connection
                 PROVE  repository'[p].provider # repository'[q].provider
    BY DEF OneProjectPerRepository
  <2>2. repository'[p] = repository[p] /\ repository[p].connection # NoConnection
    BY <1>2, <2>1 DEF ConnectionsInv, RowsBelong
  <2>3. repository'[q] = repository[q]
    BY <1>2, <2>1, <2>2 DEF NoRepository
  <2> QED BY <2>1, <2>2, <2>3 DEF ConnectionsInv, OneProjectPerRepository
<1>8. NamesAreItsOwn'
  <2>1. NoRepository.name = NoRepository.provider
    BY DEF NoRepository
  <2> QED BY <1>1, <1>2, <2>1 DEF ConnectionsInv, NamesAreItsOwn
<1> QED BY <1>1, <1>4, <1>5, <1>6, <1>7, <1>8 DEF ConnectionsInv, TokensInv

LEMMA SyncNamesKeeps ==
    ASSUME ConnectionsInv, NEW p \in Projects, SyncNames(p)
    PROVE  ConnectionsInv'
<1> DEFINE r == repository[p].provider
           row == [repository[p] EXCEPT !.name = r]
<1>1. /\ UNCHANGED <<instant, pending, redeemed, connection, connectionsMade, caller>>
      /\ repository' = [repository EXCEPT ![p] = row]
      /\ repository[p] # NoRepository /\ raced' = raced \ {p}
  BY DEF SyncNames
<1>2. /\ repository \in [Projects -> RepositoryRow] /\ repository[p].connection # NoConnection
      /\ repository[p] \in RepositoryRow
  BY <1>1 DEF ConnectionsInv, ConnectionsTypes, RowsBelong
<1>3. r \in Repositories \cup {"none"}
  BY <1>2 DEF RepositoryRow
<1>4. /\ row \in RepositoryRow /\ row # NoRepository
      /\ row.connection = repository[p].connection /\ row.provider = repository[p].provider
      /\ row.name = r
  BY <1>2, <1>3, NamesWritten
<1> HIDE DEF row
<1>5. \A q \in Projects : repository'[q] = IF q = p THEN row ELSE repository[q]
  BY <1>1, <1>2
<1>6. SlotsInv' /\ OverlapsAreNoted'
  <2>1. \A q \in Projects : \/ repository'[q] = NoRepository
                            \/ /\ repository[q] # NoRepository
                               /\ repository'[q].provider = repository[q].provider
    BY <1>1, <1>4, <1>5
  <2> QED BY <1>1, <2>1, RowsStayOrEnd
<1>7. ConnectionsTypes'
  BY <1>1, <1>2, <1>4 DEF ConnectionsInv, ConnectionsTypes
<1>8. RowsBelong'
  BY <1>2, <1>4, <1>5 DEF ConnectionsInv, RowsBelong
<1>9. OneProjectPerRepository'
  BY <1>1, <1>4, <1>5 DEF ConnectionsInv, OneProjectPerRepository
<1>10. NamesAreItsOwn'
  BY <1>1, <1>4, <1>5 DEF ConnectionsInv, NamesAreItsOwn
<1> QED BY <1>1, <1>6, <1>7, <1>8, <1>9, <1>10 DEF ConnectionsInv, TokensInv

-----------------------------------------------------------------------------
(* The invariant and the theorem *)

LEMMA ConnectionsInvInit == ConnectionsInit => ConnectionsInv
<1> SUFFICES ASSUME ConnectionsInit PROVE ConnectionsInv
  OBVIOUS
<1>1. ConnectionsTypes
  BY NoRepositoryType DEF ConnectionsInit, ConnectionsTypes, NoConnection
<1>2. TokensInv /\ RowsBelong /\ OneProjectPerRepository
  BY DEF ConnectionsInit, TokensInv, RowsBelong, OneProjectPerRepository
<1>3. NamesAreItsOwn
  <2>1. NoRepository.name = NoRepository.provider
    BY DEF NoRepository
  <2> QED BY <2>1 DEF ConnectionsInit, NamesAreItsOwn
<1>4. SlotsInv /\ OverlapsAreNoted
  <2>1. NoCaller \in Caller
    BY NoCallerSound DEF SoundCaller
  <2> QED BY <2>1, NoCallerSound
          DEF ConnectionsInit, SlotsInv, OverlapsAreNoted, ConnectLabels
<1> QED BY <1>1, <1>2, <1>3, <1>4 DEF ConnectionsInv

LEMMA ConnectionsInvUnchanged ==
    ASSUME ConnectionsInv,
           UNCHANGED <<pending, redeemed, connection, connectionsMade, repository,
                       caller, raced>>,
           instant' \in Nat
    PROVE  ConnectionsInv'
<1>1. ASSUME NEW d \in Slots PROVE SoundCaller(caller[d])'
  <2>1. caller'[d] = caller[d] /\ SoundCaller(caller[d])
    BY DEF ConnectionsInv, SlotsInv
  <2> QED BY <2>1 DEF SoundCaller
<1>2. SlotsInv'
  BY <1>1 DEF ConnectionsInv, SlotsInv
<1> QED BY <1>2
        DEF ConnectionsInv, ConnectionsTypes, TokensInv, RowsBelong, OverlapsAreNoted,
            OneProjectPerRepository, NamesAreItsOwn

LEMMA ConnectionsInvStep ==
    ASSUME ConnectionsInv, [ConnectionsNext]_connectionsVars
    PROVE  ConnectionsInv'
<1>1. ASSUME NEW c \in Slots, NEW p \in Projects, StartConnection(c, p)
      PROVE  ConnectionsInv'
  BY <1>1, StartKeeps
<1>2. ASSUME NEW c \in Slots, IssueToken(c) PROVE ConnectionsInv'
  BY <1>2, IssueKeeps
<1>3. ASSUME NEW c \in Slots, NEW u \in Owners, NEW t \in DOMAIN pending, FindToken(c, u, t)
      PROVE  ConnectionsInv'
  BY <1>3, FindTokenKeeps
<1>4. ASSUME NEW c \in Slots, ConsumeToken(c) PROVE ConnectionsInv'
  BY <1>4, ConsumeKeeps
<1>5. ASSUME NEW c \in Slots, UpsertConnection(c) PROVE ConnectionsInv'
  BY <1>5, UpsertConnectionKeeps
<1>6. ASSUME NEW c \in Slots, NEW p \in Projects, NEW r \in Repositories,
             BeginConnecting(c, p, r)
      PROVE  ConnectionsInv'
  BY <1>6, ConnectKeeps
<1>7. ASSUME NEW c \in Slots, CheckProject(c) PROVE ConnectionsInv'
  BY <1>7, CheckProjectKeeps
<1>8. ASSUME NEW c \in Slots, CheckRepository(c) PROVE ConnectionsInv'
  BY <1>8, CheckRepositoryKeeps
<1>9. ASSUME NEW c \in Slots, CreateRepository(c) PROVE ConnectionsInv'
  BY <1>9, CreateKeeps
<1>10. ASSUME NEW c \in Slots, UpdateRepository(c) PROVE ConnectionsInv'
  BY <1>10, UpdateKeeps
<1>11. ASSUME NEW c \in Slots, RequestFails(c) PROVE ConnectionsInv'
  BY <1>11, CallerEnds DEF RequestFails
<1>12. ASSUME NEW u \in Owners, DisconnectConnection(u) PROVE ConnectionsInv'
  BY <1>12, DisconnectKeeps
<1>13. ASSUME NEW p \in Projects, SyncNames(p) PROVE ConnectionsInv'
  BY <1>13, SyncNamesKeeps
<1>14. CASE InstantPasses
  <2>1. instant' \in Nat
    BY <1>14 DEF InstantPasses, ConnectionsInv, ConnectionsTypes
  <2> QED BY <1>14, <2>1, ConnectionsInvUnchanged DEF InstantPasses
<1>15. CASE UNCHANGED connectionsVars
  <2>1. instant' \in Nat
    BY <1>15 DEF connectionsVars, ConnectionsInv, ConnectionsTypes
  <2> QED BY <1>15, <2>1, ConnectionsInvUnchanged DEF connectionsVars
<1> QED BY <1>1, <1>2, <1>3, <1>4, <1>5, <1>6, <1>7, <1>8, <1>9, <1>10, <1>11,
           <1>12, <1>13, <1>14, <1>15 DEF ConnectionsNext

\* The step form of RepositoryIsKept, for one project.
KeepsRow(p) ==
    repository[p] # NoRepository /\ repository'[p] # NoRepository =>
        /\ repository'[p].provider = repository[p].provider
        /\ repository'[p].connection = repository[p].connection

LEMMA RowKept ==
    ASSUME ConnectionsInv, [ConnectionsNext]_connectionsVars, NEW p \in Projects
    PROVE  KeepsRow(p)
<1>1. CASE UNCHANGED repository
  BY <1>1 DEF KeepsRow
<1>2. ASSUME NEW c \in Slots, CreateRepository(c) PROVE KeepsRow(p)
  <2>1. \A q \in Projects : repository'[q] = repository[q] \/ repository[q] = NoRepository
    BY <1>2 DEF CreateRepository, ConnectionsInv, ConnectionsTypes
  <2> QED BY <2>1 DEF KeepsRow
<1>3. ASSUME NEW c \in Slots, UpdateRepository(c) PROVE KeepsRow(p)
  <2> DEFINE row == [repository[caller[c].project] EXCEPT !.name = caller[c].provider]
  <2>1. repository' = [repository EXCEPT ![caller[c].project] = row]
    BY <1>3 DEF UpdateRepository, Renamed
  <2>2. repository \in [Projects -> RepositoryRow]
    BY DEF ConnectionsInv, ConnectionsTypes
  <2>3. CASE p = caller[c].project
    <3>1. repository'[p] = [repository[p] EXCEPT !.name = caller[c].provider]
      BY <2>1, <2>2, <2>3
    <3>2. repository[p] \in RepositoryRow
      BY <2>2
    <3> QED BY <3>1, <3>2 DEF KeepsRow, RepositoryRow
  <2>4. CASE p # caller[c].project
    BY <2>1, <2>2, <2>4 DEF KeepsRow
  <2> QED BY <2>3, <2>4
<1>4. ASSUME NEW u \in Owners, DisconnectConnection(u) PROVE KeepsRow(p)
  BY <1>4 DEF DisconnectConnection, KeepsRow
<1>5. ASSUME NEW q \in Projects, SyncNames(q) PROVE KeepsRow(p)
  <2> DEFINE row == [repository[q] EXCEPT !.name = repository[q].provider]
  <2>1. repository' = [repository EXCEPT ![q] = row]
    BY <1>5 DEF SyncNames
  <2>2. repository \in [Projects -> RepositoryRow]
    BY DEF ConnectionsInv, ConnectionsTypes
  <2>3. CASE p = q
    <3>1. repository'[p] = [repository[p] EXCEPT !.name = repository[p].provider]
      BY <2>1, <2>2, <2>3
    <3>2. repository[p] \in RepositoryRow
      BY <2>2
    <3> QED BY <3>1, <3>2 DEF KeepsRow, RepositoryRow
  <2>4. CASE p # q
    BY <2>1, <2>2, <2>4 DEF KeepsRow
  <2> QED BY <2>3, <2>4
<1>6. ASSUME NEW c \in Slots,
             \/ IssueToken(c) \/ ConsumeToken(c) \/ UpsertConnection(c)
             \/ CheckProject(c) \/ CheckRepository(c) \/ RequestFails(c)
      PROVE  UNCHANGED repository
  BY <1>6 DEF IssueToken, ConsumeToken, UpsertConnection, CheckProject,
              CheckRepository, RequestFails
<1>7. ASSUME NEW c \in Slots, NEW q \in Projects, StartConnection(c, q)
      PROVE  UNCHANGED repository
  BY <1>7 DEF StartConnection
<1>8. ASSUME NEW c \in Slots, NEW u \in Owners, NEW t \in DOMAIN pending, FindToken(c, u, t)
      PROVE  UNCHANGED repository
  BY <1>8 DEF FindToken
<1>9. ASSUME NEW c \in Slots, NEW q \in Projects, NEW r \in Repositories,
             BeginConnecting(c, q, r)
      PROVE  UNCHANGED repository
  BY <1>9 DEF BeginConnecting
<1>10. CASE InstantPasses \/ UNCHANGED connectionsVars
  BY <1>1, <1>10 DEF InstantPasses, connectionsVars
<1> QED BY <1>1, <1>2, <1>3, <1>4, <1>5, <1>6, <1>7, <1>8, <1>9, <1>10
        DEF ConnectionsNext

LEMMA TokenOnce == ConnectionsInv => StateIsConsumedOnce
<1> SUFFICES ASSUME ConnectionsInv PROVE StateIsConsumedOnce
  OBVIOUS
<1>1. DOMAIN redeemed = 1 .. Len(pending) /\ \A t \in DOMAIN redeemed : redeemed[t] \in Seq(Owners)
  BY DEF ConnectionsInv, ConnectionsTypes
<1>2. \A t \in DOMAIN redeemed : DOMAIN redeemed[t] = 1 .. Len(redeemed[t])
  BY <1>1
<1> QED BY <1>1, <1>2 DEF StateIsConsumedOnce, ConnectionsInv, TokensInv

-----------------------------------------------------------------------------
(* Rows and their owners *)

\* A row's repository is one of the installation, and its connection that of the
\* owner of its project; so is a request's that is about to make a row.
OwnersInv ==
    /\ \A u \in Owners : connection[u] <= connectionsMade
    /\ \A p \in Projects : repository[p] # NoRepository =>
          /\ repository[p].connection = connection[OwnerOf[p]]
          /\ {repository[p].provider, repository[p].name} \subseteq Repositories
    /\ \A c \in Slots :
          caller[c].pc \in ConnectLabels => caller[c].user = OwnerOf[caller[c].project]

\* What OwnersInv says of requests, and the request c is none that connects.
LEMMA OtherOwners ==
    ASSUME OwnersInv, NEW c \in Slots, NEW new, caller' = [caller EXCEPT ![c] = new],
           new.pc \in ConnectLabels => new.user = OwnerOf[new.project]
    PROVE  \A d \in Slots :
              caller'[d].pc \in ConnectLabels => caller'[d].user = OwnerOf[caller'[d].project]
<1> SUFFICES ASSUME NEW d \in Slots, caller'[d].pc \in ConnectLabels
             PROVE  caller'[d].user = OwnerOf[caller'[d].project]
  OBVIOUS
<1>1. caller'[d] = new \/ caller'[d] = caller[d]
  BY DEF OwnersInv
<1> QED BY <1>1 DEF OwnersInv

LEMMA CallersOwn ==
    ASSUME ConnectionsInv, OwnersInv, [ConnectionsNext]_connectionsVars
    PROVE  \A d \in Slots :
              caller'[d].pc \in ConnectLabels => caller'[d].user = OwnerOf[caller'[d].project]
<1> DEFINE Goal == \A d \in Slots :
              caller'[d].pc \in ConnectLabels => caller'[d].user = OwnerOf[caller'[d].project]
<1>1. caller \in [Slots -> Caller]
  BY DEF ConnectionsInv, SlotsInv
<1>2. ASSUME NEW c \in Slots, EndCall(c) PROVE Goal
  <2>1. NoCaller.pc \notin ConnectLabels
    BY DEF NoCaller, ConnectLabels
  <2> QED BY <1>2, <2>1, OtherOwners DEF EndCall
<1>3. ASSUME NEW c \in Slots, NEW label \in Labels, GoOn(c, label),
             \/ label \notin ConnectLabels
             \/ caller[c].pc \in ConnectLabels
      PROVE  Goal
  <2> DEFINE new == [caller[c] EXCEPT !.pc = label]
  <2>1. caller' = [caller EXCEPT ![c] = new]
    BY <1>3 DEF GoOn
  <2>2. new.pc = label /\ new.user = caller[c].user /\ new.project = caller[c].project
    BY <1>1, CallerLabel
  <2> HIDE DEF new
  <2>3. new.pc \in ConnectLabels => new.user = OwnerOf[new.project]
    BY <1>3, <2>2 DEF OwnersInv
  <2> QED BY <2>1, <2>3, OtherOwners
<1>4. ASSUME NEW c \in Slots, NEW p \in Projects, StartConnection(c, p) PROVE Goal
  <2> DEFINE new == [NoCaller EXCEPT !.pc = "start", !.user = OwnerOf[p], !.project = p,
                                     !.seen = Outdated(p)]
  <2>1. caller' = [caller EXCEPT ![c] = new]
    BY <1>4 DEF StartConnection
  <2>2. new.pc \notin ConnectLabels
    BY DEF NoCaller, ConnectLabels
  <2> HIDE DEF new
  <2> QED BY <2>1, <2>2, OtherOwners
<1>5. ASSUME NEW c \in Slots, NEW u \in Owners, NEW t \in DOMAIN pending, FindToken(c, u, t)
      PROVE  Goal
  <2> DEFINE new == [NoCaller EXCEPT !.pc = "consume", !.user = u, !.token = t]
  <2>1. caller' = [caller EXCEPT ![c] = new]
    BY <1>5 DEF FindToken
  <2>2. new.pc \notin ConnectLabels
    BY DEF NoCaller, ConnectLabels
  <2> HIDE DEF new
  <2> QED BY <2>1, <2>2, OtherOwners
<1>6. ASSUME NEW c \in Slots, NEW p \in Projects, NEW r \in Repositories,
             BeginConnecting(c, p, r)
      PROVE  Goal
  <2> SUFFICES ASSUME NEW d \in Slots, caller'[d].pc \in ConnectLabels
               PROVE  caller'[d].user = OwnerOf[caller'[d].project]
    OBVIOUS
  <2>1. CASE d = c
    <3> DEFINE x == connection[OwnerOf[p]]
               b == Connecting(p) # {}
               new == [NoCaller EXCEPT
                         !.pc = "project", !.user = OwnerOf[p], !.project = p,
                         !.connection = x, !.provider = r, !.overlapped = b]
    <3>1. caller'[d] = new
      BY <1>6, <2>1 DEF BeginConnecting
    <3>2. new.user = OwnerOf[p] /\ new.project = p
      <4> HIDE DEF x, b
      <4> QED BY DEF NoCaller
    <3> HIDE DEF new
    <3> QED BY <3>1, <3>2
  <2>2. CASE d # c
    <3> DEFINE b == caller[d].overlapped \/ d \in Connecting(p)
               new == [caller[d] EXCEPT !.overlapped = b]
    <3>1. caller'[d] = new
      BY <1>6, <2>2 DEF BeginConnecting
    <3>2. caller[d] \in Caller
      BY <1>1
    <3>3. new.pc = caller[d].pc /\ new.user = caller[d].user
          /\ new.project = caller[d].project
      <4> HIDE DEF b
      <4> QED BY <3>2 DEF Caller
    <3> HIDE DEF new
    <3> QED BY <3>1, <3>3 DEF OwnersInv
  <2> QED BY <2>1, <2>2
<1>7. ASSUME UNCHANGED caller PROVE Goal
  BY <1>7 DEF OwnersInv
<1>8. /\ "exchange" \in Labels \ ConnectLabels
      /\ {"repository", "upsert"} \subseteq Labels
      /\ {"project", "repository"} \subseteq ConnectLabels
  BY DEF Labels, ConnectLabels
<1>9. ASSUME NEW c \in Slots, ConsumeToken(c) \/ CheckProject(c) \/ CheckRepository(c)
      PROVE  Goal
  <2>1. CASE EndCall(c)
    BY <2>1, <1>2
  <2>2. CASE GoOn(c, "exchange")
    BY <2>2, <1>3, <1>8
  <2>3. CASE GoOn(c, "repository") /\ caller[c].pc = "project"
    BY <2>3, <1>3, <1>8
  <2>4. CASE GoOn(c, "upsert") /\ caller[c].pc = "repository"
    BY <2>4, <1>3, <1>8
  <2> HIDE DEF Goal
  <2> QED BY <1>9, <2>1, <2>2, <2>3, <2>4 DEF ConsumeToken, CheckProject, CheckRepository
<1> HIDE DEF Goal
<1>10. ASSUME NEW c \in Slots,
              \/ IssueToken(c) \/ UpsertConnection(c) \/ CreateRepository(c)
              \/ UpdateRepository(c) \/ RequestFails(c)
       PROVE  EndCall(c)
  BY <1>10 DEF IssueToken, UpsertConnection, CreateRepository, UpdateRepository, RequestFails
<1>11. ASSUME \/ \E u \in Owners : DisconnectConnection(u)
              \/ \E p \in Projects : SyncNames(p)
              \/ InstantPasses \/ UNCHANGED connectionsVars
       PROVE  UNCHANGED caller
  BY <1>11 DEF DisconnectConnection, SyncNames, InstantPasses, connectionsVars
<1>12. Goal
  BY <1>2, <1>4, <1>5, <1>6, <1>7, <1>9, <1>10, <1>11 DEF ConnectionsNext
<1> QED BY <1>12 DEF Goal

LEMMA OwnersStep ==
    ASSUME ConnectionsInv, ConnectionsInv', OwnersInv, [ConnectionsNext]_connectionsVars
    PROVE  OwnersInv'
<1> DEFINE Rows == \A p \in Projects : repository'[p] # NoRepository =>
              /\ repository'[p].connection = connection'[OwnerOf[p]]
              /\ {repository'[p].provider, repository'[p].name} \subseteq Repositories
           Ids == \A u \in Owners : connection'[u] <= connectionsMade'
<1>1. /\ connection \in [Owners -> Nat] /\ connectionsMade \in Nat
      /\ repository \in [Projects -> RepositoryRow]
      /\ \A p \in Projects : OwnerOf[p] \in Owners
      /\ \A c \in Slots : SoundCaller(caller[c])
  BY ConnectionsAssumption DEF ConnectionsInv, ConnectionsTypes, SlotsInv, Projects
<1>2. ASSUME UNCHANGED <<connection, connectionsMade, repository>> PROVE Rows /\ Ids
  BY <1>2 DEF OwnersInv
<1>3. ASSUME NEW c \in Slots, UpsertConnection(c) PROVE Rows /\ Ids
  <2>1. CASE UNCHANGED <<connection, connectionsMade>>
    BY <1>2, <1>3, <2>1 DEF UpsertConnection, OwnersInv
  <2>2. CASE /\ connection[caller[c].user] = NoConnection
             /\ connectionsMade' = connectionsMade + 1
             /\ connection' = [connection EXCEPT ![caller[c].user] = connectionsMade']
    <3>1. Ids
      <4>1. \A u \in Owners : connection'[u] = connection[u]
                             \/ connection'[u] = connectionsMade'
        BY <1>1, <2>2
      <4>2. \A u \in Owners : connection[u] <= connectionsMade + 1
        BY <1>1 DEF OwnersInv
      <4> QED BY <1>1, <2>2, <4>1, <4>2
    <3>2. UNCHANGED repository
      BY <1>3 DEF UpsertConnection
    <3>3. \A p \in Projects : repository[p] # NoRepository =>
                                 OwnerOf[p] # caller[c].user
      BY <2>2 DEF OwnersInv, ConnectionsInv, RowsBelong
    <3>4. Rows
      BY <1>1, <2>2, <3>2, <3>3 DEF OwnersInv
    <3> QED BY <3>1, <3>4
  <2> QED BY <1>3, <2>1, <2>2 DEF UpsertConnection
<1>4. ASSUME NEW c \in Slots, CreateRepository(c) PROVE Rows /\ Ids
  <2>1. UNCHANGED <<connection, connectionsMade>>
    BY <1>4 DEF CreateRepository
  <2>2. CASE UNCHANGED repository
    BY <1>2, <2>1, <2>2 DEF OwnersInv
  <2>3. CASE RepositoryInsertable(c)
             /\ repository' = [repository EXCEPT ![caller[c].project] =
                   [connection |-> caller[c].connection,
                    provider |-> caller[c].provider, name |-> caller[c].provider]]
    <3>1. /\ connection[caller[c].user] = caller[c].connection
          /\ caller[c].user = OwnerOf[caller[c].project]
          /\ caller[c].provider \in Repositories
      BY <1>1, <1>4, <2>3
         DEF RepositoryInsertable, CreateRepository, OwnersInv, SoundCaller, ConnectLabels
    <3>2. Rows
      BY <1>1, <2>1, <2>3, <3>1 DEF OwnersInv
    <3> QED BY <2>1, <3>2 DEF OwnersInv
  <2> QED BY <1>4, <2>2, <2>3 DEF CreateRepository
<1>5. ASSUME NEW p \in Projects, NEW r, r \in Repositories,
             repository[p] # NoRepository,
             repository' = [repository EXCEPT ![p] = [repository[p] EXCEPT !.name = r]],
             UNCHANGED <<connection, connectionsMade>>
      PROVE  Rows /\ Ids
  <2> DEFINE row == [repository[p] EXCEPT !.name = r]
  <2>1. /\ row.connection = repository[p].connection
        /\ row.provider = repository[p].provider /\ row.name = r
    <3>1. repository[p] \in RepositoryRow
      BY <1>1
    <3> QED BY <3>1 DEF RepositoryRow
  <2>2. \A q \in Projects : repository'[q] = IF q = p THEN row ELSE repository[q]
    BY <1>1, <1>5
  <2> HIDE DEF row
  <2>3. Rows
    BY <1>5, <2>1, <2>2 DEF OwnersInv
  <2> QED BY <1>5, <2>3 DEF OwnersInv
<1>6. ASSUME NEW c \in Slots, UpdateRepository(c) PROVE Rows /\ Ids
  <2>1. caller[c].project \in Projects /\ caller[c].provider \in Repositories
    BY <1>1, <1>6 DEF UpdateRepository, SoundCaller, ConnectLabels
  <2> HIDE DEF Rows, Ids
  <2> QED BY <1>5, <1>6, <2>1 DEF UpdateRepository, Renamed
<1>7. ASSUME NEW p \in Projects, SyncNames(p) PROVE Rows /\ Ids
  <2>1. repository[p].provider \in Repositories
    BY <1>7 DEF SyncNames, OwnersInv
  <2>2. repository' = [repository EXCEPT ![p] =
                         [repository[p] EXCEPT !.name = repository[p].provider]]
    BY <1>1, <1>7 DEF SyncNames
  <2>3. repository[p] # NoRepository /\ UNCHANGED <<connection, connectionsMade>>
    BY <1>7 DEF SyncNames
  <2> HIDE DEF Rows, Ids
  <2> QED BY <1>5, <2>1, <2>2, <2>3
<1>8. ASSUME NEW u \in Owners, DisconnectConnection(u) PROVE Rows /\ Ids
  <2>1. /\ connection' = [connection EXCEPT ![u] = NoConnection]
        /\ connectionsMade' = connectionsMade
    BY <1>8 DEF DisconnectConnection
  <2>2. \A v \in Owners : connection'[v] = connection[v] \/ connection'[v] = 0
    BY <1>1, <2>1 DEF NoConnection
  <2>3. Ids
    BY <1>1, <2>1, <2>2 DEF OwnersInv
  <2>4. ASSUME NEW p \in Projects, repository'[p] # NoRepository
        PROVE  repository'[p] = repository[p] /\ repository[p].connection # connection[u]
    BY <1>8, <2>4 DEF DisconnectConnection
  <2>5. ASSUME NEW p \in Projects, repository'[p] # NoRepository
        PROVE  OwnerOf[p] # u
    BY <2>4, <2>5 DEF OwnersInv
  <2>6. Rows
    BY <1>1, <2>1, <2>4, <2>5 DEF OwnersInv
  <2> QED BY <2>3, <2>6
<1>9. Rows /\ Ids
  <2> HIDE DEF Rows, Ids
  <2>1. ASSUME NEW c \in Slots,
               \/ IssueToken(c) \/ ConsumeToken(c)
               \/ CheckProject(c) \/ CheckRepository(c) \/ RequestFails(c)
               \/ \E p \in Projects : StartConnection(c, p)
               \/ \E u \in Owners, t \in DOMAIN pending : FindToken(c, u, t)
               \/ \E p \in Projects, r \in Repositories : BeginConnecting(c, p, r)
        PROVE  UNCHANGED <<connection, connectionsMade, repository>>
    BY <2>1 DEF IssueToken, ConsumeToken, CheckProject, CheckRepository, RequestFails,
                StartConnection, FindToken, BeginConnecting
  <2>2. ASSUME UNCHANGED <<connection, connectionsMade, repository>>
        PROVE  Rows /\ Ids
    BY <1>2, <2>2 DEF OwnersInv, Rows, Ids
  <2>3. CASE InstantPasses \/ UNCHANGED connectionsVars
    BY <2>2, <2>3 DEF InstantPasses, connectionsVars
  <2> QED BY <1>3, <1>4, <1>6, <1>7, <1>8, <2>1, <2>2, <2>3 DEF ConnectionsNext
<1>10. \A d \in Slots :
          caller'[d].pc \in ConnectLabels => caller'[d].user = OwnerOf[caller'[d].project]
  BY CallersOwn
<1> QED BY <1>9, <1>10 DEF OwnersInv

\* A repository's row is of the connection its project's owner has now, and of a
\* repository of the installation, whatever requests overlap with connecting and
\* disconnecting.
THEOREM ConnectionsTypeCorrect == ConnectionsSpec => []ConnectionsTypeOK
<1>1. ConnectionsInit => OwnersInv
  <2> SUFFICES ASSUME ConnectionsInit PROVE OwnersInv
    OBVIOUS
  <2>1. NoCaller.pc \notin ConnectLabels
    BY DEF NoCaller, ConnectLabels
  <2> QED BY <2>1 DEF ConnectionsInit, OwnersInv, NoConnection
<1>2. ConnectionsInv /\ OwnersInv => ConnectionsTypeOK
  <2> SUFFICES ASSUME ConnectionsInv, OwnersInv PROVE ConnectionsTypeOK
    OBVIOUS
  <2>1. /\ pending \in Seq(Token) /\ redeemed \in Seq(Seq(Owners))
        /\ Len(redeemed) = Len(pending)
        /\ connection \in [Owners -> Nat] /\ connectionsMade \in Nat
    BY DEF ConnectionsInv, ConnectionsTypes
  <2>2. ASSUME NEW t \in DOMAIN pending PROVE pending[t].project \in Projects
    <3>1. pending[t] \in Token
      BY <2>1
    <3> QED BY <3>1 DEF Token
  <2>3. DOMAIN redeemed = DOMAIN pending
    BY <2>1
  <2>4. connection \in [Owners -> 0 .. connectionsMade]
    BY <2>1 DEF OwnersInv
  <2> QED BY <2>2, <2>3, <2>4 DEF ConnectionsTypeOK, OwnersInv
<1>3. ConnectionsInit => ConnectionsInv /\ OwnersInv
  BY <1>1, ConnectionsInvInit
<1>4. ConnectionsInv /\ OwnersInv /\ [ConnectionsNext]_connectionsVars
        => ConnectionsInv' /\ OwnersInv'
  BY ConnectionsInvStep, OwnersStep
<1> QED BY <1>2, <1>3, <1>4, PTL DEF ConnectionsSpec

\* A token is redeemed once and by its user, rows are of the connection of their
\* owner, a repository of a connection is in one project, a project keeps its
\* repository until its connection ends, and a row has the names of its
\* repository unless two requests connected its project at once: for any number
\* of requests that interleave between the statements of start, complete,
\* connectRepository and disconnectConnection, and fail at any of them.
THEOREM ConnectionsStayExclusive == ConnectionsSpec => ConnectionsAreExclusive
<1>1. ConnectionsInit => ConnectionsInv
  BY ConnectionsInvInit
<1>2. ConnectionsInv /\ [ConnectionsNext]_connectionsVars => ConnectionsInv'
  BY ConnectionsInvStep
<1>3. ConnectionsInv => StateIsConsumedOnce /\ OneProjectPerRepository /\ NamesAreItsOwn
  BY TokenOnce DEF ConnectionsInv
<1>4. ConnectionsInv /\ [ConnectionsNext]_connectionsVars =>
        [\A p \in Projects : KeepsRow(p)]_connectionsVars
  BY RowKept
<1>5. ConnectionsSpec => []ConnectionsInv
  BY <1>1, <1>2, PTL DEF ConnectionsSpec
<1>6. ConnectionsSpec => [](/\ ConnectionsTypeOK /\ StateIsConsumedOnce
                            /\ OneProjectPerRepository /\ NamesAreItsOwn)
  BY <1>3, <1>5, ConnectionsTypeCorrect, PTL
<1>7. ConnectionsSpec => [][\A p \in Projects : KeepsRow(p)]_connectionsVars
  BY <1>4, <1>5, PTL DEF ConnectionsSpec
<1>8. ConnectionsSpec => RepositoryIsKept
  BY <1>7 DEF RepositoryIsKept, KeepsRow
<1> QED BY <1>6, <1>8 DEF ConnectionsAreExclusive

-----------------------------------------------------------------------------
(* ProjectMemory                                                             *)

Features == UNION {FeaturesOf[e] : e \in ProjectEvents}

VersionRow == [events : SUBSET ProjectEvents, seen : Nat, active : SUBSET ProjectEvents,
               completed : SUBSET Features, milestones : SUBSET ProjectEvents]

ProjectorRow == [pc : {"idle", "write"}, version : Nat, events : SUBSET ProjectEvents,
                 seen : Nat]

Sound(row) ==
    /\ row.active = ActiveFeatures(row.events)
    /\ Cardinality(row.milestones) <= MilestoneLimit

MemoryTypes ==
    /\ eventStatus \in [ProjectEvents -> {"none", "active", "superseded"}]
    /\ orphaned \subseteq Commits
    /\ state \in Projection
    /\ versions \in Seq(VersionRow)
    /\ projector \in [Projectors -> ProjectorRow]
    /\ changes \in 0 .. MaxChanges
    /\ failures \in 0 .. MaxFailures

\* evidence is what was authoritative after each change.
FollowsEvidence(evidence) ==
    /\ evidence \in [Nat -> SUBSET ProjectEvents]
    /\ evidence[changes] = Authoritative
    /\ \A n \in 1 .. Len(versions) :
          /\ versions[n].seen <= changes
          /\ versions[n].events = evidence[versions[n].seen]
    /\ \A p \in Projectors : projector[p].pc = "write" =>
          /\ projector[p].seen <= changes
          /\ projector[p].events = evidence[projector[p].seen]

\* A projection saw everything the versions up to the state it read had seen.
SnapshotsAreRecent ==
    \A p \in Projectors : projector[p].pc = "write" =>
        /\ projector[p].version <= Len(versions)
        /\ \A n \in 1 .. projector[p].version : versions[n].seen <= projector[p].seen

\* The inductive invariant.
MemoryInv ==
    /\ MemoryTypes
    /\ state.version = Len(versions)
    /\ \A n \in 1 .. Len(versions) : Sound(versions[n])
    /\ \A m, n \in 1 .. Len(versions) : m < n => versions[m].seen < versions[n].seen
    /\ SnapshotsAreRecent
    /\ \E evidence : FollowsEvidence(evidence)

-----------------------------------------------------------------------------
(* What is projected *)

LEMMA EventsAreFinite ==
    ASSUME NEW S \in SUBSET ProjectEvents
    PROVE  IsFiniteSet(S) /\ S \subseteq Nat
<1>1. IsFiniteSet(ProjectEvents) /\ ProjectEvents \subseteq Nat
  BY MemoryAssumption, FS_Interval DEF ProjectEvents
<1> QED BY <1>1, FS_Subset

LEMMA LeastEvent ==
    ASSUME NEW S \in SUBSET Nat, S # {}
    PROVE  \E e \in S : \A f \in S : e <= f
<1> DEFINE R == OpToRel(<, Nat)
<1>1. IsWellFoundedOn(R, Nat)
  BY NatLessThanWellFounded
<1>2. \A x, y \in Nat : y < x => <<y, x>> \in R
  BY DEF OpToRel
<1> HIDE DEF R
<1>3. PICK e \in S : \A f \in S : ~(<<f, e>> \in R)
  BY <1>1, WFMin
<1>4. \A f \in S : f \in Nat /\ e \in Nat /\ ~(f < e)
  BY <1>2, <1>3
<1>5. \A f \in S : e <= f
  BY <1>4
<1> QED BY <1>5

\* No more milestones than the limit: all but the oldest of them are newer than
\* it, and it has fewer than the limit newer ones.
LEMMA MilestonesAreBounded ==
    ASSUME NEW S \in SUBSET ProjectEvents
    PROVE  /\ RecentMilestones(S) \subseteq ProjectEvents
           /\ Cardinality(RecentMilestones(S)) <= MilestoneLimit
<1> DEFINE recent == {e \in OfType(S, "project_milestone") :
                        OccurredAt[e] >= LastUpdatedAt(S) - MilestoneWindow}
           Newer(e) == {f \in recent : f > e}
           M == {e \in recent : Cardinality(Newer(e)) < MilestoneLimit}
<1>1. RecentMilestones(S) = M
  BY DEF RecentMilestones
<1>2. recent \in SUBSET ProjectEvents
  BY DEF OfType
<1> HIDE DEF recent
<1>3. M \subseteq recent /\ M \in SUBSET ProjectEvents
  BY <1>2
<1>4. MilestoneLimit \in Nat
  BY MemoryAssumption
<1>5. CASE M = {}
  <2>1. RecentMilestones(S) = {} /\ Cardinality({}) = 0
    BY <1>1, <1>5, FS_EmptySet
  <2> QED BY <1>4, <2>1
<1>6. CASE M # {}
  <2>1. IsFiniteSet(M) /\ M \subseteq Nat /\ IsFiniteSet(recent)
    BY <1>2, <1>3, EventsAreFinite
  <2>2. PICK e \in M : \A f \in M : e <= f
    BY <1>6, <2>1, LeastEvent
  <2>3. M \ {e} \subseteq Newer(e)
    BY <1>3, <2>1, <2>2
  <2>4. Cardinality(Newer(e)) < MilestoneLimit /\ Newer(e) \subseteq recent
    OBVIOUS
  <2>5. IsFiniteSet(Newer(e)) /\ Cardinality(Newer(e)) \in Nat
    BY <2>1, <2>4, FS_Subset, FS_CardinalityType
  <2>6. Cardinality(M \ {e}) <= Cardinality(Newer(e))
    BY <2>3, <2>5, FS_Subset
  <2>7. Cardinality(M \ {e}) = Cardinality(M) - 1 /\ Cardinality(M) \in Nat
    BY <2>1, FS_RemoveElement, FS_CardinalityType
  <2> QED BY <1>1, <1>3, <1>4, <2>4, <2>5, <2>6, <2>7
<1> QED BY <1>5, <1>6

LEMMA FeaturesType ==
    ASSUME NEW S \in SUBSET ProjectEvents
    PROVE  ActiveFeatures(S) \subseteq ProjectEvents /\ CompletedFeatures(S) \subseteq Features
BY DEF ActiveFeatures, CompletedFeatures, OfType, Features

LEMMA AuthoritativeType == Authoritative \in SUBSET ProjectEvents
BY DEF Authoritative

LEMMA IdleType == Idle \in ProjectorRow /\ Idle.pc = "idle"
BY DEF Idle, ProjectorRow

-----------------------------------------------------------------------------
(* The invariant *)

LEMMA MemoryInvInit == MemoryInit => MemoryInv
<1> SUFFICES ASSUME MemoryInit PROVE MemoryInv
  OBVIOUS
<1>1. MemoryTypes /\ state.version = 0 /\ Len(versions) = 0
  <2>1. NoState \in Projection /\ NoState.version = 0
    BY DEF NoState, Projection
  <2> QED BY <2>1, IdleType, MemoryAssumption DEF MemoryInit, MemoryTypes
<1>2. SnapshotsAreRecent
  BY IdleType DEF MemoryInit, SnapshotsAreRecent
<1>3. FollowsEvidence([n \in Nat |-> Authoritative])
  <2> DEFINE evidence == [n \in Nat |-> Authoritative]
  <2>1. evidence \in [Nat -> SUBSET ProjectEvents] /\ evidence[0] = Authoritative
    BY AuthoritativeType
  <2> HIDE DEF evidence
  <2> QED BY <1>1, <2>1, IdleType DEF MemoryInit, FollowsEvidence
<1> QED BY <1>1, <1>2, <1>3 DEF MemoryInv

\* A projection ends and leaves the memory alone.
LEMMA ProjectionEnds ==
    ASSUME MemoryInv, NEW p \in Projectors, EndProjection(p),
           UNCHANGED <<evidenceVars, state, versions>>, failures' \in 0 .. MaxFailures
    PROVE  MemoryInv'
<1>1. UNCHANGED <<eventStatus, orphaned, changes>>
  BY DEF evidenceVars
<1>2. \A q \in Projectors : projector'[q] = IF q = p THEN Idle ELSE projector[q]
  BY DEF EndProjection, MemoryInv, MemoryTypes
<1>3. MemoryTypes'
  BY <1>1, IdleType DEF EndProjection, MemoryInv, MemoryTypes, ProjectorRow
<1>4. SnapshotsAreRecent'
  BY <1>2, IdleType DEF MemoryInv, SnapshotsAreRecent
<1>5. PICK evidence : FollowsEvidence(evidence)
  BY DEF MemoryInv
<1>6. Authoritative' = Authoritative
  BY <1>1 DEF Authoritative
<1>7. FollowsEvidence(evidence)'
  BY <1>1, <1>2, <1>5, <1>6, IdleType DEF FollowsEvidence
<1>8. \A n \in 1 .. Len(versions) : Sound(versions[n])
  BY DEF MemoryInv
<1> QED BY <1>3, <1>4, <1>7, <1>8 DEF MemoryInv, Sound

LEMMA ReadKeeps ==
    ASSUME MemoryInv, NEW p \in Projectors, ReadChanged(p)
    PROVE  MemoryInv'
<1> DEFINE row == [pc |-> "write", version |-> state.version, events |-> Authoritative,
                   seen |-> changes]
<1>1. /\ UNCHANGED <<eventStatus, orphaned, changes, state, versions, failures>>
      /\ projector' = [projector EXCEPT ![p] = row]
  BY DEF ReadChanged, evidenceVars
<1>2. state.version \in Nat /\ state.version = Len(versions) /\ changes \in Nat
  BY DEF MemoryInv, MemoryTypes, Projection
<1>3. /\ row \in ProjectorRow /\ row.pc = "write" /\ row.version = Len(versions)
      /\ row.events = Authoritative /\ row.seen = changes
  BY <1>2, AuthoritativeType DEF ProjectorRow
<1>4. \A q \in Projectors : projector'[q] = IF q = p THEN row ELSE projector[q]
  BY <1>1 DEF MemoryInv, MemoryTypes
<1> HIDE DEF row
<1>5. MemoryTypes'
  BY <1>1, <1>3 DEF MemoryInv, MemoryTypes
<1>6. PICK evidence : FollowsEvidence(evidence)
  BY DEF MemoryInv
<1>7. SnapshotsAreRecent'
  BY <1>1, <1>2, <1>3, <1>4, <1>6 DEF MemoryInv, SnapshotsAreRecent, FollowsEvidence
<1>8. Authoritative' = Authoritative
  BY <1>1 DEF Authoritative
<1>9. FollowsEvidence(evidence)'
  BY <1>1, <1>2, <1>3, <1>4, <1>6, <1>8 DEF FollowsEvidence
<1>10. \A n \in 1 .. Len(versions) : Sound(versions[n])
  BY DEF MemoryInv
<1> QED BY <1>1, <1>5, <1>7, <1>9, <1>10 DEF MemoryInv, Sound

\* The new version is of later events than all before: the state is as the
\* projection read it, so the last version is no later than its snapshot, and
\* its events are others, so it is not of the same moment.
LEMMA WriteKeeps ==
    ASSUME MemoryInv, NEW p \in Projectors, WriteState(p)
    PROVE  MemoryInv'
<1> DEFINE k == Len(versions)
           S == projector[p].events
           row == [events |-> S, seen |-> projector[p].seen,
                   active |-> ActiveFeatures(S), completed |-> CompletedFeatures(S),
                   milestones |-> RecentMilestones(S)]
<1>1. /\ UNCHANGED <<eventStatus, orphaned, changes, failures>> /\ EndProjection(p)
      /\ projector[p].pc = "write" /\ StateUnchanged(p)
      /\ state' = [version |-> projector[p].version + 1, events |-> S]
      /\ versions' = Append(versions, row)
  BY DEF WriteState, evidenceVars
<1>2. /\ versions \in Seq(VersionRow) /\ k \in Nat
      /\ projector[p] \in ProjectorRow /\ S \in SUBSET ProjectEvents
      /\ projector[p].version = k /\ projector[p].seen \in Nat
  BY <1>1 DEF MemoryInv, MemoryTypes, ProjectorRow, StateUnchanged
<1>3. /\ row \in VersionRow /\ row.events = S /\ row.seen = projector[p].seen
      /\ row.active = ActiveFeatures(S) /\ row.milestones = RecentMilestones(S)
  <2>1. /\ ActiveFeatures(S) \subseteq ProjectEvents
        /\ CompletedFeatures(S) \subseteq Features
        /\ RecentMilestones(S) \subseteq ProjectEvents
    BY <1>2, FeaturesType, MilestonesAreBounded
  <2> QED BY <1>2, <2>1 DEF VersionRow
<1>4. Sound(row)
  BY <1>2, <1>3, MilestonesAreBounded DEF Sound
<1> HIDE DEF row
<1>5. /\ versions' \in Seq(VersionRow) /\ Len(versions') = k + 1
      /\ versions'[k + 1] = row
      /\ \A n \in 1 .. k : versions'[n] = versions[n]
      /\ \A n \in 1 .. k + 1 : n \in 1 .. k \/ n = k + 1
  BY <1>1, <1>2, <1>3
<1>6. \A q \in Projectors : projector'[q] = IF q = p THEN Idle ELSE projector[q]
  BY <1>1 DEF EndProjection, MemoryInv, MemoryTypes
<1>7. state' \in Projection /\ state'.version = k + 1
  BY <1>1, <1>2 DEF Projection
<1>8. PICK evidence : FollowsEvidence(evidence)
  BY DEF MemoryInv
<1>9. \A n \in 1 .. k : versions[n] \in VersionRow /\ versions[n].seen \in Nat
  <2>1. \A n \in 1 .. k : versions[n] \in VersionRow
    BY <1>2
  <2> QED BY <2>1 DEF VersionRow
<1>10. \A n \in 1 .. k : versions[n].seen < row.seen
  <2>1. SUFFICES ASSUME NEW n \in 1 .. k PROVE versions[n].seen < row.seen
    OBVIOUS
  <2>2. versions[n].seen <= row.seen
    BY <1>1, <1>2, <1>3 DEF MemoryInv, SnapshotsAreRecent
  <2>3. versions[n].events # S
    BY <1>1, <1>2 DEF StateUnchanged, ReplayExists, Fingerprint
  <2>4. versions[n].events = evidence[versions[n].seen] /\ S = evidence[row.seen]
    BY <1>1, <1>3, <1>8 DEF FollowsEvidence
  <2>5. versions[n].seen # row.seen
    BY <2>3, <2>4
  <2> QED BY <1>2, <1>3, <1>9, <2>2, <2>5
<1>11. MemoryTypes'
  BY <1>1, <1>5, <1>7, IdleType DEF EndProjection, MemoryInv, MemoryTypes
<1>12. \A n \in 1 .. k + 1 : Sound(versions'[n])
  BY <1>4, <1>5 DEF MemoryInv
<1>13. \A m, n \in 1 .. k + 1 : m < n => versions'[m].seen < versions'[n].seen
  <2>1. SUFFICES ASSUME NEW m \in 1 .. k + 1, NEW n \in 1 .. k + 1, m < n
                 PROVE  versions'[m].seen < versions'[n].seen
    OBVIOUS
  <2>2. m \in 1 .. k
    BY <1>2, <2>1
  <2>3. CASE n \in 1 .. k
    BY <1>5, <2>1, <2>2, <2>3 DEF MemoryInv
  <2>4. CASE n = k + 1
    BY <1>5, <1>10, <2>2, <2>4
  <2> QED BY <1>5, <2>3, <2>4
<1>14. SnapshotsAreRecent'
  <2>1. SUFFICES ASSUME NEW q \in Projectors, projector'[q].pc = "write"
                 PROVE  /\ projector'[q].version <= k + 1
                        /\ \A n \in 1 .. projector'[q].version :
                              versions'[n].seen <= projector'[q].seen
    BY <1>5 DEF SnapshotsAreRecent
  <2>2. projector'[q] = projector[q] /\ projector[q].pc = "write"
    BY <1>6, <2>1, IdleType
  <2>3. /\ projector[q].version <= k /\ projector[q].version \in Nat
        /\ \A n \in 1 .. projector[q].version : versions[n].seen <= projector[q].seen
    BY <2>2 DEF MemoryInv, MemoryTypes, SnapshotsAreRecent, ProjectorRow
  <2>4. \A n \in 1 .. projector[q].version : n \in 1 .. k
    BY <1>2, <2>3
  <2> QED BY <1>2, <1>5, <2>2, <2>3, <2>4
<1>15. FollowsEvidence(evidence)'
  <2>1. Authoritative' = Authoritative
    BY <1>1 DEF Authoritative
  <2>2. row.seen <= changes /\ row.events = evidence[row.seen]
    BY <1>1, <1>3, <1>8 DEF FollowsEvidence
  <2>3. \A n \in 1 .. k + 1 : /\ versions'[n].seen <= changes
                              /\ versions'[n].events = evidence[versions'[n].seen]
    BY <1>5, <1>8, <2>2 DEF FollowsEvidence
  <2>4. \A q \in Projectors : projector'[q].pc = "write" =>
           /\ projector'[q].seen <= changes
           /\ projector'[q].events = evidence[projector'[q].seen]
    BY <1>6, <1>8, IdleType DEF FollowsEvidence
  <2> QED BY <1>1, <1>5, <1>8, <2>1, <2>3, <2>4 DEF FollowsEvidence
<1>16. (\A n \in 1 .. Len(versions) : Sound(versions[n]))'
  BY <1>5, <1>12 DEF Sound
<1> QED BY <1>5, <1>7, <1>11, <1>13, <1>14, <1>15, <1>16 DEF MemoryInv

\* The events change; versions and projections are of the moments they were.
LEMMA ChangeKeeps ==
    ASSUME MemoryInv, EventsChange,
           eventStatus' \in [ProjectEvents -> {"none", "active", "superseded"}],
           orphaned' \subseteq Commits
    PROVE  MemoryInv'
<1>1. /\ UNCHANGED <<state, versions, projector, failures>>
      /\ changes' = changes + 1 /\ changes < MaxChanges
  BY DEF EventsChange
<1>2. changes \in Nat /\ changes' \in 0 .. MaxChanges
  BY <1>1, MemoryAssumption DEF MemoryInv, MemoryTypes
<1>3. MemoryTypes'
  BY <1>1, <1>2 DEF MemoryInv, MemoryTypes
<1>4. SnapshotsAreRecent'
  BY <1>1 DEF MemoryInv, SnapshotsAreRecent
<1>5. PICK evidence : FollowsEvidence(evidence)
  BY DEF MemoryInv
<1> DEFINE present == Authoritative'
<1>6. present \in SUBSET ProjectEvents
  BY DEF Authoritative
<1> HIDE DEF present
<1>7. PICK next \in [Nat -> SUBSET ProjectEvents] :
         /\ next[changes + 1] = present
         /\ \A i \in 0 .. changes : next[i] = evidence[i]
  <2> DEFINE later == [evidence EXCEPT ![changes + 1] = present]
  <2>1. /\ later \in [Nat -> SUBSET ProjectEvents] /\ later[changes + 1] = present
        /\ \A i \in 0 .. changes : later[i] = evidence[i]
    BY <1>2, <1>5, <1>6 DEF FollowsEvidence
  <2> QED BY <2>1
<1>8. ASSUME NEW n \in 1 .. Len(versions)
      PROVE  versions[n].seen <= changes + 1 /\ versions[n].events = next[versions[n].seen]
  <2>1. versions[n].seen \in Nat
    <3>1. versions[n] \in VersionRow
      BY DEF MemoryInv, MemoryTypes
    <3> QED BY <3>1 DEF VersionRow
  <2>2. versions[n].seen <= changes /\ versions[n].events = evidence[versions[n].seen]
    BY <1>5 DEF FollowsEvidence
  <2> QED BY <1>2, <1>7, <2>1, <2>2
<1>9. ASSUME NEW p \in Projectors, projector[p].pc = "write"
      PROVE  projector[p].seen <= changes + 1 /\ projector[p].events = next[projector[p].seen]
  <2>1. projector[p].seen \in Nat
    BY DEF MemoryInv, MemoryTypes, ProjectorRow
  <2>2. projector[p].seen <= changes /\ projector[p].events = evidence[projector[p].seen]
    BY <1>5, <1>9 DEF FollowsEvidence
  <2> QED BY <1>2, <1>7, <2>1, <2>2
<1>10. FollowsEvidence(next)'
  <2>1. next[changes'] = Authoritative'
    BY <1>1, <1>7 DEF present
  <2>2. \A n \in 1 .. Len(versions') :
           versions'[n].seen <= changes' /\ versions'[n].events = next[versions'[n].seen]
    BY <1>1, <1>8
  <2>3. \A p \in Projectors : projector'[p].pc = "write" =>
           projector'[p].seen <= changes' /\ projector'[p].events = next[projector'[p].seen]
    BY <1>1, <1>9
  <2> QED BY <1>7, <2>1, <2>2, <2>3 DEF FollowsEvidence
<1>11. \A n \in 1 .. Len(versions) : Sound(versions[n])
  BY DEF MemoryInv
<1> QED BY <1>1, <1>3, <1>4, <1>10, <1>11 DEF MemoryInv, Sound

LEMMA MemoryInvUnchanged ==
    ASSUME MemoryInv, UNCHANGED memoryVars
    PROVE  MemoryInv'
<1>1. UNCHANGED <<eventStatus, orphaned, changes, state, versions, projector, failures>>
  BY DEF memoryVars, evidenceVars
<1>2. Authoritative' = Authoritative
  BY <1>1 DEF Authoritative
<1>3. PICK evidence : FollowsEvidence(evidence)
  BY DEF MemoryInv
<1>4. FollowsEvidence(evidence)'
  BY <1>1, <1>2, <1>3 DEF FollowsEvidence
<1>5. \A n \in 1 .. Len(versions) : Sound(versions[n])
  BY DEF MemoryInv
<1> QED BY <1>1, <1>4, <1>5 DEF MemoryInv, MemoryTypes, SnapshotsAreRecent, Sound

LEMMA MemoryInvStep ==
    ASSUME MemoryInv, [MemoryNext]_memoryVars
    PROVE  MemoryInv'
<1>1. ASSUME NEW p \in Projectors, ReadUnchanged(p) \/ ReadInconsistent(p)
      PROVE  MemoryInv'
  BY <1>1, MemoryInvUnchanged DEF ReadUnchanged, ReadInconsistent
<1>2. ASSUME NEW p \in Projectors, ReadChanged(p) PROVE MemoryInv'
  BY <1>2, ReadKeeps
<1>3. ASSUME NEW p \in Projectors, WriteState(p) PROVE MemoryInv'
  BY <1>3, WriteKeeps
<1>4. ASSUME NEW p \in Projectors, WriteConflicts(p) PROVE MemoryInv'
  <2>1. failures' \in 0 .. MaxFailures
    BY <1>4 DEF WriteConflicts, MemoryInv, MemoryTypes
  <2> QED BY <1>4, <2>1, ProjectionEnds DEF WriteConflicts
<1>5. ASSUME NEW p \in Projectors, ProjectionFails(p) PROVE MemoryInv'
  <2>1. failures' \in 0 .. MaxFailures
    BY <1>5, MemoryAssumption DEF ProjectionFails, MemoryInv, MemoryTypes
  <2> QED BY <1>5, <2>1, ProjectionEnds DEF ProjectionFails
<1>6. ASSUME NEW e \in ProjectEvents, InterpretEvent(e) PROVE MemoryInv'
  <2>1. eventStatus' \in [ProjectEvents -> {"none", "active", "superseded"}]
    BY <1>6 DEF InterpretEvent, MemoryInv, MemoryTypes
  <2>2. orphaned' \subseteq Commits
    BY <1>6 DEF InterpretEvent, MemoryInv, MemoryTypes
  <2> QED BY <1>6, <2>1, <2>2, ChangeKeeps DEF InterpretEvent
<1>7. ASSUME NEW c \in Commits, ChangeReachability(c) PROVE MemoryInv'
  <2>1. eventStatus' \in [ProjectEvents -> {"none", "active", "superseded"}]
    BY <1>7 DEF ChangeReachability, MemoryInv, MemoryTypes
  <2>2. orphaned' \subseteq Commits
    BY <1>7 DEF ChangeReachability, MemoryInv, MemoryTypes
  <2> QED BY <1>7, <2>1, <2>2, ChangeKeeps DEF ChangeReachability
<1> QED BY <1>1, <1>2, <1>3, <1>4, <1>5, <1>6, <1>7, MemoryInvUnchanged
        DEF MemoryNext, ProjectStep

LEMMA MemoryInvConsistent ==
    MemoryInv => MemoryTypeOK /\ VersionsMoveForward /\ CompletedFeaturesRest
<1> SUFFICES ASSUME MemoryInv
             PROVE  MemoryTypeOK /\ VersionsMoveForward /\ CompletedFeaturesRest
  OBVIOUS
<1>1. DOMAIN versions = 1 .. Len(versions) /\ \A n \in DOMAIN versions : versions[n] \in VersionRow
  BY DEF MemoryInv, MemoryTypes
<1>2. MemoryTypeOK
  <2>1. \A p \in Projectors :
           /\ projector[p].pc \in {"idle", "write"}
           /\ [version |-> projector[p].version, events |-> projector[p].events] \in Projection
    BY DEF MemoryInv, MemoryTypes, ProjectorRow, Projection
  <2>2. \A n \in DOMAIN versions :
           /\ versions[n].events \subseteq ProjectEvents
           /\ Cardinality(versions[n].milestones) <= MilestoneLimit
    BY <1>1 DEF MemoryInv, Sound, VersionRow
  <2> QED BY <2>1, <2>2 DEF MemoryInv, MemoryTypes, MemoryTypeOK
<1>3. VersionsMoveForward
  BY <1>1 DEF MemoryInv, VersionsMoveForward
<1>4. CompletedFeaturesRest
  <2>1. SUFFICES ASSUME NEW n \in DOMAIN versions, NEW e \in versions[n].active, NEW f,
                        TypeOf[f] = "feature_completed",
                        FeaturesOf[e] \cap FeaturesOf[f] # {}, f \in versions[n].events
                 PROVE  FALSE
    BY DEF CompletedFeaturesRest
  <2>2. e \in ActiveFeatures(versions[n].events)
    BY <1>1, <2>1 DEF MemoryInv, Sound
  <2>3. FeaturesOf[f] \subseteq CompletedFeatures(versions[n].events)
    BY <2>1 DEF CompletedFeatures, OfType
  <2> QED BY <2>1, <2>2, <2>3 DEF ActiveFeatures
<1> QED BY <1>2, <1>3, <1>4

\* The versions of a project are numbered without gap and each is of later
\* events than those before it, the state has the newest, milestones are
\* bounded, and no completed feature is active: for any number of processes
\* that project, conflict and fail while events and the reach of commits change.
THEOREM MemoryStaysConsistent ==
    MemorySpec => [](MemoryTypeOK /\ VersionsMoveForward /\ CompletedFeaturesRest)
<1>1. MemoryInit => MemoryInv
  BY MemoryInvInit
<1>2. MemoryInv /\ [MemoryNext]_memoryVars => MemoryInv'
  BY MemoryInvStep
<1>3. MemoryInv => MemoryTypeOK /\ VersionsMoveForward /\ CompletedFeaturesRest
  BY MemoryInvConsistent
<1> QED BY <1>1, <1>2, <1>3, PTL DEF MemorySpec

-----------------------------------------------------------------------------
(* Versions are records *)

LEMMA VersionsStay ==
    ASSUME UNCHANGED <<versions, state>>
    PROVE  VersionRecords!WriteRows /\ VersionRecords!GiveWay
BY DEF VersionRecords!WriteRows, VersionRecords!GiveWay, VersionRecords!Written

\* A write adds a version of events that no version is of, and it is what the
\* state has.
LEMMA VersionRecorded ==
    ASSUME MemoryInv, MemoryInv', NEW p \in Projectors, WriteState(p)
    PROVE  VersionRecords!WriteRows /\ VersionRecords!GiveWay
<1> DEFINE k == Len(versions)
<1>1. /\ k \in Nat /\ DOMAIN versions = 1 .. k
      /\ state.version = k
  BY DEF MemoryInv, MemoryTypes
<1>2. PICK row : /\ versions' = Append(versions, row)
                 /\ row.events = projector[p].events
  BY DEF WriteState
<1>3. /\ DOMAIN versions' = 1 .. k + 1 /\ versions'[k + 1] = row
      /\ \A n \in 1 .. k : versions'[n] = versions[n]
  <2>1. versions \in Seq(VersionRow) /\ versions' \in Seq(VersionRow)
    BY DEF MemoryInv, MemoryTypes
  <2> QED BY <1>2, <2>1
<1>4. state'.version = k + 1
  <2>1. state'.version = Len(versions')
    BY DEF MemoryInv
  <2>2. versions' \in Seq(VersionRow)
    BY DEF MemoryInv, MemoryTypes
  <2> QED BY <1>1, <1>3, <2>1, <2>2
<1>5. \A n \in 1 .. k : Fingerprint(versions[n].events) # Fingerprint(row.events)
  BY <1>1, <1>2 DEF WriteState, StateUnchanged, ReplayExists
<1> HIDE DEF k
<1>6. VersionRecords!Written = {k + 1}
  BY <1>1, <1>3 DEF VersionRecords!Written
<1>7. VersionRecords!WriteRows
  <2>1. \A n \in 1 .. k + 1 : n \in 1 .. k \/ n = k + 1
    BY <1>1
  <2>2. \A S : Fingerprint(S)' = Fingerprint(S)
    BY DEF Fingerprint
  <2> QED BY <1>1, <1>3, <1>5, <1>6, <2>1, <2>2 DEF VersionRecords!WriteRows, Fingerprint
<1>8. VersionRecords!GiveWay
  BY <1>1, <1>4, <1>6 DEF VersionRecords!GiveWay, NoState
<1> QED BY <1>7, <1>8

LEMMA RecordsVersions ==
    MemoryInv /\ MemoryInv' /\ [MemoryNext]_memoryVars => VersionRecords!RecordsNext
<1> SUFFICES ASSUME MemoryInv, MemoryInv', [MemoryNext]_memoryVars
             PROVE  VersionRecords!RecordsNext
  OBVIOUS
<1>1. UNCHANGED <<versions, state>> \/ \E p \in Projectors : WriteState(p)
  BY DEF MemoryNext, ProjectStep, memoryVars, evidenceVars, ReadUnchanged, ReadInconsistent,
         ReadChanged, WriteConflicts, ProjectionFails, InterpretEvent, ChangeReachability,
         EventsChange
<1>2. VersionRecords!WriteRows /\ VersionRecords!GiveWay
  BY <1>1, VersionsStay, VersionRecorded
<1>3. VersionRecords!AnswerCallers
  BY DEF VersionRecords!AnswerCallers
<1> QED BY <1>2, <1>3 DEF VersionRecords!RecordsNext

\* The memory is consistent and its versions are records, however many processes project,
\* conflict and fail, and whatever becomes of the events meanwhile.
THEOREM VersionsAreRecords == MemorySpec => MemoryImplementsRecords
<1>1. MemoryInit => VersionRecords!RecordsInit
  BY DEF MemoryInit, NoState, VersionRecords!RecordsInit
<1>2. MemoryInit => MemoryInv
  BY MemoryInvInit
<1>3. MemoryInv /\ [MemoryNext]_memoryVars => MemoryInv'
  BY MemoryInvStep
<1> QED BY <1>1, <1>2, <1>3, MemoryStaysConsistent, RecordsVersions, PTL
        DEF MemorySpec, MemoryImplementsRecords, VersionRecords!RecordsSpec
=============================================================================
