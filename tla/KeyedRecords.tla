---------------------------- MODULE KeyedRecords ----------------------------
(***************************************************************************)
(* What a table of answers promises, whoever computes them and however     *)
(* they race: a key has one row, which is written once and never again; of *)
(* the rows about one subject at most one is current, and a row that gave  *)
(* way never comes back; and whoever asks for a key is answered with its   *)
(* row.  Transactions, snapshots, retries and calls are the                *)
(* implementation's business.                                              *)
(***************************************************************************)
EXTENDS TLAPS

VARIABLES
    rows,      \* by its id, the key and the subject of each row, and what it says
    current,   \* the ids of the rows that are current
    answers    \* for each key, the ids of the rows its callers were given

recordVars == <<rows, current, answers>>

RecordsInit ==
    /\ DOMAIN rows = {}
    /\ current = {}
    /\ \A k \in DOMAIN answers : answers[k] = {}

Written == DOMAIN rows' \ DOMAIN rows

\* One transaction may write many rows, under keys that no row has.
WriteRows ==
    /\ \A n \in DOMAIN rows : n \in DOMAIN rows' /\ rows'[n] = rows[n]
    /\ \A n \in Written : \A m \in DOMAIN rows' :
          rows'[m].key = rows'[n].key => m = n

\* A row gives way when there is a newer one of its subject, or for reasons of
\* the implementation.
GiveWay ==
    /\ current' \subseteq current \cup Written
    /\ \A n \in Written \cap current' : \A m \in current' :
          rows'[m].subject = rows'[n].subject => m = n

\* A caller may have asked before the row was written.
AnswerCallers ==
    /\ DOMAIN answers' = DOMAIN answers
    /\ \A k \in DOMAIN answers : \A n \in answers'[k] \ answers[k] :
          n \in DOMAIN rows' /\ rows'[n].key = k

\* Most steps of an implementation leave its table and its answers alone.
RecordsNext ==
    \/ UNCHANGED recordVars
    \/ WriteRows /\ GiveWay /\ AnswerCallers

RecordsSpec == RecordsInit /\ [][RecordsNext]_recordVars

-----------------------------------------------------------------------------
(* What follows, for every implementation *)

\* No two rows have a key in common, no two current ones a subject, and what a
\* caller was given for a key is a row with that key.
RecordsAreKeyed ==
    /\ \A m, n \in DOMAIN rows : rows[m].key = rows[n].key => m = n
    /\ current \subseteq DOMAIN rows
    /\ \A m, n \in current : rows[m].subject = rows[n].subject => m = n
    /\ \A k \in DOMAIN answers : \A n \in answers[k] :
          n \in DOMAIN rows /\ rows[n].key = k

\* A caller is never given another row for a key than callers before it, and a
\* row that gave way stays so.
AnswersAreFinal ==
    [][/\ \A k \in DOMAIN answers : \A m \in answers[k] : \A n \in answers'[k] : m = n
       /\ (DOMAIN rows \ current) \cap current' = {}]_recordVars

\* The keys stay unique although a write only looks at what it adds, and so do
\* the current rows of a subject.
THEOREM RecordsStayKeyed == RecordsSpec => []RecordsAreKeyed
<1>1. RecordsInit => RecordsAreKeyed
  BY DEF RecordsInit, RecordsAreKeyed
<1>2. RecordsAreKeyed /\ [RecordsNext]_recordVars => RecordsAreKeyed'
  <2> SUFFICES ASSUME RecordsAreKeyed, [RecordsNext]_recordVars
               PROVE  RecordsAreKeyed'
    OBVIOUS
  <2>1. CASE UNCHANGED recordVars
    BY <2>1 DEF RecordsAreKeyed, recordVars
  <2>2. CASE WriteRows /\ GiveWay /\ AnswerCallers
    <3> USE <2>2
    <3>1. \A m, n \in DOMAIN rows' : rows'[m].key = rows'[n].key => m = n
      BY DEF RecordsAreKeyed, WriteRows, Written
    <3>2. current' \subseteq DOMAIN rows'
      BY DEF RecordsAreKeyed, WriteRows, GiveWay, Written
    <3>3. \A m, n \in current' : rows'[m].subject = rows'[n].subject => m = n
      BY <3>2 DEF RecordsAreKeyed, WriteRows, GiveWay, Written
    <3>4. \A k \in DOMAIN answers' : \A n \in answers'[k] :
             n \in DOMAIN rows' /\ rows'[n].key = k
      BY DEF RecordsAreKeyed, WriteRows, AnswerCallers
    <3> QED BY <3>1, <3>2, <3>3, <3>4 DEF RecordsAreKeyed
  <2> QED BY <2>1, <2>2 DEF RecordsNext
<1> QED BY <1>1, <1>2, PTL DEF RecordsSpec

\* Idempotency, for callers at different times: every answer for a key is the
\* one answer, and what was superseded does not return.
THEOREM AnswersStayFinal == RecordsSpec => AnswersAreFinal
<1> DEFINE Final ==
      /\ \A k \in DOMAIN answers : \A m \in answers[k] : \A n \in answers'[k] : m = n
      /\ (DOMAIN rows \ current) \cap current' = {}
<1>1. RecordsAreKeyed /\ RecordsAreKeyed' /\ [RecordsNext]_recordVars
      => [Final]_recordVars
  <2> SUFFICES ASSUME RecordsAreKeyed, RecordsAreKeyed',
                      WriteRows, GiveWay, AnswerCallers
               PROVE  Final
    BY DEF RecordsNext
  <2>1. ASSUME NEW k \in DOMAIN answers, NEW m \in answers[k], NEW n \in answers'[k]
        PROVE  m = n
    <3>1. m \in DOMAIN rows /\ rows[m].key = k
      BY DEF RecordsAreKeyed
    <3>2. m \in DOMAIN rows' /\ rows'[m].key = k
      BY <3>1 DEF WriteRows
    <3>3. n \in DOMAIN rows' /\ rows'[n].key = k
      BY DEF RecordsAreKeyed, AnswerCallers
    <3> QED BY <3>2, <3>3 DEF RecordsAreKeyed
  <2>2. (DOMAIN rows \ current) \cap current' = {}
    BY DEF GiveWay, Written
  <2> QED BY <2>1, <2>2
<1> QED BY <1>1, RecordsStayKeyed, PTL DEF RecordsSpec, AnswersAreFinal
=============================================================================
