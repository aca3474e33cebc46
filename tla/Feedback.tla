------------------------------ MODULE Feedback ------------------------------
(* Decisions of a user on content opportunities: record() of the feedback     *)
(* service. A call is up to three serializable transactions; each takes its   *)
(* snapshot, locks the project and the opportunity, and then looks for an     *)
(* earlier answer to its idempotency key, supersedes the current decision and *)
(* inserts the new one. Scoring expires opportunities under the same lock.    *)
EXTENDS Integers, Sequences, FiniteSets

CONSTANTS
    Requests,       \* calls of record() at work at a time
    Keys,           \* idempotency keys of the user
    Opportunities,
    Clicks,         \* what the user asks for: keys, opportunities, decisions
    ProjectLock,    \* the project an opportunity belongs to
    MaxTransactions, \* opportunityFeedbackTransactionAttempts
    MaxLost         \* bound on calls that die

\* requestFingerprint is a function of the opportunity and the decision.
Decision == [key : Keys, opportunity : Opportunities,
             action : {"accepted", "dismissed"}, isCurrent : BOOLEAN]

ASSUME FeedbackAssumption ==
    /\ Clicks \subseteq {d \in Decision : d.isCurrent} /\ Clicks # {}
    /\ DOMAIN ProjectLock = Opportunities
    /\ MaxTransactions \in Nat \ {0}
    /\ MaxLost \in Nat

VARIABLES
    feedback,       \* OpportunityFeedback rows, in the order of their commits
    actionable,     \* the opportunities that are current and recommended
    request,        \* the call of each slot
    answered,       \* history: the rows answered for each key
    lost

feedbackVars == <<feedback, actionable, request, answered, lost>>

NoFeedback == 0

\* A call between its steps; view is the snapshot of its transaction.
Request == [pc : {"idle", "begin", "lock", "write", "prior", "answer"},
            attempt : 0 .. MaxTransactions, asked : Clicks,
            seen : Nat, stale : SUBSET Nat, fresh : BOOLEAN, row : Nat]

\* What an idle slot was asked has no meaning; anything will do.
AnyClick == CHOOSE d \in Clicks : TRUE

NoRequest == [pc |-> "idle", attempt |-> 0, asked |-> AnyClick,
              seen |-> 0, stale |-> {}, fresh |-> TRUE, row |-> NoFeedback]

FeedbackInit ==
    /\ feedback = <<>>
    /\ actionable = Opportunities
    /\ request = [c \in Requests |-> NoRequest]
    /\ answered = [k \in Keys |-> {}]
    /\ lost = 0

-----------------------------------------------------------------------------
(* What a transaction sees and what the database refuses *)

Asked(c) == request[c].asked

\* Rows committed before the snapshot.
SeenRows(c) == 1 .. request[c].seen

\* The row an earlier request left under this key, in the snapshot.
Replay(c) == {f \in SeenRows(c) : feedback[f].key = Asked(c).key}

\* The same, in the database.
Prior(c) == {f \in DOMAIN feedback : feedback[f].key = Asked(c).key}

\* The current decision of the opportunity in the snapshot: the rows that were
\* superseded since are current there.
CurrentSeen(c) == {f \in SeenRows(c) :
                     /\ feedback[f].opportunity = Asked(c).opportunity
                     /\ feedback[f].isCurrent \/ f \in request[c].stale}

\* A row changed since the snapshot cannot be updated.
Changed(c) == CurrentSeen(c) \cap request[c].stale # {}

\* The unique index OpportunityFeedback_one_current_decision.
OneCurrentIndex(c) ==
    \A f \in DOMAIN feedback \ CurrentSeen(c) :
        feedback[f].opportunity = Asked(c).opportunity => ~feedback[f].isCurrent

\* The unique index OpportunityFeedback_user_idempotency_key.
KeyIndex(c) == Prior(c) = {}

\* Slip: any request replays the key.
SameKey(f, d) == TRUE

\* The fingerprints of an earlier and a repeated request agree.
SameRequest(f, d) == /\ feedback[f].opportunity = d.opportunity
                     /\ feedback[f].action = d.action

-----------------------------------------------------------------------------
(* The steps of record() *)

EndRequest(c) == request' = [request EXCEPT ![c] = NoRequest]

AnswerRow(c, f) ==
    request' = [request EXCEPT ![c] = [@ EXCEPT !.pc = "answer", !.row = f]]

\* P2034: the transaction is tried again, at most three times in all; the last
\* refusal is answered with FEEDBACK_CONCURRENT_CONFLICT.
RetryTransaction(c) ==
    IF request[c].attempt < MaxTransactions
    THEN request' = [request EXCEPT ![c] = [@ EXCEPT !.pc = "begin"]]
    ELSE EndRequest(c)

\* A request with its key arrives; a client may repeat one, or use its key again.
BeginRequest(c, d) ==
    /\ request[c].pc = "idle"
    /\ request' = [request EXCEPT ![c] = [@ EXCEPT !.pc = "begin", !.asked = d]]
    /\ UNCHANGED <<feedback, actionable, answered, lost>>

\* The look-up of the project is the transaction's first statement and fixes
\* its snapshot.
TakeSnapshot(c) ==
    /\ request[c].pc = "begin"
    /\ request' = [request EXCEPT ![c] =
          [@ EXCEPT !.pc = "lock", !.attempt = request[c].attempt + 1,
                    !.seen = Len(feedback), !.stale = {}, !.fresh = TRUE]]
    /\ UNCHANGED <<feedback, actionable, answered, lost>>

LocksHeld(c) ==
    \E d \in Requests \ {c} :
        /\ request[d].pc = "write"
        /\ ProjectLock[Asked(d).opportunity] = ProjectLock[Asked(c).opportunity]

\* A row changed since the snapshot cannot be locked either.
Lockable(c) == request[c].fresh

\* FOR UPDATE of the project and of the opportunity.
LockRows(c) ==
    /\ request[c].pc = "lock"
    /\ ~LocksHeld(c)
    /\ \/ /\ Lockable(c)
          /\ request' = [request EXCEPT ![c].pc = "write"]
       \/ /\ ~Lockable(c)
          /\ RetryTransaction(c) \/ EndRequest(c)
    /\ UNCHANGED <<feedback, actionable, answered, lost>>

\* Whether the opportunity is actionable in the snapshot.
ActionableSeen(c) ==
    \/ Asked(c).opportunity \in actionable
    \/ ~request[c].fresh

\* Every other transaction at work now has a snapshot of before this write.
NoteWrite(c, superseded) ==
    request' = [d \in Requests |->
        IF d = c THEN [request[c] EXCEPT !.pc = "answer", !.row = Len(feedback) + 1]
        ELSE IF request[d].pc \in {"lock", "write"}
             THEN [request[d] EXCEPT !.stale = @ \cup superseded]
             ELSE request[d]]

\* The decision is superseded and the new one inserted, in one commit.
WriteDecision(c) ==
    /\ request[c].pc = "write"
    /\ Replay(c) = {}
    /\ ActionableSeen(c)
    /\ ~Changed(c) /\ OneCurrentIndex(c) /\ KeyIndex(c)
    /\ feedback' = Append(
          [f \in DOMAIN feedback |->
             [feedback[f] EXCEPT !.isCurrent = @ /\ f \notin CurrentSeen(c)]],
          Asked(c))
    /\ NoteWrite(c, CurrentSeen(c))
    /\ UNCHANGED <<actionable, answered, lost>>

\* The key was answered before: the same row again, or a conflict.
ReplayDecision(c) ==
    /\ request[c].pc = "write"
    /\ \E f \in Replay(c) :
          \/ SameRequest(f, Asked(c)) /\ AnswerRow(c, f)
          \/ ~SameRequest(f, Asked(c)) /\ EndRequest(c)
    /\ UNCHANGED <<feedback, actionable, answered, lost>>

\* FEEDBACK_NOT_ACTIONABLE.
RefuseDecision(c) ==
    /\ request[c].pc = "write"
    /\ Replay(c) = {}
    /\ ~ActionableSeen(c)
    /\ EndRequest(c)
    /\ UNCHANGED <<feedback, actionable, answered, lost>>

\* A write is refused: as a serialization failure, or by a unique index.
WriteRefused(c) ==
    /\ request[c].pc = "write"
    /\ Replay(c) = {}
    /\ ActionableSeen(c)
    /\ \/ RetryTransaction(c)
       \/ /\ ~Changed(c)
          /\ ~(OneCurrentIndex(c) /\ KeyIndex(c))
          /\ request' = [request EXCEPT ![c].pc = "prior"]
    /\ UNCHANGED <<feedback, actionable, answered, lost>>

\* After P2002: the winner under the same key is replayed, anything else is a
\* conflict.
FindPrior(c) ==
    /\ request[c].pc = "prior"
    /\ \/ \E f \in Prior(c) : SameRequest(f, Asked(c)) /\ AnswerRow(c, f)
       \/ (\A f \in Prior(c) : ~SameRequest(f, Asked(c))) /\ EndRequest(c)
    /\ UNCHANGED <<feedback, actionable, answered, lost>>

AnswerRequest(c) ==
    /\ request[c].pc = "answer"
    /\ answered' = [answered EXCEPT ![Asked(c).key] = @ \cup {request[c].row}]
    /\ EndRequest(c)
    /\ UNCHANGED <<feedback, actionable, lost>>

\* The call dies: an open transaction is rolled back, an answer is lost.
LoseRequest(c) ==
    /\ lost < MaxLost
    /\ request[c].pc # "idle"
    /\ lost' = lost + 1
    /\ EndRequest(c)
    /\ UNCHANGED <<feedback, actionable, answered>>

\* Scoring locks the project and expires or replaces the opportunity.
ExpireOpportunity(o) ==
    /\ o \in actionable
    /\ \A c \in Requests : request[c].pc = "write" =>
          ProjectLock[Asked(c).opportunity] # ProjectLock[o]
    /\ actionable' = actionable \ {o}
    /\ request' = [c \in Requests |->
          [request[c] EXCEPT !.fresh = @ /\ ~(/\ request[c].pc = "lock"
                                              /\ Asked(c).opportunity = o)]]
    /\ UNCHANGED <<feedback, answered, lost>>

RecordStep(c) ==
    \/ TakeSnapshot(c) \/ LockRows(c)
    \/ WriteDecision(c) \/ ReplayDecision(c) \/ RefuseDecision(c)
    \/ WriteRefused(c) \/ FindPrior(c) \/ AnswerRequest(c)

FeedbackNext ==
    \/ \E c \in Requests :
         \/ \E d \in Clicks : BeginRequest(c, d)
         \/ RecordStep(c)
         \/ LoseRequest(c)
    \/ \E o \in Opportunities : ExpireOpportunity(o)

FeedbackSpec == FeedbackInit /\ [][FeedbackNext]_feedbackVars

-----------------------------------------------------------------------------
(* Properties *)

FeedbackTypeOK ==
    /\ feedback \in Seq(Decision)
    /\ actionable \subseteq Opportunities
    /\ request \in [Requests -> Request]
    /\ answered \in [Keys -> SUBSET (DOMAIN feedback)]
    /\ lost \in 0 .. MaxLost

\* Of the decisions on an opportunity the newest is current, and no other,
\* although a transaction that waited for the lock acts on an older snapshot.
CurrentIsNewest ==
    \A f \in DOMAIN feedback :
        feedback[f].isCurrent <=>
            \A g \in DOMAIN feedback : g > f =>
                feedback[g].opportunity # feedback[f].opportunity

\* Repeats of a key are answered with one row, however calls with it raced,
\* waited, were refused or lost their answer.
OneAnswerPerKey == \A k \in Keys : Cardinality(answered[k]) <= 1

\* A call is answered with a decision that says what the call asked, never
\* with what another request decided under the same key.
AnsweredAsAsked ==
    \A c \in Requests : request[c].pc = "answer" =>
        /\ feedback[request[c].row].opportunity = Asked(c).opportunity
        /\ feedback[request[c].row].action = Asked(c).action

\* No decision is recorded on an opportunity that has expired, not even by a
\* transaction whose snapshot is from before.
NoDecisionAfterExpiry ==
    [][\A f \in DOMAIN feedback' \ DOMAIN feedback :
          feedback'[f].opportunity \in actionable]_feedbackVars

\* Decisions are exclusive, idempotent and timely, whatever calls overlap.
FeedbackIsConsistent ==
    /\ [](CurrentIsNewest /\ OneAnswerPerKey /\ AnsweredAsAsked)
    /\ NoDecisionAfterExpiry

DecisionRecords == INSTANCE KeyedRecords WITH
    rows <- [f \in DOMAIN feedback |->
               [key |-> feedback[f].key, subject |-> feedback[f].opportunity,
                action |-> feedback[f].action]],
    current <- {f \in DOMAIN feedback : feedback[f].isCurrent},
    answers <- answered

\* Decisions are consistent, and they are recorded as KeyedRecords states: one row
\* per idempotency key, never rewritten, one current row per opportunity, which
\* never returns once it is superseded, and repeats of a key answered with its row.
FeedbackImplementsRecords == FeedbackIsConsistent /\ DecisionRecords!RecordsSpec
=============================================================================
