---------------------------- MODULE GitHubClient ----------------------------
(* The client of the GitHub API: one operation of GitHubApiService, as a      *)
(* sequence of requests each tried up to three times, against a provider      *)
(* that refuses, delays or fails, and whose listings change between pages.    *)
(* Time is what is left of a delay.                                           *)
EXTENDS Integers, FiniteSets, SequencesExt

CONSTANTS
    Items,              \* what a listing can hold
    FirstItems,         \* what it holds in the beginning, newest first
    PageSize,           \* commitPageSize, pullRequestPageSize
    MaxItems,           \* maxCommitItems, maxPullRequestItems
    MaxRequests,        \* for one commit's or one pull request's details
    MaximumAttempts,    \* of githubProviderRetryPolicy, with the next three
    MaximumBackoff,
    MaximumInlineDelay,
    MaximumRetryAfter,
    HeaderDelays        \* what Retry-After or X-RateLimit-Reset can say

ASSUME ClientAssumption ==
    /\ FirstItems \in Seq(Items) /\ IsInjective(FirstItems)
    /\ PageSize \in Nat \ {0} /\ MaxItems \in Nat \ {0}
    /\ MaximumAttempts \in Nat \ {0} /\ MaxRequests \in Nat \ {0}
    /\ MaximumBackoff \in Nat
    /\ MaximumInlineDelay \in Nat
    /\ MaximumRetryAfter \in Nat
    /\ HeaderDelays \subseteq Int

\* One page more than the items need, to see that there are no more.
MaxPages == MaxItems \div PageSize + 1

VARIABLES
    listing,        \* what GitHub lists in the window, newest first
    shrunk,         \* history: an item left the listing during the operation
    listed,         \* history: the items when the operation began
    told,           \* history: what is left of the delay the last answer asked
    client          \* the operation

clientVars == <<listing, shrunk, listed, told, client>>

NoDelay == -1

\* An operation asks for a token, the commits one for the repository too, then
\* for pages; the pull requests one then for each pull request. The details of
\* commits listed before are an operation of their own.
Operations == {"repositories", "commits", "details", "pulls"}

Client == [operation : Operations,
           stage : {"token", "repository", "page", "details", "done", "failed"},
           page : 1 .. MaxPages + MaxRequests, attempt : 1 .. MaximumAttempts,
           wait : 0 .. MaximumInlineDelay + MaximumBackoff,
           retryable : BOOLEAN, retryAfter : NoDelay .. MaximumRetryAfter]

\* The details of no commit are there at once, those of too many refused.
FirstStage(operation) ==
    CASE operation = "details" /\ listing = <<>> -> "done"
      [] operation = "details" /\ Len(listing) > MaxItems -> "failed"
      [] OTHER -> "token"

NewOperation(operation) ==
    [operation |-> operation, stage |-> FirstStage(operation), page |-> 1,
     attempt |-> 1, wait |-> 0, details |-> 0, retryable |-> FALSE,
     retryAfter |-> NoDelay,
     collected |-> IF operation = "details" THEN listing ELSE <<>>]

ClientInit ==
    /\ listing = FirstItems
    /\ shrunk = FALSE
    /\ listed = ToSet(FirstItems)
    /\ told = 0
    /\ \E operation \in Operations : client = NewOperation(operation)

-----------------------------------------------------------------------------
(* apiRequest: one action is one fetch with its answer *)

CanFetch == client.stage \notin {"done", "failed"} /\ client.wait = 0

Fail(retryable, retryAfter) ==
    client' = [client EXCEPT !.stage = "failed", !.retryable = retryable,
                             !.retryAfter = retryAfter]

\* retryAfterAt: an instant in the past is none, a distant one is cut to a day.
RetryAfter(header) ==
    IF header < 0 THEN NoDelay
    ELSE IF header > MaximumRetryAfter THEN MaximumRetryAfter ELSE header

\* What is waited for before the next try: the provider's delay, or a jittered
\* backoff when there is none.
Waits(delay) == IF delay = NoDelay THEN 0 .. MaximumBackoff ELSE {delay}

Exhausted == client.attempt >= MaximumAttempts

\* retryOrThrow of a temporary failure: a long delay is left to the caller.
RetryOrThrow(delay) ==
    \/ /\ delay > MaximumInlineDelay
       /\ Fail(TRUE, delay)
    \/ /\ delay <= MaximumInlineDelay
       /\ Exhausted
       /\ Fail(TRUE, delay)
    \/ /\ delay <= MaximumInlineDelay
       /\ ~Exhausted
       /\ \E wait \in Waits(delay) :
             client' = [client EXCEPT !.attempt = @ + 1, !.wait = wait]

\* The network or the server fails, or the rate is limited.
AnswerUnavailable ==
    /\ CanFetch
    /\ \E header \in HeaderDelays \cup {NoDelay} :
          /\ RetryOrThrow(RetryAfter(header))
          /\ told' = IF RetryAfter(header) = NoDelay THEN 0 ELSE RetryAfter(header)
    /\ UNCHANGED <<listing, shrunk, listed>>

\* The request is refused, or its answer is not valid: no retry.
AnswerRefused ==
    /\ CanFetch
    /\ Fail(FALSE, NoDelay)
    /\ told' = 0
    /\ UNCHANGED <<listing, shrunk, listed>>

\* A request was answered: the next one is a first attempt.
Proceed(update) ==
    /\ CanFetch
    /\ client' = [update EXCEPT !.attempt = 1]
    /\ told' = 0
    /\ UNCHANGED <<listing, shrunk, listed>>

\* What follows the token.
AfterToken == CASE client.operation = "commits" -> "repository"
                [] client.operation = "details" -> "details"
                [] OTHER -> "page"

AnswerToken ==
    /\ client.stage = "token"
    /\ Proceed([client EXCEPT !.stage = AfterToken])

AnswerRepository ==
    /\ client.stage = "repository"
    /\ Proceed([client EXCEPT !.stage = "page"])

\* The page of the listing as it is now.
PageItems ==
    SubSeq(listing, (client.page - 1) * PageSize + 1,
           IF client.page * PageSize < Len(listing) THEN client.page * PageSize
                                                    ELSE Len(listing))

\* Slip: a pull request listed again is taken again.
NeverRepeated == FALSE

\* A pull request that was listed before.
Repeated == \E i \in DOMAIN PageItems :
               PageItems[i] \in ToSet(client.collected)

\* More items than one synchronization takes.
TooMany ==
    \/ /\ client.operation = "commits"
       /\ Len(client.collected) + Len(PageItems) > MaxItems
    \/ client.operation = "pulls" /\ Len(listing) > MaxItems

\* The last page: a short one, or, but for commits, the last of total_count.
LastPage ==
    \/ Len(PageItems) < PageSize
    \/ /\ client.operation # "commits"
       /\ Len(client.collected) + Len(PageItems) >= Len(listing)

\* A page is added to the listing, and the next one asked for.
AnswerPage ==
    LET all == client.collected \o PageItems IN
    /\ client.stage = "page"
    /\ ~TooMany
    /\ client.operation = "pulls" => ~Repeated
    /\ \/ LastPage /\ (client.operation = "pulls" => all = <<>>)
          /\ Proceed([client EXCEPT !.stage = "done", !.collected = all])
       \/ LastPage /\ client.operation = "pulls" /\ all # <<>>
          /\ Proceed([client EXCEPT !.stage = "details", !.page = 1, !.collected = all])
       \/ ~LastPage /\ client.page < MaxPages
          /\ Proceed([client EXCEPT !.page = @ + 1, !.collected = all])

\* GITHUB_SAFETY_LIMIT_EXCEEDED, or GITHUB_RESPONSE_INVALID for a pull request
\* listed twice: not retried.
AnswerUnfit ==
    /\ CanFetch
    /\ client.stage = "page"
    /\ \/ TooMany
       \/ client.operation = "pulls" /\ Repeated
       \/ client.page = MaxPages /\ ~LastPage
    /\ Fail(FALSE, NoDelay)
    /\ told' = 0
    /\ UNCHANGED <<listing, shrunk, listed>>

\* getCommitDetail, or getPullRequestEvidence with the pull request's files and
\* commits: one request of them, or the last. A pull request that left the
\* window is left out.
AnswerDetails ==
    /\ client.stage = "details"
    /\ \/ /\ client.page < MaxRequests
          /\ Proceed([client EXCEPT !.page = @ + 1])
       \/ /\ client.details + 1 < Len(client.collected)
          /\ Proceed([client EXCEPT !.details = @ + 1, !.page = 1])
       \/ /\ client.details + 1 = Len(client.collected)
          /\ Proceed([client EXCEPT !.details = @ + 1, !.stage = "done"])

\* Part of the delay passes.
DelayPasses ==
    /\ client.wait > 0
    /\ client' = [client EXCEPT !.wait = @ - 1]
    /\ told' = IF told > 0 THEN told - 1 ELSE 0
    /\ UNCHANGED <<listing, shrunk, listed>>

\* The caller asks again: the next synchronization, or a later attempt.
NextOperation ==
    /\ client.stage \in {"done", "failed"}
    /\ \E operation \in Operations : client' = NewOperation(operation)
    /\ listed' = ToSet(listing)
    /\ shrunk' = FALSE
    /\ told' = 0
    /\ UNCHANGED listing

-----------------------------------------------------------------------------
(* The provider meanwhile *)

\* Without the item, the others in their order.
Without(s, item) ==
    IF item \in ToSet(s) THEN RemoveAt(s, CHOOSE i \in DOMAIN s : s[i] = item)
                         ELSE s

\* A commit is pushed or a pull request merged into the window; or a pull
\* request is updated, which moves it to the front.
ItemComesFirst(item) ==
    /\ client.operation # "pulls" => item \notin ToSet(listing)
    /\ listing' = <<item>> \o Without(listing, item)
    /\ UNCHANGED <<shrunk, listed, told, client>>

\* A branch is rewritten: a commit is gone.
ItemLeaves(item) ==
    /\ item \in ToSet(listing)
    /\ client.operation # "pulls"
    /\ listing' = Without(listing, item)
    /\ shrunk' = TRUE
    /\ UNCHANGED <<listed, told, client>>

ClientNext ==
    \/ AnswerUnavailable \/ AnswerRefused
    \/ AnswerToken \/ AnswerRepository \/ AnswerPage \/ AnswerUnfit
    \/ AnswerDetails \/ DelayPasses \/ NextOperation
    \/ \E item \in Items : ItemComesFirst(item) \/ ItemLeaves(item)

ClientSpec == ClientInit /\ [][ClientNext]_clientVars

-----------------------------------------------------------------------------
(* Properties *)

ClientTypeOK ==
    /\ listing \in Seq(Items)
    /\ shrunk \in BOOLEAN
    /\ listed \subseteq Items
    /\ told \in 0 .. MaximumRetryAfter
    /\ [f \in DOMAIN client \ {"collected", "details"} |-> client[f]] \in Client
    /\ ToSet(client.collected) \subseteq Items
    /\ client.details \in 0 .. Len(client.collected)

\* A listing that is returned has everything that was there when it began,
\* although items came to the front between its pages: a pull request that
\* moved out of a page still to be read pushes another into it, which is
\* refused as repeated. Only a rewritten branch can hide a commit.
ListingIsComplete ==
    (client.stage \in {"details", "done"} /\ ~shrunk) =>
        listed \subseteq ToSet(client.collected)

\* No listing of commits or pull requests is longer than the limit, nothing
\* more is asked in detail, and no pull request is in a listing twice.
ListingIsBounded ==
    /\ client.stage \in {"page", "details", "done"} /\ client.operation # "repositories"
          => Len(client.collected) <= MaxItems
    /\ client.operation = "pulls" =>
          Cardinality(ToSet(client.collected)) = Len(client.collected)

\* GitHub is not asked again before the time it gave, within an operation: a
\* short delay is waited for, a longer one is reported and ends the operation.
DelaysAreRespected == CanFetch => told = 0

\* What the sync relies on: complete listings without repeats, within limits,
\* and a provider that is not pressed.
ListingsAreSound == ListingIsComplete /\ ListingIsBounded /\ DelaysAreRespected
=============================================================================
