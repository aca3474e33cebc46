---------------------------- MODULE Connections ----------------------------
(* How projects come to repositories: the GitHub connection service. A user   *)
(* starts at a project and is given a state token, comes back from GitHub     *)
(* with it, which makes a connection, connects a repository of it to the      *)
(* project, and may disconnect. Each handler is several statements, so        *)
(* requests interleave. There is one installation, which every user may use.  *)
EXTENDS Integers, Sequences, FiniteSets

CONSTANTS
    Slots,        \* requests at work at a time
    Owners,
    OwnerOf,        \* the user of a project
    Repositories,   \* provider repositories of the installation
    MaxStateTokens, \* bound on state tokens
    MaxConnections, \* bound on connections made
    Lifetime,       \* attemptLifetimeMs
    MaxInstant      \* bound on time

ASSUME ConnectionsAssumption ==
    /\ {MaxStateTokens, MaxConnections, Lifetime, MaxInstant} \subseteq Nat
    /\ \A p \in DOMAIN OwnerOf : OwnerOf[p] \in Owners

Projects == DOMAIN OwnerOf

VARIABLES
    instant,
    pending,        \* GitHubConnectionAttempt rows, in the order of their commits
    redeemed,       \* history: the users who redeemed each token
    connection,     \* id of each user's GitHubConnection; 0 when there is none
    connectionsMade,
    repository,     \* the ConnectedRepository row of each project
    caller,         \* the request of each slot
    raced           \* history: projects connected by two requests at once

connectionsVars == <<instant, pending, redeemed, connection, connectionsMade,
                     repository, caller, raced>>

NoConnection == 0

NoRepository == [connection |-> NoConnection, provider |-> "none", name |-> "none"]

NoCaller == [pc |-> "idle", user |-> "none", project |-> "none", token |-> 0,
               connection |-> NoConnection, provider |-> "none", seen |-> {},
               overlapped |-> FALSE]

ConnectionsInit ==
    /\ instant = 0
    /\ pending = <<>>
    /\ redeemed = <<>>
    /\ connection = [u \in Owners |-> NoConnection]
    /\ connectionsMade = 0
    /\ repository = [p \in Projects |-> NoRepository]
    /\ caller = [c \in Slots |-> NoCaller]
    /\ raced = {}

EndCall(c) == caller' = [caller EXCEPT ![c] = NoCaller]

GoOn(c, label) == caller' = [caller EXCEPT ![c].pc = label]

-----------------------------------------------------------------------------
(* start() *)

\* The rows the transaction's DELETE sees.
Outdated(p) == {t \in DOMAIN pending : pending[t].live /\ pending[t].project = p}

\* requireOwnedProject and the DELETE.
StartConnection(c, p) ==
    /\ caller[c].pc = "idle"
    /\ caller' = [caller EXCEPT ![c] =
          [NoCaller EXCEPT !.pc = "start", !.user = OwnerOf[p], !.project = p,
                             !.seen = Outdated(p)]]
    /\ UNCHANGED <<instant, pending, redeemed, connection, connectionsMade,
                   repository, raced>>

\* The transaction commits with the new token.
IssueToken(c) ==
    /\ caller[c].pc = "start"
    /\ Len(pending) < MaxStateTokens
    /\ pending' = Append(
          [t \in DOMAIN pending |->
             [pending[t] EXCEPT !.live = @ /\ t \notin caller[c].seen]],
          [user |-> caller[c].user, project |-> caller[c].project,
           expiresAt |-> instant + Lifetime, live |-> TRUE])
    /\ redeemed' = Append(redeemed, <<>>)
    /\ EndCall(c)
    /\ UNCHANGED <<instant, connection, connectionsMade, repository, raced>>

-----------------------------------------------------------------------------
(* complete() *)

Redeemable(u, t) == pending[t].user = u /\ instant < pending[t].expiresAt

\* consumeAttempt looks the token up.
FindToken(c, u, t) ==
    /\ caller[c].pc = "idle"
    /\ pending[t].live
    /\ Redeemable(u, t)
    /\ caller' = [caller EXCEPT ![c] =
          [NoCaller EXCEPT !.pc = "consume", !.user = u, !.token = t]]
    /\ UNCHANGED <<instant, pending, redeemed, connection, connectionsMade,
                   repository, raced>>

\* Slip: a row that is gone is no error.
DeleteMany(t) == TRUE

\* delete() throws when there is no row.
Deleted(t) == pending[t].live

\* consumeAttempt deletes it: of two requests with one token, one fails.
ConsumeToken(c) ==
    LET t == caller[c].token IN
    /\ caller[c].pc = "consume"
    /\ \/ /\ Deleted(t)
          /\ pending' = [pending EXCEPT ![t].live = FALSE]
          /\ redeemed' = [redeemed EXCEPT ![t] = Append(@, caller[c].user)]
          /\ GoOn(c, "exchange")
       \/ /\ ~Deleted(t)
          /\ EndCall(c)
          /\ UNCHANGED <<pending, redeemed>>
    /\ UNCHANGED <<instant, connection, connectionsMade, repository, raced>>

\* GitHub confirms the installation, and the user has a connection to it.
UpsertConnection(c) ==
    LET u == caller[c].user IN
    /\ caller[c].pc = "exchange"
    /\ \/ /\ connection[u] = NoConnection
          /\ connectionsMade < MaxConnections
          /\ connectionsMade' = connectionsMade + 1
          /\ connection' = [connection EXCEPT ![u] = connectionsMade']
       \/ /\ connection[u] # NoConnection
          /\ UNCHANGED <<connection, connectionsMade>>
    /\ EndCall(c)
    /\ UNCHANGED <<instant, pending, redeemed, repository, raced>>

-----------------------------------------------------------------------------
(* connectRepository() *)

Connecting(p) == {c \in Slots : /\ caller[c].pc \in {"project", "repository", "upsert"}
                                  /\ caller[c].project = p}

\* The project and the connection are the user's, and GitHub lists the
\* repository for the installation.
BeginConnecting(c, p, r) ==
    /\ caller[c].pc = "idle"
    /\ connection[OwnerOf[p]] # NoConnection
    /\ caller' = [d \in Slots |->
          IF d = c
          THEN [NoCaller EXCEPT
                  !.pc = "project", !.user = OwnerOf[p], !.project = p,
                  !.connection = connection[OwnerOf[p]], !.provider = r,
                  !.overlapped = Connecting(p) # {}]
          ELSE [caller[d] EXCEPT !.overlapped = @ \/ d \in Connecting(p)]]
    /\ UNCHANGED <<instant, pending, redeemed, connection, connectionsMade,
                   repository, raced>>

\* The project has no repository, or this one.
SameRepository(c) ==
    LET row == repository[caller[c].project] IN
    row = NoRepository \/ /\ row.connection = caller[c].connection
                          /\ row.provider = caller[c].provider

CheckProject(c) ==
    /\ caller[c].pc = "project"
    /\ IF SameRepository(c) THEN GoOn(c, "repository") ELSE EndCall(c)
    /\ UNCHANGED <<instant, pending, redeemed, connection, connectionsMade,
                   repository, raced>>

\* The repository is in another project.
Taken(c) ==
    \E p \in Projects \ {caller[c].project} :
        /\ repository[p].connection = caller[c].connection
        /\ repository[p].provider = caller[c].provider

CheckRepository(c) ==
    /\ caller[c].pc = "repository"
    /\ IF Taken(c) THEN EndCall(c) ELSE GoOn(c, "upsert")
    /\ UNCHANGED <<instant, pending, redeemed, connection, connectionsMade,
                   repository, raced>>

\* The unique index on connection and repository, and the foreign key of the
\* connection.
RepositoryInsertable(c) ==
    /\ ~Taken(c)
    /\ connection[caller[c].user] = caller[c].connection

CreateRepository(c) ==
    LET p == caller[c].project IN
    /\ caller[c].pc = "upsert"
    /\ repository[p] = NoRepository
    /\ \/ /\ RepositoryInsertable(c)
          /\ repository' = [repository EXCEPT ![p] =
                [connection |-> caller[c].connection,
                 provider |-> caller[c].provider, name |-> caller[c].provider]]
          /\ raced' = raced \ {p}
       \/ /\ ~RepositoryInsertable(c)
          /\ UNCHANGED <<repository, raced>>
    /\ EndCall(c)
    /\ UNCHANGED <<instant, pending, redeemed, connection, connectionsMade>>

\* What the update of the upsert writes: names only. They are those of another
\* repository when a request that raced this one created the row.
Renamed(c, row) == [row EXCEPT !.name = caller[c].provider]

UpdateRepository(c) ==
    LET p == caller[c].project IN
    /\ caller[c].pc = "upsert"
    /\ repository[p] # NoRepository
    /\ repository' = [repository EXCEPT ![p] = Renamed(c, @)]
    /\ raced' = IF caller[c].overlapped THEN raced \cup {p} ELSE raced
    /\ EndCall(c)
    /\ UNCHANGED <<instant, pending, redeemed, connection, connectionsMade>>

-----------------------------------------------------------------------------
(* Other ends and other actors *)

\* disconnectConnection; its repositories go with it.
DisconnectConnection(u) ==
    /\ connection[u] # NoConnection
    /\ connection' = [connection EXCEPT ![u] = NoConnection]
    /\ repository' = [p \in Projects |->
          IF repository[p].connection = connection[u] THEN NoRepository
                                                      ELSE repository[p]]
    /\ raced' = {p \in raced : repository'[p] # NoRepository}
    /\ UNCHANGED <<instant, pending, redeemed, connectionsMade, caller>>

\* A sync that succeeds writes the names GitHub has for the repository.
SyncNames(p) ==
    /\ repository[p] # NoRepository
    /\ repository' = [repository EXCEPT ![p].name = repository[p].provider]
    /\ raced' = raced \ {p}
    /\ UNCHANGED <<instant, pending, redeemed, connection, connectionsMade, caller>>

\* GitHub or the database refuses, or the process dies: an open transaction is
\* rolled back; a consumed token stays consumed.
RequestFails(c) ==
    /\ caller[c].pc # "idle"
    /\ EndCall(c)
    /\ UNCHANGED <<instant, pending, redeemed, connection, connectionsMade,
                   repository, raced>>

InstantPasses ==
    /\ instant < MaxInstant
    /\ instant' = instant + 1
    /\ UNCHANGED <<pending, redeemed, connection, connectionsMade, repository,
                   caller, raced>>

ConnectionsNext ==
    \/ \E c \in Slots :
         \/ \E p \in Projects : StartConnection(c, p)
         \/ IssueToken(c)
         \/ \E u \in Owners, t \in DOMAIN pending : FindToken(c, u, t)
         \/ ConsumeToken(c) \/ UpsertConnection(c)
         \/ \E p \in Projects, r \in Repositories : BeginConnecting(c, p, r)
         \/ CheckProject(c) \/ CheckRepository(c)
         \/ CreateRepository(c) \/ UpdateRepository(c)
         \/ RequestFails(c)
    \/ \E u \in Owners : DisconnectConnection(u)
    \/ \E p \in Projects : SyncNames(p)
    \/ InstantPasses

ConnectionsSpec == ConnectionsInit /\ [][ConnectionsNext]_connectionsVars

-----------------------------------------------------------------------------
(* Properties *)

\* Type correctness, with the foreign key of a repository's connection.
ConnectionsTypeOK ==
    /\ \A t \in DOMAIN pending : pending[t].project \in Projects
    /\ DOMAIN redeemed = DOMAIN pending
    /\ connection \in [Owners -> 0 .. connectionsMade]
    /\ \A p \in Projects : repository[p] # NoRepository =>
          /\ repository[p].connection = connection[OwnerOf[p]]
          /\ {repository[p].provider, repository[p].name} \subseteq Repositories

\* A state token makes a connection at most once, and only for the user it was
\* given to, however requests with it overlap.
StateIsConsumedOnce ==
    \A t \in DOMAIN redeemed :
        /\ Len(redeemed[t]) <= 1
        /\ \A i \in DOMAIN redeemed[t] : redeemed[t][i] = pending[t].user

\* A repository of a connection is in one project, although the check for it
\* and the write are apart.
OneProjectPerRepository ==
    \A p, q \in Projects :
        (/\ p # q
         /\ repository[p] # NoRepository
         /\ repository[p].connection = repository[q].connection) =>
            repository[p].provider # repository[q].provider

\* A project keeps its repository, with what was synchronized from it, until
\* its connection ends: no request replaces it, not even one whose check came
\* before another request's write.
RepositoryIsKept ==
    [][\A p \in Projects :
          repository[p] # NoRepository /\ repository'[p] # NoRepository =>
              /\ repository'[p].provider = repository[p].provider
              /\ repository'[p].connection = repository[p].connection]_connectionsVars

\* A repository has its own names, unless two requests connected its project
\* at once; the next synchronization corrects them.
NamesAreItsOwn ==
    \A p \in Projects \ raced : repository[p].name = repository[p].provider

\* Tokens, repositories and projects belong to each other one to one and for
\* good, whatever requests overlap, and repositories go with their connection.
ConnectionsAreExclusive ==
    /\ [](/\ ConnectionsTypeOK /\ StateIsConsumedOnce
          /\ OneProjectPerRepository /\ NamesAreItsOwn)
    /\ RepositoryIsKept
=============================================================================
