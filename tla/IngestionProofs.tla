--------------------------- MODULE IngestionProofs ---------------------------
(***************************************************************************)
(* Theorems about what a synchronization reads of GitHub and what it       *)
(* stores.  GitHubClient: for every listing without repeats, any page size *)
(* and limits, and whatever delays a provider asks.  Ingestion: for every  *)
(* set of attempts and commits, their dates, any windows, and any number   *)
(* of claims, pushes and failures.                                         *)
(***************************************************************************)
EXTENDS GitHubClient, Ingestion, FiniteSetTheorems, SequenceTheorems,
        WellFoundedInduction, TLAPS

-----------------------------------------------------------------------------
(* GitHubClient: listings and their pages                                    *)

\* A sequence without repeats has as many items as its length says.
LEMMA InjectiveLength ==
    ASSUME NEW S, NEW s \in Seq(S), IsInjective(s)
    PROVE  IsFiniteSet(ToSet(s)) /\ Cardinality(ToSet(s)) = Len(s)
<1>1. /\ Len(s) \in Nat /\ DOMAIN s = 1 .. Len(s) /\ s \in [1 .. Len(s) -> S]
  BY LenProperties
<1>2. s \in Surjection(1 .. Len(s), ToSet(s))
  BY <1>1 DEF Surjection, ToSet
<1>3. s \in Injection(1 .. Len(s), ToSet(s))
  BY <1>1 DEF Injection, IsInjective, ToSet
<1>4. IsFiniteSet(1 .. Len(s)) /\ Cardinality(1 .. Len(s)) = Len(s)
  <2>1. 1 \in Int /\ Len(s) \in Int
    BY <1>1
  <2>2. /\ IsFiniteSet(1 .. Len(s))
        /\ Cardinality(1 .. Len(s)) = IF 1 > Len(s) THEN 0 ELSE Len(s) - 1 + 1
    BY <2>1, FS_Interval
  <2> QED BY <1>1, <2>2
<1>5. /\ IsFiniteSet(ToSet(s))
      /\ Cardinality(ToSet(s)) = Cardinality(1 .. Len(s))
  BY <1>2, <1>3, <1>4, FS_Surjection
<1> QED BY <1>4, <1>5

\* What is taken from a listing without repeats is all of it, once it is as long.
LEMMA AllTaken ==
    ASSUME NEW S, NEW s \in Seq(S), NEW t \in Seq(S),
           IsInjective(s), IsInjective(t), ToSet(t) \subseteq ToSet(s)
    PROVE  /\ Len(t) <= Len(s)
           /\ Len(t) >= Len(s) => ToSet(t) = ToSet(s)
<1>1. /\ IsFiniteSet(ToSet(s)) /\ Cardinality(ToSet(s)) = Len(s)
      /\ Cardinality(ToSet(t)) = Len(t)
  BY InjectiveLength
<1>2. /\ Cardinality(ToSet(t)) <= Cardinality(ToSet(s))
      /\ Cardinality(ToSet(s)) = Cardinality(ToSet(t)) => ToSet(s) = ToSet(t)
  BY <1>1, FS_Subset
<1>3. Len(s) \in Nat /\ Len(t) \in Nat
  BY LenProperties
<1> QED BY <1>1, <1>2, <1>3

LEMMA ToSetOfConcat ==
    ASSUME NEW S, NEW s \in Seq(S), NEW t \in Seq(S)
    PROVE  ToSet(s \o t) = ToSet(s) \cup ToSet(t)
<1>1. Range(s \o t) = Range(s) \cup Range(t)
  BY RangeConcatenation
<1>2. \A u : Range(u) = ToSet(u)
  BY DEF Range, ToSet
<1> QED BY <1>1, <1>2

LEMMA ToSetOfSeq ==
    ASSUME NEW S, NEW s \in Seq(S)
    PROVE  /\ ToSet(s) \subseteq S
           /\ \A i \in 1 .. Len(s) : s[i] \in ToSet(s)
           /\ \A x \in ToSet(s) : \E i \in 1 .. Len(s) : s[i] = x
BY LenProperties, ElementOfSeq DEF ToSet

\* Two sequences without repeats that share nothing have none together.
LEMMA ConcatInjective ==
    ASSUME NEW S, NEW s \in Seq(S), NEW t \in Seq(S),
           IsInjective(s), IsInjective(t), ToSet(s) \cap ToSet(t) = {}
    PROVE  IsInjective(s \o t)
<1> DEFINE u == s \o t
<1>1. /\ u \in Seq(S) /\ Len(u) = Len(s) + Len(t)
      /\ \A i \in 1 .. Len(s) + Len(t) :
            u[i] = IF i <= Len(s) THEN s[i] ELSE t[i - Len(s)]
  BY ConcatProperties
<1>2. /\ DOMAIN u = 1 .. Len(s) + Len(t)
      /\ DOMAIN s = 1 .. Len(s) /\ DOMAIN t = 1 .. Len(t)
      /\ Len(s) \in Nat /\ Len(t) \in Nat
  BY <1>1, LenProperties
<1> HIDE DEF u
<1>3. ASSUME NEW i \in DOMAIN u, NEW j \in DOMAIN u, u[i] = u[j]
      PROVE  i = j
  <2>1. CASE i <= Len(s) /\ j <= Len(s)
    <3>1. i \in DOMAIN s /\ j \in DOMAIN s /\ s[i] = s[j]
      BY <1>1, <1>2, <1>3, <2>1
    <3> QED BY <3>1 DEF IsInjective
  <2>2. CASE i > Len(s) /\ j > Len(s)
    <3>1. /\ i - Len(s) \in DOMAIN t /\ j - Len(s) \in DOMAIN t
          /\ t[i - Len(s)] = t[j - Len(s)]
      BY <1>1, <1>2, <1>3, <2>2
    <3>2. i - Len(s) = j - Len(s)
      BY <3>1 DEF IsInjective
    <3> QED BY <1>2, <3>2
  <2>3. ASSUME NEW k \in DOMAIN u, NEW l \in DOMAIN u,
               k <= Len(s), l > Len(s)
        PROVE  u[k] # u[l]
    <3>1. /\ k \in 1 .. Len(s) /\ u[k] = s[k]
          /\ l - Len(s) \in 1 .. Len(t) /\ u[l] = t[l - Len(s)]
      BY <1>1, <1>2, <2>3
    <3>2. u[k] \in ToSet(s) /\ u[l] \in ToSet(t)
      BY <3>1, ToSetOfSeq
    <3> QED BY <3>2
  <2>4. /\ i <= Len(s) \/ i > Len(s)
        /\ j <= Len(s) \/ j > Len(s)
    BY <1>2
  <2> QED BY <1>3, <2>1, <2>2, <2>3, <2>4
<1> QED BY <1>3 DEF IsInjective, u

\* A listing without an item: the others, without repeats.
LEMMA WithoutItem ==
    ASSUME NEW S, NEW s \in Seq(S), IsInjective(s), NEW x
    PROVE  /\ Without(s, x) \in Seq(S) /\ IsInjective(Without(s, x))
           /\ ToSet(Without(s, x)) = ToSet(s) \ {x}
<1>1. CASE x \notin ToSet(s)
  BY <1>1 DEF Without
<1>2. CASE x \in ToSet(s)
  <2> DEFINE k == CHOOSE i \in DOMAIN s : s[i] = x
             a == SubSeq(s, 1, k - 1)
             b == SubSeq(s, k + 1, Len(s))
  <2>1. \E i \in DOMAIN s : s[i] = x
    BY <1>2 DEF ToSet
  <2>2. k \in DOMAIN s /\ s[k] = x
    BY <2>1, Zenon
  <2>3. /\ DOMAIN s = 1 .. Len(s) /\ Len(s) \in Nat
        /\ \A i \in 1 .. Len(s) : s[i] \in S
    BY LenProperties, ElementOfSeq
  <2> HIDE DEF k
  <2>4. k \in Int /\ 1 <= k /\ k <= Len(s)
    BY <2>2, <2>3
  <2>5. /\ a \in Seq(S) /\ Len(a) = k - 1
        /\ \A i \in 1 .. k - 1 : a[i] = s[i]
    <3>1. \A i \in 1 .. k - 1 : s[i] \in S
      BY <2>3, <2>4
    <3>2. /\ a \in Seq(S)
          /\ Len(a) = IF 1 <= k - 1 THEN k - 1 - 1 + 1 ELSE 0
          /\ \A i \in 1 .. k - 1 - 1 + 1 : a[i] = s[1 + i - 1]
      BY <2>4, <3>1, SubSeqProperties
    <3> HIDE DEF a
    <3>3. \A i \in 1 .. k - 1 : i \in 1 .. k - 1 - 1 + 1 /\ 1 + i - 1 = i
      BY <2>4
    <3>4. Len(a) = k - 1
      BY <2>4, <3>2
    <3> QED BY <3>2, <3>3, <3>4
  <2>6. /\ b \in Seq(S) /\ Len(b) = Len(s) - k
        /\ \A i \in 1 .. Len(s) - k : b[i] = s[k + i]
    <3>1. \A i \in k + 1 .. Len(s) : s[i] \in S
      BY <2>3, <2>4
    <3>2. k + 1 \in Int /\ Len(s) \in Int
      BY <2>3, <2>4
    <3>3. /\ b \in Seq(S)
          /\ Len(b) = IF k + 1 <= Len(s) THEN Len(s) - (k + 1) + 1 ELSE 0
          /\ \A i \in 1 .. Len(s) - (k + 1) + 1 : b[i] = s[k + 1 + i - 1]
      BY <3>1, <3>2, SubSeqProperties
    <3> HIDE DEF b
    <3>4. \A i \in 1 .. Len(s) - k :
             i \in 1 .. Len(s) - (k + 1) + 1 /\ k + 1 + i - 1 = k + i
      BY <2>3, <2>4
    <3>5. Len(b) = Len(s) - k
      <4>1. CASE k + 1 <= Len(s)
        <5>1. Len(b) = Len(s) - (k + 1) + 1
          BY <3>3, <4>1
        <5> QED BY <2>3, <2>4, <5>1
      <4>2. CASE k = Len(s)
        <5>1. ~(k + 1 <= Len(s))
          BY <2>4, <4>2
        <5>2. Len(b) = 0
          BY <3>3, <5>1
        <5> QED BY <2>4, <4>2, <5>2
      <4>3. Len(s) \in Int
        BY <2>3
      <4> QED BY <2>4, <4>1, <4>2, <4>3
    <3> QED BY <3>3, <3>4, <3>5
  <2>7. Without(s, x) = a \o b
    BY <1>2 DEF Without, RemoveAt, k
  <2> HIDE DEF a, b
  <2>8. DOMAIN a = 1 .. k - 1 /\ DOMAIN b = 1 .. Len(s) - k
    BY <2>5, <2>6, LenProperties
  <2>9. IsInjective(a)
    BY <2>3, <2>4, <2>5, <2>8 DEF IsInjective
  <2>10. IsInjective(b)
    <3>1. ASSUME NEW i \in 1 .. Len(s) - k, NEW j \in 1 .. Len(s) - k, b[i] = b[j]
          PROVE  i = j
      <4>1. /\ k + i \in DOMAIN s /\ k + j \in DOMAIN s
            /\ s[k + i] = s[k + j]
        BY <2>3, <2>4, <2>6, <3>1
      <4>2. k + i = k + j
        BY <4>1 DEF IsInjective
      <4> QED BY <2>3, <2>4, <4>2
    <3> QED BY <2>8, <3>1 DEF IsInjective
  <2>11. \A y \in ToSet(a) : \E i \in 1 .. k - 1 : y = s[i]
    BY <2>5, <2>8 DEF ToSet
  <2>12. \A y \in ToSet(b) : \E i \in 1 .. Len(s) - k : y = s[k + i]
    BY <2>6, <2>8 DEF ToSet
  <2>13. ToSet(a) \cap ToSet(b) = {}
    <3> SUFFICES ASSUME NEW y \in ToSet(a), y \in ToSet(b) PROVE FALSE
      OBVIOUS
    <3>1. PICK i \in 1 .. k - 1 : y = s[i]
      BY <2>11
    <3>2. PICK j \in 1 .. Len(s) - k : y = s[k + j]
      BY <2>12
    <3>3. i \in DOMAIN s /\ k + j \in DOMAIN s /\ i # k + j
      BY <2>3, <2>4, <3>1, <3>2
    <3> QED BY <3>1, <3>2, <3>3 DEF IsInjective
  <2>14. ToSet(a \o b) = ToSet(a) \cup ToSet(b)
    BY <2>5, <2>6, ToSetOfConcat
  <2>15. \A y \in ToSet(a) \cup ToSet(b) : y \in ToSet(s) /\ y # x
    <3>1. ASSUME NEW i \in DOMAIN s, i # k
          PROVE  s[i] \in ToSet(s) /\ s[i] # x
      BY <2>2, <3>1 DEF IsInjective, ToSet
    <3>2. \A i \in 1 .. k - 1 : i \in DOMAIN s /\ i # k
      BY <2>3, <2>4
    <3>3. \A i \in 1 .. Len(s) - k : k + i \in DOMAIN s /\ k + i # k
      BY <2>3, <2>4
    <3> QED BY <2>11, <2>12, <3>1, <3>2, <3>3
  <2>16. ASSUME NEW y \in ToSet(s), y # x
         PROVE  y \in ToSet(a) \cup ToSet(b)
    <3>1. PICK i \in DOMAIN s : y = s[i]
      BY <2>16 DEF ToSet
    <3>2. CASE i < k
      <4>1. i \in 1 .. k - 1
        BY <2>3, <2>4, <3>2
      <4> QED BY <2>5, <2>8, <3>1, <4>1 DEF ToSet
    <3>3. CASE i > k
      <4>1. i - k \in 1 .. Len(s) - k /\ k + (i - k) = i
        BY <2>3, <2>4, <3>3
      <4>2. b[i - k] = y
        BY <2>6, <3>1, <4>1
      <4> QED BY <2>8, <4>1, <4>2 DEF ToSet
    <3>4. i # k
      BY <2>2, <2>16, <3>1
    <3> QED BY <2>3, <2>4, <3>2, <3>3, <3>4
  <2>17. ToSet(a \o b) = ToSet(s) \ {x}
    BY <2>14, <2>15, <2>16
  <2>18. a \o b \in Seq(S) /\ IsInjective(a \o b)
    BY <2>5, <2>6, <2>9, <2>10, <2>13, ConcatProperties, ConcatInjective
  <2> QED BY <2>7, <2>17, <2>18
<1> QED BY <1>1, <1>2

\* An item moves or comes to the front.
LEMMA ItemInFront ==
    ASSUME NEW S, NEW s \in Seq(S), IsInjective(s), NEW x \in S
    PROVE  LET t == <<x>> \o Without(s, x)
           IN  /\ t \in Seq(S) /\ IsInjective(t)
               /\ ToSet(t) = ToSet(s) \cup {x}
               /\ x \notin ToSet(s) =>
                    /\ Len(t) = Len(s) + 1
                    /\ \A i \in 1 .. Len(t) : t[i] = IF i = 1 THEN x ELSE s[i - 1]
<1> DEFINE u == <<x>>
           v == Without(s, x)
           t == u \o v
<1>1. /\ v \in Seq(S) /\ IsInjective(v) /\ ToSet(v) = ToSet(s) \ {x}
  BY WithoutItem
<1>2. u \in Seq(S) /\ Len(u) = 1 /\ u[1] = x /\ DOMAIN u = {1}
  OBVIOUS
<1>3. IsInjective(u) /\ ToSet(u) = {x}
  BY <1>2 DEF IsInjective, ToSet
<1>4. x \notin ToSet(s) => v = s
  BY DEF Without
<1> HIDE DEF u, v
<1>5. /\ t \in Seq(S) /\ Len(t) = 1 + Len(v)
      /\ \A i \in 1 .. 1 + Len(v) : t[i] = IF i <= 1 THEN u[i] ELSE v[i - 1]
  <2>0. u \in Seq(S) /\ v \in Seq(S)
    BY <1>1, <1>2
  <2>1. /\ t \in Seq(S) /\ Len(t) = Len(u) + Len(v)
        /\ \A i \in 1 .. Len(u) + Len(v) :
              t[i] = IF i <= Len(u) THEN u[i] ELSE v[i - Len(u)]
    BY <2>0, ConcatProperties
  <2> QED BY <1>2, <2>1
<1>6. IsInjective(t)
  BY <1>1, <1>2, <1>3, ConcatInjective
<1>7. ToSet(t) = ToSet(s) \cup {x}
  <2>1. ToSet(t) = ToSet(u) \cup ToSet(v)
    BY <1>1, <1>2, ToSetOfConcat
  <2> QED BY <1>1, <1>3, <2>1
<1> HIDE DEF t
<1>8. ASSUME x \notin ToSet(s)
      PROVE  /\ Len(t) = Len(s) + 1
             /\ \A i \in 1 .. Len(t) : t[i] = IF i = 1 THEN x ELSE s[i - 1]
  <2>1. v = s /\ Len(s) \in Nat
    BY <1>4, <1>8, LenProperties
  <2> QED BY <1>2, <1>5, <2>1
<1> QED BY <1>5, <1>6, <1>7, <1>8 DEF t, u, v

-----------------------------------------------------------------------------
(* GitHubClient: what an operation has of the listing                        *)

\* The page that is asked for: what it holds, and what follows from its length.
LEMMA PageOfListing ==
    ASSUME listing \in Seq(Items), IsInjective(listing),
           client.page \in Nat \ {0}
    PROVE  LET from == (client.page - 1) * PageSize
           IN  /\ from \in Nat
               /\ client.page * PageSize = from + PageSize
               /\ PageItems \in Seq(Items) /\ IsInjective(PageItems)
               /\ ToSet(PageItems) \subseteq ToSet(listing)
               /\ Len(PageItems) <= PageSize
               /\ Len(PageItems) < PageSize => Len(listing) <= from + Len(PageItems)
               /\ \A i \in 1 .. Len(listing) :
                    i > from /\ i <= from + PageSize => listing[i] \in ToSet(PageItems)
<1> DEFINE p == client.page
           from == (p - 1) * PageSize
           till == IF p * PageSize < Len(listing) THEN p * PageSize ELSE Len(listing)
           items == SubSeq(listing, from + 1, till)
<1>1. PageSize \in Nat \ {0} /\ p \in Nat \ {0}
  BY ClientAssumption
<1>2. /\ from \in Nat /\ p * PageSize = from + PageSize
  <2>1. p - 1 \in Nat
    BY <1>1
  <2>2. (p - 1) * PageSize \in Nat
    BY <1>1, <2>1
  <2>3. p * PageSize = (p - 1) * PageSize + PageSize
    BY <1>1
  <2> QED BY <2>2, <2>3
<1>3. PageItems = items
  BY DEF PageItems
<1>4. /\ Len(listing) \in Nat /\ DOMAIN listing = 1 .. Len(listing)
      /\ \A i \in 1 .. Len(listing) : listing[i] \in Items
  BY LenProperties, ElementOfSeq
<1> DEFINE n == Len(listing)
<1>5. till = IF from + PageSize < n THEN from + PageSize ELSE n
  BY <1>2
<1> HIDE DEF p, from, till, n
<1>6. /\ till \in Int /\ till <= n /\ till <= from + PageSize
      /\ till < from + PageSize => till = n
      /\ n \in Nat
  <2>1. n \in Nat /\ PageSize \in Nat /\ from \in Nat
    BY <1>1, <1>2, <1>4 DEF n
  <2>2. CASE from + PageSize < n
    BY <1>5, <2>1, <2>2
  <2>3. CASE ~(from + PageSize < n)
    <3>1. till = n
      BY <1>5, <2>3
    <3> QED BY <2>1, <2>3, <3>1
  <2> QED BY <2>2, <2>3
<1>7. /\ items \in Seq(Items)
      /\ Len(items) = IF from + 1 <= till THEN till - (from + 1) + 1 ELSE 0
      /\ \A i \in 1 .. till - (from + 1) + 1 : items[i] = listing[from + 1 + i - 1]
  <2>1. \A i \in from + 1 .. till : i \in 1 .. n
    BY <1>2, <1>6
  <2>2. \A i \in from + 1 .. till : listing[i] \in Items
    BY <1>4, <2>1 DEF n
  <2>3. from + 1 \in Int
    BY <1>2
  <2> QED BY <1>6, <2>2, <2>3, SubSeqProperties
<1> HIDE DEF items
<1>8. /\ Len(items) \in Nat /\ DOMAIN items = 1 .. Len(items)
  BY <1>7, LenProperties
<1>9. CASE from + 1 <= till
  <2>1. Len(items) = till - from
    <3>1. Len(items) = till - (from + 1) + 1
      BY <1>7, <1>9
    <3> QED BY <1>2, <1>6, <3>1
  <2>2. \A i \in 1 .. Len(items) : items[i] = listing[from + i] /\ from + i \in 1 .. n
    <3>1. ASSUME NEW i \in 1 .. Len(items)
          PROVE  /\ i \in 1 .. till - (from + 1) + 1
                 /\ from + 1 + i - 1 = from + i
                 /\ from + i \in 1 .. n
      BY <1>2, <1>6, <2>1
    <3> QED BY <1>7, <3>1
  <2>3. IsInjective(items)
    <3>1. ASSUME NEW i \in 1 .. Len(items), NEW j \in 1 .. Len(items),
                 items[i] = items[j]
          PROVE  i = j
      <4>1. /\ from + i \in DOMAIN listing /\ from + j \in DOMAIN listing
            /\ listing[from + i] = listing[from + j]
        BY <1>4, <2>2, <3>1 DEF n
      <4>2. from + i = from + j
        BY <4>1 DEF IsInjective
      <4> QED BY <1>2, <1>8, <4>2
    <3> QED BY <1>8, <3>1 DEF IsInjective
  <2>4. ToSet(items) \subseteq ToSet(listing)
    BY <1>4, <1>8, <2>2 DEF ToSet, n
  <2>5. /\ Len(items) <= PageSize
        /\ Len(items) < PageSize => n <= from + Len(items)
    BY <1>1, <1>2, <1>6, <2>1
  <2>6. ASSUME NEW i \in 1 .. n, i > from, i <= from + PageSize
        PROVE  listing[i] \in ToSet(items)
    <3>1. i - from \in 1 .. Len(items) /\ from + (i - from) = i
      BY <1>1, <1>2, <1>6, <2>1, <2>6
    <3>2. items[i - from] = listing[i]
      BY <2>2, <3>1
    <3> QED BY <1>8, <3>1, <3>2 DEF ToSet
  <2> QED BY <1>2, <1>3, <1>7, <2>3, <2>4, <2>5, <2>6 DEF from, p, n
<1>10. CASE ~(from + 1 <= till)
  <2>1. Len(items) = 0
    BY <1>7, <1>10
  <2>2. DOMAIN items = {}
    BY <1>8, <2>1
  <2>3. IsInjective(items) /\ ToSet(items) \subseteq ToSet(listing)
    BY <2>2 DEF IsInjective, ToSet
  <2>4. n <= from + Len(items) /\ Len(items) <= PageSize
    BY <1>1, <1>2, <1>6, <1>10, <2>1
  <2>5. \A i \in 1 .. n : ~(i > from)
    BY <1>2, <1>6, <2>1, <2>4
  <2> QED BY <1>2, <1>3, <1>7, <2>3, <2>4, <2>5 DEF from, p, n
<1> QED BY <1>9, <1>10

-----------------------------------------------------------------------------
(* GitHubClient: the operation                                               *)

Operation ==
    [operation : Operations,
     stage : {"token", "repository", "page", "details", "done", "failed"},
     page : 1 .. MaxPages + MaxRequests, attempt : 1 .. MaximumAttempts,
     wait : 0 .. MaximumInlineDelay + MaximumBackoff, details : Nat,
     retryable : BOOLEAN, retryAfter : NoDelay .. MaximumRetryAfter,
     collected : Seq(Items)]

Ended == {"done", "failed"}

\* An operation that comes to its end, or to details, has what was listed.
Complete(c, was, less) ==
    c.stage \in {"details", "done"} /\ ~less => was \subseteq ToSet(c.collected)

\* What an operation has collected of a listing that is now l.
Collects(c, l, was, less) ==
    /\ c.operation = "pulls" => /\ IsInjective(c.collected)
                                /\ ToSet(c.collected) \subseteq ToSet(l)
    /\ c.operation = "details" => /\ c.stage \notin {"page", "repository"}
                                  /\ was \subseteq ToSet(c.collected)
    /\ c.stage # "failed" /\ c.operation # "repositories" =>
         Len(c.collected) <= MaxItems
    /\ c.stage \in {"token", "repository"} /\ c.operation # "details" =>
         c.collected = <<>> /\ c.page = 1
    /\ c.stage = "page" => Len(c.collected) = (c.page - 1) * PageSize
    /\ c.stage = "page" /\ c.operation # "pulls" /\ ~less =>
         \A i \in 1 .. Len(l) :
            i <= (c.page - 1) * PageSize /\ l[i] \in was =>
               l[i] \in ToSet(c.collected)

ClientInv ==
    /\ listing \in Seq(Items) /\ IsInjective(listing)
    /\ shrunk \in BOOLEAN
    /\ listed \subseteq Items
    /\ ~shrunk => listed \subseteq ToSet(listing)
    /\ told \in 0 .. MaximumRetryAfter
    /\ client.stage \notin Ended => told <= client.wait
    /\ client \in Operation
    /\ client.details <= Len(client.collected)
    /\ Complete(client, listed, shrunk)
    /\ Collects(client, listing, listed, shrunk)

LEMMA ConstantTypes ==
    /\ PageSize \in Nat \ {0} /\ MaxItems \in Nat \ {0}
    /\ MaxPages \in Nat \ {0} /\ MaxRequests \in Nat \ {0}
    /\ MaximumAttempts \in Nat \ {0} /\ MaximumBackoff \in Nat
    /\ MaximumInlineDelay \in Nat /\ MaximumRetryAfter \in Nat
    /\ HeaderDelays \subseteq Int /\ NoDelay = -1
<1>1. MaxItems \div PageSize \in Nat
  BY ClientAssumption
<1> QED BY <1>1, ClientAssumption DEF MaxPages, NoDelay

\* Whatever there is to be listed, an operation begins soundly.
LEMMA OperationBegins ==
    ASSUME listing \in Seq(Items), NEW operation \in Operations
    PROVE  LET c == NewOperation(operation)
           IN  /\ c \in Operation /\ c.details <= Len(c.collected)
               /\ Complete(c, ToSet(listing), FALSE)
               /\ Collects(c, listing, ToSet(listing), FALSE)
<1> DEFINE c == NewOperation(operation)
<1>1. /\ c.operation = operation /\ c.stage = FirstStage(operation)
      /\ c.page = 1 /\ c.details = 0
      /\ c.collected = IF operation = "details" THEN listing ELSE <<>>
  BY DEF NewOperation
<1>2. /\ Len(listing) \in Nat /\ <<>> \in Seq(Items) /\ Len(<<>>) = 0
  BY LenProperties, EmptySeq
<1>3. FirstStage(operation) \in {"token", "done", "failed"}
  BY Zenon DEF FirstStage
<1>4. c.collected \in Seq(Items)
  BY <1>1, <1>2
<1>5. c \in Operation
  <2>1. 1 \in 1 .. MaxPages + MaxRequests /\ 1 \in 1 .. MaximumAttempts
    BY ConstantTypes
  <2>2. 0 \in 0 .. MaximumInlineDelay + MaximumBackoff
    BY ConstantTypes
  <2>3. NoDelay \in NoDelay .. MaximumRetryAfter
    BY ConstantTypes
  <2> DEFINE x == IF operation = "details" THEN listing ELSE <<>>
             y == FirstStage(operation)
  <2>4. /\ x \in Seq(Items) /\ 0 \in Nat
        /\ y \in {"token", "repository", "page", "details", "done", "failed"}
    BY <1>2, <1>3
  <2>5. c = [operation |-> operation, stage |-> y, page |-> 1,
             attempt |-> 1, wait |-> 0, details |-> 0, retryable |-> FALSE,
             retryAfter |-> NoDelay, collected |-> x]
    BY DEF NewOperation
  <2> HIDE DEF x, y, c
  <2> QED BY <2>1, <2>2, <2>3, <2>4, <2>5 DEF Operation
<1>6. c.details <= Len(c.collected)
  BY <1>1, <1>2
<1> HIDE DEF c
<1>7. ASSUME operation = "details"
      PROVE  /\ Complete(c, ToSet(listing), FALSE)
             /\ Collects(c, listing, ToSet(listing), FALSE)
  <2>1. /\ c.collected = listing /\ c.operation = "details"
    BY <1>1, <1>7
  <2>2. c.stage # "failed" => Len(listing) <= MaxItems
    <3>1. CASE listing = <<>>
      BY <1>2, <3>1, ConstantTypes
    <3>2. CASE listing # <<>> /\ Len(listing) > MaxItems
      BY <1>1, <1>7, <3>2 DEF FirstStage
    <3> QED BY <1>2, <3>1, <3>2, ConstantTypes
  <2>3. ToSet(listing) \subseteq ToSet(c.collected)
    BY <2>1
  <2>4. Complete(c, ToSet(listing), FALSE)
    BY <2>3 DEF Complete
  <2>5. c.stage \notin {"page", "repository"}
    BY <1>1, <1>3
  <2>6. Collects(c, listing, ToSet(listing), FALSE)
    BY <2>1, <2>2, <2>3, <2>5 DEF Collects
  <2> QED BY <2>4, <2>6
<1>8. ASSUME operation # "details"
      PROVE  /\ Complete(c, ToSet(listing), FALSE)
             /\ Collects(c, listing, ToSet(listing), FALSE)
  <2>1. c.collected = <<>> /\ c.operation # "details"
    BY <1>1, <1>8
  <2>2. c.stage = "token"
    BY <1>1, <1>8 DEF FirstStage
  <2>3. IsInjective(<<>>) /\ ToSet(<<>>) = {}
    BY DEF IsInjective, ToSet
  <2>4. Len(c.collected) <= MaxItems
    BY <1>2, <2>1, ConstantTypes
  <2>5. Complete(c, ToSet(listing), FALSE)
    BY <2>2 DEF Complete
  <2>6. Collects(c, listing, ToSet(listing), FALSE)
    BY <1>1, <2>1, <2>2, <2>3, <2>4 DEF Collects
  <2> QED BY <2>5, <2>6
<1>9. /\ Complete(c, ToSet(listing), FALSE)
      /\ Collects(c, listing, ToSet(listing), FALSE)
  BY <1>7, <1>8
<1> QED BY <1>5, <1>6, <1>9 DEF c

LEMMA ClientStarts == ClientInit => ClientInv
<1> SUFFICES ASSUME ClientInit PROVE ClientInv
  OBVIOUS
<1>1. /\ listing = FirstItems /\ shrunk = FALSE /\ told = 0
      /\ listed = ToSet(listing)
  BY DEF ClientInit
<1>2. listing \in Seq(Items) /\ IsInjective(listing)
  BY <1>1, ClientAssumption
<1>3. PICK operation \in Operations : client = NewOperation(operation)
  BY DEF ClientInit
<1>4. /\ client \in Operation /\ client.details <= Len(client.collected)
      /\ Complete(client, ToSet(listing), FALSE)
      /\ Collects(client, listing, ToSet(listing), FALSE)
  BY <1>2, <1>3, OperationBegins
<1>5. listed \subseteq Items
  BY <1>1, <1>2, ToSetOfSeq
<1>6. client.wait \in Nat
  BY <1>4, ConstantTypes DEF Operation
<1>7. told \in 0 .. MaximumRetryAfter /\ told <= client.wait
  BY <1>1, <1>6, ConstantTypes
<1> QED BY <1>1, <1>2, <1>4, <1>5, <1>7 DEF ClientInv

\* A step that leaves what was listed and what is collected.
LEMMA FailedStep ==
    ASSUME ClientInv, NEW r \in BOOLEAN, NEW a \in NoDelay .. MaximumRetryAfter,
           Fail(r, a), told' \in 0 .. MaximumRetryAfter,
           UNCHANGED <<listing, shrunk, listed>>
    PROVE  ClientInv'
<1>1. client \in Operation
  BY DEF ClientInv
<1>2. /\ client' \in Operation /\ client'.stage = "failed"
      /\ client'.operation = client.operation
      /\ client'.collected = client.collected
      /\ client'.details = client.details
  BY <1>1 DEF Fail, Operation
<1>3. Complete(client', listed', shrunk')
  BY <1>2 DEF Complete
<1>4. Collects(client, listing, listed, shrunk)
  BY DEF ClientInv
<1>5. Collects(client', listing', listed', shrunk')
  BY <1>2, <1>4 DEF Collects
<1> QED BY <1>2, <1>3, <1>5 DEF ClientInv, Ended

\* Whatever a header says, it comes to no delay or one within a day.
LEMMA RetryAfterType ==
    ASSUME NEW header \in HeaderDelays \cup {NoDelay}
    PROVE  /\ RetryAfter(header) \in NoDelay .. MaximumRetryAfter
           /\ RetryAfter(header) # NoDelay => RetryAfter(header) \in Nat
<1>1. header \in Int /\ NoDelay = -1 /\ MaximumRetryAfter \in Nat
  BY ConstantTypes
<1> QED BY <1>1 DEF RetryAfter

LEMMA UnavailableStep == ClientInv /\ AnswerUnavailable => ClientInv'
<1> SUFFICES ASSUME ClientInv, AnswerUnavailable PROVE ClientInv'
  OBVIOUS
<1>1. PICK header \in HeaderDelays \cup {NoDelay} :
         /\ RetryOrThrow(RetryAfter(header))
         /\ told' = IF RetryAfter(header) = NoDelay THEN 0 ELSE RetryAfter(header)
  BY DEF AnswerUnavailable
<1> DEFINE d == RetryAfter(header)
<1>2. d \in NoDelay .. MaximumRetryAfter /\ (d # NoDelay => d \in Nat)
  BY RetryAfterType
<1>3. UNCHANGED <<listing, shrunk, listed>> /\ CanFetch
  BY DEF AnswerUnavailable
<1>4. RetryOrThrow(d) /\ told' = IF d = NoDelay THEN 0 ELSE d
  BY <1>1
<1> HIDE DEF d
<1>5. told' \in 0 .. MaximumRetryAfter
  BY <1>2, <1>4, ConstantTypes
<1>6. CASE Fail(TRUE, d)
  BY <1>2, <1>3, <1>5, <1>6, FailedStep
<1>7. ASSUME d <= MaximumInlineDelay, ~Exhausted, NEW wait \in Waits(d),
             client' = [client EXCEPT !.attempt = @ + 1, !.wait = wait]
      PROVE  ClientInv'
  <2>1. client \in Operation
    BY DEF ClientInv
  <2>2. client.attempt + 1 \in 1 .. MaximumAttempts
    <3>1. ~(client.attempt >= MaximumAttempts)
      BY <1>7 DEF Exhausted
    <3>2. client.attempt \in 1 .. MaximumAttempts
      BY <2>1 DEF Operation
    <3> QED BY <3>1, <3>2, ConstantTypes
  <2>3. /\ wait \in 0 .. MaximumInlineDelay + MaximumBackoff
        /\ told' <= wait
    <3>1. CASE d = NoDelay
      <4>1. wait \in 0 .. MaximumBackoff /\ told' = 0
        BY <1>4, <1>7, <3>1 DEF Waits
      <4> QED BY <4>1, ConstantTypes
    <3>2. CASE d # NoDelay
      <4>1. wait = d /\ told' = d /\ d \in Nat
        BY <1>2, <1>4, <1>7, <3>2 DEF Waits
      <4> QED BY <1>7, <4>1, ConstantTypes
    <3> QED BY <3>1, <3>2
  <2>4. /\ client' \in Operation /\ client'.wait = wait
        /\ client'.stage = client.stage /\ client'.page = client.page
        /\ client'.operation = client.operation
        /\ client'.collected = client.collected
        /\ client'.details = client.details
    BY <1>7, <2>1, <2>2, <2>3 DEF Operation
  <2>5. /\ Complete(client, listed, shrunk)
        /\ Collects(client, listing, listed, shrunk)
    BY DEF ClientInv
  <2>6. /\ Complete(client', listed', shrunk')
        /\ Collects(client', listing', listed', shrunk')
    BY <1>3, <2>4, <2>5 DEF Complete, Collects
  <2> QED BY <1>3, <1>5, <2>3, <2>4, <2>6 DEF ClientInv
<1> QED BY <1>4, <1>6, <1>7 DEF RetryOrThrow

LEMMA RefusedStep == ClientInv /\ (AnswerRefused \/ AnswerUnfit) => ClientInv'
<1> SUFFICES ASSUME ClientInv, AnswerRefused \/ AnswerUnfit PROVE ClientInv'
  OBVIOUS
<1>1. /\ Fail(FALSE, NoDelay) /\ told' = 0
      /\ UNCHANGED <<listing, shrunk, listed>>
  BY DEF AnswerRefused, AnswerUnfit
<1>2. NoDelay \in NoDelay .. MaximumRetryAfter /\ 0 \in 0 .. MaximumRetryAfter
  BY ConstantTypes
<1>3. FALSE \in BOOLEAN
  OBVIOUS
<1> QED BY <1>1, <1>2, <1>3, FailedStep

\* An answer that leaves the operation sound.
LEMMA ProceedStep ==
    ASSUME ClientInv, NEW b \in Operation, Proceed(b),
           b.details <= Len(b.collected),
           Complete(b, listed, shrunk), Collects(b, listing, listed, shrunk)
    PROVE  ClientInv'
<1>1. 1 \in 1 .. MaximumAttempts
  BY ConstantTypes
<1>2. client' = [b EXCEPT !.attempt = 1]
  BY DEF Proceed
<1>3. /\ client' \in Operation
      /\ client'.stage = b.stage /\ client'.page = b.page
      /\ client'.operation = b.operation
      /\ client'.collected = b.collected
      /\ client'.details = b.details /\ client'.wait = b.wait
  BY <1>1, <1>2 DEF Operation
<1>4. UNCHANGED <<listing, shrunk, listed>> /\ told' = 0
  BY DEF Proceed
<1>5. Complete(client', listed', shrunk')
  BY <1>3, <1>4 DEF Complete
<1>6. Collects(client', listing', listed', shrunk')
  BY <1>3, <1>4 DEF Collects
<1>7. told' \in 0 .. MaximumRetryAfter /\ told' <= client'.wait
  <2>1. b.wait \in 0 .. MaximumInlineDelay + MaximumBackoff
    BY DEF Operation
  <2> QED BY <1>3, <1>4, <2>1, ConstantTypes
<1> QED BY <1>3, <1>4, <1>5, <1>6, <1>7 DEF ClientInv

LEMMA TokenStep == ClientInv /\ (AnswerToken \/ AnswerRepository) => ClientInv'
<1> SUFFICES ASSUME ClientInv, AnswerToken \/ AnswerRepository PROVE ClientInv'
  OBVIOUS
<1>1. /\ client \in Operation /\ client.details <= Len(client.collected)
      /\ Collects(client, listing, listed, shrunk)
  BY DEF ClientInv
<1>2. ASSUME NEW stage \in {"repository", "page", "details"},
             client.stage \in {"token", "repository"},
             stage = "details" <=> client.operation = "details",
             Proceed([client EXCEPT !.stage = stage])
      PROVE  ClientInv'
  <2> DEFINE b == [client EXCEPT !.stage = stage]
  <2>1. /\ b \in Operation /\ b.stage = stage /\ b.page = client.page
        /\ b.operation = client.operation /\ b.collected = client.collected
        /\ b.details = client.details
    BY <1>1, <1>2 DEF Operation
  <2> HIDE DEF b
  <2>2. Complete(b, listed, shrunk)
    BY <1>1, <1>2, <2>1 DEF Complete, Collects
  <2>3. ASSUME stage = "page"
        PROVE  /\ Len(b.collected) = (b.page - 1) * PageSize
               /\ \A i \in 1 .. Len(listing) : ~(i <= (b.page - 1) * PageSize)
    <3>1. b.collected = <<>> /\ b.page = 1
      BY <1>1, <1>2, <2>1, <2>3 DEF Collects
    <3>2. (1 - 1) * PageSize = 0 /\ Len(<<>>) = 0
      BY ConstantTypes, EmptySeq
    <3>3. Len(listing) \in Nat
      BY LenProperties DEF ClientInv
    <3> QED BY <3>1, <3>2, <3>3
  <2>4. Collects(b, listing, listed, shrunk)
    <3>1. client.stage # "failed"
      BY <1>2
    <3> QED BY <1>1, <1>2, <2>1, <2>3, <3>1 DEF Collects
  <2> QED BY <1>1, <1>2, <2>1, <2>2, <2>4, ProceedStep DEF b
<1>3. CASE AnswerToken
  <2>1. /\ AfterToken \in {"repository", "page", "details"}
        /\ AfterToken = "details" <=> client.operation = "details"
    BY DEF AfterToken
  <2> QED BY <1>2, <1>3, <2>1 DEF AnswerToken
<1>4. CASE AnswerRepository
  <2>1. client.stage = "repository"
    BY <1>4 DEF AnswerRepository
  <2>2. client.operation # "details"
    BY <1>1, <2>1 DEF Collects
  <2>3. Proceed([client EXCEPT !.stage = "page"])
    BY <1>4 DEF AnswerRepository
  <2> QED BY <1>2, <2>1, <2>2, <2>3
<1> QED BY <1>3, <1>4

LEMMA DetailsStep == ClientInv /\ AnswerDetails => ClientInv'
<1> SUFFICES ASSUME ClientInv, AnswerDetails PROVE ClientInv'
  OBVIOUS
<1>1. /\ client \in Operation /\ client.details <= Len(client.collected)
      /\ Complete(client, listed, shrunk)
      /\ Collects(client, listing, listed, shrunk)
      /\ client.stage = "details"
  BY DEF ClientInv, AnswerDetails
<1>2. ASSUME NEW b \in Operation, Proceed(b),
             b.stage \in {"details", "done"}, b.operation = client.operation,
             b.collected = client.collected, b.details <= Len(client.collected)
      PROVE  ClientInv'
  <2>1. Complete(b, listed, shrunk)
    BY <1>1, <1>2 DEF Complete
  <2>2. Collects(b, listing, listed, shrunk)
    BY <1>1, <1>2 DEF Collects
  <2> QED BY <1>2, <2>1, <2>2, ProceedStep
<1>3. /\ client.page \in 1 .. MaxPages + MaxRequests /\ client.details \in Nat
      /\ Len(client.collected) \in Nat
  BY <1>1, LenProperties DEF Operation
<1>4. CASE /\ client.page < MaxRequests
           /\ Proceed([client EXCEPT !.page = @ + 1])
  <2>1. client.page + 1 \in 1 .. MaxPages + MaxRequests
    BY <1>3, <1>4, ConstantTypes
  <2> DEFINE b == [client EXCEPT !.page = @ + 1]
  <2>2. /\ b \in Operation /\ b.stage = client.stage
        /\ b.operation = client.operation /\ b.collected = client.collected
        /\ b.details = client.details
    BY <1>1, <2>1 DEF Operation
  <2>3. Proceed(b)
    BY <1>4
  <2> HIDE DEF b
  <2> QED BY <1>1, <1>2, <2>2, <2>3
<1>5. CASE /\ client.details + 1 < Len(client.collected)
           /\ Proceed([client EXCEPT !.details = @ + 1, !.page = 1])
  <2>1. 1 \in 1 .. MaxPages + MaxRequests /\ client.details + 1 \in Nat
    BY <1>3, ConstantTypes
  <2> DEFINE b == [client EXCEPT !.details = @ + 1, !.page = 1]
  <2>2. /\ b \in Operation /\ b.stage = client.stage
        /\ b.operation = client.operation /\ b.collected = client.collected
        /\ b.details = client.details + 1
    BY <1>1, <2>1 DEF Operation
  <2>3. Proceed(b) /\ client.details + 1 <= Len(client.collected)
    BY <1>3, <1>5
  <2> HIDE DEF b
  <2> QED BY <1>1, <1>2, <2>2, <2>3
<1>6. CASE /\ client.details + 1 = Len(client.collected)
           /\ Proceed([client EXCEPT !.details = @ + 1, !.stage = "done"])
  <2>1. client.details + 1 \in Nat
    BY <1>3
  <2> DEFINE b == [client EXCEPT !.details = @ + 1, !.stage = "done"]
  <2>2. /\ b \in Operation /\ b.stage = "done"
        /\ b.operation = client.operation /\ b.collected = client.collected
        /\ b.details = client.details + 1
    BY <1>1, <2>1 DEF Operation
  <2>3. Proceed(b) /\ client.details + 1 <= Len(client.collected)
    BY <1>3, <1>6
  <2> HIDE DEF b
  <2> QED BY <1>1, <1>2, <2>2, <2>3
<1> QED BY <1>4, <1>5, <1>6 DEF AnswerDetails

LEMMA DelayStep == ClientInv /\ DelayPasses => ClientInv'
<1> SUFFICES ASSUME ClientInv, DelayPasses PROVE ClientInv'
  OBVIOUS
<1>1. /\ client \in Operation /\ client.details <= Len(client.collected)
      /\ Complete(client, listed, shrunk)
      /\ Collects(client, listing, listed, shrunk)
      /\ told \in 0 .. MaximumRetryAfter
      /\ client.stage \notin Ended => told <= client.wait
  BY DEF ClientInv
<1>2. /\ client.wait > 0 /\ client' = [client EXCEPT !.wait = @ - 1]
      /\ told' = IF told > 0 THEN told - 1 ELSE 0
      /\ UNCHANGED <<listing, shrunk, listed>>
  BY DEF DelayPasses
<1>3. client.wait - 1 \in 0 .. MaximumInlineDelay + MaximumBackoff
  BY <1>1, <1>2, ConstantTypes, SMTT(30) DEF Operation
<1>4. /\ client' \in Operation /\ client'.wait = client.wait - 1
      /\ client'.stage = client.stage /\ client'.page = client.page
      /\ client'.operation = client.operation
      /\ client'.collected = client.collected
      /\ client'.details = client.details
  BY <1>1, <1>2, <1>3 DEF Operation
<1>5. told' \in 0 .. MaximumRetryAfter
  BY <1>1, <1>2, ConstantTypes
<1>6. told <= client.wait => told' <= client'.wait
  <2>1. client.wait \in 0 .. MaximumInlineDelay + MaximumBackoff
    BY <1>1 DEF Operation
  <2> QED BY <1>1, <1>2, <1>4, <2>1, ConstantTypes
<1>7. Complete(client', listed', shrunk')
  BY <1>1, <1>2, <1>4 DEF Complete
<1>8. Collects(client', listing', listed', shrunk')
  BY <1>1, <1>2, <1>4 DEF Collects
<1> QED BY <1>1, <1>2, <1>4, <1>5, <1>6, <1>7, <1>8 DEF ClientInv

LEMMA NextOperationStep == ClientInv /\ NextOperation => ClientInv'
<1> SUFFICES ASSUME ClientInv, NextOperation PROVE ClientInv'
  OBVIOUS
<1>1. listing \in Seq(Items) /\ IsInjective(listing)
  BY DEF ClientInv
<1>2. PICK operation \in Operations : client' = NewOperation(operation)
  BY DEF NextOperation
<1>3. /\ listing' = listing /\ listed' = ToSet(listing) /\ shrunk' = FALSE
      /\ told' = 0
  BY DEF NextOperation
<1>4. /\ client' \in Operation /\ client'.details <= Len(client'.collected)
      /\ Complete(client', ToSet(listing), FALSE)
      /\ Collects(client', listing, ToSet(listing), FALSE)
  BY <1>1, <1>2, OperationBegins
<1>5. listed' \subseteq Items
  BY <1>1, <1>3, ToSetOfSeq
<1>6. client'.wait \in Nat
  BY <1>4, ConstantTypes DEF Operation
<1>7. told' \in 0 .. MaximumRetryAfter /\ told' <= client'.wait
  BY <1>3, <1>6, ConstantTypes
<1> QED BY <1>1, <1>3, <1>4, <1>5, <1>7 DEF ClientInv

\* A page adds what it holds to the listing.
LEMMA PageStep == ClientInv /\ AnswerPage => ClientInv'
<1> SUFFICES ASSUME ClientInv, AnswerPage PROVE ClientInv'
  OBVIOUS
<1> DEFINE all == client.collected \o PageItems
           from == (client.page - 1) * PageSize
<1>1. /\ client \in Operation /\ client.details <= Len(client.collected)
      /\ Collects(client, listing, listed, shrunk)
      /\ client.stage = "page" /\ ~TooMany
      /\ client.operation = "pulls" => ~Repeated
      /\ listing \in Seq(Items) /\ IsInjective(listing)
      /\ ~shrunk => listed \subseteq ToSet(listing)
  BY DEF ClientInv, AnswerPage
<1>2. /\ client.page \in 1 .. MaxPages + MaxRequests
      /\ client.collected \in Seq(Items) /\ client.details \in Nat
      /\ client.operation \in Operations
  BY <1>1 DEF Operation
<1>3. client.page \in Nat \ {0}
  BY <1>2, ConstantTypes
<1>4. /\ from \in Nat /\ client.page * PageSize = from + PageSize
      /\ PageItems \in Seq(Items) /\ IsInjective(PageItems)
      /\ ToSet(PageItems) \subseteq ToSet(listing)
      /\ Len(PageItems) <= PageSize
      /\ Len(PageItems) < PageSize => Len(listing) <= from + Len(PageItems)
      /\ \A i \in 1 .. Len(listing) :
            i > from /\ i <= from + PageSize => listing[i] \in ToSet(PageItems)
  BY <1>1, <1>3, PageOfListing
<1>5. /\ all \in Seq(Items) /\ Len(all) = Len(client.collected) + Len(PageItems)
      /\ ToSet(all) = ToSet(client.collected) \cup ToSet(PageItems)
  BY <1>2, <1>4, ConcatProperties, ToSetOfConcat
<1>6. /\ Len(client.collected) \in Nat /\ Len(PageItems) \in Nat
      /\ Len(listing) \in Nat /\ Len(all) \in Nat
  BY <1>1, <1>2, <1>4, <1>5, LenProperties
<1>7. Len(client.collected) = from /\ client.operation # "details"
  BY <1>1 DEF Collects
<1>8. ASSUME client.operation = "pulls"
      PROVE  /\ IsInjective(all) /\ ToSet(all) \subseteq ToSet(listing)
             /\ Len(all) <= Len(listing) /\ Len(listing) <= MaxItems
             /\ Len(all) >= Len(listing) => ToSet(all) = ToSet(listing)
  <2>1. IsInjective(client.collected) /\ ToSet(client.collected) \subseteq ToSet(listing)
    BY <1>1, <1>8 DEF Collects
  <2>2. ToSet(client.collected) \cap ToSet(PageItems) = {}
    BY <1>1, <1>8 DEF Repeated, ToSet
  <2>3. IsInjective(all)
    BY <1>2, <1>4, <2>1, <2>2, ConcatInjective
  <2>4. ToSet(all) \subseteq ToSet(listing)
    BY <1>4, <1>5, <2>1
  <2>5. /\ Len(all) <= Len(listing)
        /\ Len(all) >= Len(listing) => ToSet(all) = ToSet(listing)
    BY <1>1, <1>5, <2>3, <2>4, AllTaken
  <2>6. Len(listing) <= MaxItems
    BY <1>1, <1>6, <1>8, ConstantTypes DEF TooMany
  <2> QED BY <2>3, <2>4, <2>5, <2>6
<1>9. ASSUME client.operation # "repositories"
      PROVE  Len(all) <= MaxItems
  <2>1. CASE client.operation = "commits"
    BY <1>1, <1>5, <1>6, <2>1, ConstantTypes DEF TooMany
  <2>2. CASE client.operation = "pulls"
    BY <1>6, <1>8, <2>2, ConstantTypes
  <2> QED BY <1>2, <1>7, <1>9, <2>1, <2>2 DEF Operations
<1>10. ASSUME client.operation # "pulls", ~shrunk,
              NEW i \in 1 .. Len(listing), i <= from + PageSize,
              listing[i] \in listed
       PROVE  listing[i] \in ToSet(all)
  <2>1. CASE i <= from
    <3>1. listing[i] \in ToSet(client.collected)
      BY <1>1, <1>10, <2>1 DEF Collects
    <3> QED BY <1>5, <3>1
  <2>2. CASE i > from
    BY <1>4, <1>5, <1>10, <2>2
  <2>3. i <= from \/ i > from
    BY <1>4, <1>6
  <2> QED BY <2>1, <2>2, <2>3
<1> HIDE DEF all, from
\* The last page says that there is no more.
<1>11. ASSUME LastPage
       PROVE  Len(listing) <= from + Len(PageItems)
  <2>1. CASE Len(PageItems) < PageSize
    BY <1>4, <2>1
  <2>2. CASE Len(client.collected) + Len(PageItems) >= Len(listing)
    BY <1>6, <1>7, <2>2
  <2> QED BY <1>11, <2>1, <2>2 DEF LastPage
<1>12. ASSUME LastPage, ~shrunk
       PROVE  listed \subseteq ToSet(all)
  <2>1. CASE client.operation = "pulls"
    <3>1. Len(all) >= Len(listing)
      BY <1>5, <1>6, <1>7, <1>11, <1>12
    <3> QED BY <1>1, <1>8, <1>12, <2>1, <3>1
  <2>2. CASE client.operation # "pulls"
    <3> SUFFICES ASSUME NEW x \in listed PROVE x \in ToSet(all)
      OBVIOUS
    <3>1. PICK i \in 1 .. Len(listing) : listing[i] = x
      BY <1>1, <1>12, ToSetOfSeq
    <3>2. i <= from + PageSize
      BY <1>4, <1>6, <1>11, <1>12, ConstantTypes
    <3> QED BY <1>10, <1>12, <2>2, <3>1, <3>2
  <2> QED BY <2>1, <2>2
<1>13. client.details <= Len(all)
  BY <1>1, <1>2, <1>5, <1>6
<1>14. ASSUME NEW b \in Operation, Proceed(b), LastPage,
              b.operation = client.operation, b.collected = all,
              b.details = client.details, b.stage \in {"details", "done"}
       PROVE  ClientInv'
  <2>1. Complete(b, listed, shrunk)
    BY <1>12, <1>14 DEF Complete
  <2>2. Collects(b, listing, listed, shrunk)
    BY <1>7, <1>8, <1>9, <1>14 DEF Collects
  <2> QED BY <1>13, <1>14, <2>1, <2>2, ProceedStep
<1>15. 1 \in 1 .. MaxPages + MaxRequests
  BY ConstantTypes
<1>16. CASE LastPage /\ Proceed([client EXCEPT !.stage = "done", !.collected = all])
  <2> DEFINE b == [client EXCEPT !.stage = "done", !.collected = all]
  <2>1. /\ b \in Operation /\ b.operation = client.operation /\ b.collected = all
        /\ b.details = client.details /\ b.stage = "done"
    BY <1>1, <1>5 DEF Operation
  <2>2. Proceed(b)
    BY <1>16
  <2> HIDE DEF b
  <2> QED BY <1>14, <1>16, <2>1, <2>2
<1>17. CASE /\ LastPage
            /\ Proceed([client EXCEPT !.stage = "details", !.page = 1,
                                      !.collected = all])
  <2> DEFINE b == [client EXCEPT !.stage = "details", !.page = 1, !.collected = all]
  <2>1. /\ b \in Operation /\ b.operation = client.operation /\ b.collected = all
        /\ b.details = client.details /\ b.stage = "details"
    BY <1>1, <1>5, <1>15 DEF Operation
  <2>2. Proceed(b)
    BY <1>17
  <2> HIDE DEF b
  <2> QED BY <1>14, <1>17, <2>1, <2>2
<1>18. CASE /\ ~LastPage /\ client.page < MaxPages
            /\ Proceed([client EXCEPT !.page = @ + 1, !.collected = all])
  <2> DEFINE b == [client EXCEPT !.page = @ + 1, !.collected = all]
  <2>1. client.page + 1 \in 1 .. MaxPages + MaxRequests
    BY <1>2, <1>18, ConstantTypes
  <2>2. /\ b \in Operation /\ b.operation = client.operation /\ b.collected = all
        /\ b.details = client.details /\ b.stage = "page"
        /\ b.page = client.page + 1
    BY <1>1, <1>5, <2>1 DEF Operation
  <2>3. Proceed(b)
    BY <1>18
  <2> HIDE DEF b
  <2>4. (b.page - 1) * PageSize = from + PageSize
    <3>1. b.page - 1 = client.page
      BY <1>3, <2>2
    <3>2. client.page * PageSize = from + PageSize
      BY <1>4
    <3> QED BY <3>1, <3>2
  <2>5. Len(all) = from + PageSize
    <3>1. ~(Len(PageItems) < PageSize)
      BY <1>18 DEF LastPage
    <3> QED BY <1>4, <1>5, <1>6, <1>7, <3>1, ConstantTypes
  <2>6. Complete(b, listed, shrunk)
    BY <2>2 DEF Complete
  <2>7. Collects(b, listing, listed, shrunk)
    BY <1>7, <1>8, <1>9, <1>10, <2>2, <2>4, <2>5 DEF Collects
  <2> QED BY <1>13, <2>2, <2>3, <2>6, <2>7, ProceedStep
<1> QED BY <1>16, <1>17, <1>18 DEF AnswerPage, all

\* GitHub's listing changes between the pages.
LEMMA ListingStep ==
    ASSUME ClientInv, NEW item \in Items, ItemComesFirst(item) \/ ItemLeaves(item)
    PROVE  ClientInv'
<1>1. /\ client' = client /\ listed' = listed /\ told' = told
  BY DEF ItemComesFirst, ItemLeaves
<1>2. /\ listing \in Seq(Items) /\ IsInjective(listing) /\ listed \subseteq Items
      /\ client \in Operation /\ client.details <= Len(client.collected)
      /\ Complete(client, listed, shrunk)
      /\ Collects(client, listing, listed, shrunk)
      /\ ~shrunk => listed \subseteq ToSet(listing)
      /\ told \in 0 .. MaximumRetryAfter
      /\ client.stage \notin Ended => told <= client.wait
  BY DEF ClientInv
<1>3. CASE ItemLeaves(item)
  <2>1. /\ shrunk' = TRUE /\ client.operation # "pulls"
        /\ listing' = Without(listing, item)
    BY <1>3 DEF ItemLeaves
  <2>2. listing' \in Seq(Items) /\ IsInjective(listing')
    BY <1>2, <2>1, WithoutItem
  <2>3. Complete(client', listed', shrunk')
    BY <2>1 DEF Complete
  <2>4. Collects(client', listing', listed', shrunk')
    BY <1>1, <1>2, <2>1 DEF Collects
  <2> QED BY <1>1, <1>2, <2>1, <2>2, <2>3, <2>4 DEF ClientInv
<1>4. CASE ItemComesFirst(item)
  <2>1. /\ shrunk' = shrunk /\ listing' = <<item>> \o Without(listing, item)
        /\ client.operation # "pulls" => item \notin ToSet(listing)
    BY <1>4 DEF ItemComesFirst
  <2>2. /\ listing' \in Seq(Items) /\ IsInjective(listing')
        /\ ToSet(listing') = ToSet(listing) \cup {item}
        /\ item \notin ToSet(listing) =>
             /\ Len(listing') = Len(listing) + 1
             /\ \A i \in 1 .. Len(listing') :
                   listing'[i] = IF i = 1 THEN item ELSE listing[i - 1]
    BY <1>2, <2>1, ItemInFront
  <2>3. Complete(client', listed', shrunk')
    BY <1>1, <1>2, <2>1
  <2>4. ASSUME client.stage = "page", client.operation # "pulls", ~shrunk,
               NEW i \in 1 .. Len(listing'),
               i <= (client.page - 1) * PageSize, listing'[i] \in listed
        PROVE  listing'[i] \in ToSet(client.collected)
    <3>1. item \notin ToSet(listing) /\ item \notin listed
      BY <1>2, <2>1, <2>4
    <3>2. i # 1 /\ listing'[i] = listing[i - 1]
      BY <2>2, <2>4, <3>1
    <3>3. Len(listing) \in Nat
      BY <1>2, LenProperties
    <3>4. (client.page - 1) * PageSize \in Int
      <4>1. client.page \in 1 .. MaxPages + MaxRequests
        BY <1>2 DEF Operation
      <4> QED BY <4>1, ConstantTypes
    <3>5. i - 1 \in 1 .. Len(listing) /\ i - 1 <= (client.page - 1) * PageSize
      BY <2>2, <2>4, <3>1, <3>2, <3>3, <3>4
    <3> QED BY <1>2, <2>4, <3>2, <3>5 DEF Collects
  <2>5. Collects(client', listing', listed', shrunk')
    BY <1>1, <1>2, <2>1, <2>2, <2>4 DEF Collects
  <2> QED BY <1>1, <1>2, <2>1, <2>2, <2>3, <2>5 DEF ClientInv
<1> QED BY <1>3, <1>4

LEMMA ClientInvHolds == ClientSpec => []ClientInv
<1>1. ClientInv /\ [ClientNext]_clientVars => ClientInv'
  <2> SUFFICES ASSUME ClientInv, [ClientNext]_clientVars PROVE ClientInv'
    OBVIOUS
  <2>1. CASE UNCHANGED clientVars
    BY <2>1 DEF clientVars, ClientInv, Complete, Collects
  <2>2. CASE \E item \in Items : ItemComesFirst(item) \/ ItemLeaves(item)
    BY <2>2, ListingStep
  <2> QED BY <2>1, <2>2, UnavailableStep, RefusedStep, TokenStep, PageStep,
             DetailsStep, DelayStep, NextOperationStep DEF ClientNext
<1> QED BY <1>1, ClientStarts, PTL DEF ClientSpec

\* What an operation holds has its type: attempts, pages and delays stay within
\* their bounds.
THEOREM ClientTypeCorrect == ClientSpec => []ClientTypeOK
<1>1. ClientInv => ClientTypeOK
  <2> SUFFICES ASSUME ClientInv PROVE ClientTypeOK
    OBVIOUS
  <2>1. client \in Operation
    BY DEF ClientInv
  <2> DEFINE rest == [f \in DOMAIN client \ {"collected", "details"} |-> client[f]]
  <2>2. rest = [operation |-> client.operation, stage |-> client.stage,
                page |-> client.page, attempt |-> client.attempt,
                wait |-> client.wait, retryable |-> client.retryable,
                retryAfter |-> client.retryAfter]
    BY <2>1 DEF Operation
  <2>3. rest \in Client
    BY <2>1, <2>2 DEF Operation, Client
  <2>4. /\ client.collected \in Seq(Items) /\ client.details \in Nat
        /\ client.details <= Len(client.collected)
        /\ Len(client.collected) \in Nat
    BY <2>1, LenProperties DEF Operation, ClientInv
  <2>5. ToSet(client.collected) \subseteq Items
    BY <2>4, ToSetOfSeq
  <2>6. client.details \in 0 .. Len(client.collected)
    BY <2>4
  <2> HIDE DEF rest
  <2> QED BY <2>3, <2>5, <2>6 DEF ClientInv, ClientTypeOK, rest
<1> QED BY <1>1, ClientInvHolds, PTL

\* A listing that is returned is complete, unless the branch was rewritten
\* meanwhile, within the limits and without repeats, although items come and
\* move between its pages; and GitHub is not asked before the time it gave.
THEOREM ListingsStaySound == ClientSpec => []ListingsAreSound
<1>1. ClientInv => ListingsAreSound
  <2> SUFFICES ASSUME ClientInv PROVE ListingsAreSound
    OBVIOUS
  <2>1. /\ client \in Operation
        /\ Collects(client, listing, listed, shrunk)
    BY DEF ClientInv
  <2>2. ListingIsComplete
    BY DEF ClientInv, Complete, ListingIsComplete
  <2>3. ListingIsBounded
    <3>1. CASE client.operation = "pulls"
      <4>1. /\ client.collected \in Seq(Items) /\ IsInjective(client.collected)
        BY <2>1, <3>1 DEF Operation, Collects
      <4> QED BY <2>1, <4>1, InjectiveLength DEF Collects, ListingIsBounded
    <3>2. CASE client.operation # "pulls"
      BY <2>1, <3>2 DEF Collects, ListingIsBounded
    <3> QED BY <3>1, <3>2
  <2>4. DelaysAreRespected
    BY ConstantTypes DEF ClientInv, CanFetch, Ended, DelaysAreRespected
  <2> QED BY <2>2, <2>3, <2>4 DEF ListingsAreSound
<1> QED BY <1>1, ClientInvHolds, PTL

-----------------------------------------------------------------------------
(* Ingestion: helpers                                                        *)

LEMMA LastWindow ==
    /\ DOMAIN WindowEnds = 1..Len(WindowEnds)
    /\ Len(WindowEnds) \in Nat \ {0}
    /\ \A n \in DOMAIN WindowEnds : WindowEnds[n] \in Nat
    /\ Cardinality(DOMAIN WindowEnds) = Len(WindowEnds)
<1>1. /\ WindowEnds \in Seq(Nat) /\ WindowEnds # <<>>
  BY IngestionAssumption
<1>2. /\ DOMAIN WindowEnds = 1..Len(WindowEnds)
      /\ Len(WindowEnds) \in Nat /\ Len(WindowEnds) # 0
      /\ \A n \in DOMAIN WindowEnds : WindowEnds[n] \in Nat
  BY <1>1, LenProperties, EmptySeq, ElementOfSeq
<1>3. Cardinality(1..Len(WindowEnds)) = Len(WindowEnds)
  <2>1. 1 \in Int /\ Len(WindowEnds) \in Int
    BY <1>2
  <2>2. Cardinality(1..Len(WindowEnds)) =
          IF 1 > Len(WindowEnds) THEN 0 ELSE Len(WindowEnds) - 1 + 1
    BY <2>1, FS_Interval
  <2> QED BY <1>2, <2>2
<1> QED BY <1>2, <1>3

\* A finite set of numbers that is not empty has a largest one.
LEMMA LargestElement ==
    ASSUME NEW S \in SUBSET Nat, IsFiniteSet(S), S # {}
    PROVE  Max(S) \in S
<1> DEFINE R == StrictSubsetOrdering(S)
           Topless == {T \in SUBSET S : /\ T # {}
                                        /\ ~\E x \in T : \A y \in T : x >= y}
<1>1. Topless = {}
  <2>1. SUFFICES ASSUME Topless # {} PROVE FALSE
    OBVIOUS
  <2>2. /\ IsWellFoundedOn(R, FiniteSubsetsOf(S))
        /\ FiniteSubsetsOf(S) = SUBSET S
    BY FS_StrictSubsetOrderingWellFounded, FS_FiniteSubsetsOfFinite
  <2>3. Topless \subseteq FiniteSubsetsOf(S)
    BY <2>2
  <2>4. \A T, U \in SUBSET S : T \subseteq U /\ T # U => <<T, U>> \in R
    BY DEF StrictSubsetOrdering
  <2> HIDE DEF R
  <2> HIDE DEF Topless
  <2>5. PICK U \in Topless : \A T \in Topless : ~(<<T, U>> \in R)
    BY <2>1, <2>2, <2>3, WFMin
  <2> USE DEF Topless
  <2>6. /\ U \in SUBSET S /\ U # {}
        /\ ~\E x \in U : \A y \in U : x >= y
    BY <2>5
  <2>7. PICK a \in U : TRUE
    BY <2>6
  <2>8. U \ {a} \in SUBSET S /\ U \ {a} \notin Topless
    BY <2>4, <2>5, <2>6, <2>7
  <2>9. CASE U \ {a} = {}
    <3>1. \A y \in U : y = a
      BY <2>9
    <3>2. a \in Nat
      BY <2>6, <2>7
    <3> QED BY <2>6, <2>7, <3>1, <3>2
  <2>10. CASE U \ {a} # {}
    <3>1. PICK b \in U \ {a} : \A y \in U \ {a} : b >= y
      BY <2>8, <2>10
    <3>2. a \in Nat /\ b \in Nat /\ b \in U /\ \A y \in U : y \in Nat
      BY <2>6, <2>7, <3>1
    <3>3. CASE a >= b
      <4>1. \A y \in U : a >= y
        BY <3>1, <3>2, <3>3
      <4> QED BY <2>6, <2>7, <4>1
    <3>4. CASE ~(a >= b)
      <4>1. \A y \in U : b >= y
        BY <3>1, <3>2, <3>4
      <4> QED BY <2>6, <3>2, <4>1
    <3> QED BY <3>3, <3>4
  <2> QED BY <2>9, <2>10
<1>2. \E x \in S : \A y \in S : x >= y
  BY <1>1
<1> HIDE DEF R, Topless
<1> QED BY <1>2, Zenon DEF Max

Updating == {"clear", "pulls", "merge", "finish"}
Stages   == {"idle", "list", "find", "store"} \cup Updating

Attempt == [pc : Stages, number : 0 .. Len(WindowEnds), start : Int,
            token : Nat, discovered : Nat, inserted : Nat,
            listing : SUBSET Shas, new : SUBSET Shas, revision : Nat,
            alone : BOOLEAN]

SyncRun == [number : DOMAIN WindowEnds,
            status : {"queued", "running", "succeeded", "failed_retryable",
                      "failed_terminal"},
            start : Int, token : 0 .. MaxTokens, discovered : Nat,
            inserted : Nat]

IngestionTypes ==
    /\ branch \subseteq Shas /\ gone \subseteq Shas
    /\ merged \in Nat /\ pull \in 0 .. merged
    /\ commit \in [Shas -> Commit]
    /\ boundary \in Int
    /\ syncRun \in SyncRun
    /\ attempt \in [Ingesters -> Attempt]
    /\ overlapped \in BOOLEAN

\* What run n has stored, of the rows.
StoredBy(rows, n) == {c \in Shas : rows[c].run = n}

\* What an attempt knows at each of its steps.
SoundAttempt(w) ==
    LET a == attempt[w] IN
    /\ a.pc \in {"idle", "list", "find"} => a.new = {}
    /\ a.pc # "idle" => /\ a.number # 0
                        /\ a.inserted <= Cardinality(StoredBy(commit, a.number))
    /\ a.listing \subseteq branch \cup gone
    /\ \A c \in a.listing : InWindow(w, c)
    /\ a.new \subseteq a.listing
    /\ a.revision <= merged
    /\ a.pc = "store" => a.listing \subseteq Stored \cup a.new
    /\ a.pc \in Updating => a.listing \subseteq Stored
    /\ a.pc = "finish" /\ a.revision > 0 => pull > 0

\* What it may conclude from its listing about the commits that are not there,
\* when no other attempt comes between.
SoundReach(w) ==
    LET a == attempt[w] IN
    /\ a.pc \in {"find", "store"} /\ ~overlapped =>
         \A c \in Stored \ a.listing : InWindow(w, c) => c \in gone
    /\ a.pc = "clear" /\ a.alone =>
         \A c \in Unlisted(w) : commit[c].status # "reachable"
    /\ a.pc \in {"pulls", "merge", "finish"} /\ a.alone =>
         {c \in Shas : commit[c].status = "reachable" /\ InWindow(w, c)}
             = a.listing

IngestionInv ==
    /\ IngestionTypes
    /\ \A c \in Shas : commit[c].status = "absent" <=> commit[c].run = 0
    /\ Stored \subseteq branch \cup gone
    /\ syncRun.inserted <= syncRun.discovered
    /\ CountersAreEarned
    /\ NoFalseOrphans
    /\ \A v, w \in Ingesters :
         attempt[v].pc # "idle" /\ attempt[w].pc # "idle" /\ v # w => overlapped
    /\ \A w \in Ingesters : SoundAttempt(w) /\ SoundReach(w)

LEMMA NoAttemptType ==
    /\ NoAttempt \in Attempt
    /\ NoAttempt.pc = "idle" /\ NoAttempt.listing = {} /\ NoAttempt.new = {}
    /\ NoAttempt.revision = 0
BY LastWindow DEF NoAttempt, Attempt, Stages

LEMMA IngestionStarts == IngestionInit => IngestionInv
<1> SUFFICES ASSUME IngestionInit PROVE IngestionInv
  OBVIOUS
<1>1. /\ branch = {} /\ gone = {} /\ merged = 0 /\ pull = 0 /\ overlapped = FALSE
      /\ boundary = -1
      /\ \A c \in Shas : commit[c] = [status |-> "absent", run |-> 0]
      /\ \A w \in Ingesters : attempt[w] = NoAttempt
  BY DEF IngestionInit, NoBoundary
<1>2. Run(1, FirstStart) \in SyncRun /\ Run(1, FirstStart).inserted = 0
      /\ Run(1, FirstStart).discovered = 0
  BY LastWindow, IngestionAssumption DEF Run, SyncRun
<1>3. IngestionTypes
  <2>1. [status |-> "absent", run |-> 0] \in Commit
    BY LastWindow DEF Commit
  <2>2. commit \in [Shas -> Commit]
    BY <2>1 DEF IngestionInit
  <2>3. attempt \in [Ingesters -> Attempt]
    BY NoAttemptType DEF IngestionInit
  <2>4. syncRun \in SyncRun
    BY <1>2 DEF IngestionInit
  <2>5. overlapped \in BOOLEAN
    BY <1>1
  <2>6. /\ branch \subseteq Shas /\ gone \subseteq Shas
        /\ merged \in Nat /\ pull \in 0 .. merged /\ boundary \in Int
    BY <1>1
  <2> QED BY <2>2, <2>3, <2>4, <2>5, <2>6 DEF IngestionTypes
<1>4. Stored = {}
  BY <1>1 DEF Stored
<1>5. CountersAreEarned
  BY <1>2, IngestionAssumption, FS_Subset, FS_CardinalityType
     DEF IngestionInit, CountersAreEarned
<1>6. \A w \in Ingesters : SoundAttempt(w) /\ SoundReach(w)
  BY <1>1, NoAttemptType DEF SoundAttempt, SoundReach, Updating
<1> QED BY <1>1, <1>2, <1>3, <1>4, <1>5, <1>6, NoAttemptType
        DEF IngestionInv, NoFalseOrphans, IngestionInit

-----------------------------------------------------------------------------
(* The types are kept                                                        *)

LEMMA AttemptFields ==
    ASSUME IngestionTypes, NEW w \in Ingesters
    PROVE  /\ attempt[w] \in Attempt
           /\ attempt[w].pc \in Stages
           /\ attempt[w].number \in 0 .. Len(WindowEnds)
           /\ attempt[w].token \in Nat /\ attempt[w].discovered \in Nat
           /\ attempt[w].inserted \in Nat /\ attempt[w].revision \in Nat
           /\ attempt[w].listing \subseteq Shas
           /\ attempt[w].new \subseteq Shas
           /\ attempt[w].alone \in BOOLEAN
BY DEF IngestionTypes, Attempt

Keeps(w) == \A v \in Ingesters \ {w} : attempt'[v] = attempt[v]
Marks(w) ==
    \A v \in Ingesters \ {w} : attempt'[v] = [attempt[v] EXCEPT !.alone = FALSE]

LEMMA OwnUpdate ==
    ASSUME IngestionTypes, NEW w \in Ingesters, NEW a \in Attempt,
           attempt' = [attempt EXCEPT ![w] = a]
    PROVE  attempt' \in [Ingesters -> Attempt] /\ attempt'[w] = a /\ Keeps(w)
BY DEF IngestionTypes, Keeps

LEMMA OwnWrite ==
    ASSUME IngestionTypes, NEW w \in Ingesters, NEW a \in Attempt,
           AttemptWrites(w, a)
    PROVE  attempt' \in [Ingesters -> Attempt] /\ attempt'[w] = a /\ Marks(w)
<1>1. \A v \in Ingesters : [attempt[v] EXCEPT !.alone = FALSE] \in Attempt
  BY DEF IngestionTypes, Attempt
<1> QED BY <1>1 DEF AttemptWrites, Marks

SameWork(b, a) ==
    /\ b.number = a.number /\ b.start = a.start /\ b.token = a.token

SameListing(b, a) == b.listing = a.listing /\ b.alone = a.alone

\* The attempt after each of its steps.
Listing(w) == {c \in branch : InWindow(w, c)}

LEMMA ListedAttempt ==
    ASSUME IngestionTypes, NEW w \in Ingesters, ListCommits(w)
    PROVE  /\ attempt' \in [Ingesters -> Attempt] /\ Keeps(w)
           /\ attempt'[w].pc = "find"
           /\ attempt'[w].listing = Listing(w)
           /\ SameWork(attempt'[w], attempt[w])
           /\ attempt'[w].new = attempt[w].new
           /\ attempt'[w].revision = attempt[w].revision
           /\ attempt'[w].inserted = attempt[w].inserted
<1> DEFINE a == attempt[w]
           n == Larger(a.discovered, Cardinality(Listing(w)))
           b == [a EXCEPT !.pc = "find", !.listing = Listing(w), !.alone = TRUE,
                          !.discovered = n]
<1>1. Listing(w) \subseteq Shas /\ IsFiniteSet(Listing(w))
  BY IngestionAssumption, FS_Subset DEF Listing, IngestionTypes
<1>2. n \in Nat
  BY <1>1, FS_CardinalityType, AttemptFields DEF Larger
<1>3. attempt' = [attempt EXCEPT ![w] = b]
  BY DEF ListCommits, Listing
<1>4. b \in Attempt
  BY <1>1, <1>2, AttemptFields DEF Attempt, Stages
<1>5. /\ b.pc = "find" /\ b.listing = Listing(w)
      /\ b.new = a.new /\ b.revision = a.revision /\ b.inserted = a.inserted
      /\ SameWork(b, a)
  BY AttemptFields DEF Attempt, SameWork
<1> HIDE DEF b
<1> QED BY <1>3, <1>4, <1>5, OwnUpdate

LEMMA FoundAttempt ==
    ASSUME IngestionTypes, NEW w \in Ingesters, FindCommits(w)
    PROVE  /\ attempt' \in [Ingesters -> Attempt] /\ Keeps(w)
           /\ attempt'[w].pc = "store"
           /\ attempt'[w].new = attempt[w].listing \ Stored
           /\ SameWork(attempt'[w], attempt[w])
           /\ SameListing(attempt'[w], attempt[w])
           /\ attempt'[w].revision = attempt[w].revision
           /\ attempt'[w].inserted = attempt[w].inserted
<1> DEFINE a == attempt[w]
           b == [a EXCEPT !.pc = "store", !.new = a.listing \ Stored]
<1>1. attempt' = [attempt EXCEPT ![w] = b]
  BY DEF FindCommits
<1>2. b \in Attempt
  BY AttemptFields DEF Attempt, Stages, Updating
<1>3. /\ b.pc = "store" /\ b.new = a.listing \ Stored
      /\ b.revision = a.revision /\ b.inserted = a.inserted
      /\ SameWork(b, a) /\ SameListing(b, a)
  BY AttemptFields DEF Attempt, SameWork, SameListing
<1> HIDE DEF b
<1> QED BY <1>1, <1>2, <1>3, OwnUpdate

LEMMA StoredAttempt ==
    ASSUME IngestionTypes, NEW w \in Ingesters, StoreCommit(w)
    PROVE  LET c == Max(attempt[w].new) IN
           /\ attempt' \in [Ingesters -> Attempt] /\ Marks(w)
           /\ attempt'[w].pc = "store"
           /\ c \in attempt[w].new
           /\ attempt'[w].new = attempt[w].new \ {c}
           /\ SameWork(attempt'[w], attempt[w])
           /\ SameListing(attempt'[w], attempt[w])
           /\ attempt'[w].revision = attempt[w].revision
           /\ attempt'[w].inserted
                = IF Counted(c) THEN attempt[w].inserted + 1
                                ELSE attempt[w].inserted
<1> DEFINE a == attempt[w]
           c == Max(a.new)
           n == a.inserted + (IF Counted(c) THEN 1 ELSE 0)
           b == [a EXCEPT !.new = a.new \ {c}, !.inserted = n]
<1>1. AttemptWrites(w, b) /\ a.pc = "store" /\ a.new # {}
  BY DEF StoreCommit
<1>2. c \in a.new
  BY <1>1, AttemptFields, IngestionAssumption, FS_Subset, LargestElement
<1>3. n \in Nat /\ n = IF Counted(c) THEN a.inserted + 1 ELSE a.inserted
  BY AttemptFields
<1>4. b \in Attempt
  BY <1>3, AttemptFields DEF Attempt
<1>5. /\ b.pc = "store" /\ b.new = a.new \ {c}
      /\ b.revision = a.revision /\ b.inserted = n
      /\ SameWork(b, a) /\ SameListing(b, a)
  BY <1>1, AttemptFields DEF Attempt, SameWork, SameListing
<1> HIDE DEF b, c, n
<1>6. attempt' \in [Ingesters -> Attempt] /\ attempt'[w] = b /\ Marks(w)
  BY <1>1, <1>4, OwnWrite
<1>7. c = Max(attempt[w].new)
  BY DEF c
<1> QED BY <1>2, <1>3, <1>5, <1>6, <1>7

\* The steps that leave what an attempt has listed.
MovedOn(w, label) ==
    /\ attempt' \in [Ingesters -> Attempt]
    /\ attempt'[w].pc = label
    /\ SameWork(attempt'[w], attempt[w]) /\ SameListing(attempt'[w], attempt[w])
    /\ attempt'[w].inserted = attempt[w].inserted

LEMMA MarkedAttempt ==
    ASSUME IngestionTypes, NEW w \in Ingesters, MarkOrphans(w)
    PROVE  /\ MovedOn(w, "clear") /\ Marks(w)
           /\ attempt'[w].new = {} /\ attempt[w].new = {}
           /\ attempt'[w].revision = attempt[w].revision
<1> DEFINE a == attempt[w]
           b == [a EXCEPT !.pc = "clear", !.new = {}]
<1>1. AttemptWrites(w, b) /\ a.new = {}
  BY DEF MarkOrphans, AllStored
<1>2. b \in Attempt
  BY AttemptFields DEF Attempt, Stages, Updating
<1>3. /\ b.pc = "clear" /\ b.new = {}
      /\ b.revision = a.revision /\ b.inserted = a.inserted
      /\ SameWork(b, a) /\ SameListing(b, a)
  BY AttemptFields DEF Attempt, SameWork, SameListing
<1> HIDE DEF b
<1> QED BY <1>1, <1>2, <1>3, OwnWrite DEF MovedOn

LEMMA ClearedAttempt ==
    ASSUME IngestionTypes, NEW w \in Ingesters, ClearOrphans(w)
    PROVE  /\ MovedOn(w, "pulls") /\ Marks(w)
           /\ attempt'[w].new = attempt[w].new
           /\ attempt'[w].revision = attempt[w].revision
<1> DEFINE a == attempt[w]
           b == [a EXCEPT !.pc = "pulls"]
<1>1. AttemptWrites(w, b)
  BY DEF ClearOrphans
<1>2. b \in Attempt
  BY AttemptFields DEF Attempt, Stages, Updating
<1>3. /\ b.pc = "pulls" /\ b.new = a.new
      /\ b.revision = a.revision /\ b.inserted = a.inserted
      /\ SameWork(b, a) /\ SameListing(b, a)
  BY AttemptFields DEF Attempt, SameWork, SameListing
<1> HIDE DEF b
<1> QED BY <1>1, <1>2, <1>3, OwnWrite DEF MovedOn

LEMMA PulledAttempt ==
    ASSUME IngestionTypes, NEW w \in Ingesters, ListPulls(w)
    PROVE  /\ MovedOn(w, "merge") /\ Keeps(w)
           /\ attempt'[w].new = attempt[w].new
           /\ attempt'[w].revision = merged
<1> DEFINE a == attempt[w]
           b == [a EXCEPT !.pc = "merge", !.revision = merged]
<1>1. attempt' = [attempt EXCEPT ![w] = b]
  BY DEF ListPulls
<1>2. b \in Attempt
  BY AttemptFields DEF Attempt, Stages, Updating, IngestionTypes
<1>3. /\ b.pc = "merge" /\ b.new = a.new
      /\ b.revision = merged /\ b.inserted = a.inserted
      /\ SameWork(b, a) /\ SameListing(b, a)
  BY AttemptFields DEF Attempt, SameWork, SameListing
<1> HIDE DEF b
<1> QED BY <1>1, <1>2, <1>3, OwnUpdate DEF MovedOn

LEMMA MergedAttempt ==
    ASSUME IngestionTypes, NEW w \in Ingesters, StorePull(w)
    PROVE  /\ MovedOn(w, "finish") /\ Keeps(w)
           /\ attempt'[w].new = attempt[w].new
           /\ attempt'[w].revision = attempt[w].revision
<1> DEFINE a == attempt[w]
           b == [a EXCEPT !.pc = "finish"]
<1>1. attempt' = [attempt EXCEPT ![w] = b]
  BY DEF StorePull, GoTo
<1>2. b \in Attempt
  BY AttemptFields DEF Attempt, Stages, Updating
<1>3. /\ b.pc = "finish" /\ b.new = a.new
      /\ b.revision = a.revision /\ b.inserted = a.inserted
      /\ SameWork(b, a) /\ SameListing(b, a)
  BY AttemptFields DEF Attempt, SameWork, SameListing
<1> HIDE DEF b
<1> QED BY <1>1, <1>2, <1>3, OwnUpdate DEF MovedOn

LEMMA ClaimedAttempt ==
    ASSUME IngestionTypes, NEW w \in Ingesters, ClaimRun(w)
    PROVE  /\ attempt' \in [Ingesters -> Attempt] /\ Keeps(w)
           /\ attempt'[w].pc = "list"
           /\ attempt'[w].number = syncRun.number
           /\ attempt'[w].inserted = syncRun.inserted
           /\ attempt'[w].listing = {} /\ attempt'[w].new = {}
           /\ attempt'[w].revision = 0
           /\ syncRun' \in SyncRun
           /\ syncRun'.number = syncRun.number
           /\ syncRun'.discovered = syncRun.discovered
           /\ syncRun'.inserted = syncRun.inserted
<1> DEFINE r == [syncRun EXCEPT !.status = "running", !.token = syncRun.token + 1]
           b == [NoAttempt EXCEPT !.pc = "list", !.number = syncRun.number,
                   !.start = syncRun.start, !.token = r.token,
                   !.discovered = syncRun.discovered,
                   !.inserted = syncRun.inserted]
<1>1. syncRun' = r /\ attempt' = [attempt EXCEPT ![w] = b]
  BY DEF ClaimRun
<1>2. /\ syncRun \in SyncRun /\ syncRun.token \in 0..MaxTokens
      /\ syncRun.token < MaxTokens
      /\ syncRun.number \in DOMAIN WindowEnds /\ syncRun.start \in Int
      /\ syncRun.discovered \in Nat /\ syncRun.inserted \in Nat
  BY DEF ClaimRun, IngestionTypes, SyncRun
<1>3. syncRun.token + 1 \in 0..MaxTokens
  BY <1>2, IngestionAssumption, SMTT(30)
<1>4. r \in SyncRun /\ r.token = syncRun.token + 1
  BY <1>2, <1>3 DEF SyncRun
<1>5. /\ r.number = syncRun.number /\ r.discovered = syncRun.discovered
      /\ r.inserted = syncRun.inserted
  BY <1>2 DEF SyncRun
<1>6. r.token \in Nat /\ syncRun.number \in 0 .. Len(WindowEnds)
  BY <1>2, <1>3, <1>4, LastWindow
<1> HIDE DEF r
<1> DEFINE d == [NoAttempt EXCEPT !.pc = "list", !.number = syncRun.number,
                   !.start = syncRun.start]
<1>7. /\ d \in Attempt
      /\ d.pc = "list" /\ d.number = syncRun.number
      /\ d.listing = {} /\ d.new = {} /\ d.revision = 0
  BY <1>2, <1>6, NoAttemptType DEF Attempt, Stages
<1>8. b = [d EXCEPT !.token = r.token, !.discovered = syncRun.discovered,
                    !.inserted = syncRun.inserted]
  BY DEF NoAttempt
<1> HIDE DEF d
<1>9. /\ b \in Attempt
      /\ b.pc = "list" /\ b.number = syncRun.number
      /\ b.inserted = syncRun.inserted
      /\ b.listing = {} /\ b.new = {} /\ b.revision = 0
  <2> HIDE DEF b
  <2> QED BY <1>2, <1>6, <1>7, <1>8 DEF Attempt
<1> HIDE DEF b
<1> QED BY <1>1, <1>4, <1>5, <1>9, OwnUpdate

LEMMA EndedAttempt ==
    ASSUME IngestionTypes, NEW w \in Ingesters, EndAttempt(w)
    PROVE  /\ attempt' \in [Ingesters -> Attempt] /\ Keeps(w)
           /\ attempt'[w] = NoAttempt
BY NoAttemptType, OwnUpdate DEF EndAttempt

\* An update of the run's outcome and counters by an attempt that holds it.
LEMMA EndedRun ==
    ASSUME IngestionTypes, NEW w \in Ingesters, HoldsLease(w),
           NEW status \in {"succeeded", "failed_retryable", "failed_terminal"},
           syncRun' = [syncRun EXCEPT !.status = status,
                         !.discovered = attempt[w].discovered,
                         !.inserted = attempt[w].inserted]
    PROVE  /\ syncRun' \in SyncRun
           /\ syncRun'.number = attempt[w].number
           /\ syncRun'.discovered = attempt[w].discovered
           /\ syncRun'.inserted = attempt[w].inserted
BY AttemptFields DEF HoldsLease, IngestionTypes, SyncRun

\* A step of the queue, or of an attempt but its writes of commits.
LEMMA CommitTypes ==
    ASSUME IngestionTypes, [IngestionNext]_ingestionVars
    PROVE  commit' \in [Shas -> Commit]
<1>1. ASSUME NEW c \in Shas, NEW w \in Ingesters
      PROVE  [status |-> "reachable", run |-> attempt[w].number] \in Commit
  BY LastWindow, AttemptFields DEF Commit
<1>2. ASSUME NEW S, NEW from, NEW to \in {"absent", "reachable", "orphaned"},
             Reach(S, from, to)
      PROVE  commit' \in [Shas -> Commit]
  BY <1>2 DEF Reach, IngestionTypes, Commit
<1>3. ASSUME NEW w \in Ingesters, StoreCommit(w)
      PROVE  commit' \in [Shas -> Commit]
  BY <1>1, <1>3 DEF StoreCommit, IngestionTypes
<1>4. ASSUME NEW w \in Ingesters, MarkOrphans(w) \/ ClearOrphans(w)
      PROVE  commit' \in [Shas -> Commit]
  BY <1>2, <1>4 DEF MarkOrphans, ClearOrphans
<1>5. ASSUME UNCHANGED commit
      PROVE  commit' \in [Shas -> Commit]
  BY <1>5 DEF IngestionTypes
<1>6. ASSUME NEW w \in Ingesters,
             \/ ClaimRun(w) \/ AttemptFailed(w) \/ AttemptDies(w)
             \/ ListCommits(w) \/ FindCommits(w) \/ ListPulls(w) \/ StorePull(w)
             \/ FinishRun(w) \/ FinishRefused(w)
      PROVE  UNCHANGED commit
  BY <1>6 DEF ClaimRun, AttemptFailed, AttemptDies, ListCommits, FindCommits,
     ListPulls, StorePull, FinishRun, FinishRefused, evidenceVars
<1>7. ASSUME \/ NextRun \/ Merge \/ UNCHANGED ingestionVars
             \/ \E c \in Shas : Push(c) \/ Rewrite(c)
      PROVE  UNCHANGED commit
  BY <1>7 DEF NextRun, Merge, Push, Rewrite, ingestionVars, evidenceVars
<1> QED BY <1>3, <1>4, <1>5, <1>6, <1>7 DEF IngestionNext, IngestionStep

-----------------------------------------------------------------------------
(* What a step leaves of the evidence                                        *)

\* A row stays, and with it the run that stored it.
RowsStay ==
    \A c \in Shas :
        /\ commit'[c].status = "absent" <=> commit'[c].run = 0
        /\ commit[c].status # "absent" =>
             commit'[c].status # "absent" /\ commit'[c].run = commit[c].run

LEMMA RowsKept ==
    ASSUME IngestionInv, [IngestionNext]_ingestionVars
    PROVE  RowsStay
<1>1. \A c \in Shas : /\ commit[c] \in Commit
                      /\ commit[c].status = "absent" <=> commit[c].run = 0
  BY DEF IngestionInv, IngestionTypes
<1>2. ASSUME NEW S, NEW from \in {"reachable", "orphaned"},
             NEW to \in {"reachable", "orphaned"}, Reach(S, from, to)
      PROVE  RowsStay
  <2> SUFFICES ASSUME NEW c \in Shas
               PROVE  /\ commit'[c].run = commit[c].run
                      /\ commit[c].status = "absent" <=>
                           commit'[c].status = "absent"
    BY <1>1 DEF RowsStay
  <2>1. commit'[c] = IF c \in S /\ commit[c].status = from
                     THEN [commit[c] EXCEPT !.status = to] ELSE commit[c]
    BY <1>2 DEF Reach
  <2> QED BY <1>1, <2>1 DEF Commit
<1>3. ASSUME NEW w \in Ingesters, StoreCommit(w)
      PROVE  RowsStay
  <2> DEFINE x == Max(attempt[w].new)
  <2>1. /\ attempt[w].pc = "store" /\ attempt[w].number # 0
    BY <1>3 DEF IngestionInv, SoundAttempt, StoreCommit
  <2>2. /\ commit' = IF x \in Stored THEN commit
                     ELSE [commit EXCEPT ![x] =
                             [status |-> "reachable", run |-> attempt[w].number]]
        /\ commit \in [Shas -> Commit]
    BY <1>3 DEF StoreCommit, IngestionInv, IngestionTypes
  <2> HIDE DEF x
  <2>3. CASE x \in Stored
    BY <1>1, <2>2, <2>3 DEF RowsStay
  <2>4. CASE x \notin Stored
    <3> SUFFICES ASSUME NEW c \in Shas
                 PROVE  /\ commit'[c].status = "absent" <=> commit'[c].run = 0
                        /\ commit[c].status # "absent" =>
                             /\ commit'[c].status # "absent"
                             /\ commit'[c].run = commit[c].run
      BY DEF RowsStay
    <3>1. CASE c = x
      <4>1. commit'[c] = [status |-> "reachable", run |-> attempt[w].number]
        BY <2>2, <2>4, <3>1
      <4> QED BY <2>1, <2>4, <3>1, <4>1 DEF Stored
    <3>2. CASE c # x
      BY <1>1, <2>2, <2>4, <3>2
    <3> QED BY <3>1, <3>2
  <2> QED BY <2>3, <2>4
<1>4. ASSUME NEW w \in Ingesters, MarkOrphans(w) \/ ClearOrphans(w)
      PROVE  RowsStay
  BY <1>2, <1>4 DEF MarkOrphans, ClearOrphans
<1>5. ASSUME UNCHANGED commit
      PROVE  RowsStay
  BY <1>1, <1>5 DEF RowsStay
<1>6. ASSUME NEW w \in Ingesters,
             \/ ClaimRun(w) \/ AttemptFailed(w) \/ AttemptDies(w)
             \/ ListCommits(w) \/ FindCommits(w) \/ ListPulls(w) \/ StorePull(w)
             \/ FinishRun(w) \/ FinishRefused(w)
      PROVE  UNCHANGED commit
  BY <1>6 DEF ClaimRun, AttemptFailed, AttemptDies, ListCommits, FindCommits,
     ListPulls, StorePull, FinishRun, FinishRefused, evidenceVars
<1>7. ASSUME \/ NextRun \/ Merge \/ UNCHANGED ingestionVars
             \/ \E c \in Shas : Push(c) \/ Rewrite(c)
      PROVE  UNCHANGED commit
  BY <1>7 DEF NextRun, Merge, Push, Rewrite, ingestionVars, evidenceVars
<1> QED BY <1>3, <1>4, <1>5, <1>6, <1>7 DEF IngestionNext, IngestionStep

\* What GitHub has and had, and the pull request's row, only grow.
HistoryGrows ==
    /\ gone \subseteq gone' /\ branch \cup gone \subseteq branch' \cup gone'
    /\ branch' \subseteq Shas /\ gone' \subseteq Shas
    /\ merged' \in Nat /\ merged <= merged'
    /\ pull' \in 0 .. merged' /\ (pull > 0 => pull' > 0)
    /\ overlapped' \in BOOLEAN /\ (overlapped => overlapped')
    /\ boundary' \in Int

LEMMA HistoryKept ==
    ASSUME IngestionInv, [IngestionNext]_ingestionVars
    PROVE  HistoryGrows
<1>1. IngestionTypes
  BY DEF IngestionInv
<1>2. ASSUME UNCHANGED <<branch, gone, merged, pull, boundary>>,
             overlapped' \in BOOLEAN, overlapped => overlapped'
      PROVE  HistoryGrows
  BY <1>1, <1>2 DEF HistoryGrows, IngestionTypes
<1>3. ASSUME NEW w \in Ingesters, ClaimRun(w)
      PROVE  HistoryGrows
  <2>1. /\ overlapped' = (overlapped \/ \E v \in Ingesters : attempt[v].pc # "idle")
        /\ UNCHANGED <<branch, gone, merged, pull, boundary>>
    BY <1>3 DEF ClaimRun, githubVars, evidenceVars
  <2>2. overlapped' \in BOOLEAN /\ (overlapped => overlapped')
    BY <2>1
  <2> QED BY <1>2, <2>1, <2>2
<1>4. ASSUME NEW w \in Ingesters,
             \/ AttemptFailed(w) \/ AttemptDies(w) \/ ListCommits(w)
             \/ FindCommits(w) \/ ListPulls(w) \/ FinishRefused(w)
      PROVE  HistoryGrows
  <2>1. UNCHANGED <<branch, gone, merged, pull, boundary, overlapped>>
    BY <1>4 DEF AttemptFailed, AttemptDies, ListCommits, FindCommits, ListPulls,
       FinishRefused, githubVars, evidenceVars
  <2> QED BY <1>1, <1>2, <2>1 DEF IngestionTypes
<1>5. ASSUME NEW w \in Ingesters,
             StoreCommit(w) \/ MarkOrphans(w) \/ ClearOrphans(w)
      PROVE  HistoryGrows
  <2>1. UNCHANGED <<branch, gone, merged, pull, boundary, overlapped>>
    BY <1>5 DEF StoreCommit, MarkOrphans, ClearOrphans, githubVars
  <2> QED BY <1>1, <1>2, <2>1 DEF IngestionTypes
<1>6. ASSUME NEW w \in Ingesters, StorePull(w)
      PROVE  HistoryGrows
  <2>1. /\ UNCHANGED <<branch, gone, merged, boundary, overlapped>>
        /\ pull' = IF attempt[w].revision = 0 THEN pull ELSE attempt[w].revision
    BY <1>6 DEF StorePull, githubVars
  <2>2. attempt[w].revision \in Nat /\ attempt[w].revision <= merged
    BY <1>1, AttemptFields DEF IngestionInv, SoundAttempt
  <2>3. pull' \in 0 .. merged' /\ (pull > 0 => pull' > 0) /\ merged' \in Nat
    BY <1>1, <2>1, <2>2 DEF IngestionTypes
  <2> QED BY <1>1, <2>1, <2>3 DEF IngestionTypes, HistoryGrows
<1>7. ASSUME NEW w \in Ingesters, FinishRun(w)
      PROVE  HistoryGrows
  <2>1. /\ UNCHANGED <<branch, gone, merged, pull, overlapped>>
        /\ boundary' = WindowEnds[attempt[w].number]
        /\ attempt[w].number = syncRun.number
    BY <1>7 DEF FinishRun, HoldsLease, githubVars, evidenceVars
  <2>2. boundary' \in Int
    BY <1>1, <2>1, LastWindow DEF IngestionTypes, SyncRun
  <2> QED BY <1>1, <2>1, <2>2 DEF IngestionTypes, HistoryGrows
<1>8. ASSUME NextRun \/ UNCHANGED ingestionVars
      PROVE  HistoryGrows
  <2>1. UNCHANGED <<branch, gone, merged, pull, boundary, overlapped>>
    BY <1>8 DEF NextRun, ingestionVars, githubVars, evidenceVars
  <2> QED BY <1>1, <1>2, <2>1 DEF IngestionTypes
<1>9. ASSUME NEW c \in Shas, Push(c) \/ Rewrite(c)
      PROVE  HistoryGrows
  <2>1. /\ \/ branch' = branch \cup {c} /\ gone' = gone
           \/ branch' = branch \ {c} /\ gone' = gone \cup {c}
        /\ UNCHANGED <<merged, pull, boundary, overlapped>>
    BY <1>9 DEF Push, Rewrite, evidenceVars
  <2> QED BY <1>1, <2>1 DEF IngestionTypes, HistoryGrows
<1>10. ASSUME Merge
       PROVE  HistoryGrows
  <2>1. /\ merged' = merged + 1
        /\ UNCHANGED <<branch, gone, pull, boundary, overlapped>>
    BY <1>10 DEF Merge, evidenceVars
  <2> QED BY <1>1, <2>1 DEF IngestionTypes, HistoryGrows
<1> QED BY <1>3, <1>4, <1>5, <1>6, <1>7, <1>8, <1>9, <1>10
        DEF IngestionNext, IngestionStep

LEMMA StoredGrows ==
    ASSUME RowsStay
    PROVE  /\ Stored \subseteq Stored'
           /\ \A n : n # 0 /\ IngestionInv =>
                /\ StoredBy(commit, n) \subseteq StoredBy(commit', n)
                /\ Cardinality(StoredBy(commit, n)) \in Nat
                /\ Cardinality(StoredBy(commit', n)) \in Nat
                /\ Cardinality(StoredBy(commit, n)) <= Cardinality(StoredBy(commit', n))
<1>1. Stored \subseteq Stored'
  BY DEF RowsStay, Stored
<1>2. ASSUME NEW n, n # 0, IngestionInv
      PROVE  /\ StoredBy(commit, n) \subseteq StoredBy(commit', n)
             /\ Cardinality(StoredBy(commit, n)) \in Nat
             /\ Cardinality(StoredBy(commit', n)) \in Nat
             /\ Cardinality(StoredBy(commit, n)) <= Cardinality(StoredBy(commit', n))
  <2>1. StoredBy(commit, n) \subseteq StoredBy(commit', n)
    BY <1>2 DEF RowsStay, StoredBy, IngestionInv
  <2>2. StoredBy(commit', n) \subseteq Shas
    BY DEF StoredBy
  <2>3. IsFiniteSet(StoredBy(commit', n))
    BY <2>2, IngestionAssumption, FS_Subset
  <2> QED BY <2>1, <2>3, FS_Subset, FS_CardinalityType
<1> QED BY <1>1, <1>2

\* An attempt that takes no step keeps what it knows, unless another one writes
\* commits; then the two overlap.
LEMMA OthersKept ==
    ASSUME IngestionInv, RowsStay, HistoryGrows, NEW v \in Ingesters,
           \/ attempt'[v] = attempt[v] /\ UNCHANGED commit
           \/ /\ attempt'[v] = [attempt[v] EXCEPT !.alone = FALSE]
              /\ attempt[v].pc = "idle" \/ overlapped
    PROVE  SoundAttempt(v)' /\ SoundReach(v)'
<1> DEFINE a == attempt[v]
           b == attempt'[v]
<1>1. /\ SoundAttempt(v) /\ SoundReach(v) /\ a \in Attempt
      /\ \A c \in Shas : commit[c].status = "absent" <=> commit[c].run = 0
  BY AttemptFields DEF IngestionInv
<1>2. /\ b.pc = a.pc /\ b.number = a.number /\ b.start = a.start
      /\ b.inserted = a.inserted /\ b.listing = a.listing /\ b.new = a.new
      /\ b.revision = a.revision
      /\ b.alone => a.alone /\ UNCHANGED commit
  BY <1>1 DEF Attempt
<1>3. \A c : InWindow(v, c)' <=> InWindow(v, c)
  BY <1>2 DEF InWindow
<1>4. SoundAttempt(v)'
  <2>1. b.pc \in {"idle", "list", "find"} => b.new = {}
    BY <1>1, <1>2 DEF SoundAttempt
  <2>2. b.pc # "idle" =>
          b.number # 0 /\ b.inserted <= Cardinality(StoredBy(commit', b.number))
    <3>1. CASE a.pc # "idle"
      <4>1. a.number # 0 /\ a.inserted <= Cardinality(StoredBy(commit, a.number))
        BY <1>1, <3>1 DEF SoundAttempt
      <4>2. Cardinality(StoredBy(commit, a.number))
              <= Cardinality(StoredBy(commit', a.number))
            /\ Cardinality(StoredBy(commit, a.number)) \in Nat
            /\ Cardinality(StoredBy(commit', a.number)) \in Nat
        BY <4>1, StoredGrows
      <4>3. b.number = a.number
        BY <1>2
      <4>4. a.inserted \in Nat
        BY <1>1 DEF Attempt
      <4> QED BY <1>2, <4>1, <4>2, <4>3, <4>4
    <3> QED BY <1>2, <3>1
  <2>3. b.listing \subseteq branch' \cup gone' /\ b.new \subseteq b.listing
    BY <1>1, <1>2 DEF SoundAttempt, HistoryGrows
  <2>4. \A c \in b.listing : InWindow(v, c)'
    BY <1>1, <1>2, <1>3 DEF SoundAttempt
  <2>5. b.revision <= merged'
    <3>1. a.revision \in Nat /\ merged \in Nat
      BY <1>1 DEF Attempt, IngestionInv, IngestionTypes
    <3> QED BY <1>1, <1>2, <3>1 DEF SoundAttempt, HistoryGrows
  <2>6. /\ b.pc = "store" => b.listing \subseteq Stored' \cup b.new
        /\ b.pc \in Updating => b.listing \subseteq Stored'
    BY <1>1, <1>2, StoredGrows DEF SoundAttempt
  <2>7. b.pc = "finish" /\ b.revision > 0 => pull' > 0
    BY <1>1, <1>2 DEF SoundAttempt, HistoryGrows
  <2> QED BY <2>1, <2>2, <2>3, <2>4, <2>5, <2>6, <2>7 DEF SoundAttempt
<1>5. SoundReach(v)'
  <2>1. b.pc \in {"find", "store"} /\ ~overlapped' =>
          \A c \in Stored' \ b.listing : InWindow(v, c)' => c \in gone'
    <3>1. CASE attempt'[v] = attempt[v] /\ UNCHANGED commit
      <4>1. Stored' = Stored
        BY <3>1 DEF Stored
      <4> QED BY <1>1, <1>2, <1>3, <4>1 DEF SoundReach, HistoryGrows
    <3>2. CASE attempt[v].pc = "idle" \/ overlapped
      BY <1>2, <3>2 DEF HistoryGrows
    <3> QED BY <3>1, <3>2
  <2>2. b.pc = "clear" /\ b.alone =>
          \A c \in Unlisted(v)' : commit'[c].status # "reachable"
    <3>1. Unlisted(v)' = Unlisted(v)
      BY <1>2, <1>3 DEF Unlisted
    <3> QED BY <1>1, <1>2, <3>1 DEF SoundReach
  <2>3. b.pc \in {"pulls", "merge", "finish"} /\ b.alone =>
          {c \in Shas : commit'[c].status = "reachable" /\ InWindow(v, c)'}
              = b.listing
    <3>1. CASE b.alone /\ b.pc \in {"pulls", "merge", "finish"}
      <4>1. {c \in Shas : commit[c].status = "reachable" /\ InWindow(v, c)}
              = a.listing
        BY <1>1, <1>2, <3>1 DEF SoundReach
      <4> QED BY <1>2, <1>3, <3>1, <4>1
    <3> QED BY <3>1
  <2> QED BY <2>1, <2>2, <2>3 DEF SoundReach
<1> QED BY <1>4, <1>5

LEMMA IdleKnowsAll ==
    ASSUME NEW w \in Ingesters, attempt'[w] = NoAttempt, HistoryGrows
    PROVE  SoundAttempt(w)' /\ SoundReach(w)'
BY NoAttemptType DEF SoundAttempt, SoundReach, Updating, HistoryGrows

-----------------------------------------------------------------------------
(* What an attempt knows after its own step                                  *)

\* A step that leaves the run, and stores nothing: the count is kept.
LEMMA CountKept ==
    ASSUME IngestionInv, RowsStay, NEW w \in Ingesters, attempt[w].pc # "idle",
           SameWork(attempt'[w], attempt[w]),
           attempt'[w].inserted = attempt[w].inserted
    PROVE  /\ attempt'[w].number # 0
           /\ attempt'[w].inserted
                <= Cardinality(StoredBy(commit', attempt'[w].number))
<1> DEFINE a == attempt[w]
           m == Cardinality(StoredBy(commit, a.number))
           n == Cardinality(StoredBy(commit', a.number))
<1>1. a.number # 0 /\ a.inserted <= m /\ a.inserted \in Nat
  BY AttemptFields DEF IngestionInv, SoundAttempt
<1>2. m \in Nat /\ n \in Nat /\ m <= n
  BY <1>1, StoredGrows
<1>3. attempt'[w].number = a.number /\ attempt'[w].inserted = a.inserted
  BY DEF SameWork
<1>4. a.inserted <= n
  <2> HIDE DEF m, n
  <2> QED BY <1>1, <1>2
<1> QED BY <1>1, <1>3, <1>4

LEMMA SameWindow ==
    ASSUME NEW w \in Ingesters, SameWork(attempt'[w], attempt[w])
    PROVE  \A c : InWindow(w, c)' <=> InWindow(w, c)
BY DEF SameWork, InWindow

LEMMA ListKnows ==
    ASSUME IngestionInv, RowsStay, HistoryGrows, NEW w \in Ingesters,
           ListCommits(w)
    PROVE  SoundAttempt(w)' /\ SoundReach(w)'
<1>1. /\ UNCHANGED <<branch, gone, merged, commit>>
      /\ attempt[w].pc = "list"
  BY DEF ListCommits, githubVars, evidenceVars
<1>2. /\ SoundAttempt(w) /\ IngestionTypes /\ Stored \subseteq branch \cup gone
  BY DEF IngestionInv
<1>3. /\ attempt'[w].pc = "find" /\ attempt'[w].listing = Listing(w)
      /\ SameWork(attempt'[w], attempt[w])
      /\ attempt'[w].new = attempt[w].new
      /\ attempt'[w].revision = attempt[w].revision
      /\ attempt'[w].inserted = attempt[w].inserted
  BY <1>2, ListedAttempt
<1>4. /\ attempt'[w].number # 0
      /\ attempt'[w].inserted
           <= Cardinality(StoredBy(commit', attempt'[w].number))
  BY <1>1, <1>3, CountKept
<1>5. \A c : InWindow(w, c)' <=> InWindow(w, c)
  BY <1>3, SameWindow
<1>6. attempt[w].new = {} /\ attempt[w].revision <= merged
  BY <1>1, <1>2 DEF SoundAttempt
<1>7. SoundAttempt(w)'
  <2>1. /\ attempt'[w].listing \subseteq branch'
        /\ \A c \in attempt'[w].listing : InWindow(w, c)'
    BY <1>1, <1>3, <1>5 DEF Listing
  <2> QED BY <1>1, <1>3, <1>4, <1>6, <2>1 DEF SoundAttempt, Updating
<1>8. SoundReach(w)'
  <2>1. ASSUME NEW c \in Stored' \ attempt'[w].listing, InWindow(w, c)'
        PROVE  c \in gone'
    <3>1. c \in Stored /\ InWindow(w, c) /\ c \notin Listing(w)
      BY <1>1, <1>3, <1>5, <2>1 DEF Stored
    <3> QED BY <1>1, <1>2, <3>1 DEF Listing
  <2> QED BY <1>3, <2>1 DEF SoundReach
<1> QED BY <1>7, <1>8

LEMMA FindKnows ==
    ASSUME IngestionInv, RowsStay, HistoryGrows, NEW w \in Ingesters,
           FindCommits(w)
    PROVE  SoundAttempt(w)' /\ SoundReach(w)'
<1>1. /\ UNCHANGED <<branch, gone, merged, commit, overlapped>>
      /\ attempt[w].pc = "find"
  BY DEF FindCommits, githubVars, evidenceVars
<1>2. SoundAttempt(w) /\ SoundReach(w) /\ IngestionTypes
  BY DEF IngestionInv
<1>3. /\ attempt'[w].pc = "store"
      /\ attempt'[w].new = attempt[w].listing \ Stored
      /\ SameWork(attempt'[w], attempt[w])
      /\ attempt'[w].listing = attempt[w].listing
      /\ attempt'[w].revision = attempt[w].revision
      /\ attempt'[w].inserted = attempt[w].inserted
  BY <1>2, FoundAttempt DEF SameListing
<1>4. /\ attempt'[w].number # 0
      /\ attempt'[w].inserted
           <= Cardinality(StoredBy(commit', attempt'[w].number))
  BY <1>1, <1>3, CountKept
<1>5. \A c : InWindow(w, c)' <=> InWindow(w, c)
  BY <1>3, SameWindow
<1>6. Stored' = Stored
  BY <1>1 DEF Stored
<1>7. SoundAttempt(w)'
  BY <1>1, <1>2, <1>3, <1>4, <1>5, <1>6 DEF SoundAttempt, Updating
<1>8. SoundReach(w)'
  BY <1>1, <1>2, <1>3, <1>5, <1>6 DEF SoundReach
<1> QED BY <1>7, <1>8

LEMMA StoreKnows ==
    ASSUME IngestionInv, RowsStay, HistoryGrows, NEW w \in Ingesters,
           commit' \in [Shas -> Commit], StoreCommit(w)
    PROVE  /\ SoundAttempt(w)' /\ SoundReach(w)'
           /\ Stored' \subseteq branch' \cup gone'
<1> DEFINE c == Max(attempt[w].new)
           a == attempt[w]
<1>1. /\ UNCHANGED <<branch, gone, merged, overlapped>>
      /\ a.pc = "store"
      /\ commit' = IF c \in Stored THEN commit
                   ELSE [commit EXCEPT ![c] =
                           [status |-> "reachable", run |-> a.number]]
  BY DEF StoreCommit, githubVars
<1>2. /\ SoundAttempt(w) /\ SoundReach(w) /\ IngestionTypes
      /\ Stored \subseteq branch \cup gone
      /\ a.inserted \in Nat /\ a.new \subseteq Shas
      /\ \A x \in Shas : commit[x].status = "absent" <=> commit[x].run = 0
  BY AttemptFields DEF IngestionInv
<1>3. /\ attempt'[w].pc = "store"
      /\ c \in a.new
      /\ attempt'[w].new = a.new \ {c}
      /\ SameWork(attempt'[w], a)
      /\ attempt'[w].listing = a.listing
      /\ attempt'[w].revision = a.revision
      /\ attempt'[w].inserted
           = IF Counted(c) THEN a.inserted + 1 ELSE a.inserted
  BY <1>2, StoredAttempt DEF SameListing
<1> HIDE DEF c
<1>4. /\ c \in Stored' /\ c \in Shas /\ Stored' = Stored \cup {c}
      /\ c \in a.listing
  <2>1. c \in Shas /\ c \in a.listing
    BY <1>2, <1>3 DEF SoundAttempt
  <2>2. CASE c \in Stored
    BY <1>1, <2>1, <2>2 DEF Stored
  <2>3. CASE c \notin Stored
    <3>1. \A x \in Shas : commit'[x] =
            IF x = c THEN [status |-> "reachable", run |-> a.number]
                     ELSE commit[x]
      BY <1>1, <1>2, <2>3 DEF IngestionTypes
    <3> QED BY <2>1, <3>1 DEF Stored
  <2> QED BY <2>1, <2>2, <2>3
<1>5. \A x : InWindow(w, x)' <=> InWindow(w, x)
  BY <1>3, SameWindow
<1>6. /\ attempt'[w].number = a.number /\ a.number # 0
      /\ a.inserted <= Cardinality(StoredBy(commit, a.number))
  BY <1>1, <1>2, <1>3 DEF SoundAttempt, SameWork
<1>7. attempt'[w].inserted <= Cardinality(StoredBy(commit', a.number))
  <2> DEFINE m == Cardinality(StoredBy(commit, a.number))
             n == Cardinality(StoredBy(commit', a.number))
  <2>1. m \in Nat /\ n \in Nat /\ m <= n
    BY <1>6, StoredGrows
  <2>2. CASE ~Counted(c)
    <3> HIDE DEF m, n
    <3>1. attempt'[w].inserted = a.inserted
      BY <1>3, <2>2
    <3> USE DEF m, n
    <3> QED BY <1>2, <1>6, <2>1, <3>1
  <2>3. CASE Counted(c)
    <3>1. /\ c \notin StoredBy(commit, a.number)
          /\ StoredBy(commit', a.number) = StoredBy(commit, a.number) \cup {c}
      <4>1. c \notin Stored
        BY <2>3 DEF Counted
      <4>2. \A x \in Shas : commit'[x] =
              IF x = c THEN [status |-> "reachable", run |-> a.number]
                       ELSE commit[x]
        BY <1>1, <1>2, <4>1 DEF IngestionTypes
      <4>3. commit[c].run = 0
        BY <1>2, <1>4, <4>1 DEF Stored
      <4> QED BY <1>4, <1>6, <4>2, <4>3 DEF StoredBy
    <3>2. IsFiniteSet(StoredBy(commit, a.number))
      BY IngestionAssumption, FS_Subset DEF StoredBy
    <3>3. n = m + 1
      BY <3>1, <3>2, FS_AddElement
    <3>4. attempt'[w].inserted = a.inserted + 1
      BY <1>3, <2>3
    <3> QED BY <1>2, <1>6, <2>1, <3>3, <3>4
  <2> QED BY <2>2, <2>3
<1>8. Stored' \subseteq branch' \cup gone'
  BY <1>1, <1>2, <1>4 DEF SoundAttempt
<1>9. SoundAttempt(w)'
  BY <1>1, <1>2, <1>3, <1>4, <1>5, <1>6, <1>7 DEF SoundAttempt, Updating
<1>10. SoundReach(w)'
  <2>1. ASSUME NEW x \in Stored' \ attempt'[w].listing, InWindow(w, x)',
               ~overlapped
        PROVE  x \in gone'
    <3>1. x \in Stored \ a.listing /\ InWindow(w, x)
      BY <1>3, <1>4, <1>5, <2>1
    <3> QED BY <1>1, <1>2, <2>1, <3>1 DEF SoundReach
  <2> QED BY <1>1, <1>3, <2>1 DEF SoundReach
<1> QED BY <1>8, <1>9, <1>10

\* A row after a statement of updateReachability.
LEMMA Reached ==
    ASSUME IngestionTypes, NEW S, NEW from \in {"reachable", "orphaned"},
           NEW to \in {"reachable", "orphaned"}, Reach(S, from, to), NEW c \in Shas
    PROVE  commit'[c].status =
             IF c \in S /\ commit[c].status = from THEN to ELSE commit[c].status
<1>1. commit[c] \in Commit
  BY DEF IngestionTypes
<1>2. commit'[c] = IF c \in S /\ commit[c].status = from
                   THEN [commit[c] EXCEPT !.status = to] ELSE commit[c]
  BY DEF Reach
<1> QED BY <1>1, <1>2 DEF Commit

LEMMA MarkKnows ==
    ASSUME IngestionInv, RowsStay, HistoryGrows, NEW w \in Ingesters,
           MarkOrphans(w)
    PROVE  /\ SoundAttempt(w)' /\ SoundReach(w)'
           /\ Stored' = Stored
           /\ NoFalseOrphans'
<1>1. /\ UNCHANGED <<branch, gone, merged, overlapped>>
      /\ attempt[w].pc = "store"
      /\ Reach(Unlisted(w), "reachable", "orphaned")
  BY DEF MarkOrphans, githubVars
<1>2. SoundAttempt(w) /\ SoundReach(w) /\ IngestionTypes /\ NoFalseOrphans
  BY DEF IngestionInv
<1>3. /\ attempt'[w].pc = "clear"
      /\ attempt'[w].new = {} /\ attempt[w].new = {}
      /\ SameWork(attempt'[w], attempt[w])
      /\ attempt'[w].listing = attempt[w].listing
      /\ attempt'[w].revision = attempt[w].revision
      /\ attempt'[w].inserted = attempt[w].inserted
  BY <1>2, MarkedAttempt DEF SameListing, MovedOn
<1>4. /\ attempt'[w].number # 0
      /\ attempt'[w].inserted
           <= Cardinality(StoredBy(commit', attempt'[w].number))
  BY <1>1, <1>3, CountKept
<1>5. \A c : InWindow(w, c)' <=> InWindow(w, c)
  BY <1>3, SameWindow
<1>6. \A c \in Shas : commit'[c].status =
        IF c \in Unlisted(w) /\ commit[c].status = "reachable"
        THEN "orphaned" ELSE commit[c].status
  BY <1>1, <1>2, Reached
<1>7. Stored' = Stored
  BY <1>6 DEF Stored
<1>8. SoundAttempt(w)'
  BY <1>1, <1>2, <1>3, <1>4, <1>5, <1>7 DEF SoundAttempt, Updating
<1>9. SoundReach(w)'
  <2>1. Unlisted(w)' = Unlisted(w)
    BY <1>3, <1>5 DEF Unlisted
  <2>2. \A c \in Unlisted(w)' : commit'[c].status # "reachable"
    BY <1>6, <2>1 DEF Unlisted
  <2> QED BY <1>3, <2>2 DEF SoundReach
<1>10. NoFalseOrphans'
  <2> SUFFICES ASSUME ~overlapped', NEW c \in Shas, commit'[c].status = "orphaned"
               PROVE  c \in gone'
    BY DEF NoFalseOrphans
  <2>1. CASE commit[c].status = "orphaned"
    BY <1>1, <1>2, <2>1 DEF NoFalseOrphans
  <2>2. CASE commit[c].status # "orphaned"
    <3>1. c \in Unlisted(w) /\ commit[c].status = "reachable"
      BY <1>6, <2>2
    <3>2. c \in Stored \ attempt[w].listing /\ InWindow(w, c)
      BY <3>1 DEF Stored, Unlisted
    <3> QED BY <1>1, <1>2, <3>2 DEF SoundReach
  <2> QED BY <2>1, <2>2
<1> QED BY <1>7, <1>8, <1>9, <1>10

LEMMA ClearKnows ==
    ASSUME IngestionInv, RowsStay, HistoryGrows, NEW w \in Ingesters,
           ClearOrphans(w)
    PROVE  /\ SoundAttempt(w)' /\ SoundReach(w)'
           /\ Stored' = Stored
           /\ NoFalseOrphans'
<1>1. /\ UNCHANGED <<branch, gone, merged, overlapped>>
      /\ attempt[w].pc = "clear"
      /\ Reach(attempt[w].listing, "orphaned", "reachable")
  BY DEF ClearOrphans, githubVars, Listed
<1>2. SoundAttempt(w) /\ SoundReach(w) /\ IngestionTypes /\ NoFalseOrphans
  BY DEF IngestionInv
<1>3. /\ attempt'[w].pc = "pulls"
      /\ attempt'[w].new = attempt[w].new
      /\ SameWork(attempt'[w], attempt[w])
      /\ attempt'[w].listing = attempt[w].listing
      /\ attempt'[w].alone = attempt[w].alone
      /\ attempt'[w].revision = attempt[w].revision
      /\ attempt'[w].inserted = attempt[w].inserted
  BY <1>2, ClearedAttempt DEF SameListing, MovedOn
<1>4. /\ attempt'[w].number # 0
      /\ attempt'[w].inserted
           <= Cardinality(StoredBy(commit', attempt'[w].number))
  BY <1>1, <1>3, CountKept
<1>5. \A c : InWindow(w, c)' <=> InWindow(w, c)
  BY <1>3, SameWindow
<1>6. \A c \in Shas : commit'[c].status =
        IF c \in attempt[w].listing /\ commit[c].status = "orphaned"
        THEN "reachable" ELSE commit[c].status
  BY <1>1, <1>2, Reached
<1>7. Stored' = Stored
  BY <1>6 DEF Stored
<1>8. SoundAttempt(w)'
  BY <1>1, <1>2, <1>3, <1>4, <1>5, <1>7 DEF SoundAttempt, Updating
<1>9. SoundReach(w)'
  <2>1. ASSUME attempt'[w].alone, NEW c \in Shas
        PROVE  commit'[c].status = "reachable" /\ InWindow(w, c)'
                 <=> c \in attempt'[w].listing
    <3>1. CASE c \in attempt[w].listing
      <4>1. InWindow(w, c) /\ c \in Stored
        BY <1>1, <1>2, <3>1 DEF SoundAttempt, Updating
      <4>2. commit[c].status \in {"reachable", "orphaned"}
        BY <1>2, <4>1 DEF Stored, IngestionTypes, Commit
      <4> QED BY <1>3, <1>5, <1>6, <3>1, <4>1, <4>2
    <3>2. CASE c \notin attempt[w].listing
      <4>1. InWindow(w, c) => c \in Unlisted(w)
        BY <3>2 DEF Unlisted
      <4>2. InWindow(w, c) => commit[c].status # "reachable"
        BY <1>1, <1>2, <1>3, <2>1, <4>1 DEF SoundReach
      <4> QED BY <1>3, <1>5, <1>6, <3>2, <4>2
    <3> QED BY <3>1, <3>2
  <2>2. attempt'[w].listing \subseteq Shas
    BY <1>2, <1>3, AttemptFields
  <2> QED BY <1>3, <2>1, <2>2 DEF SoundReach
<1>10. NoFalseOrphans'
  BY <1>1, <1>2, <1>6 DEF NoFalseOrphans
<1> QED BY <1>7, <1>8, <1>9, <1>10

LEMMA PullsKnow ==
    ASSUME IngestionInv, RowsStay, HistoryGrows, NEW w \in Ingesters,
           ListPulls(w) \/ StorePull(w)
    PROVE  SoundAttempt(w)' /\ SoundReach(w)'
<1>1. UNCHANGED <<branch, gone, merged, commit, overlapped>>
  BY DEF ListPulls, StorePull, githubVars, evidenceVars
<1>2. SoundAttempt(w) /\ SoundReach(w) /\ IngestionTypes
  BY DEF IngestionInv
<1>3. /\ attempt[w].pc \in {"pulls", "merge"}
      /\ attempt'[w].pc \in {"merge", "finish"}
      /\ attempt'[w].new = attempt[w].new
      /\ SameWork(attempt'[w], attempt[w])
      /\ attempt'[w].listing = attempt[w].listing
      /\ attempt'[w].alone = attempt[w].alone
      /\ attempt'[w].inserted = attempt[w].inserted
  BY <1>2, PulledAttempt, MergedAttempt
     DEF SameListing, MovedOn, ListPulls, StorePull
<1>4. /\ attempt'[w].number # 0
      /\ attempt'[w].inserted
           <= Cardinality(StoredBy(commit', attempt'[w].number))
  BY <1>1, <1>3, CountKept
<1>5. \A c : InWindow(w, c)' <=> InWindow(w, c)
  BY <1>3, SameWindow
<1>6. Stored' = Stored
  BY <1>1 DEF Stored
<1>7. attempt'[w].revision \in Nat /\ attempt'[w].revision <= merged'
      /\ (attempt'[w].pc = "finish" /\ attempt'[w].revision > 0 => pull' > 0)
  <2>1. attempt[w].revision \in Nat /\ attempt[w].revision <= merged
    BY <1>2, AttemptFields DEF SoundAttempt
  <2>2. CASE ListPulls(w)
    <3>1. attempt'[w].revision = merged /\ attempt'[w].pc = "merge"
      BY <1>2, <2>2, PulledAttempt DEF MovedOn
    <3> QED BY <1>1, <1>2, <3>1 DEF IngestionTypes
  <2>3. CASE StorePull(w)
    <3>1. attempt'[w].revision = attempt[w].revision
      BY <1>2, <2>3, MergedAttempt
    <3>2. pull' = IF attempt[w].revision = 0 THEN pull ELSE attempt[w].revision
      BY <2>3 DEF StorePull
    <3> QED BY <1>1, <2>1, <3>1, <3>2
  <2> QED BY <2>2, <2>3
<1>8. SoundAttempt(w)'
  BY <1>1, <1>2, <1>3, <1>4, <1>5, <1>6, <1>7 DEF SoundAttempt, Updating
<1>9. SoundReach(w)'
  <2>1. attempt'[w].alone =>
          {c \in Shas : commit[c].status = "reachable" /\ InWindow(w, c)}
              = attempt[w].listing
    BY <1>2, <1>3 DEF SoundReach
  <2> QED BY <1>1, <1>3, <1>5, <2>1 DEF SoundReach
<1> QED BY <1>8, <1>9

LEMMA ClaimKnows ==
    ASSUME IngestionInv, RowsStay, HistoryGrows, NEW w \in Ingesters,
           ClaimRun(w)
    PROVE  SoundAttempt(w)' /\ SoundReach(w)'
<1>1. UNCHANGED <<branch, gone, merged, commit>>
  BY DEF ClaimRun, githubVars, evidenceVars
<1>2. IngestionTypes /\ CountersAreEarned
  BY DEF IngestionInv
<1>3. /\ attempt'[w].pc = "list" /\ attempt'[w].number = syncRun.number
      /\ attempt'[w].inserted = syncRun.inserted
      /\ attempt'[w].listing = {} /\ attempt'[w].new = {}
      /\ attempt'[w].revision = 0
  BY <1>2, ClaimedAttempt
<1>4. syncRun.number # 0 /\ 0 <= merged
  BY <1>2, LastWindow DEF IngestionTypes, SyncRun
<1>5. syncRun.inserted <= Cardinality(StoredBy(commit', syncRun.number))
  BY <1>1, <1>2 DEF CountersAreEarned, StoredBy
<1>6. SoundAttempt(w)'
  BY <1>1, <1>3, <1>4, <1>5 DEF SoundAttempt, Updating
<1>7. SoundReach(w)'
  BY <1>3 DEF SoundReach
<1> QED BY <1>6, <1>7

-----------------------------------------------------------------------------
(* The run and its counters                                                  *)

RunSound == /\ syncRun \in SyncRun
            /\ syncRun.inserted <= syncRun.discovered
            /\ CountersAreEarned

LEMMA RunKept ==
    ASSUME IngestionInv, RowsStay, [IngestionNext]_ingestionVars
    PROVE  RunSound'
<1>1. IngestionTypes /\ RunSound
  BY DEF IngestionInv, RunSound, IngestionTypes
<1>2. \A n : n # 0 => /\ Cardinality(StoredBy(commit, n)) \in Nat
                      /\ Cardinality(StoredBy(commit', n)) \in Nat
                      /\ Cardinality(StoredBy(commit, n))
                           <= Cardinality(StoredBy(commit', n))
  BY StoredGrows
<1>3. /\ syncRun.number # 0 /\ syncRun.inserted \in Nat
      /\ syncRun.inserted <= Cardinality(StoredBy(commit, syncRun.number))
  BY <1>1, LastWindow DEF RunSound, SyncRun, CountersAreEarned, StoredBy
<1>4. ASSUME NEW r \in SyncRun, syncRun' = r, r.number = syncRun.number,
             r.discovered = syncRun.discovered, r.inserted = syncRun.inserted
      PROVE  RunSound'
  <2>1. syncRun.inserted
          <= Cardinality(StoredBy(commit', syncRun.number))
    <3> DEFINE m == Cardinality(StoredBy(commit, syncRun.number))
               n == Cardinality(StoredBy(commit', syncRun.number))
    <3>1. m \in Nat /\ n \in Nat /\ m <= n /\ syncRun.inserted <= m
      BY <1>2, <1>3
    <3> HIDE DEF m, n
    <3>2. syncRun.inserted <= n
      BY <1>3, <3>1
    <3> QED BY <3>2 DEF n
  <2> QED BY <1>1, <1>4, <2>1 DEF RunSound, CountersAreEarned, StoredBy
<1>5. ASSUME UNCHANGED syncRun
      PROVE  RunSound'
  BY <1>1, <1>4, <1>5 DEF RunSound
<1>6. ASSUME NEW w \in Ingesters, ClaimRun(w)
      PROVE  RunSound'
  BY <1>1, <1>4, <1>6, ClaimedAttempt
<1>7. ASSUME NextRun
      PROVE  RunSound'
  <2>1. PICK s \in Int : syncRun' = Run(syncRun.number + 1, s)
    <3>1. boundary \in Int /\ FirstStart \in Int /\ WindowOverlap \in Int
      BY <1>1, IngestionAssumption DEF IngestionTypes
    <3>2. (IF boundary = NoBoundary THEN FirstStart ELSE boundary - WindowOverlap)
            \in Int
      BY <3>1
    <3> QED BY <1>7, <3>2 DEF NextRun
  <2>2. syncRun.number + 1 \in DOMAIN WindowEnds
    BY <1>7 DEF NextRun
  <2>3. syncRun' \in SyncRun /\ syncRun'.inserted = 0 /\ syncRun'.discovered = 0
    BY <2>1, <2>2, IngestionAssumption DEF Run, SyncRun
  <2>4. syncRun'.number # 0 /\ syncRun'.inserted <= syncRun'.discovered
    BY <2>3, LastWindow DEF SyncRun
  <2>5. 0 <= Cardinality(StoredBy(commit', syncRun'.number))
    BY <1>2, <2>4
  <2> QED BY <2>3, <2>4, <2>5 DEF RunSound, CountersAreEarned, StoredBy
<1>8. ASSUME NEW w \in Ingesters, HoldsLease(w), RowAccepted(w),
             attempt[w].pc # "idle",
             NEW status \in {"succeeded", "failed_retryable", "failed_terminal"},
             syncRun' = [syncRun EXCEPT !.status = status,
                           !.discovered = attempt[w].discovered,
                           !.inserted = attempt[w].inserted]
      PROVE  RunSound'
  <2>1. /\ syncRun' \in SyncRun
        /\ syncRun'.number = attempt[w].number
        /\ syncRun'.discovered = attempt[w].discovered
        /\ syncRun'.inserted = attempt[w].inserted
    BY <1>1, <1>8, EndedRun
  <2>2. /\ attempt[w].number # 0 /\ attempt[w].inserted \in Nat
        /\ attempt[w].inserted <= Cardinality(StoredBy(commit, attempt[w].number))
    BY <1>1, <1>8, AttemptFields DEF IngestionInv, SoundAttempt
  <2>3. attempt[w].inserted <= Cardinality(StoredBy(commit', attempt[w].number))
    <3> DEFINE m == Cardinality(StoredBy(commit, attempt[w].number))
               n == Cardinality(StoredBy(commit', attempt[w].number))
    <3>1. m \in Nat /\ n \in Nat /\ m <= n /\ attempt[w].inserted <= m
      BY <1>2, <2>2
    <3> HIDE DEF m, n
    <3>2. attempt[w].inserted <= n
      BY <2>2, <3>1
    <3> QED BY <3>2 DEF n
  <2> QED BY <1>8, <2>1, <2>3
          DEF RunSound, CountersAreEarned, StoredBy, RowAccepted
<1>9. ASSUME NEW w \in Ingesters, FinishRun(w) \/ AttemptFailed(w)
      PROVE  RunSound'
  <2>1. CASE FinishRun(w)
    BY <1>8, <2>1 DEF FinishRun
  <2>2. CASE AttemptFailed(w)
    BY <1>5, <1>8, <2>2 DEF AttemptFailed
  <2> QED BY <1>9, <2>1, <2>2
<1>10. ASSUME NEW w \in Ingesters,
             \/ AttemptDies(w) \/ ListCommits(w) \/ FindCommits(w)
             \/ StoreCommit(w) \/ MarkOrphans(w) \/ ClearOrphans(w)
             \/ ListPulls(w) \/ StorePull(w) \/ FinishRefused(w)
      PROVE  UNCHANGED syncRun
  BY <1>10 DEF AttemptDies, ListCommits, FindCommits, StoreCommit, MarkOrphans,
     ClearOrphans, ListPulls, StorePull, FinishRefused
<1>11. ASSUME \/ Merge \/ UNCHANGED ingestionVars
              \/ \E c \in Shas : Push(c) \/ Rewrite(c)
       PROVE  UNCHANGED syncRun
  BY <1>11 DEF Merge, Push, Rewrite, ingestionVars
<1> QED BY <1>5, <1>6, <1>7, <1>9, <1>10, <1>11 DEF IngestionNext, IngestionStep

-----------------------------------------------------------------------------
(* Every attempt                                                             *)

AttemptsSound ==
    /\ attempt \in [Ingesters -> Attempt]
    /\ \A v, w \in Ingesters :
         attempt[v].pc # "idle" /\ attempt[w].pc # "idle" /\ v # w => overlapped
    /\ \A w \in Ingesters : SoundAttempt(w) /\ SoundReach(w)
    /\ Stored \subseteq branch \cup gone
    /\ NoFalseOrphans

\* A step of w that writes no commits.
LEMMA QuietStep ==
    ASSUME IngestionInv, RowsStay, HistoryGrows, NEW w \in Ingesters,
           attempt' \in [Ingesters -> Attempt], Keeps(w), UNCHANGED commit,
           SoundAttempt(w)' /\ SoundReach(w)',
           \/ attempt[w].pc # "idle" \/ attempt'[w].pc = "idle"
           \/ \A v \in Ingesters : attempt[v].pc # "idle" => overlapped'
    PROVE  AttemptsSound'
<1>1. \A v \in Ingesters : SoundAttempt(v)' /\ SoundReach(v)'
  <2> SUFFICES ASSUME NEW v \in Ingesters, v # w
               PROVE  SoundAttempt(v)' /\ SoundReach(v)'
    OBVIOUS
  <2> QED BY OthersKept DEF Keeps
<1>2. ASSUME NEW u \in Ingesters, NEW v \in Ingesters, u # v,
             attempt'[u].pc # "idle", attempt'[v].pc # "idle"
      PROVE  overlapped'
  BY <1>2 DEF Keeps, IngestionInv, HistoryGrows
<1>3. Stored' = Stored
  BY DEF Stored
<1>4. Stored' \subseteq branch' \cup gone'
  BY <1>3 DEF IngestionInv, HistoryGrows
<1>5. NoFalseOrphans'
  BY DEF IngestionInv, NoFalseOrphans, HistoryGrows
<1> QED BY <1>1, <1>2, <1>4, <1>5 DEF AttemptsSound

\* A write of commits by w.
LEMMA WritingStep ==
    ASSUME IngestionInv, RowsStay, HistoryGrows, NEW w \in Ingesters,
           attempt' \in [Ingesters -> Attempt], Marks(w),
           attempt[w].pc # "idle", UNCHANGED overlapped,
           SoundAttempt(w)' /\ SoundReach(w)',
           Stored' \subseteq branch' \cup gone', NoFalseOrphans'
    PROVE  AttemptsSound'
<1>1. ASSUME NEW v \in Ingesters, v # w
      PROVE  /\ attempt'[v] = [attempt[v] EXCEPT !.alone = FALSE]
             /\ attempt'[v].pc = attempt[v].pc
             /\ attempt[v].pc = "idle" \/ overlapped
  <2>1. attempt'[v] = [attempt[v] EXCEPT !.alone = FALSE]
    BY <1>1 DEF Marks
  <2>2. attempt[v] \in Attempt
    BY AttemptFields DEF IngestionInv
  <2>3. attempt'[v].pc = attempt[v].pc
    BY <2>1, <2>2 DEF Attempt
  <2>4. attempt[v].pc = "idle" \/ overlapped
    BY <1>1 DEF IngestionInv
  <2> QED BY <2>1, <2>3, <2>4
<1>2. \A v \in Ingesters : SoundAttempt(v)' /\ SoundReach(v)'
  <2> SUFFICES ASSUME NEW v \in Ingesters, v # w
               PROVE  SoundAttempt(v)' /\ SoundReach(v)'
    OBVIOUS
  <2> QED BY <1>1, OthersKept
<1>3. ASSUME NEW u \in Ingesters, NEW v \in Ingesters, u # v,
             attempt'[u].pc # "idle", attempt'[v].pc # "idle"
      PROVE  overlapped'
  BY <1>1, <1>3
<1> QED BY <1>2, <1>3 DEF AttemptsSound

LEMMA AttemptsKept ==
    ASSUME IngestionInv, RowsStay, HistoryGrows, commit' \in [Shas -> Commit],
           [IngestionNext]_ingestionVars
    PROVE  AttemptsSound'
<1>1. IngestionTypes
  BY DEF IngestionInv
<1>2. ASSUME NEW w \in Ingesters, ClaimRun(w)
      PROVE  AttemptsSound'
  <2>1. /\ UNCHANGED commit
        /\ \A v \in Ingesters : attempt[v].pc # "idle" => overlapped'
    BY <1>2 DEF ClaimRun, evidenceVars
  <2> QED BY <1>1, <1>2, <2>1, ClaimedAttempt, ClaimKnows, QuietStep
<1>3. ASSUME NEW w \in Ingesters,
             \/ AttemptFailed(w) \/ AttemptDies(w)
             \/ FinishRun(w) \/ FinishRefused(w)
      PROVE  AttemptsSound'
  <2>1. UNCHANGED commit /\ EndAttempt(w)
    BY <1>3 DEF AttemptFailed, AttemptDies, FinishRun, FinishRefused,
       evidenceVars
  <2>2. /\ attempt' \in [Ingesters -> Attempt] /\ Keeps(w)
        /\ attempt'[w] = NoAttempt /\ attempt'[w].pc = "idle"
    BY <1>1, <2>1, EndedAttempt, NoAttemptType
  <2> QED BY <2>1, <2>2, IdleKnowsAll, QuietStep
<1>4. ASSUME NEW w \in Ingesters, ListCommits(w)
      PROVE  AttemptsSound'
  <2>1. UNCHANGED commit /\ attempt[w].pc # "idle"
    BY <1>4 DEF ListCommits, evidenceVars
  <2> QED BY <1>1, <1>4, <2>1, ListedAttempt, ListKnows, QuietStep
<1>5. ASSUME NEW w \in Ingesters, FindCommits(w)
      PROVE  AttemptsSound'
  <2>1. UNCHANGED commit /\ attempt[w].pc # "idle"
    BY <1>5 DEF FindCommits, evidenceVars
  <2> QED BY <1>1, <1>5, <2>1, FoundAttempt, FindKnows, QuietStep
<1>6. ASSUME NEW w \in Ingesters, ListPulls(w) \/ StorePull(w)
      PROVE  AttemptsSound'
  <2>1. UNCHANGED commit /\ attempt[w].pc # "idle"
    BY <1>6 DEF ListPulls, StorePull, evidenceVars
  <2>2. attempt' \in [Ingesters -> Attempt] /\ Keeps(w)
    BY <1>1, <1>6, PulledAttempt, MergedAttempt DEF MovedOn
  <2> QED BY <1>6, <2>1, <2>2, PullsKnow, QuietStep
<1>7. ASSUME NEW w \in Ingesters, StoreCommit(w)
      PROVE  AttemptsSound'
  <2>1. /\ attempt[w].pc # "idle" /\ UNCHANGED <<overlapped, gone>>
    BY <1>7 DEF StoreCommit, githubVars
  <2>2. attempt' \in [Ingesters -> Attempt] /\ Marks(w)
    BY <1>1, <1>7, StoredAttempt
  <2>3. NoFalseOrphans'
    <3> DEFINE x == Max(attempt[w].new)
    <3>1. /\ commit' = IF x \in Stored THEN commit
                       ELSE [commit EXCEPT ![x] =
                               [status |-> "reachable", run |-> attempt[w].number]]
          /\ commit \in [Shas -> Commit]
      BY <1>1, <1>7 DEF StoreCommit, IngestionTypes
    <3> HIDE DEF x
    <3>2. \A c \in Shas : commit'[c].status = "orphaned" =>
            commit[c].status = "orphaned"
      BY <3>1
    <3> QED BY <2>1, <3>2 DEF IngestionInv, NoFalseOrphans
  <2> QED BY <1>7, <2>1, <2>2, <2>3, StoreKnows, WritingStep
<1>8. ASSUME NEW w \in Ingesters, MarkOrphans(w) \/ ClearOrphans(w)
      PROVE  AttemptsSound'
  <2>1. /\ attempt[w].pc # "idle" /\ UNCHANGED overlapped
    BY <1>8 DEF MarkOrphans, ClearOrphans
  <2>2. attempt' \in [Ingesters -> Attempt] /\ Marks(w)
    BY <1>1, <1>8, MarkedAttempt, ClearedAttempt DEF MovedOn
  <2>3. /\ SoundAttempt(w)' /\ SoundReach(w)'
        /\ Stored' = Stored /\ NoFalseOrphans'
    BY <1>8, MarkKnows, ClearKnows
  <2>4. Stored' \subseteq branch' \cup gone'
    BY <2>3 DEF IngestionInv, HistoryGrows
  <2> QED BY <2>1, <2>2, <2>3, <2>4, WritingStep
<1>9. ASSUME UNCHANGED <<commit, attempt>>
      PROVE  AttemptsSound'
  <2>1. \A v \in Ingesters : SoundAttempt(v)' /\ SoundReach(v)'
    BY <1>9, OthersKept
  <2>2. Stored' = Stored
    BY <1>9 DEF Stored
  <2>3. Stored' \subseteq branch' \cup gone' /\ NoFalseOrphans'
    BY <1>9, <2>2 DEF IngestionInv, HistoryGrows, NoFalseOrphans
  <2> QED BY <1>1, <1>9, <2>1, <2>3
          DEF IngestionInv, AttemptsSound, HistoryGrows, IngestionTypes
<1>10. ASSUME \/ NextRun \/ Merge \/ UNCHANGED ingestionVars
              \/ \E c \in Shas : Push(c) \/ Rewrite(c)
       PROVE  UNCHANGED <<commit, attempt>>
  BY <1>10 DEF NextRun, Merge, Push, Rewrite, ingestionVars, evidenceVars
<1> QED BY <1>2, <1>3, <1>4, <1>5, <1>6, <1>7, <1>8, <1>9, <1>10
        DEF IngestionNext, IngestionStep

LEMMA IngestionKept ==
    IngestionInv /\ [IngestionNext]_ingestionVars => IngestionInv'
<1> SUFFICES ASSUME IngestionInv, [IngestionNext]_ingestionVars
             PROVE  IngestionInv'
  OBVIOUS
<1>1. /\ RowsStay /\ HistoryGrows /\ commit' \in [Shas -> Commit]
      /\ RunSound'
  BY RowsKept, HistoryKept, CommitTypes, RunKept DEF IngestionInv
<1>2. AttemptsSound'
  BY <1>1, AttemptsKept
<1> QED BY <1>1, <1>2
        DEF IngestionInv, IngestionTypes, RowsStay, HistoryGrows, RunSound,
            AttemptsSound

LEMMA IngestionHolds == IngestionSpec => []IngestionInv
BY IngestionStarts, IngestionKept, PTL DEF IngestionSpec

\* The types, the CHECK on the counters of a stored run included.
THEOREM IngestionTypeCorrect == IngestionSpec => []IngestionTypeOK
<1>1. IngestionInv => IngestionTypeOK
  BY AttemptFields DEF IngestionInv, IngestionTypes, IngestionTypeOK, SyncRun,
     SoundAttempt
<1> QED BY <1>1, IngestionHolds, PTL

\* Whatever attempts do to each other, fail at or leave behind: an attempt comes
\* to its last write with what it listed stored; what it says of the branch is so
\* when no other wrote commits meanwhile; while attempts do not overlap no
\* commit is orphaned that did not leave the branch; and no run counts more
\* commits than it stored.
THEOREM EvidenceIsSound == IngestionSpec => []EvidenceFollowsBranch
<1>1. IngestionInv => EvidenceFollowsBranch
  <2> SUFFICES ASSUME IngestionInv PROVE EvidenceFollowsBranch
    OBVIOUS
  <2>1. SuccessReflectsBranch
    BY DEF IngestionInv, SoundReach, SuccessReflectsBranch
  <2>2. ListedIsStored
    BY DEF IngestionInv, SoundAttempt, ListedIsStored, Updating
  <2> QED BY <2>1, <2>2 DEF IngestionInv, EvidenceFollowsBranch
<1> QED BY <1>1, IngestionHolds, PTL
=============================================================================
