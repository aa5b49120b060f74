---------------------- MODULE HandshakeAdmissionProofs ----------------------
(***************************************************************************)
(* For any sources, entries, burst, cost and times: what a source may send *)
(* under load is what a bucket that is never given up would allow it.      *)
(***************************************************************************)
EXTENDS HandshakeAdmission, WellFoundedInduction, TLAPS

\* A source has one entry at most.
OneEntry ==
  \A m, n \in 1..Entries : entry[m].src = entry[n].src /\ entry[m].src # "none" => m = n

AdmissionInv == TypeOK /\ OneEntry /\ BucketsAreIdeal

Senders == [trying : BOOLEAN, due : 0..RetryEvery]
Cookies == [age : 0..Never, own : BOOLEAN]
EntryType == [src : Sources \cup {"none"}, bucket : Buckets]

\* A full bucket pays for one packet at least.
LEMMA BurstPays == MaximumTokens \in Nat /\ TokenCost <= MaximumTokens
<1>1. TokenCost \in Nat /\ Burst \in Nat /\ Burst >= 1
  BY AdmissionAssumption
<1>2. TokenCost * Burst \in Nat /\ TokenCost * Burst >= TokenCost
  BY <1>1, Z3
<1> QED
  BY <1>2 DEF MaximumTokens

\* The constants, as the proofs use them.
LEMMA Constants ==
  /\ MaximumTokens \in Nat /\ TokenCost \in Nat \ {0} /\ TokenCost <= MaximumTokens
  /\ UnderLoadAfterTime \in Nat /\ MaximumTokens <= UnderLoadAfterTime
  /\ IdleCap \in Nat /\ IdleCap = UnderLoadAfterTime + 1
  /\ Never \in Nat /\ RetryEvery \in Nat \ {0} /\ CookieRefreshTime \in Nat
  /\ Never = CookieRefreshTime + 1
  /\ Entries \in Nat \ {0} /\ MaxLosses \in Nat
  BY BurstPays, AdmissionAssumption DEF IdleCap, Never

\* ConsumeHandshakeRate takes the cost of a packet from a bucket that has it, and
\* otherwise leaves it what it had gained.
LEMMA PaidFacts ==
  ASSUME NEW b \in Buckets
  PROVE /\ Refilled(b) \in 0..MaximumTokens
        /\ Paid(b) \in Buckets
        /\ Refilled(Paid(b)) = IF Pays(b) THEN Refilled(b) - TokenCost ELSE Refilled(b)
<1>1. b.tokens \in 0..MaximumTokens /\ b.idle \in 0..IdleCap /\ b.on \in BOOLEAN
  BY DEF Buckets
<1>2. Refilled(b) \in 0..MaximumTokens
  BY <1>1, Constants DEF Refilled, Least
<1> DEFINE left == IF Pays(b) THEN Refilled(b) - TokenCost ELSE Refilled(b)
<1>3. left \in 0..MaximumTokens
  BY <1>2, Constants DEF Pays
<1>4. Paid(b) = [tokens |-> left, idle |-> 0, on |-> TRUE]
  BY DEF Paid
<1> HIDE DEF left
<1>5. Paid(b) \in Buckets
  BY <1>3, <1>4, Constants DEF Buckets
<1>6. Refilled(Paid(b)) = left
  BY <1>3, <1>4, Constants DEF Refilled, Least
<1> QED
  BY <1>2, <1>5, <1>6 DEF left

\* A tick gives a bucket one more token, up to its burst: the age at which the
\* count of idle time stops is past the point where the bucket is full.
LEMMA IdleFacts ==
  ASSUME NEW b \in Buckets
  PROVE /\ Idle(b) \in Buckets
        /\ Refilled(Idle(b)) = Least(MaximumTokens, Refilled(b) + 1)
        /\ b.idle > UnderLoadAfterTime => Refilled(b) = MaximumTokens
<1>1. b.tokens \in 0..MaximumTokens /\ b.idle \in 0..IdleCap /\ b.on \in BOOLEAN
  BY Zenon DEF Buckets
<1>2. /\ Idle(b) \in Buckets
      /\ Idle(b).tokens = b.tokens /\ Idle(b).idle = Aged(b.idle, IdleCap) /\ Idle(b).on = b.on
  <2>1. Aged(b.idle, IdleCap) \in 0..IdleCap
    BY <1>1, Constants DEF Aged, Least
  <2> QED
    BY <2>1 DEF Idle, Buckets
<1>3. Refilled(Idle(b)) = Least(MaximumTokens, Refilled(b) + 1)
  BY <1>1, <1>2, Constants DEF Refilled, Least, Aged
<1>4. b.idle > UnderLoadAfterTime => Refilled(b) = MaximumTokens
  BY <1>1, Constants DEF Refilled, Least
<1> QED
  BY Zenon, <1>2, <1>3, <1>4

LessThan == {p \in Nat \X Nat : p[1] < p[2]}

\* The order of the numbers is well-founded.
LEMMA LessThanWellFounded == IsWellFoundedOn(LessThan, Nat)
  BY NatLessThanWellFounded, Zenon DEF OpToRel, LessThan

\* A set of numbers up to a bound has a greatest one.
LEMMA GreatestExists ==
  ASSUME NEW N \in Nat, NEW T \in SUBSET (1..N), T # {}
  PROVE \E n \in T : \A m \in T : n >= m
<1> DEFINE U == {x \in Nat : N - x \in T}
<1>1. U \subseteq Nat /\ U # {}
  <2>1. PICK n \in T : n \in 1..N
    BY Zenon
  <2>2. N - n \in Nat /\ N - (N - n) = n
    BY <2>1
  <2> QED
    BY Zenon, <2>1, <2>2
<1> HIDE DEF U
<1>2. PICK x \in U : \A y \in U : ~(<<y, x>> \in LessThan)
  BY Zenon, <1>1, LessThanWellFounded, WFMin
<1>3. ASSUME NEW y \in U
      PROVE x <= y
  <2>1. x \in Nat /\ y \in Nat
    BY <1>1
  <2>2. y < x => <<y, x>> \in LessThan
    BY <2>1 DEF LessThan
  <2> QED
    BY <1>2, <2>1, <2>2
<1>4. N - x \in T /\ x \in Nat
  BY DEF U
<1>5. ASSUME NEW m \in T
      PROVE N - x >= m
  <2>1. m \in 1..N /\ N - m \in Nat /\ N - (N - m) = m
    OBVIOUS
  <2>2. N - m \in U
    BY <2>1 DEF U
  <2> QED
    BY <1>3, <1>4, <2>1, <2>2
<1> QED
  BY Zenon, <1>4, <1>5

\* FindRateLimitEntry returns an entry of the source, or, when it has none, one
\* that is free or whose bucket is full again.
LEMMA FoundEntry ==
  ASSUME AdmissionInv, NEW s \in Sources, NEW n, n = FindRateLimitEntry(s), n # 0
  PROVE /\ n \in 1..Entries
        /\ entry[n].src = s \/ (Matching(s) = {} /\ n \in Reusable)
<1>1. CASE Matching(s) # {}
  <2>1. PICK m \in Matching(s) : TRUE
    BY <1>1
  <2>2. \A k \in Matching(s) : m = k
    BY <2>1, AdmissionAssumption DEF AdmissionInv, OneEntry, Matching
  <2>3. \A k \in Matching(s) : m <= k
    BY <2>2, Constants DEF Matching
  <2>4. n \in Matching(s)
    BY <1>1, <2>1, <2>3 DEF FindRateLimitEntry
  <2> QED
    BY <2>4 DEF Matching
<1>2. CASE Matching(s) = {}
  <2>1. Reusable # {} /\ Reusable \in SUBSET (1..Entries)
    BY Zenon, <1>2 DEF FindRateLimitEntry, Reusable
  <2>2. \E k \in Reusable : \A m \in Reusable : k >= m
    BY Zenon, <2>1, Constants, GreatestExists
  <2>3. n \in Reusable
    BY Zenon, <1>2, <2>1, <2>2 DEF FindRateLimitEntry
  <2> QED
    BY Zenon, <1>2, <2>1, <2>3
<1> QED
  BY Zenon, <1>1, <1>2

\* The bucket charged holds what the source may send.
LEMMA FoundBucket ==
  ASSUME AdmissionInv, NEW s \in Sources, NEW n, n = FindRateLimitEntry(s), n # 0
  PROVE BucketFor(s, n) \in Buckets /\ Refilled(BucketFor(s, n)) = ideal[s]
<1>1. n \in 1..Entries /\ (entry[n].src = s \/ (Matching(s) = {} /\ n \in Reusable))
  BY FoundEntry
<1>2. entry[n].bucket \in Buckets
  BY Zenon, <1>1 DEF AdmissionInv, TypeOK
<1>3. CASE entry[n].src = s
  <2>1. n \in Matching(s) /\ BucketFor(s, n) = entry[n].bucket
    BY <1>1, <1>3 DEF Matching, BucketFor
  <2> QED
    BY Zenon, <1>2, <2>1 DEF AdmissionInv, BucketsAreIdeal
<1>4. CASE entry[n].src # s
  <2>1. BucketFor(s, n) = NewBucket /\ ideal[s] = MaximumTokens
    BY Zenon, <1>1, <1>4 DEF BucketFor, AdmissionInv, BucketsAreIdeal
  <2>2. NewBucket \in Buckets /\ Refilled(NewBucket) = MaximumTokens
    BY Constants DEF NewBucket, Buckets, Refilled
  <2> QED
    BY <2>1, <2>2
<1> QED
  BY <1>3, <1>4

\* Charging the entry found, with or without success, keeps every bucket ideal:
\* the source whose entry is taken over had a full one.
LEMMA ChargeKeeps ==
  ASSUME AdmissionInv, NEW s \in Sources, NEW n, n = FindRateLimitEntry(s), n # 0,
         entry' = [entry EXCEPT ![n] = [src |-> s, bucket |-> Paid(BucketFor(s, n))]],
         ideal' = [ideal EXCEPT ![s] = Refilled(Paid(BucketFor(s, n)))]
  PROVE /\ entry' \in [1..Entries -> EntryType] /\ ideal' \in [Sources -> 0..MaximumTokens]
        /\ OneEntry' /\ BucketsAreIdeal'
<1> DEFINE b == Paid(BucketFor(s, n))
<1>1. n \in 1..Entries /\ (entry[n].src = s \/ (Matching(s) = {} /\ n \in Reusable))
  BY Zenon, FoundEntry
<1>2. b \in Buckets /\ Refilled(b) \in 0..MaximumTokens
  BY Zenon, FoundBucket, PaidFacts
<1> HIDE DEF b
<1>3. entry \in [1..Entries -> EntryType] /\ ideal \in [Sources -> 0..MaximumTokens]
  BY Zenon DEF AdmissionInv, TypeOK, EntryType
<1>4. /\ entry' \in [1..Entries -> EntryType]
      /\ entry'[n].src = s /\ entry'[n].bucket = b
      /\ \A m \in 1..Entries : m # n => entry'[m] = entry[m]
  BY <1>1, <1>2, <1>3 DEF b, EntryType
<1>5. /\ ideal' \in [Sources -> 0..MaximumTokens] /\ ideal'[s] = Refilled(b)
      /\ \A x \in Sources : x # s => ideal'[x] = ideal[x]
  BY Zenon, <1>2, <1>3 DEF b
<1>6. \A m \in 1..Entries : entry[m].src = s => m = n
  BY Zenon, <1>1, AdmissionAssumption DEF AdmissionInv, OneEntry, Matching
<1>7. OneEntry'
  BY <1>1, <1>4, <1>6 DEF AdmissionInv, OneEntry
<1>8. ASSUME NEW x \in Sources
      PROVE /\ \A m \in Matching(x)' : Refilled(entry'[m].bucket) = ideal'[x]
            /\ Matching(x)' = {} => ideal'[x] = MaximumTokens
  <2>1. CASE x = s
    <3>1. Matching(x)' = {n}
      BY <1>1, <1>4, <1>6, <2>1 DEF Matching
    <3> QED
      BY <1>4, <1>5, <2>1, <3>1
  <2>2. CASE x # s
    <3>1. Matching(x)' = Matching(x) \ {n}
      BY Zenon, <1>1, <1>4, <2>2 DEF Matching
    <3>2. \A m \in Matching(x) : Refilled(entry[m].bucket) = ideal[x]
      BY DEF AdmissionInv, BucketsAreIdeal
    <3>3. n \in Matching(x) => ideal[x] = MaximumTokens
      <4>1. SUFFICES ASSUME n \in Matching(x) PROVE ideal[x] = MaximumTokens
        BY Zenon
      <4>2. entry[n].bucket.idle > UnderLoadAfterTime
        BY Zenon, <1>1, <2>2, <4>1, AdmissionAssumption DEF Matching, Reusable
      <4>3. Refilled(entry[n].bucket) = MaximumTokens
        BY Zenon, <1>1, <1>3, <4>2, IdleFacts DEF EntryType
      <4> QED
        BY Zenon, <3>2, <4>1, <4>3
    <3>4. Matching(x) = {} => ideal[x] = MaximumTokens
      BY DEF AdmissionInv, BucketsAreIdeal
    <3>5. \A m \in Matching(x) \ {n} : entry'[m] = entry[m]
      BY <1>4 DEF Matching
    <3> QED
      BY <1>5, <2>2, <3>1, <3>2, <3>3, <3>4, <3>5
  <2> QED
    BY Zenon, <2>1, <2>2
<1>9. BucketsAreIdeal'
  BY Zenon, <1>8 DEF BucketsAreIdeal, Refilled
<1> QED
  BY Zenon, <1>4, <1>5, <1>7, <1>9

\* A packet that arrives leaves the arrival bucket and the load in their ranges.
LEMMA ArrivedType ==
  ASSUME AdmissionInv, Arrived
  PROVE arrival' \in Buckets /\ loadLeft' \in 0..UnderLoadAfterTime
  BY PaidFacts, Constants DEF Arrived, AdmissionInv, TypeOK

\* The sender goes on or is done.
LEMMA SenderType ==
  ASSUME AdmissionInv, NEW s \in Sources, Retried(s) \/ Admitted(s)
  PROVE sender' \in [Sources -> Senders]
<1>1. sender \in [Sources -> Senders] /\ RetryEvery \in 0..RetryEvery /\ 0 \in 0..RetryEvery
  BY Constants DEF AdmissionInv, TypeOK, Senders
<1>2. [sender[s] EXCEPT !.due = RetryEvery] \in Senders
  BY <1>1 DEF Senders
<1>3. [trying |-> FALSE, due |-> 0] \in Senders
  BY <1>1 DEF Senders
<1> QED
  BY Zenon, <1>1, <1>2, <1>3 DEF Retried, Admitted

\* A cookie reply leaves the cookies and the secret in their ranges.
LEMMA CookieType ==
  ASSUME AdmissionInv, NEW s \in Sources, NEW lost \in BOOLEAN
  PROVE /\ CookiesAfterReply(s, lost) \in [Sources -> Cookies]
        /\ SecretForReply \in 0..Never
<1>1. cookie \in [Sources -> Cookies] /\ secret \in 0..Never
  BY DEF AdmissionInv, TypeOK, Cookies
<1>2. [age |-> 0, own |-> TRUE] \in Cookies
  BY Constants DEF Cookies
<1>3. \A x \in Sources :
        [cookie[x] EXCEPT !.own = @ /\ secret <= CookieRefreshTime] \in Cookies
  BY Zenon, <1>1 DEF Cookies
<1> QED
  BY <1>1, <1>2, <1>3, Constants DEF CookiesAfterReply, SecretForReply

\* A step that leaves the entries alone keeps them ideal.
LEMMA EntriesKept ==
  ASSUME AdmissionInv, UNCHANGED <<entry, ideal>>,
         arrival' \in Buckets, loadLeft' \in 0..UnderLoadAfterTime,
         secret' \in 0..Never, cookie' \in [Sources -> Cookies],
         sender' \in [Sources -> Senders], losses' \in 0..MaxLosses
  PROVE AdmissionInv'
  BY Zenon DEF AdmissionInv, TypeOK, OneEntry, BucketsAreIdeal, Matching, Cookies, Senders

\* AdmitQuiet, ReplyCookie, LosePacket and Try do.
LEMMA QuietSteps ==
  ASSUME AdmissionInv, NEW s \in Sources,
         AdmitQuiet(s) \/ ReplyCookie(s) \/ LosePacket(s) \/ Try(s)
  PROVE AdmissionInv'
<1>1. /\ arrival \in Buckets /\ loadLeft \in 0..UnderLoadAfterTime /\ secret \in 0..Never
      /\ cookie \in [Sources -> Cookies] /\ sender \in [Sources -> Senders]
      /\ losses \in 0..MaxLosses
  BY Zenon DEF AdmissionInv, TypeOK, Cookies, Senders
<1>2. CASE AdmitQuiet(s)
  BY Zenon, <1>1, <1>2, ArrivedType, SenderType, EntriesKept DEF AdmitQuiet
<1>3. CASE ReplyCookie(s)
  <2>1. PICK lost \in BOOLEAN :
          /\ lost => losses < MaxLosses
          /\ losses' = IF lost THEN losses + 1 ELSE losses
          /\ cookie' = CookiesAfterReply(s, lost)
    BY <1>3 DEF ReplyCookie
  <2>2. losses' \in 0..MaxLosses
    BY <1>1, <2>1, Constants
  <2>3. cookie' \in [Sources -> Cookies] /\ secret' \in 0..Never
    BY Zenon, <1>3, <2>1, CookieType DEF ReplyCookie
  <2>4. /\ arrival' \in Buckets /\ loadLeft' \in 0..UnderLoadAfterTime
        /\ sender' \in [Sources -> Senders] /\ UNCHANGED <<entry, ideal>>
    BY <1>3, ArrivedType, SenderType DEF ReplyCookie
  <2> QED
    BY Zenon, <2>2, <2>3, <2>4, EntriesKept
<1>4. CASE LosePacket(s)
  <2>1. losses' \in 0..MaxLosses
    BY <1>1, <1>4, Constants DEF LosePacket
  <2> QED
    BY Zenon, <1>1, <1>4, <2>1, SenderType, EntriesKept DEF LosePacket
<1>5. CASE Try(s)
  <2>1. [trying |-> TRUE, due |-> 0] \in Senders
    BY Constants DEF Senders
  <2>2. sender' \in [Sources -> Senders]
    BY Zenon, <1>1, <1>5, <2>1 DEF Try
  <2> QED
    BY Zenon, <1>1, <1>5, <2>2, EntriesKept DEF Try
<1> QED
  BY <1>2, <1>3, <1>4, <1>5

\* A packet with a valid mac2 is charged to its source, or refused.
LEMMA ProvenSteps ==
  ASSUME AdmissionInv, NEW s \in Sources, AdmitProven(s) \/ RateLimit(s)
  PROVE AdmissionInv'
<1> DEFINE n == FindRateLimitEntry(s)
           b == BucketFor(s, n)
<1>1. /\ arrival' \in Buckets /\ loadLeft' \in 0..UnderLoadAfterTime
      /\ sender' \in [Sources -> Senders] /\ UNCHANGED <<secret, cookie, losses>>
  BY ArrivedType, SenderType DEF AdmitProven, RateLimit
<1>2. entry \in [1..Entries -> EntryType] /\ ideal \in [Sources -> 0..MaximumTokens]
  BY Zenon DEF AdmissionInv, TypeOK, EntryType
<1>3. ASSUME n # 0
      PROVE n \in 1..Entries /\ b \in Buckets /\ Refilled(b) = ideal[s]
            /\ Refilled(Paid(b)) = IF Pays(b) THEN ideal[s] - TokenCost ELSE ideal[s]
  BY <1>3, FoundEntry, FoundBucket, PaidFacts
<1>4. CASE n # 0
  <2>1. entry' = [entry EXCEPT ![n] = [src |-> s, bucket |-> Paid(b)]]
    <3>1. CASE AdmitProven(s)
      BY <3>1 DEF AdmitProven
    <3>2. CASE RateLimit(s)
      BY Zenon, <1>2, <1>3, <1>4, <3>2 DEF RateLimit
    <3> QED
      BY Zenon, <3>1, <3>2
  <2>2. ideal' = [ideal EXCEPT ![s] = Refilled(Paid(b))]
    <3>1. CASE AdmitProven(s)
      BY <1>2, <1>3, <1>4, <3>1 DEF AdmitProven
    <3>2. CASE RateLimit(s)
      BY Zenon, <1>2, <1>3, <1>4, <3>2 DEF RateLimit
    <3> QED
      BY <3>1, <3>2
  <2>3. /\ entry' \in [1..Entries -> EntryType] /\ ideal' \in [Sources -> 0..MaximumTokens]
        /\ OneEntry' /\ BucketsAreIdeal'
    BY Zenon, <1>4, <2>1, <2>2, ChargeKeeps
  <2> QED
    BY Zenon, <1>1, <2>3 DEF AdmissionInv, TypeOK, EntryType, Senders
<1>5. CASE n = 0
  <2>1. UNCHANGED <<entry, ideal>>
    BY <1>2, <1>5, Constants DEF AdmitProven, RateLimit
  <2> QED
    BY Zenon, <1>1, <2>1, EntriesKept DEF AdmissionInv, TypeOK, Cookies
<1> QED
  BY <1>4, <1>5

\* A tick gives every bucket one token, and the ideal one as well.
LEMMA TickStep ==
  ASSUME AdmissionInv, Tick
  PROVE AdmissionInv'
<1>1. arrival' \in Buckets /\ loadLeft' \in 0..UnderLoadAfterTime /\ losses' \in 0..MaxLosses
  <2>1. arrival \in Buckets /\ loadLeft \in 0..UnderLoadAfterTime /\ losses \in 0..MaxLosses
    BY Zenon DEF AdmissionInv, TypeOK
  <2>2. /\ arrival' \in {arrival, Idle(arrival)} /\ losses' = losses
        /\ loadLeft' = IF loadLeft > 0 THEN loadLeft - 1 ELSE 0
    BY Zenon DEF Tick
  <2>3. arrival' \in Buckets
    BY Zenon, <2>1, <2>2, IdleFacts
  <2> QED
    BY <2>1, <2>2, <2>3, Constants
<1>2. secret' \in 0..Never
  <2>1. secret \in 0..Never
    BY Zenon DEF AdmissionInv, TypeOK
  <2>2. secret' = Aged(secret, Never)
    BY Zenon DEF Tick
  <2> QED
    BY <2>1, <2>2, Constants DEF Aged, Least
<1>3. cookie' \in [Sources -> Cookies]
  <2>1. \A s \in Sources : cookie[s] \in Cookies /\ Aged(cookie[s].age, Never) \in 0..Never
    BY Constants DEF AdmissionInv, TypeOK, Cookies, Aged, Least
  <2> QED
    BY Zenon, <2>1 DEF Tick, Cookies
<1>4. sender' \in [Sources -> Senders]
  <2>1. \A s \in Sources :
          /\ sender[s] \in Senders
          /\ (IF sender[s].due > 0 THEN sender[s].due - 1 ELSE 0) \in 0..RetryEvery
    BY Constants DEF AdmissionInv, TypeOK, Senders
  <2> QED
    BY <2>1 DEF Tick, Senders
<1>5. \A n \in 1..Entries :
        /\ entry[n] \in EntryType /\ entry'[n].src = entry[n].src /\ entry'[n] \in EntryType
        /\ entry[n].src # "none" => entry'[n].bucket = Idle(entry[n].bucket)
  <2>1. \A n \in 1..Entries : entry[n] \in EntryType /\ Idle(entry[n].bucket) \in Buckets
    BY Zenon, IdleFacts DEF AdmissionInv, TypeOK, EntryType
  <2> QED
    BY Zenon, <2>1 DEF Tick, EntryType
<1>6. \A s \in Sources : /\ ideal'[s] = Least(MaximumTokens, ideal[s] + 1)
                         /\ ideal[s] \in 0..MaximumTokens
                         /\ ideal'[s] \in 0..MaximumTokens
  <2>1. \A s \in Sources : ideal[s] \in 0..MaximumTokens
    BY DEF AdmissionInv, TypeOK
  <2>2. \A s \in Sources : ideal'[s] = Least(MaximumTokens, ideal[s] + 1)
    BY Zenon DEF Tick
  <2> QED
    BY <2>1, <2>2, Constants DEF Least
<1>7. TypeOK'
  <2>1. entry' \in [1..Entries -> EntryType]
    BY Zenon, <1>5 DEF Tick
  <2>2. ideal' \in [Sources -> 0..MaximumTokens]
    BY <1>6 DEF Tick
  <2> QED
    BY <1>1, <1>2, <1>3, <1>4, <2>1, <2>2 DEF TypeOK, Cookies, Senders, EntryType
<1>8. OneEntry'
  BY <1>5 DEF AdmissionInv, OneEntry
<1>9. ASSUME NEW s \in Sources
      PROVE /\ \A n \in Matching(s)' : Refilled(entry'[n].bucket) = ideal'[s]
            /\ Matching(s)' = {} => ideal'[s] = MaximumTokens
  <2>1. Matching(s)' = Matching(s)
    BY <1>5 DEF Matching
  <2>2. ASSUME NEW n \in Matching(s)
        PROVE Refilled(entry'[n].bucket) = ideal'[s]
    <3>1. n \in 1..Entries /\ entry[n].src = s /\ entry[n].bucket \in Buckets
      BY <1>5 DEF Matching, EntryType
    <3>2. entry'[n].bucket = Idle(entry[n].bucket)
      BY <1>5, <3>1, AdmissionAssumption
    <3>3. Refilled(entry[n].bucket) = ideal[s]
      BY Zenon DEF AdmissionInv, BucketsAreIdeal
    <3> QED
      BY <1>6, <3>1, <3>2, <3>3, IdleFacts
  <2>3. Matching(s) = {} => ideal'[s] = MaximumTokens
    BY <1>6, Constants DEF AdmissionInv, BucketsAreIdeal, Least
  <2> QED
    BY <2>1, <2>2, <2>3
<1>10. BucketsAreIdeal'
  BY <1>9 DEF BucketsAreIdeal, Refilled
<1> QED
  BY Zenon, <1>7, <1>8, <1>10 DEF AdmissionInv

\* A responder starts with full buckets and no entry.
LEMMA AdmissionInit == Init => AdmissionInv
<1> SUFFICES ASSUME Init PROVE AdmissionInv
  OBVIOUS
<1>1. NewBucket \in Buckets
  BY Constants DEF NewBucket, Buckets
<1>2. /\ cookie \in [Sources -> Cookies] /\ sender \in [Sources -> Senders]
      /\ ideal \in [Sources -> 0..MaximumTokens]
  BY Constants DEF Init, Cookies, Senders
<1>3. entry \in [1..Entries -> EntryType] /\ \A n \in 1..Entries : entry[n].src = "none"
  BY Zenon, <1>1 DEF Init, NoEntry, EntryType
<1>4. arrival \in Buckets /\ loadLeft \in 0..UnderLoadAfterTime
      /\ secret \in 0..Never /\ losses \in 0..MaxLosses
  BY <1>1, Constants DEF Init
<1>5. TypeOK
  BY <1>2, <1>3, <1>4 DEF TypeOK, Cookies, Senders, EntryType
<1>6. OneEntry /\ BucketsAreIdeal
  BY Zenon, <1>3, AdmissionAssumption DEF Init, OneEntry, BucketsAreIdeal, Matching
<1> QED
  BY <1>5, <1>6 DEF AdmissionInv

\* Every behaviour keeps the invariant.
LEMMA Invariance == Spec => []AdmissionInv
<1>1. AdmissionInv /\ [Next]_vars => AdmissionInv'
  <2> SUFFICES ASSUME AdmissionInv, [Next]_vars PROVE AdmissionInv'
    OBVIOUS
  <2>1. CASE \E s \in Sources : Receive(s) \/ Try(s)
    BY <2>1, QuietSteps, ProvenSteps DEF Receive
  <2>2. CASE Tick
    BY <2>2, TickStep
  <2>3. CASE UNCHANGED vars
    BY Zenon, <2>3, EntriesKept DEF vars, AdmissionInv, TypeOK, Cookies, Senders
  <2> QED
    BY <2>1, <2>2, <2>3 DEF Next
<1> QED
  BY <1>1, AdmissionInit, PTL DEF Spec

\* No bucket of noise_handshake_admit_responder_packet exceeds its burst.
THEOREM TypeCorrect == Spec => []TypeOK
<1>1. AdmissionInv => TypeOK
  BY DEF AdmissionInv
<1> QED
  BY <1>1, Invariance, PTL

\* FindRateLimitEntry gives the entry of an idle source away at no cost: every
\* source is charged as by a bucket of its own that is never given up.
THEOREM ReuseIsFree == Spec => []BucketsAreIdeal
<1>1. AdmissionInv => BucketsAreIdeal
  BY DEF AdmissionInv
<1> QED
  BY <1>1, Invariance, PTL

=============================================================================
