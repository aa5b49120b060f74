------------------------- MODULE HandshakeAdmission -------------------------
(***************************************************************************)
(* The admission of handshake packets by a responder (handshake.cpp): the  *)
(* token bucket of all arrivals, which tells whether the device is under   *)
(* load, the cookie a sender must then prove its address with, and the     *)
(* token buckets of the source addresses, kept in a few entries of which   *)
(* an idle one is reused.  Senders retry until they are admitted.  Times   *)
(* are ages, counted up to the point where they no longer matter, so that  *)
(* no clock bounds the runs.                                               *)
(***************************************************************************)
EXTENDS Integers, FiniteSets

CONSTANTS Sources,            \* addresses handshakes come from
          Entries,            \* entries of rate_limits: 1..Entries
          TokenCost, Burst,   \* HandshakeRateTokenCost, HandshakeRateLimitBurst
          UnderLoadAfterTime, CookieRefreshTime,
          RetryEvery,         \* the interval of a sender's retries
          MaxLosses           \* bound: packets or replies lost

MaximumTokens == TokenCost * Burst  \* HandshakeRateMaximumTokens

\* The code has 50 ms, 5, 1 s, 120 s and 5 s here.
ASSUME AdmissionAssumption ==
  /\ "none" \notin Sources
  /\ Entries \in Nat \ {0} /\ TokenCost \in Nat \ {0} /\ Burst \in Nat \ {0}
  /\ RetryEvery \in Nat \ {0} /\ MaxLosses \in Nat
  /\ UnderLoadAfterTime \in Nat /\ MaximumTokens <= UnderLoadAfterTime
  /\ CookieRefreshTime \in Nat /\ RetryEvery < CookieRefreshTime

VARIABLES arrival,   \* the bucket of all arrivals
          loadLeft,  \* time until under_load_until
          secret,    \* age of the cookie secret, Never when there is none
          entry,     \* rate_limits
          cookie,    \* each sender's cookie: age, and whether of this secret
          sender,    \* each sender: whether it tries, and the time to its retry
          ideal,     \* the tokens a bucket kept for ever would hold
          losses

vars == <<arrival, loadLeft, secret, entry, cookie, sender, ideal, losses>>

Least(m, n) == IF m < n THEN m ELSE n
Never == CookieRefreshTime + 1
Aged(t, cap) == Least(t + 1, cap)
IdleCap == UnderLoadAfterTime + 1

NewBucket == [tokens |-> 0, idle |-> 0, on |-> FALSE]
NoEntry == [src |-> "none", bucket |-> NewBucket]

Init ==
  /\ arrival = NewBucket
  /\ loadLeft = 0
  /\ secret = Never
  /\ entry = [n \in 1..Entries |-> NoEntry]
  /\ cookie = [s \in Sources |-> [age |-> Never, own |-> FALSE]]
  /\ sender = [s \in Sources |-> [trying |-> FALSE, due |-> 0]]
  /\ ideal = [s \in Sources |-> MaximumTokens]
  /\ losses = 0

\* ConsumeHandshakeRate: the bucket brought up to now; whether it pays; what is left.
Refilled(b) == IF b.on THEN Least(MaximumTokens, b.tokens + b.idle) ELSE MaximumTokens
Pays(b) == Refilled(b) >= TokenCost
Paid(b) == [tokens |-> IF Pays(b) THEN Refilled(b) - TokenCost ELSE Refilled(b),
            idle |-> 0, on |-> TRUE]

\* FindRateLimitEntry: the entry of the source, or the last one that is free
\* or idle; 0 when there is none.
Matching(s) == {n \in 1..Entries : entry[n].src = s}
\* Mutant: any entry of another source is reusable.
ReusableBusy == 1..Entries
Reusable == {n \in 1..Entries : entry[n].src = "none" \/ entry[n].bucket.idle > UnderLoadAfterTime}
FindRateLimitEntry(s) ==
  IF Matching(s) # {} THEN CHOOSE n \in Matching(s) : \A m \in Matching(s) : n <= m
  ELSE IF Reusable # {} THEN CHOOSE n \in Reusable : \A m \in Reusable : n >= m
  ELSE 0
BucketFor(s, n) == IF entry[n].src = s THEN entry[n].bucket ELSE NewBucket

\* ApplyOutgoingMacs: a packet carries a mac2 while its sender's cookie is valid.
CarriesMac2(s) == cookie[s].age <= CookieRefreshTime

\* CheckPacketMac2: it was made with the secret in use, and that is not too old.
Mac2Checks(s) == CarriesMac2(s) /\ cookie[s].own /\ secret <= CookieRefreshTime

UnderLoad == ~Pays(arrival) \/ loadLeft > 0

\* CreateCookieReply renews a secret that is missing or too old.
SecretForReply == IF secret <= CookieRefreshTime THEN secret ELSE 0
\* Mutant: the sender keeps its older cookie.
CookiesAfterReplyKept(s, lost) ==
  [x \in Sources |->
     IF x = s /\ ~lost /\ cookie[s].age > CookieRefreshTime THEN [age |-> 0, own |-> TRUE]
     ELSE [cookie[x] EXCEPT !.own = @ /\ secret <= CookieRefreshTime]]
CookiesAfterReply(s, lost) ==
  [x \in Sources |->
     IF x = s /\ ~lost THEN [age |-> 0, own |-> TRUE]
     ELSE [cookie[x] EXCEPT !.own = @ /\ secret <= CookieRefreshTime]]

Arrived ==
  /\ arrival' = Paid(arrival)
  /\ loadLeft' = IF Pays(arrival) THEN loadLeft ELSE UnderLoadAfterTime

\* A sender tries again; that the code gives up after MaxTimerHandshakes is left
\* to PeerHandlers.
Retried(s) == sender' = [sender EXCEPT ![s].due = RetryEvery]
Admitted(s) == sender' = [sender EXCEPT ![s] = [trying |-> FALSE, due |-> 0]]

-----------------------------------------------------------------------------
\* noise_handshake_admit_responder_packet, one action per outcome, for the
\* packet of a sender that is due.

Due(s) == sender[s].trying /\ sender[s].due = 0

AdmitQuiet(s) ==
  /\ Due(s) /\ ~UnderLoad
  /\ Arrived /\ Admitted(s)
  /\ UNCHANGED <<secret, entry, cookie, ideal, losses>>

\* The sender opens the reply with the mac1 of its packet, unless it is lost.
ReplyCookie(s) ==
  /\ Due(s) /\ UnderLoad /\ ~Mac2Checks(s)
  /\ Arrived /\ Retried(s)
  /\ \E lost \in BOOLEAN :
       /\ lost => losses < MaxLosses
       /\ losses' = IF lost THEN losses + 1 ELSE losses
       /\ cookie' = CookiesAfterReply(s, lost)
  /\ secret' = SecretForReply
  /\ UNCHANGED <<entry, ideal>>

\* Admitted under load, or limited; both leave the bucket brought up to now.
AdmitProven(s) ==
  LET n == FindRateLimitEntry(s) IN
  /\ Due(s) /\ UnderLoad /\ Mac2Checks(s)
  /\ n # 0 /\ Pays(BucketFor(s, n))
  /\ Arrived /\ Admitted(s)
  /\ entry' = [entry EXCEPT ![n] = [src |-> s, bucket |-> Paid(BucketFor(s, n))]]
  /\ ideal' = [ideal EXCEPT ![s] = @ - TokenCost]
  /\ UNCHANGED <<secret, cookie, losses>>

RateLimit(s) ==
  LET n == FindRateLimitEntry(s) IN
  /\ Due(s) /\ UnderLoad /\ Mac2Checks(s)
  /\ n # 0 => ~Pays(BucketFor(s, n))
  /\ Arrived /\ Retried(s)
  /\ entry' = [m \in 1..Entries |->
                 IF m = n THEN [src |-> s, bucket |-> Paid(BucketFor(s, n))] ELSE entry[m]]
  /\ UNCHANGED <<secret, cookie, ideal, losses>>

LosePacket(s) ==
  /\ Due(s) /\ losses < MaxLosses
  /\ losses' = losses + 1
  /\ Retried(s)
  /\ UNCHANGED <<arrival, loadLeft, secret, entry, cookie, ideal>>

\* A sender wants a handshake.
Try(s) ==
  /\ ~sender[s].trying
  /\ sender' = [sender EXCEPT ![s] = [trying |-> TRUE, due |-> 0]]
  /\ UNCHANGED <<arrival, loadLeft, secret, entry, cookie, ideal, losses>>

Idle(b) == [b EXCEPT !.idle = Aged(@, IdleCap)]

\* Time passes; a retry that is due goes out first.
Tick ==
  /\ \A s \in Sources : ~Due(s)
  /\ arrival' = IF arrival.on THEN Idle(arrival) ELSE arrival
  /\ loadLeft' = IF loadLeft > 0 THEN loadLeft - 1 ELSE 0
  /\ secret' = Aged(secret, Never)
  /\ entry' = [n \in 1..Entries |->
                 IF entry[n].src = "none" THEN entry[n]
                 ELSE [entry[n] EXCEPT !.bucket = Idle(@)]]
  /\ cookie' = [s \in Sources |-> [cookie[s] EXCEPT !.age = Aged(@, Never)]]
  /\ sender' = [s \in Sources |-> [sender[s] EXCEPT !.due = IF @ > 0 THEN @ - 1 ELSE 0]]
  /\ ideal' = [s \in Sources |-> Least(MaximumTokens, ideal[s] + 1)]
  /\ UNCHANGED losses

Receive(s) == AdmitQuiet(s) \/ ReplyCookie(s) \/ AdmitProven(s) \/ RateLimit(s) \/ LosePacket(s)

Next == (\E s \in Sources : Receive(s) \/ Try(s)) \/ Tick

Spec == Init /\ [][Next]_vars

\* A retry timer fires, and time passes.
FairSpec == Spec /\ WF_vars(Tick) /\ \A s \in Sources : WF_vars(Receive(s))

-----------------------------------------------------------------------------

Buckets == [tokens : 0..MaximumTokens, idle : 0..IdleCap, on : BOOLEAN]

\* The type of the state: no bucket holds more than its burst.
TypeOK ==
  /\ arrival \in Buckets
  /\ loadLeft \in 0..UnderLoadAfterTime
  /\ secret \in 0..Never
  /\ entry \in [1..Entries -> [src : Sources \cup {"none"}, bucket : Buckets]]
  /\ cookie \in [Sources -> [age : 0..Never, own : BOOLEAN]]
  /\ sender \in [Sources -> [trying : BOOLEAN, due : 0..RetryEvery]]
  /\ ideal \in [Sources -> 0..MaximumTokens]
  /\ losses \in 0..MaxLosses

\* Reusing the entry of an idle source gives nobody tokens: the bucket a source
\* has, or would start with, is the one that was never given up.  (A source that
\* finds no entry at all is refused, whatever its bucket would hold.)
BucketsAreIdeal ==
  \A s \in Sources :
    /\ \A n \in Matching(s) : Refilled(entry[n].bucket) = ideal[s]
    /\ Matching(s) = {} => ideal[s] = MaximumTokens

\* A sender that keeps trying is admitted, under load as well, unless other
\* sources keep the entries: the cookie it got last is valid at its next retry,
\* whenever the secret was renewed in between.
HandshakeAdmitted ==
  \A s \in Sources :
    <>[](FindRateLimitEntry(s) # 0) => (sender[s].trying ~> ~sender[s].trying)
=============================================================================
