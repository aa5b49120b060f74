--------------------------- MODULE FlowPlaneProofs ---------------------------
(***************************************************************************)
(* What the methods of FlowPlane keep, for any number of clients, flows,   *)
(* ports and tombstones: a plane is Valid when it is well-formed, live     *)
(* flows hold distinct tuples outside the quarantine, a tombstone is in    *)
(* reserve for each of them, every queued datagram belongs to an open flow *)
(* of its client, and live flows carry the activation and the policy that  *)
(* are current.  There is one lemma for every method; the methods that     *)
(* walk over the slots are reasoned about by induction on the slot         *)
(* (IntervalInduction), which is set induction and needs no operator       *)
(* parameter.  FlowServiceProofs and TunnelDaemonProofs build on it.       *)
(***************************************************************************)
EXTENDS FlowPlane, FiniteSetTheorems, SequenceTheorems, WellFoundedInduction, TLAPS

-----------------------------------------------------------------------------
(* Numbers and finite recursion. *)

LessThan == {x \in Nat \X Nat : x[1] < x[2]}

\* The order of the numbers is well-founded.
LEMMA LessThanWellFounded == IsWellFoundedOn(LessThan, Nat)
  BY NatLessThanWellFounded, Zenon DEF OpToRel, LessThan

\* A set of numbers has a least one.
LEMMA LeastExists ==
  ASSUME NEW T \in SUBSET Nat, T # {}
  PROVE \E n \in T : \A m \in T : n <= m
<1>1. PICK n \in T : \A m \in T : ~(<<m, n>> \in LessThan)
  BY Zenon, LessThanWellFounded, WFMin
<1>2. ASSUME NEW m \in T
      PROVE n <= m
  <2>1. m < n => <<m, n>> \in LessThan
    BY Zenon DEF LessThan
  <2> QED
    BY <1>1, <2>1
<1> QED
  BY <1>2

\* Induction along 0..N, for membership in a set.
LEMMA IntervalInduction ==
  ASSUME NEW N \in Nat, NEW S, 0 \in S, \A i \in 1..N : i - 1 \in S => i \in S
  PROVE \A i \in 0..N : i \in S
<1> DEFINE T == {i \in 0..N : i \notin S}
<1>1. SUFFICES ASSUME T # {} PROVE FALSE
  BY DEF T
<1>2. T \in SUBSET Nat
  OBVIOUS
<1> HIDE DEF T
<1>3. PICK n \in T : \A m \in T : n <= m
  BY Zenon, <1>1, <1>2, LeastExists
<1>4. n \in 0..N /\ n \notin S
  BY Zenon DEF T
<1>5. n \in 1..N /\ n - 1 \in 0..N /\ ~(n <= n - 1)
  BY <1>4
<1>6. n - 1 \in S
  BY <1>3, <1>5 DEF T
<1> QED
  BY <1>4, <1>5, <1>6

Steps(N, V) == [1..N -> [V -> V]]
Iterates(N, V, v, F, g) ==
  g \in [0..N -> V] /\ g[0] = v /\ \A i \in 1..N : g[i] = F[i][g[i - 1]]

\* A recursion over 0..N with steps that stay in a set has a solution.
LEMMA IteratesExist ==
  ASSUME NEW N \in Nat, NEW V, NEW v \in V, NEW F \in Steps(N, V)
  PROVE \E g : Iterates(N, V, v, F, g)
<1> USE DEF Steps
<1> DEFINE Upto(n, g) == g[0] = v /\ \A i \in 1..n : g[i] = F[i][g[i - 1]]
           S == {n \in 0..N : \E g \in [0..n -> V] : Upto(n, g)}
<1>1. 0 \in S
  <2> DEFINE g == [i \in 0..0 |-> v]
  <2>1. g \in [0..0 -> V] /\ Upto(0, g) /\ 0 \in 0..N
    OBVIOUS
  <2> HIDE DEF g
  <2> QED
    BY <2>1
<1>2. ASSUME NEW n \in 1..N, n - 1 \in S
      PROVE n \in S
  <2>1. PICK g \in [0..(n - 1) -> V] : Upto(n - 1, g)
    BY <1>2
  <2> DEFINE h == [i \in 0..n |-> IF i = n THEN F[n][g[n - 1]] ELSE g[i]]
  <2>2. n - 1 \in 0..(n - 1) /\ g[n - 1] \in V
    OBVIOUS
  <2>3. F[n][g[n - 1]] \in V
    BY Zenon, <2>2
  <2>4. h \in [0..n -> V]
    BY <2>3
  <2>5. h[0] = v
    BY <2>1
  <2>6. ASSUME NEW i \in 1..n
        PROVE h[i] = F[i][h[i - 1]]
    <3>1. CASE i = n
      BY <2>2, <3>1
    <3>2. CASE i # n
      <4>1. i \in 1..(n - 1) /\ i - 1 \in 0..(n - 1) /\ i - 1 # n
        BY <3>2
      <4>2. h[i] = g[i] /\ h[i - 1] = g[i - 1]
        BY <4>1
      <4> QED
        BY <2>1, <4>1, <4>2
    <3> QED
      BY Zenon, <3>1, <3>2
  <2>7. Upto(n, h)
    BY Zenon, <2>5, <2>6
  <2>8. n \in 0..N
    OBVIOUS
  <2> HIDE DEF h
  <2> QED
    BY <2>4, <2>7, <2>8
<1> HIDE DEF S
<1>3. \A i \in 0..N : i \in S
  BY Zenon, <1>1, <1>2, IntervalInduction
<1>4. N \in S
  BY <1>3
<1> QED
  BY <1>4 DEF S, Iterates

-----------------------------------------------------------------------------
(* Completion queues. *)

\* The positions of a sequence are as many as its length.
LEMMA CountTo ==
  ASSUME NEW n \in Nat
  PROVE IsFiniteSet(1..n) /\ Cardinality(1..n) = n
  BY SMTT(30), FS_Interval

\* What is queued is a finite number of records.
LEMMA DataInType ==
  ASSUME NEW E, NEW q \in Seq(E)
  PROVE IsFiniteSet(DataAt(q)) /\ DataIn(q) \in Nat /\ DataIn(q) <= Len(q)
<1>1. Len(q) \in Nat
  OBVIOUS
<1> DEFINE n == Len(q)
           S == 1..n
           T == DataAt(q)
<1> HIDE DEF n
<1>2. IsFiniteSet(S) /\ Cardinality(S) = n
  <2>1. n \in Nat
    BY Zenon, <1>1 DEF n
  <2> QED
    BY Zenon, <2>1, CountTo
<1>3. T \in SUBSET S
  BY DEF DataAt, n
<1> HIDE DEF S, T
<1>4. IsFiniteSet(T) /\ Cardinality(T) <= Cardinality(S)
  BY Zenon, <1>2, <1>3, FS_Subset
<1>5. Cardinality(T) \in Nat
  BY <1>4, FS_CardinalityType
<1> QED
  BY <1>2, <1>4, <1>5 DEF T, n, DataIn

Dropped(e, h) == IsData(e) /\ e.h = h

\* WithoutData keeps a queue a queue, of records that were in it and are not
\* data of the flow.
LEMMA WithoutDataResult ==
  ASSUME NEW E, NEW q \in Seq(E), NEW h
  PROVE /\ WithoutData(q, h) \in Seq(E)
        /\ \A j \in 1..Len(WithoutData(q, h)) :
             \E i \in 1..Len(q) : WithoutData(q, h)[j] = q[i] /\ ~Dropped(q[i], h)
<1> DEFINE N == Len(q)
           V == Seq(E)
           F == [i \in 1..N |-> [v \in V |-> IF Dropped(q[i], h) THEN v
                                             ELSE Append(v, q[i])]]
           Step(f) == [i \in 0..Len(q) |->
                         IF i = 0 THEN <<>>
                         ELSE IF IsData(q[i]) /\ q[i].h = h THEN f[i - 1]
                         ELSE Append(f[i - 1], q[i])]
           W == CHOOSE f : f = Step(f)
<1>1. N \in Nat /\ <<>> \in V
  OBVIOUS
<1>2. F \in Steps(N, V)
  BY DEF Steps
<1> HIDE DEF N, V
<1>3. \A i \in 1..N, v \in V : F[i][v] = IF Dropped(q[i], h) THEN v ELSE Append(v, q[i])
  OBVIOUS
<1> HIDE DEF F
<1>4. PICK g : Iterates(N, V, <<>>, F, g)
  BY <1>1, <1>2, IteratesExist
<1>5. \A i \in 1..N : g[i] = IF Dropped(q[i], h) THEN g[i - 1]
                             ELSE Append(g[i - 1], q[i])
  <2>1. \A i \in 1..N : i - 1 \in 0..N
    BY <1>1
  <2> QED
    BY Zenon, <1>3, <1>4, <2>1 DEF Iterates
<1>6. g = Step(g)
  <2>1. DOMAIN g = 0..Len(q) /\ DOMAIN Step(g) = 0..Len(q)
    BY <1>4 DEF N, Iterates
  <2>2. \A i \in 0..Len(q) : g[i] = Step(g)[i]
    <3>1. \A i \in 0..N : i = 0 \/ i \in 1..N
      BY <1>1
    <3> QED
      BY Zenon, <1>4, <1>5, <3>1 DEF N, Dropped, Iterates
  <2>3. g = [i \in 0..Len(q) |-> g[i]]
    BY <1>4 DEF N, Iterates
  <2> QED
    BY Zenon, <2>2, <2>3
<1>7. W = Step(W)
  <2> HIDE DEF Step
  <2> QED
    BY Zenon, <1>6
<1>8. WithoutData(q, h) = W[N]
  BY Zenon DEF WithoutData, N
<1> HIDE DEF W
<1>9. /\ W[0] = <<>>
      /\ \A i \in 1..N : Dropped(q[i], h) => W[i] = W[i - 1]
      /\ \A i \in 1..N : ~Dropped(q[i], h) => W[i] = Append(W[i - 1], q[i])
  <2>1. \A i \in 1..N : i \in 0..Len(q) /\ i # 0
    BY <1>1 DEF N
  <2>2. 0 \in 0..Len(q)
    BY <1>1 DEF N
  <2>3. \A i \in 0..Len(q) : W[i] = Step(W)[i]
    BY Zenon, <1>7
  <2> QED
    BY Zenon, <2>1, <2>2, <2>3 DEF Dropped
<1> DEFINE From(w, n) == \A j \in 1..Len(w) :
                           \E i \in 1..n : w[j] = q[i] /\ ~Dropped(q[i], h)
           S == {i \in 0..N : W[i] \in Seq(E) /\ From(W[i], i)}
<1>10. 0 \in S
  <2>1. 0 \in 0..N /\ <<>> \in Seq(E) /\ 1..Len(<<>>) = {}
    BY <1>1
  <2> QED
    BY Zenon, <1>9, <2>1
<1>11. ASSUME NEW i \in 1..N, i - 1 \in S
       PROVE i \in S
  <2>1. i \in 0..N /\ i \in 1..Len(q) /\ i - 1 \in Nat /\ W[i - 1] \in Seq(E)
    BY <1>1, <1>11 DEF N
  <2>2. \A j \in 1..Len(W[i - 1]) :
           \E k \in 1..i : W[i - 1][j] = q[k] /\ ~Dropped(q[k], h)
    BY <1>1, <1>11
  <2>3. CASE Dropped(q[i], h)
    BY ZenonT(40), <1>9, <2>1, <2>2, <2>3
  <2>4. CASE ~Dropped(q[i], h)
    <3>1. W[i] = Append(W[i - 1], q[i]) /\ q[i] \in E
      BY <1>9, <2>1, <2>4
    <3>2. W[i] \in Seq(E) /\ Len(W[i]) = Len(W[i - 1]) + 1
      BY <2>1, <3>1
    <3>3. ASSUME NEW j \in 1..Len(W[i])
          PROVE \E k \in 1..i : W[i][j] = q[k] /\ ~Dropped(q[k], h)
      <4>1. CASE j = Len(W[i])
        <5>1. W[i][j] = q[i] /\ i \in 1..i
          BY <2>1, <3>1, <3>2, <4>1
        <5> QED
          BY Zenon, <2>4, <5>1
      <4>2. CASE j # Len(W[i])
        <5>1. j \in 1..Len(W[i - 1]) /\ W[i][j] = W[i - 1][j]
          BY <2>1, <3>1, <3>2, <4>2
        <5> QED
          BY <2>2, <5>1
      <4> QED
        BY Zenon, <4>1, <4>2
    <3> QED
      BY Zenon, <2>1, <3>2, <3>3
  <2> QED
    BY <2>3, <2>4
<1> HIDE DEF S
<1>12. N \in S
  <2>1. \A i \in 0..N : i \in S
    BY Zenon, <1>1, <1>10, <1>11, IntervalInduction
  <2> QED
    BY <1>1, <2>1
<1> QED
  BY <1>8, <1>12 DEF S, N

-----------------------------------------------------------------------------
(* The shape of a plane. *)

Identities == {NoIdentity} \union (Peers \X Nat)
FlowHandles == [slot : Nat, gen : Nat]
Controls == [type : {"state", "writable", "policy"}, h : FlowHandles]
Completions == Controls \union [type : {"data"}, h : FlowHandles, from : Identities]
Contexts == [open : BOOLEAN, q : Seq(Completions), data : Int, event : BOOLEAN]
Flows == [st : {"none", "pending", "open", "closed"}, owner : Clients \union {NoClient},
          gen : Nat, peer : Identities, pol : Nat, remote : Nat, port : Nat,
          occ : Int, waiter : BOOLEAN]
Tuples == [src : Nat, port : Nat, remote : Nat]
Routes == [net : Address, len : 0..AddressBits]
PlaneRecords ==
  [clients : [Clients -> Contexts], flows : [FlowSlots -> Flows], tombs : SUBSET Tuples,
   slabs : Int, port : Nat, nextFlow : Nat, avail : BOOLEAN, peer : Identities,
   pol : Nat, routes : SUBSET Routes, lost : BOOLEAN]
Planes == {p \in PlaneRecords :
             \A s \in FlowSlots : Live(p.flows[s]) =>
                p.flows[s].owner \in Clients /\ p.flows[s].peer \in Peers \X Nat}

SamePolicy(p, q) ==
  /\ q.avail = p.avail /\ q.peer = p.peer /\ q.pol = p.pol /\ q.routes = p.routes
  /\ q.port = p.port /\ q.nextFlow = p.nextFlow

\* What any change of a queue keeps: its data records were there before, and
\* the event covers it if it did before.
Covered(k) == k.q # <<>> => k.event
Retains(k, m) ==
  /\ m.open = k.open
  /\ \A j \in 1..Len(m.q) : IsData(m.q[j]) => \E i \in 1..Len(k.q) : k.q[i] = m.q[j]
  /\ Covered(k) => Covered(m)

\* A context retains itself.
LEMMA RetainsReflexive == ASSUME NEW k PROVE Retains(k, k)
  BY Zenon DEF Retains

\* What retains a context that retains another retains that one.
LEMMA RetainsTransitive ==
  ASSUME NEW k, NEW m, NEW n, Retains(k, m), Retains(m, n)
  PROVE Retains(k, n)
  BY DEF Retains

\* EnqueueControlCompletion changes queues and the history flag only.
LEMMA ControlEnqueued ==
  ASSUME NEW p \in Planes, NEW c \in Clients \union {NoClient}, NEW e \in Controls,
         NEW q, q = EnqueueControlCompletion(p, c, e)
  PROVE /\ q \in Planes /\ SamePolicy(p, q) /\ q.flows = p.flows /\ q.tombs = p.tombs
        /\ \A d \in Clients : Retains(p.clients[d], q.clients[d])
<1>1. CASE q = p
  BY <1>1, RetainsReflexive DEF SamePolicy
<1> DEFINE k == p.clients[c]
           b == p.lost \/ WithinReserve(k, e)
<1>2. CASE q = [p EXCEPT !.lost = b]
  <2>1. b \in BOOLEAN
    BY Zenon DEF WithinReserve
  <2> HIDE DEF b
  <2>2. q \in PlaneRecords /\ q.flows = p.flows /\ q.clients = p.clients
    BY <1>2, <2>1 DEF Planes, PlaneRecords
  <2>3. SamePolicy(p, q) /\ q.tombs = p.tombs
    BY <1>2 DEF Planes, PlaneRecords, SamePolicy
  <2> QED
    BY Zenon, <2>2, <2>3, RetainsReflexive DEF Planes
<1> DEFINE m == WithRecord(k, e)
<1>3. CASE c \in Clients /\ q = [p EXCEPT !.clients[c] = m]
  <2>1. k \in Contexts /\ e \in Completions /\ ~IsData(e)
    BY <1>3 DEF Planes, PlaneRecords, Completions, Controls, IsData
  <2>2. NotifyIfNeeded(k, e) \in BOOLEAN /\ k.q \in Seq(Completions)
    BY Zenon, <2>1 DEF Contexts, NotifyIfNeeded
  <2> DEFINE r == Append(k.q, e)
  <2>3. r \in Seq(Completions) /\ Len(r) = Len(k.q) + 1 /\ r[Len(r)] = e
        /\ \A j \in 1..Len(k.q) : r[j] = k.q[j]
    BY SMTT(30), <2>1, <2>2
  <2>4. m = [k EXCEPT !.q = r, !.event = NotifyIfNeeded(k, e)]
    BY Zenon DEF WithRecord
  <2> HIDE DEF r, m
  <2>5. m \in Contexts /\ m.q = r /\ m.open = k.open /\ m.event = NotifyIfNeeded(k, e)
    BY Zenon, <2>1, <2>2, <2>3, <2>4 DEF Contexts
  <2>6. Retains(k, m)
    <3>1. ASSUME NEW j \in 1..Len(m.q), IsData(m.q[j])
          PROVE \E i \in 1..Len(k.q) : k.q[i] = m.q[j]
      <4>1. j # Len(r)
        BY Zenon, <2>1, <2>3, <2>5, <3>1
      <4>2. j \in 1..Len(k.q) /\ m.q[j] = k.q[j]
        BY SMTT(30), <2>2, <2>3, <2>5, <4>1
      <4> QED
        BY Zenon, <4>2
    <3>2. Covered(k) => Covered(m)
      BY Zenon, <2>1, <2>5 DEF Covered, NotifyIfNeeded, Contexts
    <3> QED
      BY Zenon, <2>5, <3>1, <3>2 DEF Retains
  <2>7. [p.clients EXCEPT ![c] = m] \in [Clients -> Contexts]
    BY <1>3, <2>5 DEF Planes, PlaneRecords
  <2>8. q = [p EXCEPT !.clients = [p.clients EXCEPT ![c] = m]]
    BY Zenon, <1>3
  <2>9. /\ q \in PlaneRecords /\ q.flows = p.flows /\ q.tombs = p.tombs
        /\ q.clients = [p.clients EXCEPT ![c] = m]
    BY Zenon, <2>7, <2>8 DEF Planes, PlaneRecords
  <2>10. SamePolicy(p, q)
    BY Zenon, <2>8 DEF Planes, PlaneRecords, SamePolicy
  <2>11. \A d \in Clients : q.clients[d] = IF d = c THEN m ELSE p.clients[d]
    BY Zenon, <2>9 DEF Planes, PlaneRecords
  <2> QED
    BY Zenon, <2>6, <2>9, <2>10, <2>11, RetainsReflexive DEF Planes
<1>4. \/ q = p
      \/ q = [p EXCEPT !.lost = b]
      \/ c \in Clients /\ q = [p EXCEPT !.clients[c] = m]
  <2>1. q = p \/ (c \in Clients /\ q = AppendControl(p, c, e))
    BY Zenon DEF EnqueueControlCompletion
  <2>2. Len(k.q) >= QueueCapacity => AppendControl(p, c, e) = [p EXCEPT !.lost = b]
    BY Zenon DEF AppendControl
  <2>3. ~(Len(k.q) >= QueueCapacity) => AppendControl(p, c, e) = [p EXCEPT !.clients[c] = m]
    BY Zenon DEF AppendControl
  <2> HIDE DEF b, m
  <2> QED
    BY <2>1, <2>2, <2>3, Zenon
<1> QED
  BY Zenon, <1>1, <1>2, <1>3, <1>4

\* RemoveFlowCompletions changes the owner's queue and the counters only, and
\* leaves no data of the flow in it.
LEMMA CompletionsRemoved ==
  ASSUME NEW p \in Planes, NEW s \in FlowSlots, Live(p.flows[s])
  PROVE LET q == RemoveFlowCompletions(p, s)
            f == p.flows[s]
        IN /\ q \in Planes /\ SamePolicy(p, q)
           /\ q.flows = p.flows /\ q.tombs = p.tombs
           /\ \A d \in Clients : Retains(p.clients[d], q.clients[d])
           /\ \A j \in 1..Len(q.clients[f.owner].q) :
                ~Dropped(q.clients[f.owner].q[j], MakeFlowHandle(s, f))
<1> DEFINE f == p.flows[s]
           c == f.owner
           k == p.clients[c]
           h == MakeFlowHandle(s, f)
           rest == WithoutData(k.q, h)
           n == p.slabs - (Len(k.q) - Len(rest))
           m == [k EXCEPT !.q = rest, !.data = DataIn(rest)]
           q == RemoveFlowCompletions(p, s)
<1>1. c \in Clients /\ k \in Contexts
  BY Zenon DEF Planes, PlaneRecords
<1>2. k.q \in Seq(Completions)
  BY Zenon, <1>1 DEF Contexts
<1>3. /\ rest \in Seq(Completions)
      /\ \A j \in 1..Len(rest) :
           \E i \in 1..Len(k.q) : rest[j] = k.q[i] /\ ~Dropped(k.q[i], h)
  <2> HIDE DEF k, h
  <2> QED
    BY Zenon, <1>2, WithoutDataResult
<1>4. q = [p EXCEPT !.clients[c] = m, !.slabs = n]
  BY Zenon DEF RemoveFlowCompletions
<1>5. DataIn(rest) \in Int
  <2> HIDE DEF rest
  <2> QED
    BY SMTT(30), <1>3, DataInType
<1>6. n \in Int
  <2>1. p.slabs \in Int /\ Len(k.q) \in Nat
    BY <1>2 DEF Planes, PlaneRecords
  <2> HIDE DEF rest, k
  <2>2. Len(rest) \in Nat
    BY SMTT(30), <1>3
  <2> QED
    BY <2>1, <2>2
<1> HIDE DEF rest, n
<1>7. m \in Contexts /\ m.q = rest /\ m.open = k.open /\ m.event = k.event
  BY ZenonT(40), <1>1, <1>3, <1>5 DEF Contexts
<1>8. Retains(k, m)
  <2>1. Covered(k) => Covered(m)
    <3>1. rest # <<>> => k.q # <<>>
      <4>1. rest # <<>> => 1 \in 1..Len(rest)
        BY SMTT(30), <1>3
      <4> QED
        BY SMTT(30), <1>3, <4>1
    <3> QED
      BY Zenon, <1>7, <3>1 DEF Covered
  <2>2. \A j \in 1..Len(m.q) : IsData(m.q[j]) => \E i \in 1..Len(k.q) : k.q[i] = m.q[j]
    BY Zenon, <1>3, <1>7
  <2> QED
    BY Zenon, <1>7, <2>1, <2>2 DEF Retains
<1> HIDE DEF m, q
<1>9. [p.clients EXCEPT ![c] = m] \in [Clients -> Contexts]
  BY Zenon, <1>1, <1>7 DEF Planes, PlaneRecords
<1>10. q = [p EXCEPT !.clients = [p.clients EXCEPT ![c] = m], !.slabs = n]
  BY <1>4
<1>11. /\ q \in PlaneRecords /\ q.flows = p.flows /\ q.tombs = p.tombs
       /\ q.clients = [p.clients EXCEPT ![c] = m] /\ SamePolicy(p, q)
  BY Zenon, <1>6, <1>9, <1>10 DEF Planes, PlaneRecords, SamePolicy
<1>12. \A d \in Clients : q.clients[d] = IF d = c THEN m ELSE p.clients[d]
  BY Zenon, <1>11 DEF Planes, PlaneRecords
<1>13. q \in Planes
  BY Zenon, <1>11 DEF Planes
<1>14. \A d \in Clients : Retains(p.clients[d], q.clients[d])
  BY Zenon, <1>8, <1>12, RetainsReflexive
<1>15. q.clients[c].q = rest
  BY Zenon, <1>1, <1>7, <1>12
<1>16. \A j \in 1..Len(q.clients[c].q) : ~Dropped(q.clients[c].q[j], h)
  BY Zenon, <1>3, <1>15
<1> QED
  BY Zenon, <1>11, <1>13, <1>14, <1>16 DEF q

-----------------------------------------------------------------------------
(* Operations that open nothing. *)

\* The parts of a flow that its handle, its tuple and its data depend on.
SameFlow(f, g) ==
  /\ g.st = f.st /\ g.owner = f.owner /\ g.gen = f.gen /\ g.peer = f.peer
  /\ g.remote = f.remote /\ g.port = f.port

\* A queued data record is of an open flow of its client, and came for the
\* activation of the flow.
Backed(p, c, e) ==
  /\ FindFlow(p, c, e.h) /\ p.flows[e.h.slot].st = "open"
  /\ e.from = p.flows[e.h.slot].peer

Taken(p) == Cardinality(p.tombs) + Cardinality(LiveSlots(p))

\* q is p with some flows closed, some records drained or added, and some
\* tuples moved to quarantine or out of it.
Shrinks(p, q) ==
  /\ q \in Planes /\ SamePolicy(p, q)
  /\ \A s \in FlowSlots :
       \/ SameFlow(p.flows[s], q.flows[s])
       \/ ~Live(q.flows[s]) /\ q.flows[s].gen \in {0, p.flows[s].gen}
  /\ \A c \in Clients : Retains(p.clients[c], q.clients[c])
  /\ \A c \in Clients : \A j \in 1..Len(q.clients[c].q) :
       LET e == q.clients[c].q[j] IN IsData(e) /\ Backed(p, c, e) => Backed(q, c, e)
  /\ \A t \in q.tombs :
       t \in p.tombs \/ \E s \in LiveSlots(p) \ LiveSlots(q) : t = TupleOf(p.flows[s])
  /\ IsFiniteSet(p.tombs) => IsFiniteSet(q.tombs) /\ Taken(q) <= Taken(p)

\* The live flows are finitely many.
LEMMA LiveSlotsFinite ==
  ASSUME NEW p
  PROVE IsFiniteSet(LiveSlots(p)) /\ Cardinality(LiveSlots(p)) \in Nat
<1> DEFINE T == LiveSlots(p)
<1>1. IsFiniteSet(FlowSlots)
  BY Zenon, FlowConstants, CountTo DEF FlowSlots
<1>2. T \in SUBSET FlowSlots
  BY Zenon DEF LiveSlots
<1> HIDE DEF T
<1>3. IsFiniteSet(T)
  BY Zenon, <1>1, <1>2, FS_Subset
<1> QED
  BY Zenon, <1>3, FS_CardinalityType DEF T

\* Shrinks holds of a plane and itself.
LEMMA ShrinksReflexive == ASSUME NEW p \in Planes PROVE Shrinks(p, p)
<1>1. IsFiniteSet(p.tombs) => Taken(p) <= Taken(p)
  BY LiveSlotsFinite, FS_CardinalityType DEF Taken
<1> QED
  BY Zenon, <1>1, RetainsReflexive DEF Shrinks, SamePolicy, SameFlow

\* Shrinks composes.
LEMMA ShrinksTransitive ==
  ASSUME NEW p \in Planes, NEW q, NEW r, Shrinks(p, q), Shrinks(q, r)
  PROVE Shrinks(p, r)
<1>1. r \in Planes /\ SamePolicy(p, r)
  BY Zenon DEF Shrinks, SamePolicy
<1>2. \A s \in FlowSlots : Live(r.flows[s]) => Live(q.flows[s])
  BY Zenon DEF Shrinks, SameFlow, Live
<1>3. \A s \in FlowSlots : Live(q.flows[s]) => SameFlow(p.flows[s], q.flows[s])
  BY Zenon DEF Shrinks
<1>4. \A s \in FlowSlots : \/ SameFlow(p.flows[s], r.flows[s])
                           \/ ~Live(r.flows[s]) /\ r.flows[s].gen \in {0, p.flows[s].gen}
  BY DEF Shrinks, SameFlow, Live
<1>5. \A c \in Clients : Retains(p.clients[c], r.clients[c])
  BY Zenon, RetainsTransitive DEF Shrinks
<1>6. ASSUME NEW c \in Clients, NEW j \in 1..Len(r.clients[c].q),
             IsData(r.clients[c].q[j]), Backed(p, c, r.clients[c].q[j])
      PROVE Backed(r, c, r.clients[c].q[j])
  <2>1. PICK i \in 1..Len(q.clients[c].q) : q.clients[c].q[i] = r.clients[c].q[j]
    BY Zenon, <1>6 DEF Shrinks, Retains
  <2>2. Backed(q, c, r.clients[c].q[j])
    BY Zenon, <1>6, <2>1 DEF Shrinks
  <2> QED
    BY Zenon, <1>6, <2>2 DEF Shrinks
<1>7. ASSUME NEW t \in r.tombs, t \notin p.tombs
      PROVE \E s \in LiveSlots(p) \ LiveSlots(r) : t = TupleOf(p.flows[s])
  <2>1. CASE t \in q.tombs
    <3>1. PICK s \in LiveSlots(p) \ LiveSlots(q) : t = TupleOf(p.flows[s])
      BY Zenon, <1>7, <2>1 DEF Shrinks
    <3>2. s \in LiveSlots(p) \ LiveSlots(r)
      BY <1>2 DEF LiveSlots
    <3> QED
      BY Zenon, <3>1, <3>2
  <2>2. CASE t \notin q.tombs
    <3>1. PICK s \in LiveSlots(q) \ LiveSlots(r) : t = TupleOf(q.flows[s])
      BY Zenon, <1>7, <2>2 DEF Shrinks
    <3>2. SameFlow(p.flows[s], q.flows[s])
      BY <1>3 DEF LiveSlots
    <3>3. s \in LiveSlots(p) /\ t = TupleOf(p.flows[s])
      BY Zenon, <3>1, <3>2 DEF LiveSlots, SameFlow, TupleOf, Live
    <3> QED
      BY Zenon, <3>1, <3>3
  <2> QED
    BY <2>1, <2>2
<1>8. ASSUME IsFiniteSet(p.tombs)
      PROVE IsFiniteSet(r.tombs) /\ Taken(r) <= Taken(p)
  <2>1. IsFiniteSet(q.tombs) /\ IsFiniteSet(r.tombs)
        /\ Taken(r) <= Taken(q) /\ Taken(q) <= Taken(p)
    BY Zenon, <1>8 DEF Shrinks
  <2>2. /\ Cardinality(p.tombs) \in Nat /\ Cardinality(q.tombs) \in Nat
        /\ Cardinality(r.tombs) \in Nat
    BY Zenon, <1>8, <2>1, FS_CardinalityType
  <2>3. Taken(p) \in Nat /\ Taken(q) \in Nat /\ Taken(r) \in Nat
    BY <2>2, LiveSlotsFinite DEF Taken
  <2> QED
    BY <2>1, <2>3
<1> QED
  BY Zenon, <1>1, <1>4, <1>5, <1>6, <1>7, <1>8 DEF Shrinks

\* Flows and clients as they were, as far as Shrinks is concerned.
LEMMA ShrinksQuietly ==
  ASSUME NEW p \in Planes, NEW q \in Planes, SamePolicy(p, q),
         \A s \in FlowSlots : SameFlow(p.flows[s], q.flows[s]),
         \A c \in Clients : Retains(p.clients[c], q.clients[c]),
         q.tombs \subseteq p.tombs
  PROVE Shrinks(p, q)
<1>1. ASSUME NEW c \in Clients, NEW e, Backed(p, c, e)
      PROVE Backed(q, c, e)
  BY Zenon, <1>1 DEF Backed, FindFlow, SameFlow, Retains
<1>2. LiveSlots(q) = LiveSlots(p)
  BY Zenon DEF LiveSlots, Live, SameFlow
<1>3. ASSUME IsFiniteSet(p.tombs)
      PROVE IsFiniteSet(q.tombs) /\ Taken(q) <= Taken(p)
  <2> DEFINE S == p.tombs
             T == q.tombs
  <2>1. IsFiniteSet(S) /\ T \in SUBSET S
    BY <1>3
  <2> HIDE DEF S, T
  <2>2. IsFiniteSet(T) /\ Cardinality(T) <= Cardinality(S)
    BY Zenon, <2>1, FS_Subset
  <2>3. Cardinality(S) \in Nat /\ Cardinality(T) \in Nat
    BY Zenon, <2>1, <2>2, FS_CardinalityType
  <2>4. Cardinality(LiveSlots(p)) \in Nat
    BY Zenon, LiveSlotsFinite
  <2> QED
    BY <1>2, <2>2, <2>3, <2>4 DEF Taken, S, T
<1> QED
  BY Zenon, <1>1, <1>3 DEF Shrinks

\* A flow record put in a slot.
LEMMA FlowReplaced ==
  ASSUME NEW p \in Planes, NEW s \in FlowSlots, NEW f \in Flows,
         Live(f) => f.owner \in Clients /\ f.peer \in Peers \X Nat
  PROVE LET q == [p EXCEPT !.flows[s] = f]
        IN /\ q \in Planes /\ SamePolicy(p, q)
           /\ q.clients = p.clients /\ q.tombs = p.tombs
           /\ q.slabs = p.slabs /\ q.lost = p.lost
           /\ \A t \in FlowSlots : q.flows[t] = IF t = s THEN f ELSE p.flows[t]
<1> DEFINE g == [p.flows EXCEPT ![s] = f]
           q == [p EXCEPT !.flows = g]
<1>1. g \in [FlowSlots -> Flows] /\ \A t \in FlowSlots : g[t] = IF t = s THEN f ELSE p.flows[t]
  BY Zenon DEF Planes, PlaneRecords
<1> HIDE DEF g
<1>2. /\ q \in PlaneRecords /\ SamePolicy(p, q) /\ q.clients = p.clients
      /\ q.tombs = p.tombs /\ q.flows = g /\ q.slabs = p.slabs /\ q.lost = p.lost
  BY <1>1 DEF Planes, PlaneRecords, SamePolicy
<1> HIDE DEF q
<1>3. q \in Planes
  BY <1>1, <1>2 DEF Planes
<1> QED
  BY Zenon, <1>1, <1>2, <1>3 DEF q, g

\* The empty slot is a flow that is not live.
LEMMA NoFlowType == NoFlow \in Flows /\ ~Live(NoFlow) /\ NoFlow.gen = 0
  BY DEF NoFlow, Flows, Identities, Live

\* A closed slot keeps its handle and its owner.
LEMMA ClosedFlowType ==
  ASSUME NEW f \in Flows
  PROVE LET g == ClosedFlow(f)
        IN g \in Flows /\ ~Live(g) /\ g.gen = f.gen /\ g.owner = f.owner
  BY Zenon, NoFlowType DEF ClosedFlow, NoFlow, Flows, Live

\* What closing the slots S may do to the flows.
Closes(p, S, q) ==
  /\ Shrinks(p, q)
  /\ \A s \in S : ~Live(q.flows[s])
  /\ \A s \in FlowSlots \ S : q.flows[s] = p.flows[s]

\* A slot whose flow is not open, cleared.
LEMMA FlowCleared ==
  ASSUME NEW p \in Planes, NEW s \in FlowSlots, p.flows[s].st # "open"
  PROVE Closes(p, {s}, [p EXCEPT !.flows[s] = NoFlow])
<1> DEFINE q == [p EXCEPT !.flows[s] = NoFlow]
<1>1. /\ q \in Planes /\ SamePolicy(p, q) /\ q.clients = p.clients /\ q.tombs = p.tombs
      /\ \A t \in FlowSlots : q.flows[t] = IF t = s THEN NoFlow ELSE p.flows[t]
  BY FlowReplaced, NoFlowType
<1> HIDE DEF q
<1>2. ASSUME NEW c \in Clients, NEW e, Backed(p, c, e)
      PROVE Backed(q, c, e)
  BY Zenon, <1>1, <1>2 DEF Backed, FindFlow
<1>3. LiveSlots(q) = LiveSlots(p) \ {s}
  BY Zenon, <1>1, NoFlowType DEF LiveSlots
<1>4. Cardinality(LiveSlots(q)) <= Cardinality(LiveSlots(p))
  <2> DEFINE S == LiveSlots(p)
  <2>1. IsFiniteSet(S) /\ Cardinality(S) \in Nat
    BY Zenon, LiveSlotsFinite
  <2> HIDE DEF S
  <2>2. Cardinality(S \ {s}) <= Cardinality(S)
    BY SMTT(30), <2>1, FS_RemoveElement
  <2> QED
    BY <1>3, <2>2 DEF S
<1>5. IsFiniteSet(p.tombs) => Taken(q) <= Taken(p)
  BY <1>1, <1>4, LiveSlotsFinite, FS_CardinalityType DEF Taken
<1>6. \A t \in FlowSlots : \/ SameFlow(p.flows[t], q.flows[t])
                           \/ ~Live(q.flows[t]) /\ q.flows[t].gen \in {0, p.flows[t].gen}
  BY Zenon, <1>1, NoFlowType DEF SameFlow
<1>7. Shrinks(p, q)
  BY <1>1, <1>2, <1>5, <1>6, RetainsReflexive DEF Shrinks
<1> QED
  BY Zenon, <1>1, <1>7, NoFlowType DEF Closes, q

\* An open flow, shut: its data is gone, and its tuple takes the tombstone that
\* its slot gives up.
LEMMA FlowShut ==
  ASSUME NEW p \in Planes, NEW s \in FlowSlots, p.flows[s].st = "open"
  PROVE Closes(p, {s}, ShutFlow(p, s))
<1> DEFINE f == p.flows[s]
           u == RemoveFlowCompletions(p, s)
           v == QuarantineTuple(u, s)
           q == ShutFlow(p, s)
<1>1. f \in Flows /\ Live(f) /\ f.owner \in Clients /\ f.peer \in Peers \X Nat
  BY Zenon DEF Planes, PlaneRecords, Live
<1>2. /\ u \in Planes /\ SamePolicy(p, u) /\ u.flows = p.flows /\ u.tombs = p.tombs
      /\ \A d \in Clients : Retains(p.clients[d], u.clients[d])
      /\ \A j \in 1..Len(u.clients[f.owner].q) :
           ~Dropped(u.clients[f.owner].q[j], MakeFlowHandle(s, f))
  BY Zenon, <1>1, CompletionsRemoved
<1> HIDE DEF u
<1>3. TupleOf(f) \in Tuples
  <2>1. Config[f.peer[1]].source \in Nat
    BY <1>1, FlowConstants DEF Address
  <2> QED
    BY Zenon, <1>1, <2>1 DEF TupleOf, Tuples, Flows
<1>4. /\ v \in Planes /\ SamePolicy(u, v) /\ v.flows = u.flows /\ v.clients = u.clients
      /\ \/ v.tombs = u.tombs
         \/ v.tombs = u.tombs \union {TupleOf(f)}
  <2>1. v = u \/ v = [u EXCEPT !.tombs = u.tombs \union {TupleOf(f)}]
    BY Zenon, <1>2 DEF QuarantineTuple
  <2> HIDE DEF v
  <2>2. CASE v = u
    BY Zenon, <1>2, <2>2 DEF SamePolicy
  <2>3. CASE v = [u EXCEPT !.tombs = u.tombs \union {TupleOf(f)}]
    <3>1. u.tombs \union {TupleOf(f)} \in SUBSET Tuples
      BY Zenon, <1>2, <1>3 DEF Planes, PlaneRecords
    <3>2. /\ v \in PlaneRecords /\ SamePolicy(u, v) /\ v.flows = u.flows
          /\ v.clients = u.clients /\ v.tombs = u.tombs \union {TupleOf(f)}
      BY Zenon, <1>2, <2>3, <3>1 DEF Planes, PlaneRecords, SamePolicy
    <3> QED
      BY Zenon, <1>2, <3>2 DEF Planes
  <2> QED
    BY <2>1, <2>2, <2>3
<1> HIDE DEF v
<1>5. ClosedFlow(f) \in Flows /\ ~Live(ClosedFlow(f)) /\ ClosedFlow(f).gen = f.gen
  BY Zenon, <1>1, ClosedFlowType
<1>6. q = [v EXCEPT !.flows[s] = ClosedFlow(f)]
  BY DEF ShutFlow, u, v
<1>7. /\ q \in Planes /\ SamePolicy(v, q) /\ q.clients = v.clients /\ q.tombs = v.tombs
      /\ \A t \in FlowSlots : q.flows[t] = IF t = s THEN ClosedFlow(f) ELSE v.flows[t]
  <2> HIDE DEF f
  <2> QED
    BY SMTT(30), <1>4, <1>5, <1>6, FlowReplaced
<1> HIDE DEF q
<1>8. /\ SamePolicy(p, q)
      /\ \A t \in FlowSlots : q.flows[t] = IF t = s THEN ClosedFlow(f) ELSE p.flows[t]
      /\ \A d \in Clients : Retains(p.clients[d], q.clients[d])
  BY SMTT(30), <1>2, <1>4, <1>7 DEF SamePolicy
<1>9. \A t \in FlowSlots : \/ SameFlow(p.flows[t], q.flows[t])
                           \/ ~Live(q.flows[t]) /\ q.flows[t].gen \in {0, p.flows[t].gen}
  BY Zenon, <1>5, <1>8 DEF SameFlow
<1>10. ASSUME NEW c \in Clients, NEW j \in 1..Len(q.clients[c].q),
              IsData(q.clients[c].q[j]), Backed(p, c, q.clients[c].q[j])
       PROVE Backed(q, c, q.clients[c].q[j])
  <2> DEFINE e == q.clients[c].q[j]
  <2>1. e.h.slot # s
    <3>1. SUFFICES ASSUME e.h.slot = s PROVE FALSE
      BY SMTT(30)
    <3>2. c = f.owner /\ e.h.gen = f.gen
      BY Zenon, <1>10, <3>1 DEF Backed, FindFlow
    <3>3. e.h = MakeFlowHandle(s, f)
      <4>1. q.clients[c] \in Contexts
        BY Zenon, <1>7 DEF Planes, PlaneRecords
      <4>2. e \in Completions
        BY <4>1 DEF Contexts
      <4>3. e.h \in FlowHandles
        BY Zenon, <4>2 DEF Completions, Controls
      <4> QED
        BY ZenonT(40), <3>1, <3>2, <4>3 DEF MakeFlowHandle, FlowHandles
    <3>4. q.clients[c].q = u.clients[f.owner].q
      BY Zenon, <1>4, <1>7, <3>2
    <3> QED
      BY ZenonT(40), <1>2, <1>10, <3>3, <3>4 DEF Dropped
  <2> QED
    BY ZenonT(40), <1>8, <1>10, <2>1 DEF Backed, FindFlow, Retains
<1>11. LiveSlots(q) = LiveSlots(p) \ {s} /\ s \in LiveSlots(p)
  BY Zenon, <1>1, <1>5, <1>8 DEF LiveSlots
<1>12. \A t \in q.tombs :
         t \in p.tombs \/ \E r \in LiveSlots(p) \ LiveSlots(q) : t = TupleOf(p.flows[r])
  BY Zenon, <1>2, <1>4, <1>7, <1>11
<1>13. ASSUME IsFiniteSet(p.tombs)
       PROVE IsFiniteSet(q.tombs) /\ Taken(q) <= Taken(p)
  <2> DEFINE S == LiveSlots(p)
             T == p.tombs
             x == TupleOf(f)
  <2>1. /\ IsFiniteSet(S) /\ Cardinality(S) \in Nat /\ s \in S
        /\ IsFiniteSet(T)
    BY Zenon, <1>11, <1>13, LiveSlotsFinite
  <2>2. q.tombs = T \/ q.tombs = T \union {x}
    BY Zenon, <1>2, <1>4, <1>7
  <2>3. Taken(p) = Cardinality(T) + Cardinality(S)
        /\ Taken(q) = Cardinality(q.tombs) + Cardinality(S \ {s})
    BY <1>11 DEF Taken
  <2> HIDE DEF S, T, x
  <2>4. Cardinality(S \ {s}) = Cardinality(S) - 1
    BY Zenon, <2>1, FS_RemoveElement
  <2>5. Cardinality(T) \in Nat
    BY <2>1, FS_CardinalityType
  <2>6. /\ IsFiniteSet(T \union {x})
        /\ Cardinality(T \union {x}) = Cardinality(T)
           \/ Cardinality(T \union {x}) = Cardinality(T) + 1
    BY Zenon, <2>1, FS_AddElement
  <2>7. CASE q.tombs = T
    BY <2>1, <2>3, <2>4, <2>5, <2>7
  <2>8. CASE q.tombs = T \union {x}
    BY <2>1, <2>3, <2>4, <2>5, <2>6, <2>8
  <2> QED
    BY <2>2, <2>7, <2>8
<1>14. Shrinks(p, q)
  BY Zenon, <1>7, <1>8, <1>9, <1>10, <1>12, <1>13 DEF Shrinks
<1> QED
  BY Zenon, <1>5, <1>8, <1>14 DEF Closes, q

\* CloseFlowSlot closes its slot and no other.
LEMMA SlotClosed ==
  ASSUME NEW p \in Planes, NEW s \in FlowSlots, NEW notify \in BOOLEAN
  PROVE Closes(p, {s}, CloseFlowSlot(p, s, notify))
<1> DEFINE f == p.flows[s]
           q == ShutFlow(p, s)
           e == [type |-> "state", h |-> MakeFlowHandle(s, f)]
           r == EnqueueControlCompletion(q, f.owner, e)
<1>1. f \in Flows /\ s \in Nat
  BY FlowConstants DEF Planes, PlaneRecords, FlowSlots
<1>2. CASE f.st = "pending"
  <2>1. CloseFlowSlot(p, s, notify) = [p EXCEPT !.flows[s] = NoFlow]
    BY <1>2 DEF CloseFlowSlot
  <2> QED
    BY Zenon, <1>2, <2>1, FlowCleared
<1>3. CASE f.st = "open" /\ ~notify
  <2>1. CloseFlowSlot(p, s, notify) = q
    BY Zenon, <1>3 DEF CloseFlowSlot
  <2> QED
    BY <1>3, <2>1, FlowShut
<1>4. CASE f.st = "open" /\ notify
  <2>1. CloseFlowSlot(p, s, notify) = r
    BY Zenon, <1>4 DEF CloseFlowSlot
  <2>2. Closes(p, {s}, q) /\ q \in Planes
    BY <1>4, FlowShut DEF Closes, Shrinks
  <2>3. e \in Controls /\ f.owner \in Clients \union {NoClient}
    BY Zenon, <1>1 DEF Controls, FlowHandles, MakeFlowHandle, Flows
  <2> HIDE DEF q, e, f
  <2>4. /\ r \in Planes /\ SamePolicy(q, r) /\ r.flows = q.flows /\ r.tombs = q.tombs
        /\ \A d \in Clients : Retains(q.clients[d], r.clients[d])
    BY Zenon, <2>2, <2>3, ControlEnqueued
  <2> HIDE DEF r
  <2>5. Shrinks(q, r)
    BY Zenon, <2>2, <2>4, ShrinksQuietly DEF SameFlow
  <2>6. Shrinks(p, r)
    BY <2>2, <2>5, ShrinksTransitive DEF Closes
  <2> QED
    BY <2>1, <2>2, <2>4, <2>6 DEF Closes
<1>5. CASE ~Live(f)
  <2>1. CloseFlowSlot(p, s, notify) = p
    BY <1>5 DEF CloseFlowSlot, Live
  <2> QED
    BY Zenon, <1>5, <2>1, ShrinksReflexive DEF Closes
<1> QED
  BY Zenon, <1>1, <1>2, <1>3, <1>4, <1>5 DEF Live

\* CloseAll closes the slots it is given and no other.
LEMMA AllClosed ==
  ASSUME NEW p \in Planes, NEW S \in SUBSET FlowSlots, NEW notify \in BOOLEAN
  PROVE Closes(p, S, CloseAll(p, S, notify))
<1> DEFINE N == FlowCount
           F == [i \in 1..N |-> [v \in Planes |-> IF i \in S THEN CloseFlowSlot(v, i, notify)
                                                  ELSE v]]
           Step(f) == [i \in 0..FlowCount |->
                         IF i = 0 THEN p
                         ELSE IF i \in S THEN CloseFlowSlot(f[i - 1], i, notify)
                         ELSE f[i - 1]]
           W == CHOOSE f : f = Step(f)
<1>1. N \in Nat /\ FlowSlots = 1..N
  BY FlowConstants DEF FlowSlots
<1>2. \A i \in 1..N, v \in Planes : CloseFlowSlot(v, i, notify) \in Planes
  BY Zenon, <1>1, SlotClosed DEF Closes, Shrinks
<1>3. F \in Steps(N, Planes)
  BY <1>2 DEF Steps
<1> HIDE DEF N
<1>4. \A i \in 1..N, v \in Planes : F[i][v] = IF i \in S THEN CloseFlowSlot(v, i, notify)
                                              ELSE v
  BY Zenon
<1> HIDE DEF F
<1>5. PICK g : Iterates(N, Planes, p, F, g)
  BY <1>1, <1>3, IteratesExist
<1>6. \A i \in 1..N : /\ g[i - 1] \in Planes
                      /\ g[i] = IF i \in S THEN CloseFlowSlot(g[i - 1], i, notify)
                                ELSE g[i - 1]
  <2>1. \A i \in 1..N : i - 1 \in 0..N
    BY <1>1
  <2> QED
    BY <1>4, <1>5, <2>1 DEF Iterates
<1>7. g = Step(g)
  <2>1. \A i \in 0..N : i = 0 \/ i \in 1..N
    BY <1>1
  <2>2. \A i \in 0..FlowCount : g[i] = Step(g)[i]
    BY <1>5, <1>6, <2>1 DEF N, Iterates
  <2>3. g = [i \in 0..FlowCount |-> g[i]]
    BY <1>5 DEF N, Iterates
  <2> QED
    BY Zenon, <2>2, <2>3
<1>8. W = Step(W)
  <2> HIDE DEF Step
  <2> QED
    BY Zenon, <1>7
<1>9. CloseAll(p, S, notify) = W[N]
  BY Zenon DEF CloseAll, N
<1> HIDE DEF W
<1>10. /\ W[0] = p
       /\ \A i \in 1..N : i \in S => W[i] = CloseFlowSlot(W[i - 1], i, notify)
       /\ \A i \in 1..N : i \notin S => W[i] = W[i - 1]
  <2>1. \A i \in 1..N : i \in 0..FlowCount /\ i # 0
    BY <1>1 DEF N
  <2>2. 0 \in 0..FlowCount
    BY <1>1 DEF N
  <2>3. \A i \in 0..FlowCount : W[i] = Step(W)[i]
    BY Zenon, <1>8
  <2> QED
    BY Zenon, <2>1, <2>2, <2>3
<1> HIDE DEF Step
<1> DEFINE T == {i \in 0..N : Closes(p, S \intersect (1..i), W[i])}
<1>11. 0 \in T
  <2>1. 0 \in 0..N /\ S \intersect (1..0) = {}
    BY <1>1
  <2>2. Closes(p, {}, p)
    BY ShrinksReflexive DEF Closes
  <2> QED
    BY <1>10, <2>1, <2>2
<1>12. ASSUME NEW i \in 1..N, i - 1 \in T
       PROVE i \in T
  <2> DEFINE A == S \intersect (1..(i - 1))
             B == S \intersect (1..i)
             v == W[i - 1]
  <2>1. Closes(p, A, v) /\ i \in 0..N /\ v \in Planes /\ i \in FlowSlots
    <3>1. i \in 0..N /\ i \in FlowSlots
      BY <1>1
    <3>2. Closes(p, A, v)
      BY Zenon, <1>12
    <3>3. v \in Planes
      BY Zenon, <3>2 DEF Closes, Shrinks
    <3> QED
      BY Zenon, <3>1, <3>2, <3>3
  <2>2. CASE i \in S
    <3>1. W[i] = CloseFlowSlot(v, i, notify) /\ B = A \union {i}
      BY SMTT(30), <1>1, <1>10, <2>2
    <3> HIDE DEF A, B, v
    <3>2. Closes(v, {i}, W[i])
      BY <2>1, <3>1, SlotClosed
    <3>3. Shrinks(p, W[i])
      BY <2>1, <3>2, ShrinksTransitive DEF Closes
    <3>4. \A s \in FlowSlots : Live(W[i].flows[s]) => Live(v.flows[s])
      BY Zenon, <3>2 DEF Closes, Shrinks, SameFlow, Live
    <3>5. A \subseteq FlowSlots
      BY Zenon DEF A
    <3>6. Closes(p, B, W[i])
      BY Zenon, <2>1, <3>1, <3>2, <3>3, <3>4, <3>5 DEF Closes
    <3> QED
      BY Zenon, <2>1, <3>6 DEF B
  <2>3. CASE i \notin S
    <3>1. W[i] = v /\ B = A
      BY <1>1, <1>10, <2>3
    <3> QED
      BY Zenon, <2>1, <3>1
  <2> QED
    BY Zenon, <2>2, <2>3
<1> HIDE DEF T
<1>13. N \in T
  <2>1. \A i \in 0..N : i \in T
    BY Zenon, <1>1, <1>11, <1>12, IntervalInduction
  <2> QED
    BY <1>1, <2>1
<1>14. S \intersect (1..N) = S
  BY ZenonT(40), <1>1
<1> QED
  BY <1>9, <1>13, <1>14 DEF T

-----------------------------------------------------------------------------
(* The inductive invariant, in the part that the policy has no say in and the *)
(* part that ties the live flows to it.                                       *)

DistinctTuples(p) ==
  /\ \A s, t \in LiveSlots(p) : s # t => TupleOf(p.flows[s]) # TupleOf(p.flows[t])
  /\ \A s \in LiveSlots(p) : TupleOf(p.flows[s]) \notin p.tombs
DataBacked(p) ==
  \A c \in Clients : \A i \in 1..Len(p.clients[c].q) :
     IsData(p.clients[c].q[i]) => Backed(p, c, p.clients[c].q[i])
Sound(p) ==
  /\ p \in Planes
  /\ \A s \in FlowSlots : p.flows[s].gen < p.nextFlow
  /\ \A s \in LiveSlots(p) : p.clients[p.flows[s].owner].open
  /\ DistinctTuples(p)
  /\ IsFiniteSet(p.tombs) /\ Taken(p) <= TombstoneCount
  /\ \A c \in Clients : Covered(p.clients[c])
  /\ DataBacked(p)
Current(p) ==
  /\ \A s \in LiveSlots(p) : p.flows[s].peer = p.peer /\ p.flows[s].pol = p.pol
  /\ p.avail => p.peer \in Peers \X Nat

\* Closing and draining keep the first part.
LEMMA ShrinksKeepsSound ==
  ASSUME NEW p, NEW q, Sound(p), Shrinks(p, q)
  PROVE Sound(q)
<1>1. p \in Planes /\ q \in Planes /\ SamePolicy(p, q)
  BY Zenon DEF Sound, Shrinks
<1>2. \A s \in LiveSlots(q) : s \in LiveSlots(p) /\ SameFlow(p.flows[s], q.flows[s])
  BY Zenon DEF Shrinks, LiveSlots, Live, SameFlow
<1>3. \A s \in FlowSlots : q.flows[s].gen < q.nextFlow
  <2>1. ASSUME NEW s \in FlowSlots
        PROVE q.flows[s].gen < q.nextFlow
    <3>1. q.flows[s].gen \in {0, p.flows[s].gen} /\ q.nextFlow = p.nextFlow
      BY Zenon DEF Shrinks, SameFlow, SamePolicy
    <3>2. p.flows[s].gen \in Nat /\ p.flows[s].gen < p.nextFlow /\ p.nextFlow \in Nat
      BY Zenon DEF Sound, Planes, PlaneRecords, Flows
    <3> QED
      BY <3>1, <3>2
  <2> QED
    BY Zenon, <2>1
<1>4. \A s \in LiveSlots(q) : q.clients[q.flows[s].owner].open
  <2>1. ASSUME NEW s \in LiveSlots(q)
        PROVE q.clients[q.flows[s].owner].open
    <3>1. s \in LiveSlots(p) /\ q.flows[s].owner = p.flows[s].owner
      BY <1>2 DEF SameFlow
    <3>2. p.flows[s].owner \in Clients /\ p.clients[p.flows[s].owner].open
      BY Zenon, <3>1 DEF Sound, Planes, LiveSlots
    <3> QED
      BY Zenon, <3>1, <3>2 DEF Shrinks, Retains
  <2> QED
    BY Zenon, <2>1
<1>5. DistinctTuples(q)
  <2>1. \A s \in LiveSlots(q) : s \in LiveSlots(p) /\ TupleOf(q.flows[s]) = TupleOf(p.flows[s])
    BY Zenon, <1>2 DEF TupleOf, SameFlow
  <2>2. ASSUME NEW s \in LiveSlots(q), TupleOf(q.flows[s]) \in q.tombs
        PROVE FALSE
    <3>1. TupleOf(p.flows[s]) \notin p.tombs
      BY Zenon, <2>1 DEF Sound, DistinctTuples
    <3>2. PICK t \in LiveSlots(p) \ LiveSlots(q) : TupleOf(q.flows[s]) = TupleOf(p.flows[t])
      BY Zenon, <2>1, <2>2, <3>1 DEF Shrinks
    <3> QED
      BY Zenon, <2>1, <3>2 DEF Sound, DistinctTuples
  <2> QED
    BY Zenon, <2>1, <2>2 DEF Sound, DistinctTuples
<1>6. IsFiniteSet(q.tombs) /\ Taken(q) <= TombstoneCount
  <2>1. IsFiniteSet(q.tombs) /\ Taken(q) <= Taken(p) /\ Taken(p) <= TombstoneCount
    BY Zenon DEF Sound, Shrinks
  <2>2. Cardinality(p.tombs) \in Nat /\ Cardinality(q.tombs) \in Nat
    BY <2>1, FS_CardinalityType DEF Sound
  <2>3. Taken(p) \in Nat /\ Taken(q) \in Nat
    BY <2>2, LiveSlotsFinite DEF Taken
  <2> QED
    BY <2>1, <2>3, FlowConstants
<1>7. \A c \in Clients : Covered(q.clients[c])
  BY Zenon DEF Sound, Shrinks, Retains
<1>8. DataBacked(q)
  <2>1. ASSUME NEW c \in Clients, NEW j \in 1..Len(q.clients[c].q),
               IsData(q.clients[c].q[j])
        PROVE Backed(q, c, q.clients[c].q[j])
    <3>1. PICK i \in 1..Len(p.clients[c].q) : p.clients[c].q[i] = q.clients[c].q[j]
      BY Zenon, <2>1 DEF Shrinks, Retains
    <3>2. Backed(p, c, q.clients[c].q[j])
      BY Zenon, <2>1, <3>1 DEF Sound, DataBacked
    <3> QED
      BY Zenon, <2>1, <3>2 DEF Shrinks
  <2> QED
    BY Zenon, <2>1 DEF DataBacked
<1> QED
  BY Zenon, <1>1, <1>3, <1>4, <1>5, <1>6, <1>7, <1>8 DEF Sound

\* Closing keeps the second part.
LEMMA ClosesKeepsCurrent ==
  ASSUME NEW p, NEW q, NEW S, Current(p), Closes(p, S, q)
  PROVE Current(q)
<1>1. \A s \in LiveSlots(q) : s \in LiveSlots(p) /\ q.flows[s] = p.flows[s]
  BY Zenon DEF Closes, LiveSlots
<1>2. q.peer = p.peer /\ q.pol = p.pol /\ q.avail = p.avail
  BY Zenon DEF Closes, Shrinks, SamePolicy
<1> QED
  BY Zenon, <1>1, <1>2 DEF Current

\* A handle that names no live flow names none afterwards, except by being the
\* next one given out.
FlowsFollow(p, q) ==
  \A s \in FlowSlots : Live(q.flows[s]) =>
     (Live(p.flows[s]) /\ q.flows[s].gen = p.flows[s].gen) \/ q.flows[s].gen >= p.nextFlow

\* Closing gives out no handle.
LEMMA ShrinksFollows == ASSUME NEW p, NEW q, Shrinks(p, q) PROVE FlowsFollow(p, q)
  BY Zenon DEF Shrinks, FlowsFollow, SameFlow, Live

Valid(p) == Sound(p) /\ Current(p)
Good(p, q) == Valid(q) /\ FlowsFollow(p, q)

\* A valid plane is a plane, with a natural number for its next generation.
LEMMA ValidIsPlane == ASSUME NEW p, Valid(p) PROVE p \in Planes /\ p.nextFlow \in Nat
<1>1. p \in Planes
  BY Zenon DEF Valid, Sound
<1> QED
  BY <1>1 DEF Planes, PlaneRecords

\* Closing in a valid plane.
LEMMA ClosesIsGood ==
  ASSUME NEW p, NEW q, NEW S, Valid(p), Closes(p, S, q)
  PROVE Good(p, q)
<1>1. Shrinks(p, q)
  BY Zenon DEF Closes
<1> QED
  BY <1>1, ShrinksKeepsSound, ClosesKeepsCurrent, ShrinksFollows DEF Good, Valid

-----------------------------------------------------------------------------
(* Sending, draining and expiry. *)

\* Nothing is opened or closed.
Quiet(p, q) ==
  /\ q \in Planes /\ SamePolicy(p, q) /\ q.tombs \subseteq p.tombs
  /\ \A s \in FlowSlots : SameFlow(p.flows[s], q.flows[s]) /\ q.flows[s].pol = p.flows[s].pol
  /\ \A c \in Clients : Retains(p.clients[c], q.clients[c])

\* Changing nothing is quiet.
LEMMA QuietReflexive == ASSUME NEW p \in Planes PROVE Quiet(p, p)
  BY RetainsReflexive DEF Quiet, SamePolicy, SameFlow

\* Two quiet changes are one.
LEMMA QuietTransitive ==
  ASSUME NEW p, NEW q, NEW r, Quiet(p, q), Quiet(q, r)
  PROVE Quiet(p, r)
  BY RetainsTransitive DEF Quiet, SamePolicy, SameFlow

\* A quiet change keeps a plane valid.
LEMMA QuietIsGood ==
  ASSUME NEW p, NEW q, Valid(p), Quiet(p, q)
  PROVE Good(p, q)
<1>1. p \in Planes
  BY Zenon DEF Valid, Sound
<1>2. Shrinks(p, q)
  BY <1>1, ShrinksQuietly DEF Quiet
<1>3. Current(q)
  BY Zenon DEF Current, Valid, Quiet, SameFlow, SamePolicy, LiveSlots, Live
<1> QED
  BY <1>2, <1>3, ShrinksKeepsSound, ShrinksFollows DEF Good, Valid

\* A flow's waiter flag set or cleared.
LEMMA WaiterSet ==
  ASSUME NEW p \in Planes, NEW s \in FlowSlots, NEW b \in BOOLEAN
  PROVE Quiet(p, [p EXCEPT !.flows[s] = [@ EXCEPT !.waiter = b]])
<1> DEFINE f == [p.flows[s] EXCEPT !.waiter = b]
           q == [p EXCEPT !.flows[s] = f]
<1>1. p.flows[s] \in Flows
  BY DEF Planes, PlaneRecords
<1>2. f \in Flows /\ SameFlow(p.flows[s], f) /\ f.pol = p.flows[s].pol
  BY Zenon, <1>1 DEF Flows, SameFlow
<1>3. Live(f) => f.owner \in Clients /\ f.peer \in Peers \X Nat
  BY Zenon, <1>2 DEF SameFlow, Live, Planes
<1> HIDE DEF f
<1>4. /\ q \in Planes /\ SamePolicy(p, q) /\ q.clients = p.clients /\ q.tombs = p.tombs
      /\ \A t \in FlowSlots : q.flows[t] = IF t = s THEN f ELSE p.flows[t]
  BY <1>2, <1>3, FlowReplaced
<1> HIDE DEF q
<1>5. Quiet(p, q)
  BY Zenon, <1>2, <1>4, RetainsReflexive DEF Quiet, SameFlow
<1> QED
  BY <1>5 DEF q, f

\* CompleteSend touches the waiter flag at most.
LEMMA SendCompleted ==
  ASSUME NEW p \in Planes, NEW h, h.slot \in FlowSlots, NEW status
  PROVE Quiet(p, CompleteSend(p, h, status))
<1> DEFINE s == h.slot
<1>1. \/ CompleteSend(p, h, status) = p
      \/ CompleteSend(p, h, status) = [p EXCEPT !.flows[s] = [@ EXCEPT !.waiter = TRUE]]
      \/ CompleteSend(p, h, status) = [p EXCEPT !.flows[s] = [@ EXCEPT !.waiter = FALSE]]
  BY Zenon DEF CompleteSend
<1>2. s \in FlowSlots
  OBVIOUS
<1> HIDE DEF s
<1> QED
  BY Zenon, <1>1, <1>2, WaiterSet, QuietReflexive

\* TellWritable clears the flag and queues a record.
LEMMA WritableTold ==
  ASSUME NEW p \in Planes, NEW s \in FlowSlots
  PROVE Quiet(p, TellWritable(p, s))
<1> DEFINE f == p.flows[s]
           q == [p EXCEPT !.flows[s] = [f EXCEPT !.waiter = FALSE]]
           e == [type |-> "writable", h |-> MakeFlowHandle(s, f)]
           r == EnqueueControlCompletion(q, f.owner, e)
<1>1. f \in Flows /\ s \in Nat
  BY FlowConstants DEF Planes, PlaneRecords, FlowSlots
<1>2. Quiet(p, q) /\ q \in Planes
  BY Zenon, WaiterSet DEF Quiet
<1>3. e \in Controls /\ f.owner \in Clients \union {NoClient}
  BY Zenon, <1>1 DEF Controls, FlowHandles, MakeFlowHandle, Flows
<1>4. TellWritable(p, s) = r
  BY DEF TellWritable
<1> HIDE DEF q, e, f
<1>5. /\ r \in Planes /\ SamePolicy(q, r) /\ r.flows = q.flows /\ r.tombs = q.tombs
      /\ \A d \in Clients : Retains(q.clients[d], r.clients[d])
  BY <1>2, <1>3, ControlEnqueued
<1> HIDE DEF r
<1>6. Quiet(q, r)
  BY <1>5 DEF Quiet, SameFlow
<1> QED
  BY Zenon, <1>2, <1>4, <1>6, QuietTransitive

\* So does NotifyOutboundCapacityAvailable, for every waiter.
LEMMA CapacityNotified ==
  ASSUME NEW p \in Planes, NEW id
  PROVE Quiet(p, NotifyOutboundCapacityAvailable(p, id))
<1> DEFINE N == FlowCount
           S == {s \in FlowSlots : /\ p.flows[s].st = "open"
                                   /\ p.flows[s].peer = id /\ p.flows[s].waiter}
           F == [i \in 1..N |-> [v \in Planes |-> IF i \in S THEN TellWritable(v, i) ELSE v]]
           Step(f) == [i \in 0..FlowCount |->
                         IF i = 0 THEN p
                         ELSE IF i \in S THEN TellWritable(f[i - 1], i) ELSE f[i - 1]]
           W == CHOOSE f : f = Step(f)
<1>1. N \in Nat /\ FlowSlots = 1..N
  BY FlowConstants DEF FlowSlots
<1>2. \A i \in 1..N, v \in Planes : TellWritable(v, i) \in Planes
  BY <1>1, WritableTold DEF Quiet
<1>3. NotifyOutboundCapacityAvailable(p, id) = W[N]
  BY DEF NotifyOutboundCapacityAvailable, N
<1> HIDE DEF S
<1>4. F \in Steps(N, Planes)
  BY <1>2 DEF Steps
<1> HIDE DEF N
<1>5. \A i \in 1..N, v \in Planes : F[i][v] = IF i \in S THEN TellWritable(v, i) ELSE v
  OBVIOUS
<1> HIDE DEF F
<1>6. PICK g : Iterates(N, Planes, p, F, g)
  BY <1>1, <1>4, IteratesExist
<1>7. \A i \in 1..N : /\ g[i - 1] \in Planes
                      /\ g[i] = IF i \in S THEN TellWritable(g[i - 1], i) ELSE g[i - 1]
  <2>1. \A i \in 1..N : i - 1 \in 0..N
    BY <1>1
  <2> QED
    BY <1>5, <1>6, <2>1 DEF Iterates
<1>8. g = Step(g)
  <2>1. \A i \in 0..N : i = 0 \/ i \in 1..N
    BY <1>1
  <2>2. \A i \in 0..FlowCount : g[i] = Step(g)[i]
    BY <1>6, <1>7, <2>1 DEF N, Iterates
  <2>3. g = [i \in 0..FlowCount |-> g[i]]
    BY Zenon, <1>6 DEF N, Iterates
  <2> QED
    BY Zenon, <2>2, <2>3
<1>9. W = Step(W)
  <2> HIDE DEF Step
  <2> QED
    BY <1>8
<1> HIDE DEF W
<1>10. /\ W[0] = p
       /\ \A i \in 1..N : W[i] = W[i - 1] \/ W[i] = TellWritable(W[i - 1], i)
  <2>1. \A i \in 1..N : i \in 0..FlowCount /\ i # 0
    BY <1>1 DEF N
  <2>2. 0 \in 0..FlowCount
    BY <1>1 DEF N
  <2>3. \A i \in 0..FlowCount : W[i] = Step(W)[i]
    BY Zenon, <1>9
  <2> QED
    BY <2>1, <2>2, <2>3
<1> HIDE DEF Step
<1> DEFINE T == {i \in 0..N : Quiet(p, W[i])}
<1>11. 0 \in T
  BY <1>1, <1>10, QuietReflexive
<1>12. ASSUME NEW i \in 1..N, i - 1 \in T
       PROVE i \in T
  <2>1. Quiet(p, W[i - 1]) /\ i \in 0..N /\ W[i - 1] \in Planes /\ i \in FlowSlots
    BY SMTT(30), <1>1, <1>12 DEF Quiet
  <2>2. Quiet(W[i - 1], W[i])
    BY Zenon, <1>10, <2>1, WritableTold, QuietReflexive
  <2> QED
    BY <2>1, <2>2, QuietTransitive
<1> HIDE DEF T
<1>13. N \in T
  <2>1. \A i \in 0..N : i \in T
    BY Zenon, <1>1, <1>11, <1>12, IntervalInduction
  <2> QED
    BY SMTT(30), <1>1, <2>1
<1> QED
  BY <1>3, <1>13 DEF T

\* A tombstone runs out.
LEMMA TombstoneExpired ==
  ASSUME NEW p \in Planes, NEW t
  PROVE Quiet(p, [p EXCEPT !.tombs = @ \ {t}])
<1> DEFINE T == p.tombs \ {t}
           q == [p EXCEPT !.tombs = T]
<1>1. T \in SUBSET Tuples /\ T \subseteq p.tombs
  BY DEF Planes, PlaneRecords
<1> HIDE DEF T
<1>2. /\ q \in PlaneRecords /\ SamePolicy(p, q) /\ q.flows = p.flows
      /\ q.clients = p.clients /\ q.tombs = T
  BY Zenon, <1>1 DEF Planes, PlaneRecords, SamePolicy
<1> HIDE DEF q
<1>3. Quiet(p, q)
  BY <1>1, <1>2, RetainsReflexive DEF Quiet, SameFlow, Planes
<1> QED
  BY Zenon, <1>3 DEF q, T

\* A queue of which the first records were read.
LEMMA ContextDrained ==
  ASSUME NEW k \in Contexts, NEW n \in 1..Len(k.q)
  PROVE Drained(k, n) \in Contexts /\ Retains(k, Drained(k, n))
<1> DEFINE r == SubSeq(k.q, n + 1, Len(k.q))
           g == SubSeq(k.q, 1, n)
           d == k.data - DataIn(g)
           b == k.event /\ r # <<>>
           m == [k EXCEPT !.q = r, !.data = d, !.event = b]
<1>1. k.q \in Seq(Completions) /\ Len(k.q) \in Nat /\ n \in Nat
  BY DEF Contexts
<1>2. r \in Seq(Completions) /\ g \in Seq(Completions)
      /\ \A j \in 1..Len(r) : n + j \in 1..Len(k.q) /\ r[j] = k.q[n + j]
  <2> DEFINE a == k.q
  <2>1. a \in Seq(Completions) /\ n \in 1..Len(a) /\ Len(a) \in Nat
    BY <1>1
  <2> HIDE DEF a
  <2>2. /\ SubSeq(a, 1, n) \in Seq(Completions)
        /\ SubSeq(a, n + 1, Len(a)) \in Seq(Completions)
        /\ Len(SubSeq(a, n + 1, Len(a))) = Len(a) - n
        /\ \A j \in 1..(Len(a) - n) : SubSeq(a, n + 1, Len(a))[j] = a[n + j]
    BY <2>1, SubSeqProperties
  <2>3. \A j \in 1..(Len(a) - n) : n + j \in 1..Len(a)
    BY <2>1
  <2> QED
    BY Zenon, <2>2, <2>3 DEF a
<1>3. d \in Int
  <2> HIDE DEF g
  <2> QED
    BY SMTT(30), <1>2, DataInType DEF Contexts
<1>4. Drained(k, n) = m
  BY Zenon DEF Drained
<1>5. b \in BOOLEAN /\ (b <=> (k.event /\ r # <<>>))
  BY Zenon
<1>6. r # <<>> => k.q # <<>>
  <2>1. 1 \in 1..Len(k.q)
    BY <1>1
  <2> QED
    BY <2>1
<1> HIDE DEF r, d, b
<1>7. m \in Contexts /\ m.q = r /\ m.open = k.open /\ m.event = b
  BY Zenon, <1>2, <1>3, <1>5 DEF Contexts
<1> HIDE DEF m
<1>8. Retains(k, m)
  BY Zenon, <1>2, <1>5, <1>6, <1>7 DEF Retains, Covered
<1> QED
  BY <1>4, <1>7, <1>8

\* ReceiveCompletions drains a queue and gives back occupancy.
LEMMA CompletionsReceived ==
  ASSUME NEW p \in Planes, NEW c \in Clients, NEW n \in 1..Len(p.clients[c].q)
  PROVE Quiet(p, ReceiveCompletions(p, c, n))
<1> DEFINE k == p.clients[c]
           m == Drained(k, n)
           C == [p.clients EXCEPT ![c] = m]
           l == p.slabs - DataIn(SubSeq(k.q, 1, n))
           F == [s \in FlowSlots |-> [p.flows[s] EXCEPT !.occ = @ - ReadOf(p, c, n, s)]]
           q == [p EXCEPT !.clients = C, !.slabs = l, !.flows = F]
<1>1. k \in Contexts /\ k.q \in Seq(Completions) /\ n \in Nat /\ Len(k.q) \in Nat
  BY DEF Planes, PlaneRecords, Contexts
<1>2. m \in Contexts /\ Retains(k, m)
  BY <1>1, ContextDrained
<1>3. l \in Int
  <2>1. SubSeq(k.q, 1, n) \in Seq(Completions)
    BY SMTT(30), <1>1
  <2>2. DataIn(SubSeq(k.q, 1, n)) \in Nat
    BY Zenon, <2>1, DataInType
  <2> QED
    BY <2>2 DEF Planes, PlaneRecords
<1>4. \A s \in FlowSlots : ReadOf(p, c, n, s) \in Int
  <2>1. ASSUME NEW s \in FlowSlots
        PROVE ReadOf(p, c, n, s) \in Int
    <3> DEFINE T == {i \in 1..n : LET e == p.clients[c].q[i]
                                  IN IsData(e) /\ FindFlow(p, c, e.h) /\ e.h.slot = s}
               U == 1..n
    <3>1. T \in SUBSET U /\ ReadOf(p, c, n, s) = Cardinality(T)
      BY Zenon DEF ReadOf
    <3>2. IsFiniteSet(U)
      BY SMTT(30), <1>1, FS_Interval
    <3> HIDE DEF T, U
    <3> QED
      BY SMTT(30), <3>1, <3>2, FS_Subset, FS_CardinalityType
  <2> QED
    BY Zenon, <2>1
<1>5. \A s \in FlowSlots : /\ F[s] \in Flows /\ SameFlow(p.flows[s], F[s])
                           /\ F[s].pol = p.flows[s].pol
  <2>1. ASSUME NEW s \in FlowSlots
        PROVE /\ F[s] \in Flows /\ SameFlow(p.flows[s], F[s])
              /\ F[s].pol = p.flows[s].pol
    <3> DEFINE o == p.flows[s].occ - ReadOf(p, c, n, s)
    <3>1. F[s] = [p.flows[s] EXCEPT !.occ = o] /\ p.flows[s] \in Flows /\ o \in Int
      BY SMTT(30), <1>4 DEF Planes, PlaneRecords, Flows
    <3> HIDE DEF o, F
    <3> QED
      BY Zenon, <3>1 DEF Flows, SameFlow
  <2> QED
    BY Zenon, <2>1
<1>6. F \in [FlowSlots -> Flows]
  BY Zenon, <1>5
<1>7. C \in [Clients -> Contexts] /\ \A d \in Clients : C[d] = IF d = c THEN m ELSE p.clients[d]
  BY Zenon, <1>2 DEF Planes, PlaneRecords
<1>8. ReceiveCompletions(p, c, n) = q
  <2>1. ReceiveCompletions(p, c, n) = [p EXCEPT !.clients[c] = m, !.slabs = l, !.flows = F]
    BY Zenon DEF ReceiveCompletions
  <2> HIDE DEF m, F, l
  <2> QED
    BY Zenon, <2>1
<1> HIDE DEF m, F, C, l
<1>9. /\ q \in PlaneRecords /\ SamePolicy(p, q) /\ q.flows = F
      /\ q.clients = C /\ q.tombs = p.tombs
  BY Zenon, <1>3, <1>6, <1>7 DEF Planes, PlaneRecords, SamePolicy
<1> HIDE DEF q
<1>10. q \in Planes
  BY <1>5, <1>9 DEF Planes, SameFlow, Live
<1>11. Quiet(p, q)
  BY <1>2, <1>5, <1>7, <1>9, <1>10, RetainsReflexive DEF Quiet
<1> QED
  BY <1>8, <1>11

-----------------------------------------------------------------------------
(* Clients. *)

OwnedFlows ==
  {F \in [FlowSlots -> Flows] :
     \A s \in FlowSlots : Live(F[s]) => F[s].owner \in Clients /\ F[s].peer \in Peers \X Nat}
Updated(p, C, n, F) == [p EXCEPT !.clients = C, !.slabs = n, !.flows = F]

\* Queues, slabs and flow records put in place together.
LEMMA PlaneUpdated ==
  ASSUME NEW p \in Planes, NEW C \in [Clients -> Contexts], NEW n \in Int,
         NEW F \in OwnedFlows, NEW q, q = Updated(p, C, n, F)
  PROVE /\ q \in Planes /\ SamePolicy(p, q)
        /\ q.clients = C /\ q.slabs = n /\ q.flows = F /\ q.tombs = p.tombs
        /\ q.lost = p.lost
<1>1. /\ q \in PlaneRecords /\ SamePolicy(p, q) /\ q.clients = C /\ q.slabs = n
      /\ q.flows = F /\ q.tombs = p.tombs /\ q.lost = p.lost
  BY Zenon DEF Planes, PlaneRecords, SamePolicy, OwnedFlows, Updated
<1>2. q \in Planes
  BY Zenon, <1>1 DEF Planes, OwnedFlows
<1> QED
  BY <1>1, <1>2

\* The context of a client slot that nobody has opened.
LEMMA NoContextType ==
  /\ NoContext \in Contexts /\ NoContext.q = <<>>
  /\ LET k == [NoContext EXCEPT !.open = TRUE] IN k \in Contexts /\ k.q = <<>> /\ k.open
<1>1. <<>> \in Seq(Completions)
  OBVIOUS
<1>2. NoContext \in Contexts /\ NoContext.q = <<>>
  BY <1>1 DEF NoContext, Contexts
<1> QED
  BY Zenon, <1>2 DEF Contexts

\* CreateClient gives a client slot that was free an empty queue.
LEMMA ClientCreated ==
  ASSUME NEW p, Valid(p), NEW c \in Clients, ~p.clients[c].open
  PROVE Good(p, CreateClient(p, c))
<1> DEFINE k == [NoContext EXCEPT !.open = TRUE]
           C == [p.clients EXCEPT ![c] = k]
           q == [p EXCEPT !.clients = C]
<1>1. p \in Planes /\ k \in Contexts /\ k.q = <<>> /\ k.open
  BY Zenon, NoContextType DEF Valid, Sound
<1>2. CreateClient(p, c) = q
  BY DEF CreateClient
<1> HIDE DEF k
<1>3. C \in [Clients -> Contexts] /\ \A d \in Clients : C[d] = IF d = c THEN k ELSE p.clients[d]
  BY Zenon, <1>1 DEF Planes, PlaneRecords
<1> HIDE DEF C
<1>4. /\ q \in PlaneRecords /\ SamePolicy(p, q) /\ q.clients = C
      /\ q.flows = p.flows /\ q.tombs = p.tombs
  BY Zenon, <1>1, <1>3 DEF Planes, PlaneRecords, SamePolicy
<1> HIDE DEF q
<1>5. q \in Planes
  BY Zenon, <1>1, <1>4 DEF Planes
<1>6. LiveSlots(q) = LiveSlots(p) /\ Taken(q) = Taken(p)
  BY <1>4 DEF LiveSlots, Taken
<1>7. \A s \in FlowSlots : q.flows[s].gen < q.nextFlow
  BY Zenon, <1>4 DEF Valid, Sound, SamePolicy
<1>8. \A s \in LiveSlots(q) : q.clients[q.flows[s].owner].open
  BY SMTT(30), <1>1, <1>3, <1>4, <1>6 DEF Valid, Sound, Planes, LiveSlots
<1>9. DistinctTuples(q)
  BY Zenon, <1>4, <1>6 DEF Valid, Sound, DistinctTuples
<1>10. \A d \in Clients : Covered(q.clients[d])
  BY Zenon, <1>1, <1>3, <1>4 DEF Valid, Sound, Covered
<1>11. DataBacked(q)
  <2>1. ASSUME NEW d \in Clients, NEW i \in 1..Len(q.clients[d].q),
               IsData(q.clients[d].q[i])
        PROVE Backed(q, d, q.clients[d].q[i])
    <3>1. d # c
      BY <1>1, <1>3, <1>4
    <3>2. q.clients[d] = p.clients[d]
      BY Zenon, <1>3, <1>4, <3>1
    <3>3. Backed(p, d, q.clients[d].q[i])
      BY Zenon, <2>1, <3>2 DEF Valid, Sound, DataBacked
    <3> QED
      BY ZenonT(40), <1>4, <3>2, <3>3 DEF Backed, FindFlow
  <2> QED
    BY Zenon, <2>1 DEF DataBacked
<1>12. Sound(q)
  BY Zenon, <1>4, <1>5, <1>6, <1>7, <1>8, <1>9, <1>10, <1>11 DEF Sound, Valid
<1>13. Current(q)
  BY <1>4, <1>6 DEF Valid, Current, SamePolicy
<1>14. FlowsFollow(p, q)
  BY <1>4 DEF FlowsFollow
<1> QED
  BY Zenon, <1>2, <1>12, <1>13, <1>14 DEF Good, Valid

\* DestroyClient closes what the client owns, unsaid, and forgets the client.
LEMMA ClientDestroyed ==
  ASSUME NEW p, Valid(p), NEW c \in Clients
  PROVE Good(p, DestroyClient(p, c))
<1> DEFINE mine == {s \in FlowSlots : p.flows[s].owner = c}
           q == CloseAll(p, mine, FALSE)
           C == [q.clients EXCEPT ![c] = NoContext]
           n == q.slabs - DataIn(q.clients[c].q)
           F == [s \in FlowSlots |-> IF s \in mine THEN [q.flows[s] EXCEPT !.owner = NoClient]
                                     ELSE q.flows[s]]
           r == [q EXCEPT !.clients = C, !.slabs = n, !.flows = F]
<1>1. p \in Planes /\ Closes(p, mine, q)
  BY Zenon, AllClosed DEF Valid, Sound
<1>2. DestroyClient(p, c) = r
  <2>1. DestroyClient(p, c) = [q EXCEPT !.clients[c] = NoContext, !.slabs = n, !.flows = F]
    BY Zenon DEF DestroyClient
  <2> HIDE DEF q, n, F
  <2> QED
    BY Zenon, <2>1
<1>3. \A s \in FlowSlots : s \notin mine => p.flows[s].owner # c
  OBVIOUS
<1> HIDE DEF mine, q
<1>4. Sound(q) /\ Current(q) /\ FlowsFollow(p, q)
  BY <1>1, ClosesIsGood DEF Good, Valid
<1>5. q \in Planes /\ SamePolicy(p, q)
  BY Zenon, <1>1 DEF Closes, Shrinks
<1>6. /\ C \in [Clients -> Contexts]
      /\ \A d \in Clients : C[d] = IF d = c THEN NoContext ELSE q.clients[d]
  BY <1>5, NoContextType DEF Planes, PlaneRecords
<1>7. n \in Int
  <2>1. q.clients[c] \in Contexts /\ q.slabs \in Int
    BY Zenon, <1>5 DEF Planes, PlaneRecords
  <2>2. q.clients[c].q \in Seq(Completions)
    BY Zenon, <2>1 DEF Contexts
  <2>3. DataIn(q.clients[c].q) \in Nat
    BY Zenon, <2>2, DataInType
  <2> QED
    BY SMTT(30), <2>1, <2>3
<1>8. /\ \A s \in FlowSlots : s \in mine => /\ ~Live(F[s]) /\ F[s].gen = q.flows[s].gen
                                            /\ F[s] \in Flows
      /\ \A s \in FlowSlots : s \notin mine => F[s] = q.flows[s] /\ F[s] \in Flows
  <2>1. ASSUME NEW s \in FlowSlots, s \in mine
        PROVE ~Live(F[s]) /\ F[s].gen = q.flows[s].gen /\ F[s] \in Flows
    <3>1. F[s] = [q.flows[s] EXCEPT !.owner = NoClient] /\ q.flows[s] \in Flows
      BY <1>5, <2>1 DEF Planes, PlaneRecords
    <3>2. ~Live(q.flows[s])
      BY <1>1, <2>1 DEF Closes
    <3> HIDE DEF F
    <3> QED
      BY Zenon, <3>1, <3>2 DEF Flows, Live
  <2>2. ASSUME NEW s \in FlowSlots, s \notin mine
        PROVE F[s] = q.flows[s] /\ F[s] \in Flows
    BY Zenon, <1>5, <2>2 DEF Planes, PlaneRecords
  <2> QED
    BY Zenon, <2>1, <2>2
<1>9. F \in [FlowSlots -> Flows]
  BY Zenon, <1>8
<1> HIDE DEF C, n, F
<1>10. /\ r \in Planes /\ SamePolicy(q, r)
       /\ r.clients = C /\ r.flows = F /\ r.tombs = q.tombs
  <2>1. F \in OwnedFlows
    BY Zenon, <1>5, <1>8, <1>9 DEF Planes, OwnedFlows
  <2>2. r = Updated(q, C, n, F)
    BY DEF Updated
  <2> HIDE DEF r
  <2> QED
    BY SMTT(30), <1>5, <1>6, <1>7, <2>1, <2>2, PlaneUpdated
<1> HIDE DEF r
<1>11. /\ LiveSlots(r) = LiveSlots(q)
       /\ \A s \in LiveSlots(r) : s \notin mine /\ r.flows[s] = q.flows[s]
  <2>1. \A s \in mine : ~Live(q.flows[s])
    BY Zenon, <1>1 DEF Closes
  <2> QED
    BY Zenon, <1>8, <1>10, <2>1 DEF LiveSlots
<1>12. \A s \in FlowSlots : r.flows[s].gen < r.nextFlow
  BY Zenon, <1>4, <1>8, <1>10 DEF Sound, SamePolicy
<1>13. \A s \in LiveSlots(r) : r.clients[r.flows[s].owner].open
  <2>1. ASSUME NEW s \in LiveSlots(r)
        PROVE r.clients[r.flows[s].owner].open
    <3>1. s \in LiveSlots(q) /\ s \in FlowSlots /\ s \notin mine /\ r.flows[s] = q.flows[s]
      BY Zenon, <1>11 DEF LiveSlots
    <3>2. q.flows[s].owner = p.flows[s].owner /\ p.flows[s].owner # c
      BY Zenon, <1>1, <1>3, <3>1 DEF Closes
    <3>3. q.flows[s].owner \in Clients /\ q.clients[q.flows[s].owner].open
      BY Zenon, <1>4, <3>1 DEF Sound, Planes, LiveSlots
    <3> QED
      BY Zenon, <1>6, <1>10, <3>1, <3>2, <3>3
  <2> QED
    BY Zenon, <2>1
<1>14. DistinctTuples(r) /\ Taken(r) = Taken(q)
  BY Zenon, <1>4, <1>10, <1>11 DEF Sound, DistinctTuples, Taken
<1>15. \A d \in Clients : Covered(r.clients[d])
  BY Zenon, <1>4, <1>6, <1>10, NoContextType DEF Sound, Covered
<1>16. DataBacked(r)
  <2>1. ASSUME NEW d \in Clients, NEW i \in 1..Len(r.clients[d].q),
               IsData(r.clients[d].q[i])
        PROVE Backed(r, d, r.clients[d].q[i])
    <3> DEFINE e == r.clients[d].q[i]
    <3>1. d # c
      BY <1>6, <1>10, NoContextType
    <3>2. r.clients[d] = q.clients[d]
      BY Zenon, <1>6, <1>10, <3>1
    <3>3. Backed(q, d, e)
      BY Zenon, <1>4, <2>1, <3>2 DEF Sound, DataBacked
    <3>4. e.h.slot \in LiveSlots(r)
      BY ZenonT(40), <1>11, <3>3 DEF Backed, FindFlow, LiveSlots, Live
    <3>5. r.flows[e.h.slot] = q.flows[e.h.slot]
      BY Zenon, <1>11, <3>4
    <3> QED
      BY Zenon, <3>2, <3>3, <3>5 DEF Backed, FindFlow
  <2> QED
    BY Zenon, <2>1 DEF DataBacked
<1>17. Sound(r)
  BY Zenon, <1>4, <1>10, <1>12, <1>13, <1>14, <1>15, <1>16 DEF Sound
<1>18. Current(r)
  BY <1>4, <1>10, <1>11 DEF Current, SamePolicy
<1>19. FlowsFollow(p, r)
  BY <1>4, <1>11 DEF FlowsFollow, LiveSlots
<1> QED
  BY SMTT(30), <1>2, <1>17, <1>18, <1>19 DEF Good, Valid

-----------------------------------------------------------------------------
(* Policy. *)

\* EnqueuePolicyChanged queues one record for each client.
LEMMA PolicyChangeEnqueued ==
  ASSUME NEW p \in Planes
  PROVE Quiet(p, EnqueuePolicyChanged(p))
<1> DEFINE e == [type |-> "policy", h |-> NoHandle]
           Told(c) == EnqueueControlCompletion(p, c, e)
           C == [c \in Clients |-> Told(c).clients[c]]
           b == \E c \in Clients : Told(c).lost
           q == [p EXCEPT !.clients = C, !.lost = b]
<1>1. EnqueuePolicyChanged(p) = q
  BY Zenon DEF EnqueuePolicyChanged
<1>2. e \in Controls
  BY DEF Controls, FlowHandles, NoHandle
<1> HIDE DEF e
<1>3. ASSUME NEW c \in Clients
      PROVE Told(c) \in Planes /\ Retains(p.clients[c], Told(c).clients[c])
  BY Zenon, <1>2, ControlEnqueued
<1> HIDE DEF Told
<1>4. /\ C \in [Clients -> Contexts] /\ b \in BOOLEAN
      /\ \A c \in Clients : Retains(p.clients[c], C[c])
  BY Zenon, <1>3 DEF Planes, PlaneRecords
<1> HIDE DEF C, b
<1>5. /\ q \in PlaneRecords /\ SamePolicy(p, q) /\ q.flows = p.flows
      /\ q.clients = C /\ q.tombs = p.tombs
  BY Zenon, <1>4 DEF Planes, PlaneRecords, SamePolicy
<1> HIDE DEF q
<1>6. Quiet(p, q)
  BY <1>4, <1>5 DEF Quiet, SameFlow, Planes
<1> QED
  BY <1>1, <1>6

\* The policy that a peer identity stands for.
LEMMA PolicyInstalled ==
  ASSUME NEW p, Sound(p), NEW id \in Identities
  PROVE LET q == WithPolicy(p, id)
        IN /\ q \in Planes /\ Sound(q) /\ Unchanged(q, id) /\ q.pol = p.pol + 1
           /\ q.flows = p.flows /\ q.nextFlow = p.nextFlow /\ q.port = p.port
<1> DEFINE a == Usable(id)
           i == IF Usable(id) THEN id ELSE NoIdentity
           n == p.pol + 1
           R == RoutesOf(id)
           q == [p EXCEPT !.avail = a, !.peer = i, !.pol = n, !.routes = R]
<1>1. p \in Planes
  BY Zenon DEF Sound
<1>2. WithPolicy(p, id) = q
  BY Zenon DEF WithPolicy
<1>3. a \in BOOLEAN
  BY DEF Usable
<1>4. i \in Identities /\ n \in Nat
  BY <1>1 DEF Identities, Planes, PlaneRecords
<1>5. R \in SUBSET Routes
  <2>1. CASE id = NoIdentity
    BY <2>1 DEF RoutesOf
  <2>2. CASE id # NoIdentity
    <3>1. id[1] \in Peers
      BY <2>2 DEF Identities
    <3> QED
      BY Zenon, <2>2, <3>1, FlowConstants DEF RoutesOf, Routes
  <2> QED
    BY <2>1, <2>2
<1> HIDE DEF a, i, n, R
<1>6. /\ q \in PlaneRecords /\ q.flows = p.flows /\ q.clients = p.clients
      /\ q.tombs = p.tombs /\ q.nextFlow = p.nextFlow /\ q.port = p.port
      /\ q.avail = a /\ q.peer = i /\ q.pol = n /\ q.routes = R
  BY ZenonT(40), <1>1, <1>3, <1>4, <1>5 DEF Planes, PlaneRecords
<1> HIDE DEF q
<1>7. q \in Planes
  BY Zenon, <1>1, <1>6 DEF Planes
<1>8. LiveSlots(q) = LiveSlots(p) /\ Taken(q) = Taken(p)
  BY Zenon, <1>6 DEF LiveSlots, Taken
<1>9. DistinctTuples(q)
  BY Zenon, <1>6, <1>8 DEF Sound, DistinctTuples
<1>10. DataBacked(q)
  <2>1. \A c \in Clients : \A e : Backed(p, c, e) => Backed(q, c, e)
    BY Zenon, <1>6 DEF Backed, FindFlow
  <2> QED
    BY Zenon, <1>6, <2>1 DEF Sound, DataBacked
<1>11. Sound(q)
  BY Zenon, <1>6, <1>7, <1>8, <1>9, <1>10 DEF Sound
<1>12. Unchanged(q, id)
  BY Zenon, <1>6 DEF Unchanged, a, i, R
<1> QED
  BY <1>2, <1>6, <1>7, <1>11, <1>12 DEF n

\* RefreshPolicy leaves the policy that the identity stands for, with only the
\* flows it carries.
LEMMA PolicyRefreshed ==
  ASSUME NEW p, Valid(p), NEW id \in Identities
  PROVE Good(p, RefreshPolicy(p, id)) /\ Unchanged(RefreshPolicy(p, id), id)
<1> DEFINE new == WithPolicy(p, id)
           gone == {s \in FlowSlots : /\ Live(p.flows[s])
                                      /\ \/ ~new.avail
                                         \/ p.flows[s].peer # id
                                         \/ ~SelectRoute(new, p.flows[s].remote)}
           q == CloseAll(new, gone, TRUE)
           F == [s \in FlowSlots |-> IF Live(q.flows[s])
                                     THEN [q.flows[s] EXCEPT !.pol = new.pol]
                                     ELSE q.flows[s]]
           u == [q EXCEPT !.flows = F]
           w == EnqueuePolicyChanged(u)
<1>1. CASE Unchanged(p, id)
  <2>1. RefreshPolicy(p, id) = p
    BY Zenon, <1>1 DEF RefreshPolicy
  <2>2. FlowsFollow(p, p)
    BY Zenon DEF FlowsFollow
  <2> QED
    BY <1>1, <2>1, <2>2 DEF Good
<1>2. CASE ~Unchanged(p, id)
  <2>1. RefreshPolicy(p, id) = w
    BY <1>2, Zenon DEF RefreshPolicy
  <2>2. /\ new \in Planes /\ Sound(new) /\ Unchanged(new, id) /\ new.pol = p.pol + 1
        /\ new.flows = p.flows /\ new.nextFlow = p.nextFlow
    BY PolicyInstalled DEF Valid
  <2>3. \A s \in FlowSlots : Live(p.flows[s]) /\ s \notin gone => new.avail /\ p.flows[s].peer = id
    BY Zenon
  <2>4. gone \in SUBSET FlowSlots
    BY Zenon
  <2>5. new.avail => new.peer = id
    BY Zenon, <2>2 DEF Unchanged
  <2> HIDE DEF new, gone
  <2>6. Closes(new, gone, q) /\ Shrinks(new, q) /\ q \in Planes
    BY ZenonT(40), <2>2, <2>4, AllClosed DEF Closes, Shrinks
  <2> HIDE DEF q
  <2>7. \A s \in LiveSlots(q) : q.flows[s].peer = new.peer
    BY <2>2, <2>3, <2>5, <2>6 DEF Closes, LiveSlots
  <2>8. \A s \in FlowSlots : /\ F[s] \in Flows /\ SameFlow(q.flows[s], F[s])
                             /\ Live(F[s]) => F[s].pol = new.pol
    <3>1. new.pol \in Nat /\ \A s \in FlowSlots : q.flows[s] \in Flows
      BY Zenon, <2>2, <2>6 DEF Planes, PlaneRecords
    <3>2. ASSUME NEW s \in FlowSlots
          PROVE /\ F[s] \in Flows /\ SameFlow(q.flows[s], F[s])
                /\ Live(F[s]) => F[s].pol = new.pol
      <4>1. CASE Live(q.flows[s])
        <5>1. F[s] = [q.flows[s] EXCEPT !.pol = new.pol]
          BY <4>1
        <5> HIDE DEF F
        <5> QED
          BY <3>1, <5>1 DEF Flows, SameFlow
      <4>2. CASE ~Live(q.flows[s])
        <5>1. F[s] = q.flows[s]
          BY <4>2
        <5> HIDE DEF F
        <5> QED
          BY <3>1, <4>2, <5>1 DEF SameFlow
      <4> QED
        BY Zenon, <4>1, <4>2
    <3> QED
      BY Zenon, <3>2
  <2>9. F \in [FlowSlots -> Flows]
    BY <2>8
  <2> HIDE DEF F
  <2>10. /\ u \in PlaneRecords /\ SamePolicy(q, u) /\ u.flows = F
         /\ u.clients = q.clients /\ u.tombs = q.tombs
    BY Zenon, <2>6, <2>9 DEF Planes, PlaneRecords, SamePolicy
  <2> HIDE DEF u
  <2>11. u \in Planes
    BY Zenon, <2>6, <2>8, <2>10 DEF Planes, SameFlow, Live
  <2>12. Shrinks(q, u)
    BY Zenon, <2>6, <2>8, <2>10, <2>11, ShrinksQuietly, RetainsReflexive
  <2>13. Shrinks(new, u)
    BY <2>2, <2>6, <2>12, ShrinksTransitive
  <2>14. Sound(u)
    BY <2>2, <2>13, ShrinksKeepsSound
  <2>15. Current(u)
    <3>1. u.peer = new.peer /\ u.pol = new.pol /\ u.avail = new.avail
      BY Zenon, <2>13 DEF Shrinks, SamePolicy
    <3>2. ASSUME NEW s \in LiveSlots(u)
          PROVE u.flows[s].peer = u.peer /\ u.flows[s].pol = u.pol
      <4>1. s \in LiveSlots(q) /\ u.flows[s] = F[s] /\ SameFlow(q.flows[s], F[s])
        BY Zenon, <2>8, <2>10 DEF LiveSlots, SameFlow, Live
      <4> QED
        BY <2>7, <2>8, <2>10, <3>1, <4>1 DEF SameFlow, LiveSlots
    <3>3. u.avail => u.peer \in Peers \X Nat
      BY ZenonT(40), <2>2, <2>5, <3>1 DEF Unchanged, Usable, Identities
    <3> QED
      BY Zenon, <3>2, <3>3 DEF Current
  <2>16. Quiet(u, w)
    BY <2>11, PolicyChangeEnqueued
  <2> HIDE DEF w
  <2>17. Good(u, w)
    BY Zenon, <2>14, <2>15, <2>16, QuietIsGood DEF Valid
  <2>18. Shrinks(new, w)
    <3>1. Shrinks(u, w)
      BY <2>11, <2>16, ShrinksQuietly DEF Quiet
    <3> QED
      BY <2>2, <2>13, <3>1, ShrinksTransitive
  <2>19. FlowsFollow(p, w)
    BY Zenon, <2>2, <2>18, ShrinksFollows DEF FlowsFollow
  <2>20. Unchanged(w, id)
    BY Zenon, <2>2, <2>18 DEF Shrinks, SamePolicy, Unchanged
  <2> QED
    BY <2>1, <2>17, <2>19, <2>20 DEF Good
<1> QED
  BY Zenon, <1>1, <1>2

-----------------------------------------------------------------------------
(* Opening. *)

\* What a reservation has been checked for.
LEMMA ReserveChecked ==
  ASSUME NEW p, NEW c, NEW remote, ReserveStatus(p, c, remote, TRUE) = "Success"
  PROVE /\ p.clients[c].open /\ p.avail /\ FreeSlots(p) # {}
        /\ HasTombstoneReservation(p)
        /\ FreePorts(p, Config[p.peer[1]].source, remote) # {}
  BY Zenon DEF ReserveStatus

\* The first free slot exists.
LEMMA ReservedSlotFree ==
  ASSUME NEW p, FreeSlots(p) # {}
  PROVE ReservedSlot(p) \in FlowSlots /\ ~Live(p.flows[ReservedSlot(p)])
<1> DEFINE T == FreeSlots(p)
<1>1. T \in SUBSET Nat /\ T # {}
  BY FlowConstants DEF FreeSlots, FlowSlots
<1>2. ReservedSlot(p) = CHOOSE s \in T : \A t \in T : s <= t
  BY Zenon DEF ReservedSlot
<1> HIDE DEF T
<1>3. \E s \in T : \A t \in T : s <= t
  BY <1>1, LeastExists
<1>4. ReservedSlot(p) \in T
  BY <1>2, <1>3
<1> QED
  BY <1>4 DEF T, FreeSlots

\* The next free port exists.
LEMMA NextPortFree ==
  ASSUME NEW p, p.port \in Nat, NEW src, NEW remote, FreePorts(p, src, remote) # {}
  PROVE NextPort(p, src, remote) \in FreePorts(p, src, remote)
<1> DEFINE S == FreePorts(p, src, remote)
           T == {Ahead(p, n) : n \in S}
<1>1. \A n \in S : n \in Nat
  BY FlowConstants DEF FreePorts
<1>2. NextPort(p, src, remote) = CHOOSE n \in S : \A m \in S : Ahead(p, n) <= Ahead(p, m)
  BY DEF NextPort
<1>3. S # {}
  OBVIOUS
<1> HIDE DEF S
<1>4. \A n \in S : Ahead(p, n) \in Nat
  <2>1. ASSUME NEW n \in S
        PROVE Ahead(p, n) \in Nat
    <3> DEFINE x == n + PortCount - p.port
    <3>1. x \in Int /\ PortCount \in Nat \ {0}
      BY <1>1, FlowConstants
    <3> HIDE DEF x
    <3>2. x % PortCount \in Nat
      BY <3>1
    <3> QED
      BY <3>2 DEF Ahead, x
  <2> QED
    BY <2>1
<1>5. T \in SUBSET Nat /\ T # {}
  BY <1>3, <1>4
<1>6. PICK a \in T : \A b \in T : a <= b
  <2> HIDE DEF T
  <2> QED
    BY <1>5, LeastExists
<1>7. \E n \in S : \A m \in S : Ahead(p, n) <= Ahead(p, m)
  BY <1>6
<1> QED
  BY <1>2, <1>7 DEF S

\* ReserveFlow puts a pending flow in a free slot, with a generation, a port
\* and a tombstone of its own.
LEMMA FlowReserved ==
  ASSUME NEW p, Valid(p), NEW c \in Clients, NEW remote \in Remotes,
         ReserveStatus(p, c, remote, TRUE) = "Success"
  PROVE LET q == ReserveFlow(p, c, remote)
        IN /\ Good(p, q) /\ q.nextFlow = p.nextFlow + 1
           /\ q.flows[ReservedSlot(p)].st = "pending"
<1> DEFINE s == ReservedSlot(p)
           src == Config[p.peer[1]].source
           n == NextPort(p, src, remote)
           f == [st |-> "pending", owner |-> c, gen |-> p.nextFlow, peer |-> p.peer,
                 pol |-> p.pol, remote |-> remote, port |-> n, occ |-> 0, waiter |-> FALSE]
           m == (n + 1) % PortCount
           g == [p.flows EXCEPT ![s] = f]
           k == p.nextFlow + 1
           q == [p EXCEPT !.flows = g, !.port = m, !.nextFlow = k]
<1>1. ReserveFlow(p, c, remote) = q
  <2>1. ReserveFlow(p, c, remote) = [p EXCEPT !.flows[s] = f, !.port = m,
                                              !.nextFlow = @ + 1]
    BY Zenon DEF ReserveFlow
  <2> HIDE DEF f, m, s
  <2> QED
    BY Zenon, <2>1 DEF Valid, Sound, Planes, PlaneRecords
<1>2. p \in Planes /\ p.nextFlow \in Nat /\ p.port \in Nat /\ p.pol \in Nat
  BY Zenon DEF Valid, Sound, Planes, PlaneRecords
<1>3. /\ p.clients[c].open /\ p.avail /\ FreeSlots(p) # {} /\ HasTombstoneReservation(p)
      /\ FreePorts(p, src, remote) # {}
  BY ZenonT(40), ReserveChecked
<1>4. s \in FlowSlots /\ ~Live(p.flows[s])
  BY Zenon, <1>3, ReservedSlotFree
<1>5. n \in FreePorts(p, src, remote)
  <2> HIDE DEF src
  <2> QED
    BY Zenon, <1>2, <1>3, NextPortFree
<1>6. p.peer \in Peers \X Nat
  BY <1>3 DEF Valid, Current
<1>7. n \in Nat /\ m \in Nat
  <2>1. n \in Nat
    BY <1>5, FlowConstants DEF FreePorts
  <2> HIDE DEF n
  <2>2. n + 1 \in Int /\ PortCount \in Nat \ {0}
    BY <2>1, FlowConstants
  <2> QED
    BY <2>1, <2>2
<1> DEFINE t == [src |-> src, port |-> n, remote |-> remote]
<1>8. TupleOf(f) = t
  BY Zenon DEF TupleOf
<1>9. t \notin p.tombs /\ \A r \in LiveSlots(p) : TupleOf(p.flows[r]) # t
  BY Zenon, <1>5 DEF FreePorts
<1> HIDE DEF n, m, s, t
<1>10. /\ f \in Flows /\ Live(f) /\ f.owner = c /\ f.gen = p.nextFlow
       /\ f.peer = p.peer /\ f.pol = p.pol /\ f.st = "pending"
  <2>1. remote \in Nat
    BY FlowConstants DEF Address
  <2> QED
    BY <1>2, <1>6, <1>7, <2>1 DEF Flows, Live, Identities
<1> HIDE DEF f
<1>11. g \in [FlowSlots -> Flows] /\ \A r \in FlowSlots : g[r] = IF r = s THEN f ELSE p.flows[r]
  BY Zenon, <1>2, <1>4, <1>10 DEF Planes, PlaneRecords
<1> HIDE DEF g
<1>12. /\ q \in PlaneRecords /\ q.flows = g /\ q.clients = p.clients /\ q.tombs = p.tombs
       /\ q.nextFlow = p.nextFlow + 1 /\ q.avail = p.avail /\ q.peer = p.peer
       /\ q.pol = p.pol
  <2>1. k \in Nat /\ k = p.nextFlow + 1
    BY <1>2
  <2> HIDE DEF k
  <2> QED
    BY ZenonT(40), <1>2, <1>7, <1>11, <2>1 DEF Planes, PlaneRecords
<1> HIDE DEF q
<1>13. q \in Planes
  BY <1>2, <1>6, <1>10, <1>11, <1>12 DEF Planes
<1>14. LiveSlots(q) = LiveSlots(p) \union {s} /\ s \notin LiveSlots(p)
  BY Zenon, <1>4, <1>10, <1>11, <1>12 DEF LiveSlots
<1>15. \A r \in LiveSlots(p) : q.flows[r] = p.flows[r]
  BY <1>11, <1>12, <1>14 DEF LiveSlots
<1>16. q.flows[s] = f
  BY Zenon, <1>4, <1>11, <1>12
<1>17. \A r \in FlowSlots : q.flows[r].gen < q.nextFlow
  <2>1. ASSUME NEW r \in FlowSlots
        PROVE q.flows[r].gen < p.nextFlow + 1
    <3>1. p.flows[r].gen \in Nat /\ p.flows[r].gen < p.nextFlow
      BY Zenon DEF Valid, Sound, Planes, PlaneRecords, Flows
    <3> QED
      BY <1>2, <1>10, <1>11, <1>12, <3>1
  <2> QED
    BY <1>12, <2>1
<1>18. \A r \in LiveSlots(q) : q.clients[q.flows[r].owner].open
  BY Zenon, <1>3, <1>10, <1>12, <1>14, <1>15, <1>16 DEF Valid, Sound
<1>19. DistinctTuples(q)
  BY <1>8, <1>9, <1>12, <1>14, <1>15, <1>16 DEF DistinctTuples, Valid, Sound
<1>20. Taken(q) <= TombstoneCount
  <2> DEFINE L == LiveSlots(p)
             T == Cardinality(p.tombs)
  <2>1. IsFiniteSet(L) /\ Cardinality(L) \in Nat /\ s \notin L
    BY <1>14, LiveSlotsFinite
  <2>2. Taken(q) = T + Cardinality(L \union {s})
    BY <1>12, <1>14 DEF Taken
  <2>3. T \in Nat /\ TombstoneCount \in Nat /\ TombstoneCount - T > Cardinality(L)
    BY Zenon, <1>3, FlowConstants, FS_CardinalityType DEF Valid, Sound, HasTombstoneReservation
  <2> HIDE DEF L, T
  <2>4. Cardinality(L \union {s}) = Cardinality(L) + 1
    BY Zenon, <2>1, FS_AddElement
  <2> QED
    BY <2>1, <2>2, <2>3, <2>4
<1>21. DataBacked(q)
  <2>1. ASSUME NEW d \in Clients, NEW e, Backed(p, d, e)
        PROVE Backed(q, d, e)
    <3>1. e.h.slot \in LiveSlots(p)
      BY Zenon, <2>1 DEF Backed, FindFlow, LiveSlots, Live
    <3>2. q.flows[e.h.slot] = p.flows[e.h.slot]
      BY <1>15, <3>1
    <3> QED
      BY Zenon, <1>12, <2>1, <3>2 DEF Backed, FindFlow
  <2> QED
    BY Zenon, <1>12, <2>1 DEF DataBacked, Valid, Sound
<1>6a. Sound(q)
  BY Zenon, <1>12, <1>13, <1>17, <1>18, <1>19, <1>20, <1>21 DEF Sound, Valid
<1>23. Current(q)
  BY <1>10, <1>12, <1>14, <1>15, <1>16 DEF Valid, Current
<1>24. FlowsFollow(p, q)
  BY <1>2, <1>10, <1>11, <1>12 DEF FlowsFollow
<1>25. q.flows[s].st = "pending"
  BY Zenon, <1>10, <1>16
<1> QED
  BY Zenon, <1>1, <1>12, <1>6a, <1>23, <1>24, <1>25 DEF Good, Valid, s

\* Handles that do not return over two changes do not return over both.
LEMMA FlowsFollowTransitive ==
  ASSUME NEW p \in Planes, NEW q \in Planes, NEW r \in Planes,
         FlowsFollow(p, q), FlowsFollow(q, r), p.nextFlow <= q.nextFlow
  PROVE FlowsFollow(p, r)
<1>1. ASSUME NEW s \in FlowSlots, Live(r.flows[s]), ~(r.flows[s].gen >= p.nextFlow)
      PROVE Live(p.flows[s]) /\ r.flows[s].gen = p.flows[s].gen
  <2>1. r.flows[s].gen \in Nat /\ p.nextFlow \in Nat /\ q.nextFlow \in Nat
    BY Zenon DEF Planes, PlaneRecords, Flows
  <2>2. ~(r.flows[s].gen >= q.nextFlow)
    BY <1>1, <2>1
  <2>3. Live(q.flows[s]) /\ r.flows[s].gen = q.flows[s].gen
    BY Zenon, <1>1, <2>2 DEF FlowsFollow
  <2> QED
    BY Zenon, <1>1, <2>3 DEF FlowsFollow
<1> QED
  BY Zenon, <1>1 DEF FlowsFollow

\* A reservation given up at once uses up its generation.
LEMMA ReservedAndCancelled ==
  ASSUME NEW p, Valid(p), NEW c \in Clients, NEW remote \in Remotes,
         ReserveStatus(p, c, remote, TRUE) = "Success"
  PROVE Good(p, [ReserveFlow(p, c, remote) EXCEPT !.flows[ReservedSlot(p)] = NoFlow])
<1> DEFINE q == ReserveFlow(p, c, remote)
           s == ReservedSlot(p)
           r == [q EXCEPT !.flows[s] = NoFlow]
<1>1. Good(p, q) /\ q.nextFlow = p.nextFlow + 1 /\ q.flows[s].st = "pending"
  BY Zenon, FlowReserved
<1>2. s \in FlowSlots
  BY Zenon, ReserveChecked, ReservedSlotFree
<1> HIDE DEF q, s
<1>3. p \in Planes /\ q \in Planes
  BY Zenon, <1>1 DEF Good, Valid, Sound
<1>4. Closes(q, {s}, r)
  BY <1>1, <1>2, <1>3, FlowCleared
<1> HIDE DEF r
<1>5. Good(q, r)
  BY Zenon, <1>1, <1>4, ClosesIsGood DEF Good
<1>6. r \in Planes /\ p.nextFlow <= q.nextFlow
  <2>1. r \in Planes /\ p.nextFlow \in Nat
    BY Zenon, <1>5, ValidIsPlane DEF Good
  <2> QED
    BY <1>1, <2>1
<1>7. FlowsFollow(p, r)
  BY <1>1, <1>3, <1>5, <1>6, FlowsFollowTransitive DEF Good
<1> QED
  BY <1>5, <1>7 DEF Good, q, s, r

\* A pending flow becomes open.
LEMMA FlowCommitted ==
  ASSUME NEW p, Valid(p), NEW s \in FlowSlots, p.flows[s].st = "pending"
  PROVE Good(p, [p EXCEPT !.flows[s] = [@ EXCEPT !.st = "open"]])
<1> DEFINE f == [p.flows[s] EXCEPT !.st = "open"]
           q == [p EXCEPT !.flows[s] = f]
<1>1. p \in Planes /\ p.flows[s] \in Flows /\ s \in LiveSlots(p)
  BY Zenon DEF Valid, Sound, Planes, PlaneRecords, LiveSlots, Live
<1>2. /\ f \in Flows /\ Live(f) /\ f.owner = p.flows[s].owner /\ f.gen = p.flows[s].gen
      /\ f.peer = p.flows[s].peer /\ f.pol = p.flows[s].pol /\ f.remote = p.flows[s].remote
      /\ f.port = p.flows[s].port
  BY Zenon, <1>1 DEF Flows, Live
<1>3. f.owner \in Clients /\ f.peer \in Peers \X Nat
  BY Zenon, <1>1, <1>2 DEF Planes, LiveSlots
<1> HIDE DEF f
<1>4. /\ q \in Planes /\ SamePolicy(p, q) /\ q.clients = p.clients /\ q.tombs = p.tombs
      /\ \A t \in FlowSlots : q.flows[t] = IF t = s THEN f ELSE p.flows[t]
  BY SMTT(30), <1>1, <1>2, <1>3, FlowReplaced
<1> HIDE DEF q
<1>5. LiveSlots(q) = LiveSlots(p)
  BY Zenon, <1>1, <1>2, <1>4 DEF LiveSlots
<1>6. \A t \in FlowSlots :
        /\ q.flows[t].owner = p.flows[t].owner /\ q.flows[t].gen = p.flows[t].gen
        /\ q.flows[t].peer = p.flows[t].peer /\ q.flows[t].pol = p.flows[t].pol
        /\ TupleOf(q.flows[t]) = TupleOf(p.flows[t])
  BY Zenon, <1>2, <1>4 DEF TupleOf
<1>7. \A t \in FlowSlots : q.flows[t].gen < q.nextFlow
  BY Zenon, <1>4, <1>6 DEF Valid, Sound, SamePolicy
<1>8. \A t \in LiveSlots(q) : q.clients[q.flows[t].owner].open
  BY Zenon, <1>4, <1>5, <1>6 DEF Valid, Sound, LiveSlots
<1>9. DistinctTuples(q) /\ Taken(q) = Taken(p)
  <2>1. \A t \in LiveSlots(p) : TupleOf(q.flows[t]) = TupleOf(p.flows[t])
    BY Zenon, <1>6 DEF LiveSlots
  <2>2. DistinctTuples(q)
    BY Zenon, <1>4, <1>5, <2>1 DEF Valid, Sound, DistinctTuples
  <2> QED
    BY <1>4, <1>5, <2>2 DEF Taken
<1>10. DataBacked(q)
  <2>1. ASSUME NEW d \in Clients, NEW e, Backed(p, d, e)
        PROVE Backed(q, d, e)
    <3>1. e.h.slot \in FlowSlots /\ e.h.slot # s
      BY Zenon, <2>1 DEF Backed, FindFlow
    <3>2. q.flows[e.h.slot] = p.flows[e.h.slot]
      BY Zenon, <1>4, <3>1
    <3> QED
      BY Zenon, <1>4, <2>1, <3>2 DEF Backed, FindFlow
  <2> QED
    BY Zenon, <1>4, <2>1 DEF DataBacked, Valid, Sound
<1>11. Sound(q)
  BY Zenon, <1>4, <1>7, <1>8, <1>9, <1>10 DEF Sound, Valid
<1>12. Current(q)
  BY <1>4, <1>5, <1>6 DEF Valid, Current, SamePolicy, LiveSlots
<1>13. FlowsFollow(p, q)
  BY <1>5, <1>6 DEF FlowsFollow, LiveSlots
<1> QED
  BY Zenon, <1>11, <1>12, <1>13 DEF Good, Valid, q, f

\* CancelFlowReservation clears a pending slot or does nothing.
LEMMA ReservationCancelled ==
  ASSUME NEW p, Valid(p), NEW r
  PROVE Good(p, CancelFlowReservation(p, r))
<1>1. p \in Planes
  BY Zenon DEF Valid, Sound
<1>2. CASE FindFlow(p, r.client, r.h) /\ p.flows[r.h.slot].st = "pending"
  <2> DEFINE s == r.h.slot
             q == [p EXCEPT !.flows[s] = NoFlow]
  <2>1. CancelFlowReservation(p, r) = q
    BY Zenon, <1>2 DEF CancelFlowReservation
  <2>2. s \in FlowSlots /\ p.flows[s].st # "open"
    BY Zenon, <1>2 DEF FindFlow
  <2> HIDE DEF s
  <2>3. Closes(p, {s}, q)
    BY Zenon, <1>1, <2>2, FlowCleared
  <2> HIDE DEF q
  <2> QED
    BY <2>1, <2>3, ClosesIsGood
<1>3. CASE ~(FindFlow(p, r.client, r.h) /\ p.flows[r.h.slot].st = "pending")
  BY Zenon, <1>1, <1>3, QuietReflexive, QuietIsGood DEF CancelFlowReservation
<1> QED
  BY Zenon, <1>2, <1>3

\* CloseFlow closes the flow the handle names, or does nothing.
LEMMA FlowClosed ==
  ASSUME NEW p, Valid(p), NEW c, NEW h
  PROVE Good(p, CloseFlow(p, c, h))
<1>1. p \in Planes
  BY Zenon DEF Valid, Sound
<1>2. CASE FindFlow(p, c, h)
  <2>1. h.slot \in FlowSlots /\ CloseFlow(p, c, h) = CloseFlowSlot(p, h.slot, TRUE)
    BY <1>2 DEF CloseFlow, FindFlow
  <2>2. Closes(p, {h.slot}, CloseFlowSlot(p, h.slot, TRUE))
    BY ZenonT(40), <1>1, <2>1, SlotClosed
  <2> QED
    BY Zenon, <2>1, <2>2, ClosesIsGood
<1>3. CASE ~FindFlow(p, c, h)
  BY <1>1, <1>3, QuietReflexive, QuietIsGood DEF CloseFlow
<1> QED
  BY <1>2, <1>3

\* InvalidatePeerActivation closes the open flows of the activation.
LEMMA ActivationInvalidated ==
  ASSUME NEW p, Valid(p), NEW id
  PROVE LET q == InvalidatePeerActivation(p, id) IN Good(p, q) /\ SamePolicy(p, q)
<1> DEFINE S == {s \in FlowSlots : p.flows[s].st = "open" /\ p.flows[s].peer = id}
<1>1. p \in Planes /\ S \in SUBSET FlowSlots
  BY Zenon DEF Valid, Sound
<1>2. InvalidatePeerActivation(p, id) = CloseAll(p, S, TRUE)
  BY Zenon DEF InvalidatePeerActivation
<1> HIDE DEF S
<1>3. Closes(p, S, CloseAll(p, S, TRUE))
  BY Zenon, <1>1, AllClosed
<1> QED
  BY Zenon, <1>2, <1>3, ClosesIsGood DEF Closes, Shrinks

\* Occupancy and slabs counted up or down.
Recounted(p, s, o, n) == [p EXCEPT !.flows[s] = [p.flows[s] EXCEPT !.occ = o], !.slabs = n]

\* Counting a datagram in or out is quiet.
LEMMA OccupancySet ==
  ASSUME NEW p \in Planes, NEW s \in FlowSlots, NEW o \in Int, NEW n \in Int
  PROVE LET q == Recounted(p, s, o, n)
        IN /\ Quiet(p, q) /\ q.clients = p.clients /\ q.slabs = n /\ q.lost = p.lost
           /\ \A t \in FlowSlots : q.flows[t].occ = IF t = s THEN o ELSE p.flows[t].occ
<1> DEFINE f == [p.flows[s] EXCEPT !.occ = o]
           g == [p.flows EXCEPT ![s] = f]
           q == [p EXCEPT !.flows = g, !.slabs = n]
<1>1. p.flows[s] \in Flows
  BY DEF Planes, PlaneRecords
<1>2. f \in Flows /\ SameFlow(p.flows[s], f) /\ f.pol = p.flows[s].pol /\ f.occ = o
  BY <1>1 DEF Flows, SameFlow
<1>3. q = Recounted(p, s, o, n)
  BY DEF Recounted
<1> HIDE DEF f
<1>4. g \in [FlowSlots -> Flows] /\ \A t \in FlowSlots : g[t] = IF t = s THEN f ELSE p.flows[t]
  BY Zenon, <1>2 DEF Planes, PlaneRecords
<1> HIDE DEF g
<1>5. /\ q \in PlaneRecords /\ SamePolicy(p, q) /\ q.clients = p.clients
      /\ q.tombs = p.tombs /\ q.flows = g /\ q.slabs = n /\ q.lost = p.lost
  BY ZenonT(40), <1>4 DEF Planes, PlaneRecords, SamePolicy
<1> HIDE DEF q
<1>6. \A t \in FlowSlots : SameFlow(p.flows[t], g[t]) /\ g[t].pol = p.flows[t].pol
  BY Zenon, <1>2, <1>4 DEF SameFlow
<1>7. q \in Planes
  BY Zenon, <1>5, <1>6 DEF Planes, SameFlow, Live
<1>8. Quiet(p, q)
  BY <1>5, <1>6, <1>7, RetainsReflexive DEF Quiet
<1> QED
  BY Zenon, <1>2, <1>3, <1>4, <1>5, <1>8

\* A data record queued for the owner of an open flow, under the activation the
\* flow was opened in.
LEMMA DataQueued ==
  ASSUME NEW p, Valid(p), NEW s \in FlowSlots, p.flows[s].st = "open"
  PROVE LET f == p.flows[s]
            e == [type |-> "data", h |-> MakeFlowHandle(s, f), from |-> p.peer]
            m == [WithRecord(p.clients[f.owner], e) EXCEPT !.data = @ + 1]
        IN Good(p, [p EXCEPT !.clients[f.owner] = m])
<1> DEFINE f == p.flows[s]
           c == f.owner
           k == p.clients[c]
           e == [type |-> "data", h |-> MakeFlowHandle(s, f), from |-> p.peer]
           r == Append(k.q, e)
           b == NotifyIfNeeded(k, e)
           n == k.data + 1
           m == [k EXCEPT !.q = r, !.event = b, !.data = n]
           C == [p.clients EXCEPT ![c] = m]
           q == [p EXCEPT !.clients = C]
<1>1. p \in Planes /\ f \in Flows /\ s \in LiveSlots(p) /\ s \in Nat
  BY SMTT(30), FlowConstants DEF Valid, Sound, Planes, PlaneRecords, LiveSlots, Live, FlowSlots
<1>2. c \in Clients /\ k \in Contexts /\ k.open /\ f.peer = p.peer
  BY Zenon, <1>1 DEF Valid, Sound, Current, Planes, PlaneRecords, LiveSlots
<1>3. e \in Completions /\ e.h = MakeFlowHandle(s, f) /\ e.from = p.peer /\ IsData(e)
  <2>1. e.h \in FlowHandles /\ p.peer \in Identities
    BY Zenon, <1>1 DEF MakeFlowHandle, FlowHandles, Flows, Planes, PlaneRecords
  <2> QED
    BY <2>1 DEF Completions, IsData
<1>4. m = [WithRecord(k, e) EXCEPT !.data = @ + 1]
  BY Zenon, <1>2 DEF WithRecord, Contexts
<1> DEFINE q0 == [p EXCEPT !.clients[c] = m]
<1>5. q0 = q
  BY Zenon DEF q
<1> HIDE DEF e, f
<1>6. k.q \in Seq(Completions) /\ n \in Int
  BY <1>2 DEF Contexts
<1>6a. b \in BOOLEAN /\ (k.event => b) /\ (k.q = <<>> => b)
  BY Zenon, <1>2 DEF Contexts, NotifyIfNeeded
<1>7. /\ r \in Seq(Completions) /\ Len(r) = Len(k.q) + 1 /\ r[Len(r)] = e
      /\ \A j \in 1..Len(k.q) : r[j] = k.q[j]
  <2> DEFINE l == k.q
  <2>1. l \in Seq(Completions) /\ e \in Completions
    BY Zenon, <1>3, <1>6
  <2> HIDE DEF l
  <2>2. /\ Append(l, e) \in Seq(Completions) /\ Len(Append(l, e)) = Len(l) + 1
        /\ Append(l, e)[Len(Append(l, e))] = e
        /\ \A j \in 1..Len(l) : Append(l, e)[j] = l[j]
    BY <2>1
  <2> QED
    BY <2>2, Zenon DEF l
<1> HIDE DEF r, b, n
<1>8. m \in Contexts /\ m.q = r /\ m.open = k.open /\ m.event = b
  BY ZenonT(40), <1>2, <1>6, <1>7, <1>6a DEF Contexts
<1> HIDE DEF m
<1>9. C \in [Clients -> Contexts] /\ \A d \in Clients : C[d] = IF d = c THEN m ELSE p.clients[d]
  BY <1>1, <1>2, <1>8 DEF Planes, PlaneRecords
<1> HIDE DEF C
<1>10. /\ q \in PlaneRecords /\ SamePolicy(p, q) /\ q.clients = C
       /\ q.flows = p.flows /\ q.tombs = p.tombs
  BY Zenon, <1>1, <1>9 DEF Planes, PlaneRecords, SamePolicy
<1> HIDE DEF q
<1>11. q \in Planes
  BY Zenon, <1>1, <1>10 DEF Planes
<1>12. LiveSlots(q) = LiveSlots(p) /\ Taken(q) = Taken(p)
  BY <1>10 DEF LiveSlots, Taken
<1>13. \A d \in Clients : q.clients[d].open = p.clients[d].open /\ Covered(q.clients[d])
  <2>1. Covered(m)
    BY Zenon, <1>2, <1>8, <1>6a DEF Valid, Sound, Covered
  <2> QED
    BY Zenon, <1>8, <1>9, <1>10, <2>1 DEF Valid, Sound
<1>14. \A t \in FlowSlots : q.flows[t].gen < q.nextFlow
  BY Zenon, <1>10 DEF Valid, Sound, SamePolicy
<1>15. \A t \in LiveSlots(q) : q.clients[q.flows[t].owner].open
  BY Zenon, <1>1, <1>10, <1>12, <1>13 DEF Valid, Sound, Planes, LiveSlots
<1>16. DistinctTuples(q)
  BY Zenon, <1>10, <1>12 DEF Valid, Sound, DistinctTuples
<1>17. DataBacked(q)
  <2>1. ASSUME NEW d \in Clients, NEW x, Backed(p, d, x)
        PROVE Backed(q, d, x)
    BY Zenon, <1>10, <1>13, <2>1 DEF Backed, FindFlow
  <2>2. Backed(q, c, e)
    <3>1. e.h.slot = s /\ e.h.gen = q.flows[s].gen /\ q.flows[s].st = "open"
          /\ q.flows[s].owner = c /\ e.from = q.flows[s].peer
      BY <1>2, <1>3, <1>10 DEF MakeFlowHandle, f
    <3> QED
      BY Zenon, <1>2, <1>13, <3>1 DEF Backed, FindFlow
  <2>3. ASSUME NEW d \in Clients, NEW j \in 1..Len(q.clients[d].q), IsData(q.clients[d].q[j])
        PROVE Backed(q, d, q.clients[d].q[j])
    <3>1. CASE d # c
      <4>1. q.clients[d] = p.clients[d]
        BY Zenon, <1>9, <1>10, <3>1
      <4> QED
        BY Zenon, <2>1, <2>3, <4>1 DEF Valid, Sound, DataBacked
    <3>2. CASE d = c /\ j = Len(r)
      <4>1. q.clients[d].q = r
        BY Zenon, <1>8, <1>9, <1>10, <3>2
      <4> QED
        BY Zenon, <1>7, <2>2, <3>2, <4>1
    <3>3. CASE d = c /\ j # Len(r)
      <4>1. q.clients[d].q = r
        BY Zenon, <1>8, <1>9, <1>10, <3>3
      <4>2. j \in 1..Len(k.q) /\ q.clients[d].q[j] = k.q[j]
        BY SMTT(30), <1>6, <1>7, <3>3, <4>1
      <4> QED
        BY Zenon, <2>1, <2>3, <3>3, <4>2 DEF Valid, Sound, DataBacked
    <3> QED
      BY Zenon, <3>1, <3>2, <3>3
  <2> QED
    BY Zenon, <2>3 DEF DataBacked
<1>18. Sound(q)
  BY Zenon, <1>10, <1>11, <1>12, <1>13, <1>14, <1>15, <1>16, <1>17 DEF Sound, Valid
<1>19. Current(q)
  BY Zenon, <1>10, <1>12 DEF Valid, Current, SamePolicy
<1>20. FlowsFollow(p, q)
  BY Zenon, <1>10 DEF FlowsFollow
<1>21. Good(p, q0)
  BY Zenon, <1>5, <1>18, <1>19, <1>20 DEF Good, Valid
<1> QED
  BY ZenonT(40), <1>4, <1>21 DEF e, f

\* DeliverInboundUdpDatagram queues data of an open flow under the activation
\* the policy has, or drops the datagram.
LEMMA DatagramDelivered ==
  ASSUME NEW p, Valid(p), NEW h, NEW id, NEW pol
  PROVE Good(p, DeliverInboundUdpDatagram(p, h, id, pol))
<1> DEFINE s == h.slot
           o == p.flows[s].occ + 1
           n == p.slabs + 1
           u == TakeSlab(p, s)
           q == DeliverInboundUdpDatagram(p, h, id, pol)
           Drop == \/ ~Deliverable(p, h, id, pol)
                   \/ p.flows[h.slot].occ >= InboundPerFlow \/ p.slabs >= SlabCount
<1>1. p \in Planes
  BY Zenon DEF Valid, Sound
<1>2. CASE Drop
  <2>1. q = p
    BY <1>2, Zenon DEF DeliverInboundUdpDatagram
  <2> QED
    BY <1>1, <2>1, QuietReflexive, QuietIsGood
<1>3. CASE ~Drop
  <2>1. Deliverable(p, h, id, pol) /\ q = EnqueueDataCompletion(u, s, id)
    BY <1>3, Zenon DEF DeliverInboundUdpDatagram
  <2>2. s \in FlowSlots /\ p.flows[s].st = "open" /\ id = p.peer
    BY Zenon, <2>1 DEF Deliverable
  <2>3. o \in Int /\ n \in Int
    BY <1>1, <2>2 DEF Planes, PlaneRecords, Flows
  <2>4. u = Recounted(p, s, o, n)
    BY Zenon DEF TakeSlab, Recounted
  <2> HIDE DEF s, o, n, q, u
  <2>5. Quiet(p, u)
    BY Zenon, <1>1, <2>2, <2>3, <2>4, OccupancySet
  <2>6. Good(p, u) /\ u \in Planes /\ SamePolicy(p, u) /\ u.flows[s].st = "open"
    BY <2>2, <2>5, QuietIsGood DEF Quiet, SameFlow
  <2> DEFINE g == u.flows[s]
             e == [type |-> "data", h |-> MakeFlowHandle(s, g), from |-> u.peer]
             m == [WithRecord(u.clients[g.owner], e) EXCEPT !.data = @ + 1]
             v == GiveSlabBack(u, s)
             w == [u EXCEPT !.clients[g.owner] = m]
  <2>7. id = u.peer
    BY <2>2, <2>6 DEF SamePolicy
  <2>8. q = v \/ q = w
    BY <2>1, <2>7, Zenon DEF EnqueueDataCompletion
  <2>9. Good(u, v)
    <3> DEFINE a == g.occ - 1
               b == u.slabs - 1
    <3>1. a \in Int /\ b \in Int
      BY <2>2, <2>6 DEF Planes, PlaneRecords, Flows
    <3>2. v = Recounted(u, s, a, b)
      BY Zenon DEF GiveSlabBack, Recounted
    <3> HIDE DEF a, b, v
    <3>3. Quiet(u, v)
      BY SMTT(30), <2>2, <2>6, <3>1, <3>2, OccupancySet
    <3> QED
      BY <2>6, <3>3, QuietIsGood DEF Good
  <2>10. Good(u, w)
    BY ZenonT(40), <2>2, <2>6, DataQueued DEF Good
  <2> HIDE DEF v, w
  <2>11. Good(u, q)
    BY Zenon, <2>8, <2>9, <2>10
  <2>12. q \in Planes /\ p.nextFlow <= u.nextFlow
    <3>1. q \in Planes /\ p.nextFlow \in Nat
      BY Zenon, <2>11, ValidIsPlane DEF Good
    <3>2. p.nextFlow = u.nextFlow
      BY Zenon, <2>6 DEF SamePolicy
    <3> QED
      BY <3>1, <3>2
  <2>13. FlowsFollow(p, q)
    BY <1>1, <2>6, <2>11, <2>12, FlowsFollowTransitive DEF Good
  <2> QED
    BY Zenon, <2>11, <2>13 DEF Good, q
<1> QED
  BY <1>2, <1>3

\* A plane without clients, flows and policy is valid.
LEMMA InitPlaneIsValid == Valid(InitPlane)
<1> DEFINE p == InitPlane
<1>1. /\ p.clients = [c \in Clients |-> NoContext] /\ p.flows = [s \in FlowSlots |-> NoFlow]
      /\ p.tombs = {} /\ p.nextFlow = 1 /\ ~p.avail
  BY Zenon DEF InitPlane
<1>2. NoContext \in Contexts /\ NoContext.q = <<>> /\ NoFlow \in Flows /\ ~Live(NoFlow)
      /\ NoFlow.gen = 0
  BY Zenon, NoContextType, NoFlowType
<1>3. p \in PlaneRecords
  <2> DEFINE C == [c \in Clients |-> NoContext]
             F == [s \in FlowSlots |-> NoFlow]
  <2>1. C \in [Clients -> Contexts] /\ F \in [FlowSlots -> Flows]
    BY <1>2
  <2>2. p = [clients |-> C, flows |-> F, tombs |-> {}, slabs |-> 0, port |-> 0,
             nextFlow |-> 1, avail |-> FALSE, peer |-> NoIdentity, pol |-> 1,
             routes |-> {}, lost |-> FALSE]
    BY DEF InitPlane
  <2> HIDE DEF p, C, F
  <2>3. NoIdentity \in Identities
    BY Zenon DEF Identities
  <2> QED
    BY SMTT(30), <2>1, <2>2, <2>3 DEF PlaneRecords
<1> HIDE DEF p
<1>4. LiveSlots(p) = {} /\ p \in Planes
  BY Zenon, <1>1, <1>2, <1>3 DEF LiveSlots, Planes
<1>5. IsFiniteSet(p.tombs) /\ Taken(p) <= TombstoneCount
  BY SMTT(30), <1>1, <1>4, FS_EmptySet, FlowConstants DEF Taken
<1>6. \A s \in FlowSlots : p.flows[s].gen < p.nextFlow
  BY <1>1, <1>2
<1>7. \A c \in Clients : p.clients[c].q = <<>>
  BY Zenon, <1>1, <1>2
<1>8. DataBacked(p) /\ \A c \in Clients : Covered(p.clients[c])
  BY SMTT(30), <1>7 DEF DataBacked, Covered
<1>9. Valid(p)
  BY Zenon, <1>1, <1>4, <1>5, <1>6, <1>8 DEF Valid, Sound, Current, DistinctTuples
<1> QED
  BY <1>9 DEF p

-----------------------------------------------------------------------------
(* What a method leaves of the policy. *)

SameRules(p, q) ==
  q.avail = p.avail /\ q.peer = p.peer /\ q.pol = p.pol /\ q.routes = p.routes

\* Closing no slot changes nothing (CloseFlowSlot in a loop without hits).
LEMMA NothingClosed ==
  ASSUME NEW p, NEW notify
  PROVE CloseAll(p, {}, notify) = p
<1> DEFINE N == FlowCount
           Step(f) == [i \in 0..FlowCount |->
                         IF i = 0 THEN p
                         ELSE IF i \in {} THEN CloseFlowSlot(f[i - 1], i, notify)
                         ELSE f[i - 1]]
           W == CHOOSE f : f = Step(f)
           g == [i \in 0..FlowCount |-> p]
<1>1. N \in Nat /\ \A i \in 1..N : i \in 0..N /\ i - 1 \in 0..N /\ i # 0
  BY FlowConstants
<1>2. g = Step(g)
  BY FlowConstants
<1>3. W = Step(W)
  <2> HIDE DEF Step
  <2> QED
    BY Zenon, <1>2
<1>4. CloseAll(p, {}, notify) = W[N]
  BY DEF CloseAll
<1> HIDE DEF W
<1>5. W[0] = p /\ \A i \in 1..N : W[i] = W[i - 1]
  <2>1. \A i \in 0..FlowCount : W[i] = Step(W)[i]
    BY Zenon, <1>3
  <2>2. 0 \in 0..FlowCount
    BY <1>1
  <2> QED
    BY Zenon, <1>1, <2>1, <2>2
<1> HIDE DEF Step, N
<1> DEFINE T == {i \in 0..N : W[i] = p}
<1>6. 0 \in T
  BY <1>1, <1>5
<1>7. \A i \in 1..N : i - 1 \in T => i \in T
  BY Zenon, <1>1, <1>5
<1> HIDE DEF T
<1>8. \A i \in 0..N : i \in T
  BY Zenon, <1>1, <1>6, <1>7, IntervalInduction
<1>9. N \in T
  BY <1>1, <1>8
<1> QED
  BY Zenon, <1>4, <1>9 DEF T

\* Two changes of a plane that keep its policy keep it together.
LEMMA RulesTransitive ==
  ASSUME NEW p, NEW q, NEW r, SameRules(p, q), SameRules(q, r)
  PROVE SameRules(p, r)
  BY Zenon DEF SameRules

\* Quiet and closing changes keep the policy.
LEMMA QuietKeepsRules ==
  ASSUME NEW p, NEW q, Quiet(p, q) \/ \E S : Closes(p, S, q)
  PROVE SameRules(p, q)
  BY Zenon DEF SameRules, SamePolicy, Quiet, Closes, Shrinks

\* A datagram that is delivered changes no policy.
LEMMA DeliveryKeepsRules ==
  ASSUME NEW p \in Planes, NEW h, NEW id, NEW pol, Deliverable(p, h, id, pol)
  PROVE SameRules(p, DeliverInboundUdpDatagram(p, h, id, pol))
<1> DEFINE s == h.slot
           u == TakeSlab(p, s)
           q == DeliverInboundUdpDatagram(p, h, id, pol)
           o == p.flows[s].occ + 1
           n == p.slabs + 1
<1>1. s \in FlowSlots /\ o \in Int /\ n \in Int
  BY DEF Deliverable, Planes, PlaneRecords, Flows
<1>2. u = Recounted(p, s, o, n)
  BY Zenon DEF TakeSlab, Recounted
<1> HIDE DEF o, n, s, u
<1>3. Quiet(p, u)
  BY Zenon, <1>1, <1>2, OccupancySet
<1>4. SameRules(p, u) /\ u \in Planes
  BY Zenon, <1>3, QuietKeepsRules DEF Quiet
<1>5. q = p \/ q = EnqueueDataCompletion(u, s, id)
  BY Zenon DEF DeliverInboundUdpDatagram, u, s
<1>6. SameRules(u, EnqueueDataCompletion(u, s, id))
  <2> DEFINE f == u.flows[s]
             m == [WithRecord(u.clients[f.owner],
                     [type |-> "data", h |-> MakeFlowHandle(s, f), from |-> id])
                     EXCEPT !.data = @ + 1]
             v == [f EXCEPT !.occ = @ - 1]
  <2>1. \/ EnqueueDataCompletion(u, s, id) = [u EXCEPT !.flows[s] = v, !.slabs = @ - 1]
        \/ EnqueueDataCompletion(u, s, id) = [u EXCEPT !.clients[f.owner] = m]
    BY Zenon DEF EnqueueDataCompletion, GiveSlabBack
  <2> HIDE DEF f, m, v
  <2>2. SameRules(u, [u EXCEPT !.flows[s] = v, !.slabs = @ - 1])
    BY Zenon, <1>4 DEF SameRules, Planes, PlaneRecords
  <2>3. SameRules(u, [u EXCEPT !.clients[f.owner] = m])
    BY <1>4 DEF SameRules, Planes, PlaneRecords
  <2> QED
    BY Zenon, <2>1, <2>2, <2>3
<1>7. SameRules(p, p)
  BY Zenon DEF SameRules
<1>8. SameRules(p, EnqueueDataCompletion(u, s, id))
  BY Zenon, <1>4, <1>6, RulesTransitive
<1> QED
  BY Zenon, <1>5, <1>7, <1>8

\* A reservation, given up at once or not, changes no policy.
LEMMA ReservationKeepsRules ==
  ASSUME NEW p \in Planes, NEW c \in Clients, NEW a \in Remotes
  PROVE /\ SameRules(p, ReserveFlow(p, c, a))
        /\ SameRules(p, [ReserveFlow(p, c, a) EXCEPT !.flows[ReservedSlot(p)] = NoFlow])
<1> DEFINE r == ReserveFlow(p, c, a)
           s == ReservedSlot(p)
           v == [r EXCEPT !.flows[s] = NoFlow]
           port == NextPort(p, Config[p.peer[1]].source, a)
           f == [st |-> "pending", owner |-> c, gen |-> p.nextFlow,
                 peer |-> p.peer, pol |-> p.pol, remote |-> a,
                 port |-> port, occ |-> 0, waiter |-> FALSE]
           x == (port + 1) % PortCount
<1>1. r = [p EXCEPT !.flows[s] = f, !.port = x, !.nextFlow = @ + 1]
  BY Zenon DEF ReserveFlow
<1> HIDE DEF r, s, f, x
<1>2. SameRules(p, r) /\ DOMAIN r = DOMAIN p
  BY <1>1 DEF SameRules, Planes, PlaneRecords
<1>3. DOMAIN r = {"clients", "flows", "tombs", "slabs", "port", "nextFlow", "avail",
                  "peer", "pol", "routes", "lost"}
  BY <1>2 DEF Planes, PlaneRecords
<1>4. SameRules(r, v)
  BY <1>3 DEF SameRules
<1> HIDE DEF v
<1>5. SameRules(p, v)
  BY Zenon, <1>2, <1>4, RulesTransitive
<1> QED
  BY Zenon, <1>2, <1>5 DEF r, s, v

\* Destroying a client changes no policy.
LEMMA DestructionKeepsRules ==
  ASSUME NEW p \in Planes, NEW c \in Clients
  PROVE SameRules(p, DestroyClient(p, c))
<1> DEFINE mine == {s \in FlowSlots : p.flows[s].owner = c}
           q == CloseAll(p, mine, FALSE)
           n == q.slabs - DataIn(q.clients[c].q)
           F == [s \in FlowSlots |->
                   IF s \in mine THEN [q.flows[s] EXCEPT !.owner = NoClient] ELSE q.flows[s]]
           r == [q EXCEPT !.clients[c] = NoContext, !.slabs = n, !.flows = F]
<1>1. DestroyClient(p, c) = r
  BY Zenon DEF DestroyClient
<1>2. Closes(p, mine, q)
  BY Zenon, AllClosed
<1> HIDE DEF mine, q
<1>3. SameRules(p, q) /\ q \in Planes
  <2>1. SameRules(p, q)
    BY Zenon, <1>2, QuietKeepsRules
  <2> QED
    BY Zenon, <1>2, <2>1 DEF Closes, Shrinks
<1> HIDE DEF n, F
<1>4. SameRules(q, r)
  BY <1>3 DEF SameRules, Planes, PlaneRecords
<1> HIDE DEF r
<1> QED
  BY Zenon, <1>1, <1>3, <1>4, RulesTransitive

-----------------------------------------------------------------------------
(* The methods together. *)

ReservationAt(p, s) ==
  [client |-> p.flows[s].owner, h |-> MakeFlowHandle(s, p.flows[s]),
   peer |-> p.flows[s].peer, pol |-> p.flows[s].pol]

\* q is what a method other than a switch of the peer makes of p.
Uses(p, q) ==
  \/ q = NotifyOutboundCapacityAvailable(p, p.peer)
  \/ \E s \in FlowSlots :
       /\ p.flows[s].st = "pending"
       /\ \/ CanCommit(p, ReservationAt(p, s))
             /\ q = CommitFlowReservation(p, ReservationAt(p, s))
          \/ q = CancelFlowReservation(p, ReservationAt(p, s))
  \/ \E t \in p.tombs : q = [p EXCEPT !.tombs = @ \ {t}]
  \/ \E c \in Clients :
       \/ ~p.clients[c].open /\ q = CreateClient(p, c)
       \/ p.clients[c].open /\ q = DestroyClient(p, c)
       \/ \E a \in Remotes :
            /\ ReserveStatus(p, c, a, TRUE) = "Success"
            /\ \/ q = ReserveFlow(p, c, a)
               \/ q = [ReserveFlow(p, c, a) EXCEPT !.flows[ReservedSlot(p)] = NoFlow]
       \/ \E n \in 1..QueueCapacity :
            n <= Len(p.clients[c].q) /\ q = ReceiveCompletions(p, c, n)
       \/ \E s \in FlowSlots :
            LET h == MakeFlowHandle(s, p.flows[s])
            IN \/ q = CloseFlow(p, c, h)
               \/ \E status : q = CompleteSend(p, h, status)
               \/ \E id, pol : /\ Deliverable(p, h, id, pol)
                               /\ q = DeliverInboundUdpDatagram(p, h, id, pol)

\* A method other than a switch leads from a valid plane to a valid one,
\* revives no handle and leaves the policy alone: availability, peer, routes
\* and generation.
LEMMA UsesAreGood ==
  ASSUME NEW p, NEW q, Valid(p), Uses(p, q)
  PROVE Good(p, q) /\ SameRules(p, q)
<1> DEFINE Goal == Good(p, q) /\ SameRules(p, q)
<1>1. Valid(p) /\ p \in Planes
  BY Zenon, ValidIsPlane
<1>2. \A s, f : SameRules(p, [p EXCEPT !.flows[s] = f])
  BY <1>1 DEF SameRules, Planes, PlaneRecords
<1>3. SameRules(p, p)
  BY Zenon DEF SameRules
<1>4. CASE q = NotifyOutboundCapacityAvailable(p, p.peer)
  BY Zenon, <1>1, <1>4, CapacityNotified, QuietIsGood, QuietKeepsRules
<1>5. ASSUME NEW s \in FlowSlots, p.flows[s].st = "pending",
             CanCommit(p, ReservationAt(p, s)),
             q = CommitFlowReservation(p, ReservationAt(p, s))
      PROVE Goal
  <2> DEFINE f == [p.flows[s] EXCEPT !.st = "open"]
  <2>1. q = [p EXCEPT !.flows[s] = f]
    BY Zenon, <1>5 DEF CommitFlowReservation, ReservationAt, MakeFlowHandle
  <2>2. Good(p, q)
    <3>1. q = [p EXCEPT !.flows[s] = [@ EXCEPT !.st = "open"]]
      BY Zenon, <2>1
    <3> QED
      BY SMTT(30), <1>1, <1>5, <3>1, FlowCommitted
  <2>3. SameRules(p, q)
    <3> HIDE DEF f
    <3> QED
      BY Zenon, <1>2, <2>1
  <2> QED
    BY Zenon, <2>2, <2>3
<1>6. ASSUME NEW s \in FlowSlots, p.flows[s].st = "pending",
             q = CancelFlowReservation(p, ReservationAt(p, s))
      PROVE Goal
  <2>1. Good(p, q)
    BY Zenon, <1>1, <1>6, ReservationCancelled
  <2>2. SameRules(p, q)
    BY Zenon, <1>2, <1>3, <1>6 DEF CancelFlowReservation
  <2> QED
    BY Zenon, <2>1, <2>2
<1>7. ASSUME NEW t \in p.tombs, q = [p EXCEPT !.tombs = @ \ {t}]
      PROVE Goal
  BY Zenon, <1>1, <1>7, TombstoneExpired, QuietIsGood, QuietKeepsRules
<1>8. ASSUME NEW c \in Clients, ~p.clients[c].open, q = CreateClient(p, c)
      PROVE Goal
  <2>1. Good(p, q)
    BY Zenon, <1>1, <1>8, ClientCreated
  <2> DEFINE k == [NoContext EXCEPT !.open = TRUE]
  <2>2. q = [p EXCEPT !.clients[c] = k]
    BY Zenon, <1>8 DEF CreateClient
  <2> HIDE DEF k
  <2>3. SameRules(p, q)
    BY <1>1, <2>2 DEF SameRules, Planes, PlaneRecords
  <2> QED
    BY Zenon, <2>1, <2>3
<1>9. ASSUME NEW c \in Clients, p.clients[c].open, q = DestroyClient(p, c)
      PROVE Goal
  BY Zenon, <1>1, <1>9, ClientDestroyed, DestructionKeepsRules
<1>10. ASSUME NEW c \in Clients, NEW a \in Remotes, ReserveStatus(p, c, a, TRUE) = "Success",
              q = ReserveFlow(p, c, a)
       PROVE Goal
  BY Zenon, <1>1, <1>10, FlowReserved, ReservationKeepsRules
<1>11. ASSUME NEW c \in Clients, NEW a \in Remotes, ReserveStatus(p, c, a, TRUE) = "Success",
              q = [ReserveFlow(p, c, a) EXCEPT !.flows[ReservedSlot(p)] = NoFlow]
       PROVE Goal
  <2>1. Good(p, q)
    BY ZenonT(40), <1>1, <1>11, ReservedAndCancelled
  <2>2. SameRules(p, q)
    BY Zenon, <1>1, <1>11, ReservationKeepsRules
  <2> QED
    BY Zenon, <2>1, <2>2
<1>12. ASSUME NEW c \in Clients, NEW n \in 1..QueueCapacity, n <= Len(p.clients[c].q),
              q = ReceiveCompletions(p, c, n)
       PROVE Goal
  <2>1. n \in 1..Len(p.clients[c].q)
    <3>1. p.clients[c] \in Contexts
      BY <1>1 DEF Planes, PlaneRecords
    <3>2. Len(p.clients[c].q) \in Nat
      BY <3>1 DEF Contexts
    <3>3. n \in Nat /\ n >= 1 /\ n <= Len(p.clients[c].q)
      BY <1>12, FlowConstants DEF QueueCapacity
    <3> QED
      BY SMTT(30), <3>2, <3>3
  <2>2. Quiet(p, q)
    BY Zenon, <1>1, <1>12, <2>1, CompletionsReceived
  <2> QED
    BY Zenon, <1>1, <2>2, QuietIsGood, QuietKeepsRules
<1>13. ASSUME NEW c \in Clients, NEW s \in FlowSlots,
              q = CloseFlow(p, c, MakeFlowHandle(s, p.flows[s]))
       PROVE Goal
  <2>1. Good(p, q)
    BY Zenon, <1>1, <1>13, FlowClosed
  <2>2. MakeFlowHandle(s, p.flows[s]).slot = s
    BY DEF MakeFlowHandle
  <2>3. SameRules(p, CloseFlowSlot(p, s, TRUE))
    BY Zenon, <1>1, SlotClosed, QuietKeepsRules
  <2>4. SameRules(p, q)
    BY Zenon, <1>3, <1>13, <2>2, <2>3 DEF CloseFlow
  <2> QED
    BY Zenon, <2>1, <2>4
<1>14. ASSUME NEW s \in FlowSlots, NEW status,
              q = CompleteSend(p, MakeFlowHandle(s, p.flows[s]), status)
       PROVE Goal
  <2>1. MakeFlowHandle(s, p.flows[s]).slot \in FlowSlots
    BY DEF MakeFlowHandle
  <2>2. Quiet(p, q)
    BY Zenon, <1>1, <1>14, <2>1, SendCompleted
  <2> QED
    BY Zenon, <1>1, <2>2, QuietIsGood, QuietKeepsRules
<1>15. ASSUME NEW h, NEW id, NEW pol, Deliverable(p, h, id, pol),
              q = DeliverInboundUdpDatagram(p, h, id, pol)
       PROVE Goal
  BY Zenon, <1>1, <1>15, DatagramDelivered, DeliveryKeepsRules
<1> QED
  BY ZenonT(40), <1>4, <1>5, <1>6, <1>7, <1>8, <1>9, <1>10, <1>11, <1>12, <1>13, <1>14, <1>15
     DEF Uses

\* A switch leads to a valid plane that holds the policy of the new identity.
LEMMA SwitchIsGood ==
  ASSUME NEW p, Valid(p), NEW id \in Identities
  PROVE LET r == RefreshPolicy(InvalidatePeerActivation(p, p.peer), id)
        IN Good(p, r) /\ Unchanged(r, id)
<1> DEFINE q == InvalidatePeerActivation(p, p.peer)
           r == RefreshPolicy(q, id)
<1>1. Good(p, q) /\ SamePolicy(p, q) /\ p \in Planes
  BY SMTT(30), ActivationInvalidated, ValidIsPlane
<1> HIDE DEF q
<1>2. Good(q, r) /\ Unchanged(r, id) /\ q \in Planes
  BY Zenon, <1>1, PolicyRefreshed, ValidIsPlane DEF Good
<1>3. r \in Planes
  BY Zenon, <1>2, ValidIsPlane DEF Good
<1>4. p.nextFlow <= q.nextFlow
  <2>1. p.nextFlow = q.nextFlow
    BY Zenon, <1>1 DEF SamePolicy
  <2> QED
    BY <1>1, <2>1, ValidIsPlane
<1> HIDE DEF r
<1>5. FlowsFollow(p, r)
  BY Zenon, <1>1, <1>2, <1>3, <1>4, FlowsFollowTransitive DEF Good
<1> QED
  BY Zenon, <1>2, <1>5 DEF Good, q, r
=============================================================================
