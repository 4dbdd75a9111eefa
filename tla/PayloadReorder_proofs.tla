----------------------- MODULE PayloadReorder_proofs ------------------------
(***************************************************************************)
(* PayloadReorder is correct for any number of CPUs and chunks, and for    *)
(* every window longer than the jitter and no longer than the settle       *)
(* delay.                                                                  *)
(*                                                                         *)
(* Why no chunk overtakes another: a chunk that is still buffered was      *)
(* captured before the operation of any later chunk began, so it has       *)
(* waited for at least as long as the later one is old (Earlier).  A chunk *)
(* waits for at most Jitter ticks, and an out-of-order chunk is handed on  *)
(* after Window of them.  The inductive invariant Ind says so of the       *)
(* buffers (InOrder, Across), of the operation under way (OpInv) and of    *)
(* what is held (LaneInv), and carries it over to what was handed on       *)
(* (EmitInv, MarkInv) and to the end of the process (EndInv).              *)
(***************************************************************************)
EXTENDS PayloadReorder, FiniteSetTheorems, TLAPS

-----------------------------------------------------------------------------
(* Sequences.                                                              *)

\* The places of a sequence are numbered from 1, and hold its elements.
LEMMA SeqPlaces ==
    ASSUME NEW S, NEW q \in Seq(S)
    PROVE  Len(q) \in Nat /\ DOMAIN q = 1 .. Len(q) /\ \A i \in DOMAIN q : q[i] \in S
  OBVIOUS

\* The empty sequence is the one of length 0.
LEMMA SeqEmpty ==
    ASSUME NEW S
    PROVE  <<>> \in Seq(S) /\ \A q \in Seq(S) : q = <<>> <=> Len(q) = 0
  OBVIOUS

\* What stands where when one sequence is put behind another.
LEMMA SeqBehind ==
    ASSUME NEW S, NEW p \in Seq(S), NEW q \in Seq(S)
    PROVE  /\ p \o q \in Seq(S) /\ Len(p \o q) = Len(p) + Len(q)
           /\ \A i \in 1 .. Len(p) + Len(q) :
                 (p \o q)[i] = IF i <= Len(p) THEN p[i] ELSE q[i - Len(p)]
  OBVIOUS

-----------------------------------------------------------------------------
(* Finite sets of numbers, and sets of chunks put in order.                *)

\* A place in a sequence is a natural number.
LEMMA RangeNat ==
    ASSUME NEW n, NEW k \in 1 .. n
    PROVE  k \in Nat
  OBVIOUS

\* A set of natural numbers has a least element.
LEMMA Least ==
    ASSUME NEW S \in SUBSET Nat, S # {}
    PROVE  \E x \in S : \A y \in S : x <= y
  <1>1. \E x \in S : \A y \in S : ~ (<<y, x>> \in OpToRel(<, Nat))
    BY Zenon, NatLessThanWellFounded, WFMin
  <1>2. PICK x \in S : \A y \in S : ~ (<<y, x>> \in OpToRel(<, Nat))
    BY Zenon, <1>1
  <1>3. \A y \in S : ~ (y < x)
    BY <1>2 DEF OpToRel
  <1> QED BY <1>3

\* A bounded one has a greatest, which is its Max.
LEMMA Greatest ==
    ASSUME NEW S \in SUBSET Nat, S # {}, NEW n \in Nat, \A x \in S : x <= n
    PROVE  Max(S) \in S /\ \A y \in S : y <= Max(S)
  <1> DEFINE D == {k \in Nat : n - k \in S}
  <1>1. D \in SUBSET Nat /\ D # {}
    <2>1. PICK x \in S : TRUE
      BY Zenon
    <2>2. n - x \in D
      BY <2>1
    <2> QED BY Zenon, <2>2
  <1>2. PICK k \in D : \A j \in D : k <= j
    BY Zenon, <1>1, Least
  <1>3. n - k \in S /\ \A y \in S : y <= n - k
    <2>1. \A y \in S : n - y \in D
      OBVIOUS
    <2> QED BY <1>2, <2>1
  <1>4. \E x \in S : \A y \in S : x >= y
    BY <1>3
  <1>5. Max(S) \in S /\ \A y \in S : Max(S) >= y
    BY Zenon, <1>4 DEF Max
  <1> QED BY <1>5

\* How many chunks of a set come up to a given one.
Rank(S, a) == Cardinality({b \in S : b.seq <= a.seq})

\* The ranks of finitely many chunks with different sequences are 1, 2, ...
LEMMA Ranks ==
    ASSUME NEW S, IsFiniteSet(S), \A a \in S : a.seq \in Nat,
           \A a, b \in S : a.seq = b.seq => a = b
    PROVE  /\ Cardinality(S) \in Nat
           /\ \A a \in S : Rank(S, a) \in 1 .. Cardinality(S)
           /\ \A a, b \in S : a.seq < b.seq <=> Rank(S, a) < Rank(S, b)
           /\ \A i \in 1 .. Cardinality(S) : \E a \in S : Rank(S, a) = i
  <1> DEFINE Upto(a) == {b \in S : b.seq <= a.seq}
             n == Cardinality(S)
  <1>1. n \in Nat /\ IsFiniteSet(1 .. n) /\ Cardinality(1 .. n) = n
    <2>1. n \in Nat
      BY Zenon, FS_CardinalityType
    <2> QED BY <2>1, FS_Interval
  <1>2. \A a \in S : IsFiniteSet(Upto(a)) /\ Cardinality(Upto(a)) <= n /\ Cardinality(Upto(a)) \in Nat
    BY Zenon, FS_Subset, FS_CardinalityType
  <1>3. \A a \in S : Cardinality(Upto(a)) # 0
    <2> SUFFICES ASSUME NEW a \in S PROVE Cardinality(Upto(a)) # 0
      BY Zenon
    <2>1. a \in Upto(a)
      OBVIOUS
    <2> QED BY Zenon, <1>2, <2>1, FS_EmptySet
  <1>4. \A a \in S : Rank(S, a) \in 1 .. n
    <2> SUFFICES ASSUME NEW a \in S PROVE Rank(S, a) \in 1 .. n
      BY Zenon
    <2>1. Rank(S, a) = Cardinality(Upto(a))
      BY Zenon DEF Rank
    <2>2. Rank(S, a) \in Nat /\ Rank(S, a) <= n /\ Rank(S, a) # 0
      BY Zenon, <1>2, <1>3, <2>1
    <2> QED BY <1>1, <2>2
  <1>5. \A a, b \in S : a.seq < b.seq => Rank(S, a) < Rank(S, b)
    <2> SUFFICES ASSUME NEW a \in S, NEW b \in S, a.seq < b.seq
                 PROVE  Rank(S, a) < Rank(S, b)
      BY Zenon
    <2>1. Upto(a) \in SUBSET Upto(b) /\ b \in Upto(b) /\ b \notin Upto(a)
      OBVIOUS
    <2>2. Cardinality(Upto(a)) <= Cardinality(Upto(b))
          /\ Cardinality(Upto(a)) # Cardinality(Upto(b))
      BY Zenon, <1>2, <2>1, FS_Subset
    <2> HIDE DEF Upto
    <2>3. Cardinality(Upto(a)) < Cardinality(Upto(b))
      BY <1>2, <2>2
    <2> QED BY Zenon, <2>3 DEF Rank, Upto
  <1>6. \A a, b \in S : a.seq < b.seq <=> Rank(S, a) < Rank(S, b)
    <2> SUFFICES ASSUME NEW a \in S, NEW b \in S, Rank(S, a) < Rank(S, b), ~ (a.seq < b.seq)
                 PROVE  FALSE
      BY Zenon, <1>5
    <2>1. b.seq < a.seq \/ a = b
      OBVIOUS
    <2>2. ~ (Rank(S, b) < Rank(S, a)) /\ a # b
      BY <1>4
    <2> QED BY Zenon, <1>5, <2>1, <2>2
  <1>7. \A i \in 1 .. n : \E a \in S : Rank(S, a) = i
    <2> DEFINE f == [a \in S |-> Rank(S, a)]
    <2>1. f \in [S -> 1 .. n]
      BY Zenon, <1>4
    <2>2. \A a, b \in S : f[a] = f[b] => a = b
      <3> SUFFICES ASSUME NEW a \in S, NEW b \in S, Rank(S, a) = Rank(S, b) PROVE a = b
        BY Zenon
      <3>1. ~ (a.seq < b.seq) /\ ~ (b.seq < a.seq)
        BY <1>4, <1>5
      <3> QED BY <3>1
    <2>3. f \in Injection(S, 1 .. n)
      BY Zenon, <2>1, <2>2 DEF Injection, IsInjective
    <2>4. f \in Surjection(S, 1 .. n)
      BY Zenon, <1>1, <2>3, FS_Injection
    <2> QED BY Zenon, <2>4 DEF Surjection
  <1> QED BY Zenon, <1>1, <1>4, <1>6, <1>7

\* The chunks in order: each of them once, by ascending sequence.
LEMMA InOrderOf ==
    ASSUME NEW S, IsFiniteSet(S), \A a \in S : a.seq \in Nat,
           \A a, b \in S : a.seq = b.seq => a = b
    PROVE  /\ Ascending(S) \in Seq(S) /\ Len(Ascending(S)) = Cardinality(S)
           /\ DOMAIN Ascending(S) = 1 .. Len(Ascending(S))
           /\ \A a \in S : \E i \in DOMAIN Ascending(S) : Ascending(S)[i] = a
           /\ \A i, j \in DOMAIN Ascending(S) :
                 i < j => Ascending(S)[i].seq < Ascending(S)[j].seq
  <1> DEFINE n == Cardinality(S)
             q == Ascending(S)
  <1>1. /\ n \in Nat
        /\ \A a \in S : Rank(S, a) \in 1 .. n
        /\ \A a, b \in S : a.seq < b.seq <=> Rank(S, a) < Rank(S, b)
        /\ \A i \in 1 .. n : \E a \in S : Rank(S, a) = i
    BY Zenon, Ranks
  <1>2. q = [i \in 1 .. n |-> CHOOSE a \in S : Rank(S, a) = i]
    BY DEF Ascending, Rank
  <1>3. \A i \in 1 .. n : q[i] \in S /\ Rank(S, q[i]) = i
    <2> SUFFICES ASSUME NEW i \in 1 .. n PROVE q[i] \in S /\ Rank(S, q[i]) = i
      BY Zenon
    <2>1. q[i] = CHOOSE a \in S : Rank(S, a) = i
      BY Zenon, <1>2
    <2> QED BY Zenon, <1>1, <2>1
  <1> HIDE DEF q, n
  <1>4. q \in Seq(S) /\ Len(q) = n /\ DOMAIN q = 1 .. n
    BY <1>1, <1>2, <1>3
  <1>5. \A a \in S : \E i \in 1 .. n : q[i] = a
    <2> SUFFICES ASSUME NEW a \in S PROVE q[Rank(S, a)] = a
      BY Zenon, <1>1
    <2> DEFINE b == q[Rank(S, a)]
    <2>1. b \in S /\ Rank(S, b) = Rank(S, a) /\ Rank(S, a) \in 1 .. n
      BY Zenon, <1>1, <1>3
    <2>2. ~ (a.seq < b.seq) /\ ~ (b.seq < a.seq)
      BY <1>1, <2>1
    <2> QED BY <2>1, <2>2
  <1>6. \A i, j \in 1 .. n : i < j => q[i].seq < q[j].seq
    BY Zenon, <1>1, <1>3
  <1> QED BY Zenon, <1>4, <1>5, <1>6 DEF q, n

\* Chunks with different sequences up to n are finitely many.
LEMMA FewChunks ==
    ASSUME NEW S, NEW n \in Nat, \A a \in S : a.seq \in 1 .. n,
           \A a, b \in S : a.seq = b.seq => a = b
    PROVE  IsFiniteSet(S)
  <1>1. CASE S = {}
    BY Zenon, <1>1, FS_EmptySet
  <1>2. CASE S # {}
    <2>1. PICK d \in S : TRUE
      BY Zenon, <1>2
    <2> DEFINE f == [k \in 1 .. n |-> IF \E a \in S : a.seq = k
                                        THEN CHOOSE a \in S : a.seq = k ELSE d]
    <2>2. \A k \in 1 .. n : f[k] \in S
      BY Zenon, <2>1
    <2>3. \A a \in S : f[a.seq] = a
      <3> SUFFICES ASSUME NEW a \in S PROVE f[a.seq] = a
        BY Zenon
      <3>1. f[a.seq] = CHOOSE b \in S : b.seq = a.seq
        BY Zenon
      <3>2. f[a.seq] \in S /\ f[a.seq].seq = a.seq
        BY Zenon, <3>1
      <3> QED BY Zenon, <3>2
    <2>4. f \in [1 .. n -> S]
      BY Zenon, <2>2
    <2>5. f \in Surjection(1 .. n, S)
      BY Zenon, <2>3, <2>4 DEF Surjection
    <2>6. IsFiniteSet(1 .. n)
      BY FS_Interval
    <2> QED BY Zenon, <2>5, <2>6, FS_Surjection
  <1> QED BY Zenon, <1>1, <1>2

-----------------------------------------------------------------------------
(* The data.                                                               *)

\* A record as a buffer holds it.
Records == [seq : -1 .. MaxSeq, wait : 0 .. Jitter, age : 0 .. Window]
\* A chunk as the reorderer holds it.
Pieces == [seq : 1 .. MaxSeq, age : 0 .. Window]
\* The entry of the lane, ReorderStreamState.
Lanes == [last : 0 .. MaxSeq, pending : SUBSET Pieces, idle : 0 .. Retention]
\* A chunk as it is handed on.
Handed == [seq : 1 .. MaxSeq, gap : BOOLEAN]

\* An entry whose chunks are all ahead of what was handed on, each once.
Sound(state) ==
    /\ state \in Lanes
    /\ \A s \in state.pending : state.last < s.seq
    /\ \A s, t \in state.pending : s.seq = t.seq => s = t

\* The constants are numbers.
LEMMA Numbers ==
    /\ Window \in Nat /\ Jitter \in Nat /\ Retention \in Nat
    /\ Settle \in Nat /\ MaxSeq \in Nat
    /\ Jitter < Window /\ Window < Retention /\ Window <= Settle
  BY TimingValid

\* What an entry holds is numbers.
LEMMA Numbered ==
    ASSUME NEW state \in Lanes
    PROVE  /\ state.last \in 0 .. MaxSeq /\ state.last \in Nat
           /\ \A s \in state.pending :
                 /\ s \in Pieces /\ s.seq \in 1 .. MaxSeq /\ s.seq \in Nat /\ s.seq <= MaxSeq
                 /\ s.age \in 0 .. Window /\ s.age \in Nat
  BY Numbers DEF Lanes, Pieces

\* In a sound entry nothing is late.
LEMMA NothingLate ==
    ASSUME NEW state, Sound(state)
    PROVE  InTime(state) = state.pending
  BY Numbered DEF InTime, Sound

-----------------------------------------------------------------------------
(* drain_ready on a sound entry.                                           *)

\* What a chunk is compared with: the greatest sequence before it, and it
\* follows a gap exactly if that is not the one just before its own.
LEMMA ComparedWith ==
    ASSUME NEW state, Sound(state), NEW s \in state.pending
    PROVE  /\ Before(state, s) \in Nat
           /\ state.last <= Before(state, s) /\ Before(state, s) < s.seq
           /\ \A r \in state.pending : r.seq < s.seq => r.seq <= Before(state, s)
           /\ \/ Before(state, s) = state.last
              \/ \E r \in state.pending : r.seq = Before(state, s)
           /\ AfterGap(state, s) <=> s.seq # Before(state, s) + 1
           /\ AfterGap(state, s) \in BOOLEAN
  <1> DEFINE B == Before(state, s)
             S == {state.last} \cup {r.seq : r \in {x \in state.pending : x.seq < s.seq}}
  <1>1. state \in Lanes /\ state.last < s.seq
    BY Zenon DEF Sound
  <1>2. /\ state.last \in Nat
        /\ \A r \in state.pending : r.seq \in Nat /\ r.seq <= MaxSeq
        /\ MaxSeq \in Nat /\ state.last <= MaxSeq
    BY <1>1, Numbered, Numbers
  <1>3. B = Max(S)
    BY Zenon, NothingLate DEF Before
  <1>4. S \in SUBSET Nat /\ S # {} /\ \A x \in S : x <= MaxSeq
    BY <1>2
  <1>5. B \in S /\ \A y \in S : y <= B
    BY Zenon, <1>2, <1>3, <1>4, Greatest
  <1>6. \/ B = state.last
        \/ \E r \in state.pending : r.seq < s.seq /\ r.seq = B
    BY Zenon, <1>5
  <1>7. state.last <= B /\ \A r \in state.pending : r.seq < s.seq => r.seq <= B
    BY Zenon, <1>5
  <1> HIDE DEF B, S
  <1>8. B \in Nat /\ B < s.seq
    BY Zenon, <1>1, <1>2, <1>6
  <1>9. Continuous(B, s.seq) <=> s.seq = B + 1
    BY <1>2, <1>8 DEF Continuous, FirstSequence
  <1>10. AfterGap(state, s) <=> s.seq # B + 1
    BY Zenon, <1>9 DEF AfterGap, B
  <1>11. AfterGap(state, s) \in BOOLEAN
    BY Zenon DEF AfterGap
  <1> QED BY Zenon, <1>6, <1>7, <1>8, <1>10, <1>11 DEF B

\* What is handed on is a lower part of what is held.
LEMMA ReadyPart ==
    ASSUME NEW state, Sound(state)
    PROVE  /\ Ready(state) \in SUBSET state.pending
           /\ \A s \in Ready(state) : ~ Waits(state, s)
           /\ \A s \in Ready(state), r \in state.pending : r.seq <= s.seq => r \in Ready(state)
           /\ \A s \in Ready(state), r \in state.pending \ Ready(state) : s.seq < r.seq
  <1>1. Ready(state) = {s \in state.pending :
                          \A r \in state.pending : r.seq <= s.seq => ~Waits(state, r)}
    <2> DEFINE P == state.pending
    <2>1. InTime(state) = P
      BY Zenon, NothingLate
    <2> HIDE DEF P
    <2>2. Ready(state) = {s \in P : \A r \in P : r.seq <= s.seq => ~Waits(state, r)}
      BY <2>1 DEF Ready
    <2> QED BY Zenon, <2>2 DEF P
  <1>2. \A r \in state.pending : r.seq \in Nat
    BY Zenon, Numbered DEF Sound
  <1>3. \A s \in Ready(state), r \in state.pending : r.seq <= s.seq => r \in Ready(state)
    <2> SUFFICES ASSUME NEW s \in Ready(state), NEW r \in state.pending, r.seq <= s.seq,
                        NEW x \in state.pending, x.seq <= r.seq
                 PROVE  ~ Waits(state, x)
      BY Zenon, <1>1
    <2>1. s \in state.pending
      BY Zenon, <1>1
    <2>2. x.seq <= s.seq
      BY <1>2, <2>1
    <2> QED BY Zenon, <1>1, <2>2
  <1>4. \A s \in Ready(state), r \in state.pending \ Ready(state) : s.seq < r.seq
    <2> SUFFICES ASSUME NEW s \in Ready(state), NEW r \in state.pending, r \notin Ready(state)
                 PROVE  s.seq < r.seq
      BY Zenon
    <2>1. s \in state.pending /\ ~ (r.seq <= s.seq)
      BY Zenon, <1>1, <1>3
    <2> QED BY <1>2, <2>1
  <1>5. \A s \in Ready(state) : s.seq <= s.seq
    BY <1>1, <1>2
  <1> QED BY Zenon, <1>1, <1>3, <1>4, <1>5

\* What is handed on, as a sequence: each ready chunk once, in order.
LEMMA HandedOn ==
    ASSUME NEW state, Sound(state)
    PROVE  /\ DrainReady(state) \in Seq(Handed)
           /\ DOMAIN DrainReady(state) = 1 .. Len(DrainReady(state))
           /\ Len(DrainReady(state)) \in Nat
           /\ \A i \in DOMAIN DrainReady(state) : \E s \in Ready(state) :
                 /\ DrainReady(state)[i].seq = s.seq
                 /\ DrainReady(state)[i].gap = AfterGap(state, s)
           /\ \A s \in Ready(state) : \E i \in DOMAIN DrainReady(state) :
                 DrainReady(state)[i].seq = s.seq
           /\ \A i, j \in DOMAIN DrainReady(state) :
                 i < j => DrainReady(state)[i].seq < DrainReady(state)[j].seq
  <1> DEFINE A == {Admitted(state, s) : s \in Ready(state)}
             q == DrainReady(state)
  <1>1. \A s \in Ready(state) :
           /\ s \in state.pending /\ s.seq \in 1 .. MaxSeq
           /\ Admitted(state, s).seq = s.seq
           /\ Admitted(state, s).gap = AfterGap(state, s)
           /\ Admitted(state, s) \in Handed
    <2> SUFFICES ASSUME NEW s \in Ready(state)
                 PROVE  /\ s \in state.pending /\ s.seq \in 1 .. MaxSeq
                        /\ Admitted(state, s).seq = s.seq
                        /\ Admitted(state, s).gap = AfterGap(state, s)
                        /\ Admitted(state, s) \in Handed
      BY Zenon
    <2>1. s \in state.pending
      BY Zenon, ReadyPart
    <2>2. s.seq \in 1 .. MaxSeq
      BY Zenon, <2>1, Numbered DEF Sound
    <2>3. AfterGap(state, s) \in BOOLEAN
      BY Zenon, <2>1, ComparedWith
    <2> QED BY <2>1, <2>2, <2>3 DEF Admitted, Handed
  <1>2. \A a \in A : \E s \in Ready(state) : a = Admitted(state, s)
    BY Zenon
  <1>3. \A s \in Ready(state) : Admitted(state, s) \in A
    BY Zenon
  <1>4. q = Ascending(A)
    BY Zenon DEF DrainReady
  <1> HIDE DEF A, q
  <1>5. \A a \in A : a.seq \in 1 .. MaxSeq /\ a \in Handed
    BY Zenon, <1>1, <1>2
  <1>6. \A a, b \in A : a.seq = b.seq => a = b
    <2> SUFFICES ASSUME NEW a \in A, NEW b \in A, a.seq = b.seq PROVE a = b
      BY Zenon
    <2>1. PICK s \in Ready(state) : a = Admitted(state, s)
      BY Zenon, <1>2
    <2>2. PICK t \in Ready(state) : b = Admitted(state, t)
      BY Zenon, <1>2
    <2>3. s.seq = t.seq /\ s \in state.pending /\ t \in state.pending
      BY Zenon, <1>1, <2>1, <2>2
    <2> QED BY Zenon, <2>1, <2>2, <2>3 DEF Sound
  <1>7. MaxSeq \in Nat /\ \A a \in A : a.seq \in Nat
    BY <1>5, Numbers
  <1>8. IsFiniteSet(A)
    BY Zenon, <1>5, <1>6, <1>7, FewChunks
  <1>9. /\ q \in Seq(A) /\ DOMAIN q = 1 .. Len(q)
        /\ \A a \in A : \E i \in DOMAIN q : q[i] = a
        /\ \A i, j \in DOMAIN q : i < j => q[i].seq < q[j].seq
    BY Zenon, <1>4, <1>6, <1>7, <1>8, InOrderOf
  <1>10. \A i \in DOMAIN q : q[i] \in A
    BY Zenon, <1>9, SeqPlaces
  <1>11. q \in Seq(Handed) /\ Len(q) \in Nat
    BY <1>5, <1>9
  <1>12. \A i \in DOMAIN q : \E s \in Ready(state) :
           q[i].seq = s.seq /\ q[i].gap = AfterGap(state, s)
    BY Zenon, <1>1, <1>2, <1>10
  <1>13. \A s \in Ready(state) : \E i \in DOMAIN q : q[i].seq = s.seq
    <2> SUFFICES ASSUME NEW s \in Ready(state)
                 PROVE  \E i \in DOMAIN q : q[i].seq = s.seq
      BY Zenon
    <2>1. PICK i \in DOMAIN q : q[i] = Admitted(state, s)
      BY Zenon, <1>3, <1>9
    <2> QED BY Zenon, <1>1, <2>1
  <1> QED BY Zenon, <1>9, <1>11, <1>12, <1>13 DEF q

\* A chunk is marked exactly if the one handed on before it is not the one
\* just before it.
LEMMA MarkedExactly ==
    ASSUME NEW state, Sound(state), NEW i \in DOMAIN DrainReady(state)
    PROVE  DrainReady(state)[i].gap <=>
             DrainReady(state)[i].seq #
               (IF i = 1 THEN state.last ELSE DrainReady(state)[i - 1].seq) + 1
  <1> DEFINE q == DrainReady(state)
  <1>1. /\ DOMAIN q = 1 .. Len(q) /\ Len(q) \in Nat
        /\ \A k \in DOMAIN q : \E s \in Ready(state) :
              q[k].seq = s.seq /\ q[k].gap = AfterGap(state, s)
        /\ \A s \in Ready(state) : \E k \in DOMAIN q : q[k].seq = s.seq
        /\ \A k, j \in DOMAIN q : k < j => q[k].seq < q[j].seq
    BY Zenon, HandedOn
  <1> HIDE DEF q
  <1>2. PICK s \in Ready(state) : q[i].seq = s.seq /\ q[i].gap = AfterGap(state, s)
    BY Zenon, <1>1 DEF q
  <1>3. /\ Ready(state) \in SUBSET state.pending
        /\ \A t \in Ready(state), r \in state.pending : r.seq <= t.seq => r \in Ready(state)
    BY Zenon, ReadyPart
  <1> DEFINE B == Before(state, s)
  <1>4. /\ B \in Nat /\ state.last <= B /\ B < s.seq
        /\ \A r \in state.pending : r.seq < s.seq => r.seq <= B
        /\ B = state.last \/ \E r \in state.pending : r.seq = B
        /\ AfterGap(state, s) <=> s.seq # B + 1
    BY Zenon, <1>2, <1>3, ComparedWith
  <1> HIDE DEF B
  <1>5. /\ state.last \in Nat
        /\ \A r \in state.pending : r.seq \in Nat /\ state.last < r.seq
    BY Zenon, Numbered DEF Sound
  <1>6. \A k \in DOMAIN q : q[k].seq \in Nat /\ state.last < q[k].seq
    BY Zenon, <1>1, <1>3, <1>5
  <1>7. B = state.last \/ \E j \in DOMAIN q : q[j].seq = B
    <2> SUFFICES ASSUME NEW r \in state.pending, r.seq = B
                 PROVE  \E j \in DOMAIN q : q[j].seq = B
      BY Zenon, <1>4
    <2>1. r.seq <= s.seq
      BY <1>4, <1>5, <1>3
    <2> QED BY Zenon, <1>1, <1>3, <2>1
  <1>8. i \in 1 .. Len(q)
    BY Zenon, <1>1 DEF q
  <1>9. ASSUME NEW j \in DOMAIN q, q[j].seq < q[i].seq PROVE j < i
    <2>1. j \in 1 .. Len(q) /\ i \in DOMAIN q
      BY Zenon, <1>1, <1>8
    <2>2. q[j].seq \in Nat /\ q[i].seq \in Nat
      BY Zenon, <1>6, <2>1
    <2>3. CASE i < j
      <3>1. q[i].seq < q[j].seq
        BY Zenon, <1>1, <2>1, <2>3
      <3> QED BY <1>9, <2>2, <3>1
    <2>4. CASE i = j
      BY <1>9, <2>2, <2>4
    <2> QED BY <1>1, <1>8, <2>1, <2>3, <2>4
  <1>10. B = IF i = 1 THEN state.last ELSE q[i - 1].seq
    <2>1. CASE i = 1
      <3>1. ~ \E j \in DOMAIN q : q[j].seq = B
        BY <1>1, <1>2, <1>4, <1>9, <2>1
      <3> QED BY Zenon, <1>7, <2>1, <3>1
    <2>2. CASE i # 1
      <3>1. i - 1 \in DOMAIN q /\ i \in DOMAIN q /\ i - 1 < i
        BY <1>1, <1>8, <2>2
      <3> DEFINE p == q[i - 1].seq
      <3>2. p < q[i].seq /\ p \in Nat /\ state.last < p
        BY Zenon, <1>1, <1>6, <3>1
      <3>3. PICK t \in Ready(state) : p = t.seq
        BY Zenon, <1>1, <3>1
      <3>4. p <= B
        BY Zenon, <1>2, <1>3, <1>4, <3>2, <3>3
      <3>5. PICK j \in DOMAIN q : q[j].seq = B
        BY <1>4, <1>5, <1>7, <3>2, <3>4
      <3>6. j < i
        BY Zenon, <1>2, <1>4, <1>9, <3>5
      <3>7. j < i - 1 => q[j].seq < p
        BY Zenon, <1>1, <3>1
      <3>8. j = i - 1
        <4>1. ~ (q[j].seq < p)
          BY <1>4, <3>2, <3>4, <3>5
        <4>2. j \in Nat /\ i \in Nat
          BY Zenon, <1>1, <1>8, <3>5, RangeNat
        <4>3. ~ (j < i - 1)
          BY Zenon, <3>7, <4>1
        <4> QED BY <3>6, <4>2, <4>3
      <3> QED BY Zenon, <2>2, <3>5, <3>8
    <2> QED BY Zenon, <2>1, <2>2
  <1>11. q[i].gap <=> q[i].seq # B + 1
    BY Zenon, <1>2, <1>4
  <1> QED BY Zenon, <1>10, <1>11 DEF q

\* What is left of the entry: the chunks that were not handed on, all ahead of
\* the last one that was.
LEMMA LeftOver ==
    ASSUME NEW state, Sound(state)
    PROVE  /\ Drained(state).pending = state.pending \ Ready(state)
           /\ Drained(state).last = IF DrainReady(state) = <<>> THEN state.last
                ELSE DrainReady(state)[Len(DrainReady(state))].seq
           /\ Sound(Drained(state))
  <1> DEFINE q == DrainReady(state)
             d == Drained(state)
             R == Ready(state)
  <1>1. /\ q \in Seq(Handed) /\ DOMAIN q = 1 .. Len(q) /\ Len(q) \in Nat
        /\ \A k \in DOMAIN q : \E s \in R : q[k].seq = s.seq
        /\ \A s \in R : \E k \in DOMAIN q : q[k].seq = s.seq
        /\ \A k, j \in DOMAIN q : k < j => q[k].seq < q[j].seq
    BY Zenon, HandedOn
  <1>2. /\ R \in SUBSET state.pending
        /\ \A s \in R, r \in state.pending \ R : s.seq < r.seq
    BY Zenon, ReadyPart
  <1>3. /\ state \in Lanes /\ state.last \in 0 .. MaxSeq
        /\ \A s \in state.pending : s \in Pieces /\ s.seq \in 1 .. MaxSeq /\ s.seq \in Nat /\ s.seq <= MaxSeq
        /\ \A s \in state.pending : state.last < s.seq
        /\ \A s, t \in state.pending : s.seq = t.seq => s = t
    BY Zenon, Numbered DEF Sound
  <1>4. MaxSeq \in Nat /\ Retention \in Nat
    BY Zenon, Numbers
  <1>5. CASE R = {}
    <2>1. d = [state EXCEPT !.pending = state.pending]
      BY Zenon, <1>5, NothingLate DEF Drained
    <2>2. d = state
      BY <1>3, <2>1 DEF Lanes
    <2>3. Len(q) = 0
      <3> SUFFICES ASSUME Len(q) # 0 PROVE FALSE
        BY Zenon
      <3>1. 1 \in DOMAIN q
        BY <1>1
      <3> QED BY Zenon, <1>1, <1>5, <3>1
    <2>4. q = <<>>
      BY Zenon, <1>1, <2>3, SeqEmpty
    <2> QED BY Zenon, <1>5, <2>2, <2>4
  <1>6. CASE R # {}
    <2> DEFINE M == {s.seq : s \in R}
               m == Max(M)
    <2>1. d = [last |-> m, pending |-> state.pending \ R, idle |-> 0]
      BY Zenon, <1>6, NothingLate DEF Drained
    <2>2. M \in SUBSET Nat /\ M # {} /\ \A x \in M : x <= MaxSeq
      BY <1>2, <1>3, <1>6
    <2>3. m \in M /\ \A y \in M : y <= m
      BY Zenon, <1>4, <2>2, Greatest
    <2>4. PICK s \in R : m = s.seq
      BY Zenon, <2>3
    <2>5. \A t \in R : t.seq <= m
      BY Zenon, <2>3
    <2> HIDE DEF m, M
    <2>6. m \in 1 .. MaxSeq /\ m \in 0 .. MaxSeq /\ m \in Nat
      BY <1>2, <1>3, <1>4, <2>4
    <2>7. PICK j \in DOMAIN q : q[j].seq = m
      BY Zenon, <1>1, <2>4
    <2>8. Len(q) \in DOMAIN q
      BY <1>1, <2>7
    <2>9. PICK t \in R : q[Len(q)].seq = t.seq
      BY Zenon, <1>1, <2>8
    <2>10. t.seq \in Nat /\ t.seq <= m
      BY Zenon, <1>2, <1>3, <2>5, <2>9
    <2>11. q[Len(q)].seq = m
      <3>1. CASE j = Len(q)
        BY Zenon, <2>7, <3>1
      <3>2. CASE j # Len(q)
        <4>1. j < Len(q)
          BY <1>1, <3>2
        <4>2. m < t.seq
          BY Zenon, <1>1, <2>7, <2>8, <2>9, <4>1
        <4> QED BY <2>6, <2>10, <4>2
      <3> QED BY Zenon, <3>1, <3>2
    <2>12. q # <<>>
      <3>1. Len(q) # 0
        BY <1>1, <2>8
      <3> QED BY <3>1
    <2>13. d.last = m /\ d.pending = state.pending \ R
      BY <2>1
    <2>14. d \in Lanes
      <3>1. 0 \in 0 .. Retention /\ state.pending \ R \in SUBSET Pieces
        BY <1>3, <1>4
      <3> QED BY <2>1, <2>6, <3>1 DEF Lanes
    <2>15. \A r \in state.pending \ R : m < r.seq
      BY Zenon, <1>2, <2>4
    <2>16. Sound(d)
      BY Zenon, <1>3, <2>13, <2>14, <2>15 DEF Sound
    <2> QED BY Zenon, <2>11, <2>12, <2>13, <2>16
  <1> QED BY Zenon, <1>5, <1>6

\* A sequence is passed over only when a chunk after it has waited long enough.
LEMMA PassedOver ==
    ASSUME NEW state, Sound(state), NEW s \in Ready(state), NEW x \in Nat,
           state.last < x, x < s.seq, \A r \in state.pending : r.seq # x
    PROVE  \E r \in state.pending : x < r.seq /\ Window <= r.age
  <1>1. /\ Ready(state) \in SUBSET state.pending
        /\ \A r \in Ready(state) : ~ Waits(state, r)
        /\ \A t \in Ready(state), r \in state.pending : r.seq <= t.seq => r \in Ready(state)
    BY Zenon, ReadyPart
  <1>2. /\ state.last \in Nat
        /\ \A r \in state.pending : r.seq \in Nat /\ r.age \in Nat
    BY Zenon, Numbered DEF Sound
  <1> DEFINE S == {r.seq : r \in {t \in state.pending : x < t.seq}}
  <1>3. S \in SUBSET Nat /\ S # {}
    BY <1>1, <1>2
  <1>4. PICK n \in S : \A y \in S : n <= y
    BY Zenon, <1>3, Least
  <1>5. PICK r \in state.pending : x < r.seq /\ n = r.seq
    BY Zenon, <1>4
  <1>6. r.seq <= s.seq
    BY Zenon, <1>1, <1>4, <1>5
  <1>7. ~ Waits(state, r)
    BY Zenon, <1>1, <1>6
  <1> DEFINE B == Before(state, r)
  <1>8. /\ B \in Nat /\ B < r.seq
        /\ B = state.last \/ \E t \in state.pending : t.seq = B
        /\ AfterGap(state, r) <=> r.seq # B + 1
    BY Zenon, ComparedWith
  <1> HIDE DEF B
  <1>9. \A t \in state.pending : x < t.seq => r.seq <= t.seq
    BY Zenon, <1>4, <1>5
  <1>10. B < x
    <2>1. CASE B = state.last
      BY Zenon, <2>1
    <2>2. CASE \E t \in state.pending : t.seq = B
      <3> PICK t \in state.pending : t.seq = B
        BY Zenon, <2>2
      <3>1. t.seq # x /\ ~ (r.seq <= t.seq)
        BY <1>2, <1>8
      <3>2. ~ (x < t.seq)
        BY Zenon, <1>9, <3>1
      <3> QED BY <1>8, <3>1, <3>2
    <2> QED BY Zenon, <1>8, <2>1, <2>2
  <1>11. r.seq # B + 1
    BY <1>2, <1>5, <1>8, <1>10
  <1>12. ~ (r.age < Window)
    BY Zenon, <1>7, <1>8, <1>11 DEF Waits
  <1>13. Window <= r.age
    BY <1>2, <1>12, Numbers
  <1> QED BY Zenon, <1>5, <1>13

\* Nothing is held back when everything has waited long enough.
LEMMA AllHandedOn ==
    ASSUME NEW state, Sound(state), \A s \in state.pending : Window <= s.age
    PROVE  Drained(state).pending = {}
  <1>1. Drained(state).pending = state.pending \ Ready(state)
    BY Zenon, LeftOver
  <1>2. \A s \in state.pending : ~ (s.age < Window)
    <2>1. \A s \in state.pending : s.age \in Nat
      BY Zenon, Numbered DEF Sound
    <2> QED BY <2>1, Numbers
  <1>3. \A s \in state.pending : ~ Waits(state, s)
    BY Zenon, <1>2 DEF Waits
  <1>4. state.pending \in SUBSET Ready(state)
    BY Zenon, <1>3, NothingLate DEF Ready
  <1> QED BY Zenon, <1>1, <1>4

-----------------------------------------------------------------------------
(* The inductive invariant.                                                *)

\* The types of what the theorems are about.
Types ==
    /\ op \in {"idle", "running"} \cup Cpus
    /\ opAge \in 0 .. Window /\ nextSeq \in 1 .. MaxSeq + 1 /\ sinceExit \in 0 .. Settle
    /\ buffer \in [Cpus -> Seq(Records)]
    /\ stream # None => stream \in Lanes
    /\ emitted \in Seq(Handed)

\* Buffered chunks have sequences that were reserved, and stamps no later than
\* their capture.
Fresh ==
    \A c \in Cpus : \A i \in DOMAIN buffer[c] :
        buffer[c][i].seq < nextSeq /\ buffer[c][i].wait <= buffer[c][i].age

\* Each buffer is in the order of the sequences.
InOrder ==
    \A c \in Cpus : \A i, j \in DOMAIN buffer[c] :
        i < j /\ buffer[c][i].seq > 0 /\ buffer[c][j].seq > 0
          => buffer[c][i].seq < buffer[c][j].seq

\* A chunk r that is buffered was captured before the operation of a later
\* chunk s began: it has waited as long as s is old.
Earlier(r, s) == r.seq # s.seq /\ (r.seq < s.seq => s.age <= r.wait)

\* ... for the chunks of different CPUs, ...
Across ==
    \A c, d \in Cpus : c # d =>
        \A i \in DOMAIN buffer[c], j \in DOMAIN buffer[d] :
            buffer[c][i].seq > 0 /\ buffer[d][j].seq > 0 => Earlier(buffer[c][i], buffer[d][j])

\* ... for the operation under way and the chunks of other CPUs, ...
OpInv ==
    /\ op # "idle" =>
         \A c \in Cpus \ {op} : \A i \in DOMAIN buffer[c] :
            buffer[c][i].seq > 0 => opAge <= buffer[c][i].wait
    /\ closed => op = "idle"

\* ... and for what is held, each chunk of it once.
LaneInv ==
    stream # None =>
      /\ \A s \in stream.pending : s.seq < nextSeq
      /\ \A s, t \in stream.pending : s.seq = t.seq => s = t
      /\ \A s \in stream.pending, c \in Cpus : \A i \in DOMAIN buffer[c] :
            buffer[c][i].seq > 0 => Earlier(buffer[c][i], s)

\* The last chunk handed on.
LastSeq == IF emitted = <<>> THEN 0 ELSE emitted[Len(emitted)].seq

\* Chunks are handed on in order, everything in flight is ahead of them, and
\* the entry remembers the last one, if it was not renewed since.
EmitInv ==
    /\ \A i, j \in DOMAIN emitted : i < j => emitted[i].seq < emitted[j].seq
    /\ LastSeq < nextSeq
    /\ \A c \in Cpus : \A i \in DOMAIN buffer[c] :
          buffer[c][i].seq > 0 => LastSeq < buffer[c][i].seq
    /\ stream # None => /\ \A s \in stream.pending : LastSeq < s.seq
                        /\ stream.last \in {0, LastSeq}

\* While the lane keeps its entry, the entry remembers the last one and the
\* marks are exact.
MarkInv ==
    ~renewed => /\ stream = None => LastSeq = 0
                /\ stream # None => stream.last = LastSeq
                /\ \A i \in DOMAIN emitted :
                      emitted[i].gap <=> emitted[i].seq # Previous(i) + 1

\* After the end of the process nothing is captured, and everything ages.
EndInv ==
    /\ ~exited => sinceExit = 0
    /\ exited => /\ closed
                 /\ \A c \in Cpus : \A i \in DOMAIN buffer[c] :
                       buffer[c][i].seq > 0 => sinceExit <= buffer[c][i].wait
                 /\ stream # None => \A s \in stream.pending : Capped(sinceExit, Window) <= s.age
    /\ finalized => exited /\ Settle <= sinceExit /\ Held = {}

\* The inductive invariant.
Ind == Types /\ Fresh /\ InOrder /\ Across /\ OpInv /\ LaneInv /\ EmitInv /\ MarkInv /\ EndInv

\* What a buffer holds is numbers.
LEMMA BufferNumbers ==
    ASSUME NEW b \in [Cpus -> Seq(Records)], NEW c \in Cpus
    PROVE  /\ b[c] \in Seq(Records)
           /\ Len(b[c]) \in Nat /\ DOMAIN b[c] = 1 .. Len(b[c])
           /\ \A i \in DOMAIN b[c] :
                /\ i \in Nat /\ i > 0 /\ i <= Len(b[c])
                /\ b[c][i] \in Records /\ b[c][i].seq \in Int /\ b[c][i].seq <= MaxSeq
                /\ b[c][i].wait \in Nat /\ b[c][i].wait <= Jitter
                /\ b[c][i].age \in Nat /\ b[c][i].age <= Window
  <1>1. b[c] \in Seq(Records)
    BY Zenon
  <1>2. Len(b[c]) \in Nat /\ DOMAIN b[c] = 1 .. Len(b[c])
    BY Zenon, <1>1, SeqPlaces
  <1>3. \A i \in DOMAIN b[c] : b[c][i] \in Records
    BY Zenon, <1>1, <1>2, SeqPlaces
  <1>4. \A r \in Records : /\ r.seq \in Int /\ r.seq <= MaxSeq
                           /\ r.wait \in Nat /\ r.wait <= Jitter
                           /\ r.age \in Nat /\ r.age <= Window
    BY Numbers DEF Records
  <1>5. \A i \in DOMAIN b[c] : i \in Nat /\ i > 0 /\ i <= Len(b[c])
    BY <1>2
  <1> QED BY Zenon, <1>1, <1>2, <1>3, <1>4, <1>5

\* The last chunk handed on is a number, not less than any before it.
LEMMA LastNumber ==
    ASSUME Types, EmitInv
    PROVE  /\ LastSeq \in Nat /\ DOMAIN emitted = 1 .. Len(emitted) /\ Len(emitted) \in Nat
           /\ \A i \in DOMAIN emitted :
                /\ emitted[i] \in Handed /\ emitted[i].seq \in Nat
                /\ 0 < emitted[i].seq /\ emitted[i].seq <= LastSeq
  <1>1. emitted \in Seq(Handed)
    BY Zenon DEF Types
  <1>2. DOMAIN emitted = 1 .. Len(emitted) /\ Len(emitted) \in Nat
    BY Zenon, <1>1, SeqPlaces
  <1>3. \A i \in DOMAIN emitted : emitted[i] \in Handed
    BY Zenon, <1>1, <1>2, SeqPlaces
  <1>4. \A h \in Handed : h.seq \in Nat /\ 0 < h.seq
    BY Numbers DEF Handed
  <1>5. emitted = <<>> => DOMAIN emitted = {}
    OBVIOUS
  <1>6. emitted # <<>> => Len(emitted) \in DOMAIN emitted
    BY <1>1, <1>2
  <1>7. LastSeq \in Nat
    BY Zenon, <1>3, <1>4, <1>6 DEF LastSeq
  <1>8. \A i \in DOMAIN emitted : emitted[i].seq <= LastSeq
    <2> SUFFICES ASSUME NEW i \in DOMAIN emitted PROVE emitted[i].seq <= LastSeq
      BY Zenon
    <2>1. LastSeq = emitted[Len(emitted)].seq /\ Len(emitted) \in DOMAIN emitted
      BY Zenon, <1>5, <1>6 DEF LastSeq
    <2>2. CASE i = Len(emitted)
      BY <1>7, <2>1, <2>2
    <2>3. CASE i < Len(emitted)
      <3>1. emitted[i].seq < LastSeq
        BY Zenon, <2>1, <2>3 DEF EmitInv
      <3> QED BY <1>3, <1>4, <1>7, <3>1
    <2> QED BY <1>2, <2>2, <2>3
  <1> QED BY Zenon, <1>2, <1>3, <1>4, <1>7, <1>8

-----------------------------------------------------------------------------
(* A poll, and the chunks it inserts.                                      *)

\* A part of a sequence.
LEMMA Slice ==
    ASSUME NEW S, NEW b \in Seq(S), NEW m \in Nat, NEW n \in Nat,
           1 <= m, n <= Len(b), m <= n + 1
    PROVE  /\ SubSeq(b, m, n) \in Seq(S) /\ Len(SubSeq(b, m, n)) = n - m + 1
           /\ DOMAIN SubSeq(b, m, n) = 1 .. n - m + 1
           /\ \A i \in 1 .. n - m + 1 : SubSeq(b, m, n)[i] = b[m + i - 1]
  OBVIOUS

\* A poll takes a prefix of each buffer.
LEMMA PollShape ==
    ASSUME Types, NEW taken \in Polls, Poll(taken)
    PROVE  /\ buffer' \in [Cpus -> Seq(Records)]
           /\ \A c \in Cpus : \A j \in DOMAIN buffer'[c] :
                /\ taken[c] + j \in DOMAIN buffer[c] /\ taken[c] < taken[c] + j
                /\ buffer'[c][j] = buffer[c][taken[c] + j]
           /\ \A r \in Polled(taken) : \E c \in Cpus : \E i \in DOMAIN buffer[c] :
                i <= taken[c] /\ r = buffer[c][i]
  <1>1. \A c \in Cpus : taken[c] \in Nat /\ taken[c] <= Len(buffer[c])
    <2> SUFFICES ASSUME NEW c \in Cpus PROVE taken[c] \in Nat /\ taken[c] <= Len(buffer[c])
      BY Zenon
    <2>1. taken[c] \in 0 .. Longest /\ taken[c] <= Len(buffer[c])
      BY Zenon DEF Polls
    <2>2. taken[c] \in Nat
      BY <2>1
    <2> QED BY Zenon, <2>1, <2>2
  <1>2. \A c \in Cpus :
          /\ buffer[c] \in Seq(Records) /\ Len(buffer[c]) \in Nat
          /\ DOMAIN buffer[c] = 1 .. Len(buffer[c])
          /\ \A i \in DOMAIN buffer[c] : buffer[c][i] \in Records
    BY Zenon, BufferNumbers DEF Types
  <1>3. buffer' = [c \in Cpus |-> SubSeq(buffer[c], taken[c] + 1, Len(buffer[c]))]
    BY Zenon DEF Poll
  <1>4. ASSUME NEW c \in Cpus
        PROVE  /\ buffer'[c] \in Seq(Records)
               /\ \A j \in DOMAIN buffer'[c] :
                    /\ taken[c] + j \in DOMAIN buffer[c] /\ taken[c] < taken[c] + j
                    /\ buffer'[c][j] = buffer[c][taken[c] + j]
    <2> DEFINE b == buffer[c]
               k == taken[c]
               q == SubSeq(b, k + 1, Len(b))
    <2>1. /\ b \in Seq(Records) /\ Len(b) \in Nat /\ DOMAIN b = 1 .. Len(b)
          /\ \A i \in DOMAIN b : b[i] \in Records
          /\ k \in Nat /\ k <= Len(b) /\ buffer'[c] = q
      BY Zenon, <1>1, <1>2, <1>3
    <2> HIDE DEF b, k
    <2>2. k + 1 \in Nat /\ 1 <= k + 1 /\ Len(b) <= Len(b) /\ k + 1 <= Len(b) + 1
      BY <2>1
    <2>4. /\ q \in Seq(Records)
          /\ DOMAIN q = 1 .. Len(b) - (k + 1) + 1
          /\ \A i \in 1 .. Len(b) - (k + 1) + 1 : q[i] = b[(k + 1) + i - 1]
      BY <2>1, <2>2, Slice
    <2> HIDE DEF q
    <2>5. DOMAIN q = 1 .. Len(b) - k
      BY <2>1, <2>4
    <2>6. \A j \in DOMAIN q : k + j \in DOMAIN b /\ k < k + j /\ q[j] = b[k + j]
      <3> SUFFICES ASSUME NEW j \in DOMAIN q
                   PROVE  k + j \in DOMAIN b /\ k < k + j /\ q[j] = b[k + j]
        BY Zenon
      <3>1. j \in 1 .. Len(b) - (k + 1) + 1 /\ (k + 1) + j - 1 = k + j
        BY <2>1, <2>4, <2>5
      <3>2. q[j] = b[k + j]
        BY Zenon, <2>4, <3>1
      <3>3. k + j \in DOMAIN b /\ k < k + j
        BY <2>1, <3>1
      <3> QED BY Zenon, <3>2, <3>3
    <2> QED BY Zenon, <2>1, <2>4, <2>6 DEF b, k
  <1>5. buffer' \in [Cpus -> Seq(Records)]
    BY Zenon, <1>3, <1>4
  <1>6. ASSUME NEW r \in Polled(taken)
        PROVE  \E c \in Cpus : \E i \in DOMAIN buffer[c] : i <= taken[c] /\ r = buffer[c][i]
    <2>1. PICK c \in Cpus : r \in Range(SubSeq(buffer[c], 1, taken[c]))
      BY Zenon DEF Polled
    <2> DEFINE b == buffer[c]
               k == taken[c]
               q == SubSeq(b, 1, k)
    <2>2. PICK i \in DOMAIN q : r = q[i]
      BY Zenon, <2>1 DEF Range
    <2>3. /\ b \in Seq(Records) /\ DOMAIN b = 1 .. Len(b) /\ Len(b) \in Nat /\ k \in Nat /\ k <= Len(b)
          /\ \A j \in DOMAIN b : b[j] \in Records
      BY Zenon, <1>1, <1>2
    <2> HIDE DEF b, k
    <2>4. 1 \in Nat /\ 1 <= 1 /\ 1 <= k + 1
      BY <2>3
    <2>5. /\ DOMAIN q = 1 .. k - 1 + 1
          /\ \A j \in 1 .. k - 1 + 1 : q[j] = b[1 + j - 1]
      BY <2>3, <2>4, Slice
    <2> HIDE DEF q
    <2>6. i \in 1 .. k - 1 + 1 /\ 1 + i - 1 = i
      BY <2>2, <2>3, <2>5
    <2>7. q[i] = b[i]
      BY Zenon, <2>5, <2>6
    <2>8. i \in DOMAIN b /\ i <= k
      BY <2>3, <2>6
    <2> QED BY Zenon, <2>2, <2>7, <2>8 DEF b, k
  <1> QED BY Zenon, <1>4, <1>5, <1>6

\* The entry that chunks are inserted in.
Current == IF stream = None THEN NewStream ELSE stream

\* It holds what the reorderer holds for the lane.
LEMMA CurrentEntry ==
    ASSUME Types, LaneInv, EmitInv, MarkInv
    PROVE  /\ Current \in Lanes /\ Current.last \in {0, LastSeq}
           /\ \A p \in Current.pending : stream # None /\ p \in stream.pending
           /\ ~renewed => Current.last = LastSeq
           /\ stream = None => Current.pending = {}
  <1>1. CASE stream = None
    <2>1. Current = [last |-> 0, pending |-> {}, idle |-> 0]
      BY Zenon, <1>1 DEF Current, NewStream
    <2>2. Current \in Lanes /\ Current.last = 0 /\ Current.pending = {}
      BY <2>1, Numbers DEF Lanes
    <2> QED BY Zenon, <1>1, <2>2 DEF MarkInv
  <1>2. CASE stream # None
    BY Zenon, <1>2 DEF Current, Types, EmitInv, MarkInv
  <1> QED BY Zenon, <1>1, <1>2

\* The polled chunks are inserted in it.
LEMMA InsertedShape ==
    ASSUME Types, LaneInv, EmitInv, MarkInv, NEW C \in SUBSET Pieces
    PROVE  /\ Inserted(C) \in Lanes
           /\ Inserted(C).last = Current.last
           /\ Inserted(C).pending = Current.pending \cup C
  <1>1. Current \in Lanes
    BY Zenon, CurrentEntry
  <1> DEFINE e == Current
  <1>2. Inserted(C) = IF C = {} THEN e ELSE [e EXCEPT !.idle = 0, !.pending = @ \cup C]
    BY Zenon DEF Inserted, Current
  <1>3. e \in Lanes
    BY Zenon, <1>1
  <1> HIDE DEF e
  <1>4. CASE C = {}
    BY Zenon, <1>2, <1>3, <1>4 DEF e
  <1>5. CASE C # {}
    <2> DEFINE P == e.pending \cup C
    <2>1. Inserted(C) = [e EXCEPT !.idle = 0, !.pending = P]
      BY <1>2, <1>3, <1>5 DEF Lanes
    <2>2. P \in SUBSET Pieces /\ 0 \in 0 .. Retention
      BY <1>3, Numbers DEF Lanes
    <2> HIDE DEF P
    <2>3. /\ Inserted(C) \in Lanes /\ Inserted(C).last = e.last
          /\ Inserted(C).pending = P
      BY <1>3, <2>1, <2>2 DEF Lanes
    <2> QED BY Zenon, <2>3 DEF e, P
  <1> QED BY Zenon, <1>4, <1>5

\* A chunk of a record that a poll takes.
From(p, taken) ==
    \E c \in Cpus : \E i \in DOMAIN buffer[c] :
        /\ i <= taken[c] /\ buffer[c][i].seq > 0
        /\ p = [seq |-> buffer[c][i].seq, age |-> buffer[c][i].age]

\* Every chunk that a cycle inserts comes from a buffer that it polled.
LEMMA ChunkOrigin ==
    ASSUME Types, NEW taken \in Polls, Poll(taken),
           NEW records \in SUBSET Polled(taken), NEW p \in Chunks(records)
    PROVE  From(p, taken) /\ p \in Pieces
  <1>1. PICK r \in records : r.seq > 0 /\ p = [seq |-> r.seq, age |-> r.age]
    BY Zenon DEF Chunks
  <1> PICK c \in Cpus : \E i \in DOMAIN buffer[c] : i <= taken[c] /\ r = buffer[c][i]
    BY Zenon, PollShape
  <1>2. PICK i \in DOMAIN buffer[c] : i <= taken[c] /\ r = buffer[c][i]
    BY Zenon
  <1>3. r.seq \in Int /\ r.seq <= MaxSeq /\ r.age \in Nat /\ r.age <= Window
    BY Zenon, <1>2, BufferNumbers DEF Types
  <1>4. p \in Pieces
    BY <1>1, <1>3, Numbers DEF Pieces
  <1>5. From(p, taken)
    BY Zenon, <1>1, <1>2 DEF From
  <1> QED BY Zenon, <1>4, <1>5

\* Two polled chunks with one sequence are the same.
LEMMA PolledOnce ==
    ASSUME Types, InOrder, Across, NEW taken,
           NEW p, From(p, taken), NEW q, From(q, taken), p.seq = q.seq
    PROVE  p = q
  <1> PICK c \in Cpus : \E i \in DOMAIN buffer[c] :
          buffer[c][i].seq > 0 /\ p = [seq |-> buffer[c][i].seq, age |-> buffer[c][i].age]
    BY Zenon DEF From
  <1>1. PICK i \in DOMAIN buffer[c] :
          buffer[c][i].seq > 0 /\ p = [seq |-> buffer[c][i].seq, age |-> buffer[c][i].age]
    BY Zenon
  <1> PICK d \in Cpus : \E j \in DOMAIN buffer[d] :
          buffer[d][j].seq > 0 /\ q = [seq |-> buffer[d][j].seq, age |-> buffer[d][j].age]
    BY Zenon DEF From
  <1>2. PICK j \in DOMAIN buffer[d] :
          buffer[d][j].seq > 0 /\ q = [seq |-> buffer[d][j].seq, age |-> buffer[d][j].age]
    BY Zenon
  <1>3. buffer[c][i].seq = buffer[d][j].seq
    BY <1>1, <1>2
  <1>4. c = d
    BY Zenon, <1>1, <1>2, <1>3 DEF Across, Earlier
  <1>5. i \in Nat /\ j \in Nat /\ buffer[c][i].seq \in Int
    BY Zenon, <1>4, BufferNumbers DEF Types
  <1>6. ~ (i < j) /\ ~ (j < i)
    <2>1. ~ (buffer[c][i].seq < buffer[d][j].seq) /\ ~ (buffer[d][j].seq < buffer[c][i].seq)
      BY <1>3, <1>5
    <2> QED BY Zenon, <1>1, <1>2, <1>4, <2>1 DEF InOrder
  <1>7. i = j
    BY <1>5, <1>6
  <1> QED BY Zenon, <1>1, <1>2, <1>4, <1>7

\* What is left in a buffer was captured before a later chunk that was polled.
LEMMA LeftBehind ==
    ASSUME Types, InOrder, Across, NEW taken \in Polls, Poll(taken),
           NEW p, From(p, taken),
           NEW c \in Cpus, NEW j \in DOMAIN buffer'[c], buffer'[c][j].seq > 0
    PROVE  Earlier(buffer'[c][j], p)
  <1> PICK d \in Cpus : \E i \in DOMAIN buffer[d] :
          /\ i <= taken[d] /\ buffer[d][i].seq > 0
          /\ p = [seq |-> buffer[d][i].seq, age |-> buffer[d][i].age]
    BY Zenon DEF From
  <1>1. PICK i \in DOMAIN buffer[d] :
          /\ i <= taken[d] /\ buffer[d][i].seq > 0
          /\ p = [seq |-> buffer[d][i].seq, age |-> buffer[d][i].age]
    BY Zenon
  <1>2. p.seq = buffer[d][i].seq /\ p.age = buffer[d][i].age
    BY <1>1
  <1> DEFINE k == taken[c] + j
  <1>3. k \in DOMAIN buffer[c] /\ taken[c] < k /\ buffer'[c][j] = buffer[c][k]
    BY Zenon, PollShape
  <1> HIDE DEF k
  <1>4. buffer[c][k].seq > 0
    BY Zenon, <1>3
  <1>5. CASE c # d
    BY Zenon, <1>1, <1>2, <1>3, <1>4, <1>5 DEF Across, Earlier
  <1>6. CASE c = d
    <2>1. taken[c] \in Nat
      <3>1. taken[c] \in 0 .. Longest
        BY Zenon DEF Polls
      <3> QED BY <3>1
    <2>2. i \in Nat /\ k \in Nat /\ buffer[c][i].seq \in Int /\ buffer[c][k].seq \in Int
      BY Zenon, <1>1, <1>3, <1>6, BufferNumbers DEF Types
    <2>3. i < k
      BY <1>1, <1>3, <1>6, <2>1, <2>2
    <2>4. buffer[c][i].seq < buffer[c][k].seq
      BY Zenon, <1>1, <1>3, <1>4, <1>6, <2>3 DEF InOrder
    <2>5. buffer[c][k].seq # p.seq /\ ~ (buffer[c][k].seq < p.seq)
      BY <1>2, <1>6, <2>2, <2>4
    <2>6. Earlier(buffer[c][k], p)
      BY Zenon, <2>5 DEF Earlier
    <2> QED BY Zenon, <1>3, <2>6
  <1> QED BY Zenon, <1>5, <1>6

\* The entry with what a poll inserts in it.
LEMMA Insertion ==
    ASSUME Ind, NEW taken \in Polls, Poll(taken), NEW records \in SUBSET Polled(taken),
           NEW e, e = Inserted(Chunks(records))
    PROVE  /\ Sound(e) /\ e.last \in {0, LastSeq}
           /\ ~renewed => e.last = LastSeq
           /\ \A p \in e.pending :
                /\ LastSeq < p.seq /\ p.seq < nextSeq
                /\ exited => Capped(sinceExit, Window) <= p.age
                /\ \A c \in Cpus : \A j \in DOMAIN buffer'[c] :
                      buffer'[c][j].seq > 0 => Earlier(buffer'[c][j], p)
           /\ stream = None /\ Chunks(records) = {} => e.pending = {}
  <1> DEFINE C == Chunks(records)
  <1>1. /\ Types /\ Fresh /\ InOrder /\ Across /\ OpInv /\ LaneInv /\ EmitInv
        /\ MarkInv /\ EndInv
    BY Zenon DEF Ind
  <1>2. C \in SUBSET Pieces /\ \A p \in C : From(p, taken)
    BY Zenon, <1>1, ChunkOrigin
  <1>3. /\ Current \in Lanes /\ Current.last \in {0, LastSeq}
        /\ \A p \in Current.pending : stream # None /\ p \in stream.pending
        /\ ~renewed => Current.last = LastSeq
        /\ stream = None => Current.pending = {}
    BY Zenon, <1>1, CurrentEntry
  <1>4. e \in Lanes /\ e.last = Current.last /\ e.pending = Current.pending \cup C
    BY Zenon, <1>1, <1>2, InsertedShape
  <1>5. \A p \in e.pending : (stream # None /\ p \in stream.pending) \/ From(p, taken)
    BY Zenon, <1>2, <1>3, <1>4
  <1>6. LastSeq \in Nat
    BY Zenon, <1>1, LastNumber
  <1>7. ASSUME NEW p, From(p, taken)
        PROVE  /\ LastSeq < p.seq /\ p.seq < nextSeq
               /\ exited => Capped(sinceExit, Window) <= p.age
    <2> PICK c \in Cpus : \E i \in DOMAIN buffer[c] :
            /\ buffer[c][i].seq > 0
            /\ p = [seq |-> buffer[c][i].seq, age |-> buffer[c][i].age]
      BY Zenon, <1>7 DEF From
    <2>1. PICK i \in DOMAIN buffer[c] :
            /\ buffer[c][i].seq > 0
            /\ p = [seq |-> buffer[c][i].seq, age |-> buffer[c][i].age]
      BY Zenon
    <2>2. p.seq = buffer[c][i].seq /\ p.age = buffer[c][i].age
      BY <2>1
    <2>3. LastSeq < p.seq /\ p.seq < nextSeq
      BY Zenon, <1>1, <2>1, <2>2 DEF EmitInv, Fresh
    <2>4. ASSUME exited PROVE Capped(sinceExit, Window) <= p.age
      <3>1. sinceExit <= buffer[c][i].wait /\ buffer[c][i].wait <= buffer[c][i].age
        BY Zenon, <1>1, <2>1, <2>4 DEF EndInv, Fresh
      <3>2. buffer[c][i].wait \in Nat /\ buffer[c][i].age \in Nat
        BY Zenon, <1>1, BufferNumbers DEF Types
      <3>3. sinceExit \in 0 .. Settle
        BY Zenon, <1>1 DEF Types
      <3> QED BY <2>2, <3>1, <3>2, <3>3, Numbers DEF Capped
    <2> QED BY Zenon, <2>3, <2>4
  <1>8. ASSUME NEW p \in e.pending
        PROVE  /\ LastSeq < p.seq /\ p.seq < nextSeq
               /\ exited => Capped(sinceExit, Window) <= p.age
    <2>1. CASE From(p, taken)
      BY Zenon, <1>7, <2>1
    <2>2. CASE stream # None /\ p \in stream.pending
      BY Zenon, <1>1, <2>2 DEF EmitInv, LaneInv, EndInv
    <2> QED BY Zenon, <1>5, <2>1, <2>2
  <1>9. ASSUME NEW p \in e.pending, NEW c \in Cpus, NEW j \in DOMAIN buffer'[c],
               buffer'[c][j].seq > 0
        PROVE  Earlier(buffer'[c][j], p)
    <2>1. CASE From(p, taken)
      BY Zenon, <1>1, <1>9, <2>1, LeftBehind
    <2>2. CASE stream # None /\ p \in stream.pending
      <3>1. taken[c] + j \in DOMAIN buffer[c] /\ buffer'[c][j] = buffer[c][taken[c] + j]
        BY Zenon, <1>1, PollShape
      <3> QED BY Zenon, <1>1, <1>9, <2>2, <3>1 DEF LaneInv
    <2> QED BY Zenon, <1>5, <2>1, <2>2
  <1>10. ASSUME NEW p \in e.pending, NEW q \in e.pending, p.seq = q.seq PROVE p = q
    <2>1. CASE From(p, taken) /\ From(q, taken)
      BY Zenon, <1>1, <1>10, <2>1, PolledOnce
    <2>2. ASSUME NEW x, From(x, taken), NEW y, stream # None, y \in stream.pending
          PROVE  x.seq # y.seq
      <3> PICK c \in Cpus : \E i \in DOMAIN buffer[c] :
              /\ buffer[c][i].seq > 0
              /\ x = [seq |-> buffer[c][i].seq, age |-> buffer[c][i].age]
        BY Zenon, <2>2 DEF From
      <3>1. PICK i \in DOMAIN buffer[c] :
              /\ buffer[c][i].seq > 0
              /\ x = [seq |-> buffer[c][i].seq, age |-> buffer[c][i].age]
        BY Zenon
      <3>2. x.seq = buffer[c][i].seq
        BY <3>1
      <3> QED BY Zenon, <1>1, <2>2, <3>1, <3>2 DEF LaneInv, Earlier
    <2>3. CASE stream # None /\ p \in stream.pending /\ q \in stream.pending
      BY Zenon, <1>1, <1>10, <2>3 DEF LaneInv
    <2> QED BY Zenon, <1>5, <1>10, <2>1, <2>2, <2>3
  <1>11. \A p \in e.pending : e.last < p.seq
    <2> SUFFICES ASSUME NEW p \in e.pending PROVE e.last < p.seq
      BY Zenon
    <2>1. p.seq \in Nat
      BY Zenon, <1>4, Numbered
    <2>2. LastSeq < p.seq /\ e.last \in {0, LastSeq}
      BY Zenon, <1>3, <1>4, <1>8
    <2> QED BY <1>6, <2>1, <2>2
  <1>12. Sound(e)
    BY Zenon, <1>4, <1>10, <1>11 DEF Sound
  <1> QED BY Zenon, <1>3, <1>4, <1>8, <1>9, <1>12

-----------------------------------------------------------------------------
(* What a drain hands on.                                                  *)

\* Handing on the chunks of q.
LEMMA HandOn ==
    ASSUME emitted \in Seq(Handed), NEW q \in Seq(Handed), emitted' = emitted \o q
    PROVE  /\ emitted' \in Seq(Handed)
           /\ \A i \in DOMAIN emitted :
                 emitted'[i] = emitted[i] /\ Previous(i)' = Previous(i)
           /\ \A k \in DOMAIN q :
                /\ emitted'[Len(emitted) + k] = q[k]
                /\ \A i \in Nat : i = Len(emitted) + k
                     => Previous(i)' = IF k = 1 THEN LastSeq ELSE q[k - 1].seq
           /\ \A i \in DOMAIN emitted' :
                i \in DOMAIN emitted \/ \E k \in DOMAIN q : i = Len(emitted) + k
           /\ LastSeq' = IF q = <<>> THEN LastSeq ELSE q[Len(q)].seq
  <1> DEFINE m == Len(emitted)
             n == Len(q)
             z == emitted \o q
  <1>1. /\ m \in Nat /\ DOMAIN emitted = 1 .. m
        /\ n \in Nat /\ DOMAIN q = 1 .. n
    BY Zenon, SeqPlaces
  <1>2. /\ z \in Seq(Handed) /\ Len(z) = m + n
        /\ \A i \in 1 .. m + n : z[i] = IF i <= m THEN emitted[i] ELSE q[i - m]
    BY SeqBehind
  <1>3. emitted' = z
    BY Zenon
  <1>4. (emitted = <<>> <=> m = 0) /\ (q = <<>> <=> n = 0) /\ (z = <<>> <=> m + n = 0)
    <2>1. z = <<>> <=> Len(z) = 0
      BY Zenon, <1>2, SeqEmpty
    <2> QED BY Zenon, <1>2, <2>1, SeqEmpty
  <1> HIDE DEF m, n, z
  <1>5. DOMAIN z = 1 .. m + n
    BY Zenon, <1>2, SeqPlaces
  <1>6. \A i \in 1 .. m : z[i] = emitted[i]
    BY <1>1, <1>2
  <1>7. \A k \in 1 .. n : z[m + k] = q[k]
    <2> SUFFICES ASSUME NEW k \in 1 .. n PROVE z[m + k] = q[k]
      BY Zenon
    <2>1. m + k \in 1 .. m + n /\ ~ (m + k <= m) /\ (m + k) - m = k
      BY <1>1
    <2> QED BY Zenon, <1>2, <2>1
  <1>8. \A i \in DOMAIN emitted : Previous(i)' = Previous(i)
    <2> SUFFICES ASSUME NEW i \in 1 .. m, i # 1 PROVE z[i - 1] = emitted[i - 1]
      BY Zenon, <1>1, <1>3 DEF Previous
    <2>1. i - 1 \in 1 .. m
      BY <1>1
    <2> QED BY Zenon, <1>6, <2>1
  <1>9. ASSUME NEW k \in 1 .. n, NEW i \in Nat, i = m + k
        PROVE  Previous(i)' = IF k = 1 THEN LastSeq ELSE q[k - 1].seq
    <2>1. Previous(i)' = IF i = 1 THEN 0 ELSE z[i - 1].seq
      BY Zenon, <1>3 DEF Previous
    <2>2. LastSeq = IF m = 0 THEN 0 ELSE emitted[m].seq
      BY Zenon, <1>4 DEF LastSeq, m
    <2>3. CASE k # 1
      <3>1. k - 1 \in 1 .. n /\ m + (k - 1) = i - 1 /\ i # 1
        BY <1>1, <1>9, <2>3
      <3>2. z[i - 1] = q[k - 1]
        BY Zenon, <1>7, <3>1
      <3> QED BY Zenon, <2>1, <2>3, <3>1, <3>2
    <2>4. CASE k = 1 /\ m = 0
      <3>1. i = 1
        BY <1>9, <2>4
      <3> QED BY Zenon, <2>1, <2>2, <2>4, <3>1
    <2>5. CASE k = 1 /\ m # 0
      <3>1. i # 1 /\ i - 1 = m /\ m \in 1 .. m
        BY <1>1, <1>9, <2>5
      <3> QED BY Zenon, <1>6, <2>1, <2>2, <2>5, <3>1
    <2> QED BY Zenon, <2>3, <2>4, <2>5
  <1>10. \A i \in 1 .. m + n : i \in 1 .. m \/ \E k \in 1 .. n : i = m + k
    <2> SUFFICES ASSUME NEW i \in 1 .. m + n, i \notin 1 .. m
                 PROVE  \E k \in 1 .. n : i = m + k
      BY Zenon
    <2>1. i - m \in 1 .. n /\ i = m + (i - m)
      BY <1>1
    <2> QED BY Zenon, <2>1
  <1>11. LastSeq' = IF q = <<>> THEN LastSeq ELSE q[Len(q)].seq
    <2>1. LastSeq' = IF m + n = 0 THEN 0 ELSE z[m + n].seq
      BY Zenon, <1>2, <1>3, <1>4 DEF LastSeq
    <2>2. LastSeq = IF m = 0 THEN 0 ELSE emitted[m].seq
      BY Zenon, <1>4 DEF LastSeq, m
    <2>3. CASE n = 0
      <3>1. m + n = m /\ (m # 0 => m \in 1 .. m)
        BY <1>1, <2>3
      <3> QED BY Zenon, <1>4, <1>6, <2>1, <2>2, <2>3, <3>1
    <2>4. CASE n # 0
      <3>1. m + n # 0 /\ n \in 1 .. n
        BY <1>1, <2>4
      <3> QED BY Zenon, <1>4, <1>7, <2>1, <2>4, <3>1 DEF n
    <2> QED BY Zenon, <2>3, <2>4
  <1> QED BY Zenon, <1>1, <1>2, <1>3, <1>5, <1>6, <1>7, <1>8, <1>9, <1>10, <1>11 DEF m

\* What process_payload_segments_impl does with the lane.
LEMMA PayloadsShape ==
    ASSUME NEW records, Payloads(records), NEW e, e = Inserted(Chunks(records))
    PROVE  /\ emitted' = emitted \o DrainReady(e)
           /\ stream' # None => stream' = Drained(e)
           /\ \/ stream = None /\ Chunks(records) = {} /\ stream' = None /\ renewed' = renewed
              \/ renewed' = (renewed \/ stream' = None)
  <1>1. emitted' = emitted \o DrainReady(e)
    BY Zenon DEF Payloads
  <1>2. \/ stream = None /\ Chunks(records) = {} /\ stream' = stream /\ renewed' = renewed
        \/ /\ stream' = None \/ stream' = Retained(Drained(e))
           /\ renewed' = (renewed \/ stream' = None)
    BY Zenon DEF Payloads
  <1>3. Retained(Drained(e)) = None \/ Retained(Drained(e)) = Drained(e)
    BY Zenon DEF Retained
  <1> QED BY Zenon, <1>1, <1>2, <1>3

\* No chunk that is handed on overtakes one that is left in a buffer.
LEMMA NoOvertaking ==
    ASSUME Ind, NEW taken \in Polls, Poll(taken), NEW records \in SUBSET Polled(taken),
           NEW e, e = Inserted(Chunks(records)), NEW s \in Ready(e),
           NEW c \in Cpus, NEW j \in DOMAIN buffer'[c], buffer'[c][j].seq > 0
    PROVE  s.seq < buffer'[c][j].seq
  <1> DEFINE b == buffer'[c][j]
  <1>1. /\ Sound(e) /\ e.last \in {0, LastSeq}
        /\ \A p \in e.pending : Earlier(b, p)
    BY Zenon, Insertion
  <1>2. b.seq \in Int /\ b.wait \in Nat /\ b.wait <= Jitter /\ LastSeq < b.seq
    <2>1. Types /\ EmitInv
      BY Zenon DEF Ind
    <2>2. buffer' \in [Cpus -> Seq(Records)]
      BY Zenon, <2>1, PollShape
    <2>3. b.seq \in Int /\ b.wait \in Nat /\ b.wait <= Jitter
      BY Zenon, <2>2, BufferNumbers
    <2>4. taken[c] + j \in DOMAIN buffer[c] /\ b = buffer[c][taken[c] + j]
      BY Zenon, <2>1, PollShape
    <2>5. LastSeq < b.seq
      BY Zenon, <2>1, <2>4 DEF EmitInv
    <2> QED BY Zenon, <2>3, <2>5
  <1>3. b.seq > 0
    BY Zenon
  <1>4. LastSeq \in Nat
    BY Zenon, LastNumber DEF Ind
  <1> HIDE DEF b
  <1>5. e.last < b.seq /\ b.seq \in Nat
    BY <1>1, <1>2, <1>3, <1>4
  <1>6. s \in e.pending /\ s.seq \in Nat
    BY Zenon, <1>1, ReadyPart, Numbered DEF Sound
  <1>7. \A p \in e.pending : p.seq # b.seq
    BY Zenon, <1>1 DEF Earlier
  <1>8. ~ (b.seq < s.seq)
    <2> SUFFICES ASSUME b.seq < s.seq PROVE FALSE
      BY Zenon
    <2>1. PICK r \in e.pending : b.seq < r.seq /\ Window <= r.age
      BY Zenon, <1>1, <1>5, <1>7, PassedOver
    <2>2. r.age <= b.wait
      BY Zenon, <1>1, <2>1 DEF Earlier
    <2>3. r.age \in Nat
      BY Zenon, <1>1, Numbered DEF Sound
    <2> QED BY <1>2, <2>1, <2>2, <2>3, Numbers
  <1>9. s.seq < b.seq
    BY <1>5, <1>6, <1>7, <1>8
  <1> QED BY Zenon, <1>9 DEF b

\* What a poll leaves in the buffers is as sound as before.
LEMMA PollKeeps ==
    ASSUME Types, Fresh, InOrder, Across, OpInv, NEW taken \in Polls, Poll(taken)
    PROVE  Fresh' /\ InOrder' /\ Across' /\ OpInv'
  <1>1. \A c \in Cpus : \A j \in DOMAIN buffer'[c] :
          taken[c] + j \in DOMAIN buffer[c] /\ buffer'[c][j] = buffer[c][taken[c] + j]
    BY Zenon, PollShape
  <1>2. op' = op /\ opAge' = opAge /\ nextSeq' = nextSeq /\ closed' = closed
    BY Zenon DEF Poll, kernel
  <1>3. Fresh'
    BY Zenon, <1>1, <1>2 DEF Fresh
  <1>4. InOrder'
    <2> SUFFICES ASSUME NEW c \in Cpus, NEW i \in DOMAIN buffer'[c], NEW j \in DOMAIN buffer'[c],
                        i < j, buffer'[c][i].seq > 0, buffer'[c][j].seq > 0
                 PROVE  buffer'[c][i].seq < buffer'[c][j].seq
      BY Zenon DEF InOrder
    <2>1. taken[c] + i < taken[c] + j
      <3>1. taken[c] \in 0 .. Longest
        BY Zenon DEF Polls
      <3>2. buffer' \in [Cpus -> Seq(Records)]
        BY Zenon, PollShape
      <3>3. i \in Nat /\ j \in Nat
        BY Zenon, <3>2, BufferNumbers
      <3>4. taken[c] \in Nat
        BY <3>1
      <3> QED BY <3>3, <3>4
    <2> QED BY Zenon, <1>1, <2>1 DEF InOrder
  <1>5. Across'
    <2> SUFFICES ASSUME NEW c \in Cpus, NEW d \in Cpus, c # d,
                        NEW i \in DOMAIN buffer'[c], NEW j \in DOMAIN buffer'[d],
                        buffer'[c][i].seq > 0, buffer'[d][j].seq > 0
                 PROVE  Earlier(buffer'[c][i], buffer'[d][j])
      BY Zenon DEF Across
    <2>1. /\ taken[c] + i \in DOMAIN buffer[c] /\ buffer'[c][i] = buffer[c][taken[c] + i]
          /\ taken[d] + j \in DOMAIN buffer[d] /\ buffer'[d][j] = buffer[d][taken[d] + j]
      BY Zenon, <1>1
    <2>2. Earlier(buffer[c][taken[c] + i], buffer[d][taken[d] + j])
      BY Zenon, <2>1 DEF Across
    <2> QED BY Zenon, <2>1, <2>2
  <1>6. OpInv'
    <2>1. ASSUME op # "idle", NEW c \in Cpus \ {op}, NEW i \in DOMAIN buffer'[c],
                 buffer'[c][i].seq > 0
          PROVE  opAge <= buffer'[c][i].wait
      <3>1. taken[c] + i \in DOMAIN buffer[c] /\ buffer'[c][i] = buffer[c][taken[c] + i]
        BY Zenon, <1>1
      <3> QED BY Zenon, <2>1, <3>1 DEF OpInv
    <2> QED BY Zenon, <1>2, <2>1 DEF OpInv
  <1> QED BY Zenon, <1>3, <1>4, <1>5, <1>6

\* The drain keeps what is held and what is handed on sound.
LEMMA Emission ==
    ASSUME Ind, NEW taken \in Polls, Poll(taken), NEW records \in SUBSET Polled(taken),
           Payloads(records)
    PROVE  /\ stream' # None => stream' \in Lanes
           /\ emitted' \in Seq(Handed)
           /\ LaneInv' /\ EmitInv' /\ MarkInv'
           /\ exited /\ stream' # None =>
                \A s \in stream'.pending : Capped(sinceExit, Window) <= s.age
           /\ exited /\ Settle <= sinceExit => Held' = {}
  <1> DEFINE e == Inserted(Chunks(records))
             d == Drained(e)
             q == DrainReady(e)
  <1>1. /\ Types /\ LaneInv /\ EmitInv /\ MarkInv /\ EndInv
        /\ nextSeq' = nextSeq
    BY Zenon DEF Ind, Poll, kernel
  <1>2. /\ emitted' = emitted \o q
        /\ stream' # None => stream' = d
        /\ \/ stream = None /\ Chunks(records) = {} /\ stream' = None /\ renewed' = renewed
           \/ renewed' = (renewed \/ stream' = None)
    BY Zenon, PayloadsShape
  <1>3. /\ Sound(e) /\ e.last \in {0, LastSeq}
        /\ ~renewed => e.last = LastSeq
        /\ \A p \in e.pending :
             /\ LastSeq < p.seq /\ p.seq < nextSeq
             /\ exited => Capped(sinceExit, Window) <= p.age
             /\ \A c \in Cpus : \A j \in DOMAIN buffer'[c] :
                   buffer'[c][j].seq > 0 => Earlier(buffer'[c][j], p)
        /\ stream = None /\ Chunks(records) = {} => e.pending = {}
    BY Zenon, Insertion
  <1>4. \A s \in Ready(e), c \in Cpus : \A j \in DOMAIN buffer'[c] :
           buffer'[c][j].seq > 0 => s.seq < buffer'[c][j].seq
    BY Zenon, NoOvertaking
  <1>5. Held' = IF stream' = None THEN {} ELSE {s.seq : s \in stream'.pending}
    BY Zenon DEF Held
  <1> HIDE DEF e
  <1>6. /\ d.pending = e.pending \ Ready(e) /\ Sound(d)
        /\ d.last = IF q = <<>> THEN e.last ELSE q[Len(q)].seq
    BY Zenon, <1>3, LeftOver
  <1>7. /\ Ready(e) \in SUBSET e.pending
        /\ \A s \in Ready(e), r \in e.pending \ Ready(e) : s.seq < r.seq
    BY Zenon, <1>3, ReadyPart
  <1>8. /\ q \in Seq(Handed) /\ DOMAIN q = 1 .. Len(q) /\ Len(q) \in Nat
        /\ \A k \in DOMAIN q : \E s \in Ready(e) : q[k].seq = s.seq
        /\ \A k, j \in DOMAIN q : k < j => q[k].seq < q[j].seq
    <2>1. Sound(e)
      BY Zenon, <1>3
    <2>2. q \in Seq(Handed) /\ DOMAIN q = 1 .. Len(q) /\ Len(q) \in Nat
      BY Zenon, <2>1, HandedOn
    <2>3. ASSUME NEW k \in DOMAIN q PROVE \E s \in Ready(e) : q[k].seq = s.seq
      BY Zenon, <2>1, HandedOn
    <2>4. \A k, j \in DOMAIN q : k < j => q[k].seq < q[j].seq
      BY Zenon, <2>1, HandedOn
    <2> QED BY Zenon, <2>2, <2>3, <2>4
  <1>9. \A k \in DOMAIN q : q[k].gap <=>
            q[k].seq # (IF k = 1 THEN e.last ELSE q[k - 1].seq) + 1
    BY Zenon, <1>3, MarkedExactly
  <1>10. exited /\ Settle <= sinceExit => d.pending = {}
    <2> SUFFICES ASSUME exited, Settle <= sinceExit PROVE d.pending = {}
      BY Zenon
    <2>1. Capped(sinceExit, Window) = Window
      <3>1. sinceExit \in 0 .. Settle
        BY Zenon, <1>1 DEF Types
      <3> QED BY <3>1, Numbers DEF Capped
    <2> QED BY Zenon, <1>3, <2>1, AllHandedOn
  <1>11. emitted \in Seq(Handed)
    BY Zenon, <1>1 DEF Types
  <1> HIDE DEF d, q
  <1>12. /\ emitted' \in Seq(Handed)
         /\ \A i \in DOMAIN emitted :
               emitted'[i] = emitted[i] /\ Previous(i)' = Previous(i)
         /\ \A k \in DOMAIN q :
              /\ emitted'[Len(emitted) + k] = q[k]
              /\ \A i \in Nat : i = Len(emitted) + k
                   => Previous(i)' = IF k = 1 THEN LastSeq ELSE q[k - 1].seq
         /\ \A i \in DOMAIN emitted' :
              i \in DOMAIN emitted \/ \E k \in DOMAIN q : i = Len(emitted) + k
         /\ LastSeq' = IF q = <<>> THEN LastSeq ELSE q[Len(q)].seq
    BY Zenon, <1>2, <1>8, <1>11, HandOn
  <1>13. stream' # None => stream' = d /\ stream' \in Lanes /\ Sound(stream')
    BY Zenon, <1>2, <1>6 DEF Sound
  <1>14. q = <<>> \/ \E s \in Ready(e) : q[Len(q)].seq = s.seq
    <2>1. q # <<>> => Len(q) \in DOMAIN q
      BY <1>8
    <2> QED BY Zenon, <1>8, <2>1
  <1>15. LaneInv'
    <2> SUFFICES ASSUME stream' # None
                 PROVE  /\ \A s \in stream'.pending : s.seq < nextSeq'
                        /\ \A s, t \in stream'.pending : s.seq = t.seq => s = t
                        /\ \A s \in stream'.pending, c \in Cpus : \A i \in DOMAIN buffer'[c] :
                              buffer'[c][i].seq > 0 => Earlier(buffer'[c][i], s)
      BY Zenon DEF LaneInv
    <2>1. stream'.pending \in SUBSET e.pending
      BY Zenon, <1>6, <1>13
    <2> QED BY Zenon, <1>1, <1>3, <1>13, <2>1 DEF Sound
  <1>16. LastSeq \in Nat /\ \A i \in DOMAIN emitted : emitted[i].seq \in Nat /\ emitted[i].seq <= LastSeq
    BY Zenon, <1>1, LastNumber
  <1>17. EmitInv'
    <2>1. ASSUME NEW i \in DOMAIN emitted', NEW j \in DOMAIN emitted', i < j
          PROVE  emitted'[i].seq < emitted'[j].seq
      <3>1. CASE i \in DOMAIN emitted /\ j \in DOMAIN emitted
        BY Zenon, <1>1, <1>12, <2>1, <3>1 DEF EmitInv
      <3>2. CASE j \notin DOMAIN emitted
        <4>1. PICK k \in DOMAIN q : j = Len(emitted) + k
          BY Zenon, <1>12, <3>2
        <4>2. PICK s \in Ready(e) : q[k].seq = s.seq
          BY Zenon, <1>8
        <4>3. emitted'[j].seq = s.seq /\ LastSeq < s.seq /\ s.seq \in Nat
          <5>1. LastSeq < s.seq /\ s.seq \in Nat
            BY Zenon, <1>3, <1>7, Numbered DEF Sound
          <5> QED BY Zenon, <1>12, <4>1, <4>2, <5>1
        <4>4. CASE i \in DOMAIN emitted
          <5>1. emitted'[i].seq \in Nat /\ emitted'[i].seq <= LastSeq
            BY Zenon, <1>12, <1>16, <4>4
          <5> QED BY <1>16, <4>3, <5>1
        <4>5. CASE i \notin DOMAIN emitted
          <5>1. PICK h \in DOMAIN q : i = Len(emitted) + h
            BY Zenon, <1>12, <4>5
          <5>2. h < k
            BY <1>8, <1>11, <2>1, <4>1, <5>1
          <5> QED BY Zenon, <1>8, <1>12, <4>1, <5>1, <5>2
        <4> QED BY Zenon, <4>4, <4>5
      <3>3. CASE i \notin DOMAIN emitted /\ j \in DOMAIN emitted
        <4>1. PICK k \in DOMAIN q : i = Len(emitted) + k
          BY Zenon, <1>12, <3>3
        <4> QED BY <1>8, <1>11, <2>1, <3>3, <4>1
      <3> QED BY Zenon, <3>1, <3>2, <3>3
    <2>2. LastSeq' < nextSeq'
      BY Zenon, <1>1, <1>3, <1>7, <1>12, <1>14 DEF EmitInv
    <2>3. ASSUME NEW c \in Cpus, NEW i \in DOMAIN buffer'[c], buffer'[c][i].seq > 0
          PROVE  LastSeq' < buffer'[c][i].seq
      <3>1. taken[c] + i \in DOMAIN buffer[c] /\ buffer'[c][i] = buffer[c][taken[c] + i]
        BY Zenon, <1>1, PollShape
      <3>2. LastSeq < buffer'[c][i].seq
        BY Zenon, <1>1, <2>3, <3>1 DEF EmitInv
      <3> QED BY Zenon, <1>4, <1>12, <1>14, <2>3, <3>2
    <2>4. ASSUME stream' # None
          PROVE  (\A s \in stream'.pending : LastSeq' < s.seq) /\ stream'.last \in {0, LastSeq'}
      <3>1. stream' = d /\ stream'.pending = e.pending \ Ready(e)
        BY Zenon, <1>6, <1>13, <2>4
      <3>2. CASE q = <<>>
        BY Zenon, <1>3, <1>6, <1>12, <3>1, <3>2
      <3>3. CASE q # <<>>
        BY Zenon, <1>6, <1>7, <1>12, <1>14, <3>1, <3>3
      <3> QED BY Zenon, <3>2, <3>3
    <2> QED BY Zenon, <2>1, <2>2, <2>3, <2>4 DEF EmitInv
  <1>18. MarkInv'
    <2> SUFFICES ASSUME ~renewed'
                 PROVE  /\ stream' = None => LastSeq' = 0
                        /\ stream' # None => stream'.last = LastSeq'
                        /\ \A i \in DOMAIN emitted' :
                              emitted'[i].gap <=> emitted'[i].seq # Previous(i)' + 1
      BY Zenon DEF MarkInv
    <2>0. ~renewed
      BY Zenon, <1>2
    <2>1. ~renewed /\ e.last = LastSeq
      BY Zenon, <1>3, <2>0
    <2>2. stream' = None => LastSeq' = 0
      <3> SUFFICES ASSUME stream' = None PROVE LastSeq' = 0
        BY Zenon
      <3>1. stream = None /\ e.pending = {}
        BY Zenon, <1>2, <1>3
      <3>2. q = <<>>
        BY Zenon, <1>7, <1>14, <3>1
      <3> QED BY Zenon, <1>1, <1>12, <2>1, <3>1, <3>2 DEF MarkInv
    <2>3. stream' # None => stream'.last = LastSeq'
      BY Zenon, <1>6, <1>12, <1>13, <2>1
    <2>4. ASSUME NEW i \in DOMAIN emitted'
          PROVE  emitted'[i].gap <=> emitted'[i].seq # Previous(i)' + 1
      <3>1. CASE i \in DOMAIN emitted
        <4>1. emitted[i].gap <=> emitted[i].seq # Previous(i) + 1
          BY Zenon, <1>1, <2>1, <3>1 DEF MarkInv
        <4>2. emitted'[i] = emitted[i] /\ Previous(i)' = Previous(i)
          BY Zenon, <1>12, <3>1
        <4> QED BY Zenon, <4>1, <4>2
      <3>2. CASE i \notin DOMAIN emitted
        <4>1. PICK k \in DOMAIN q : i = Len(emitted) + k
          BY Zenon, <1>12, <3>2
        <4>2. i \in Nat
          BY <1>8, <1>11, <4>1
        <4>3. Previous(i)' = IF k = 1 THEN e.last ELSE q[k - 1].seq
          BY Zenon, <1>12, <2>1, <4>1, <4>2
        <4>4. emitted'[i] = q[k]
          BY Zenon, <1>12, <4>1
        <4> QED BY Zenon, <1>9, <4>3, <4>4
      <3> QED BY Zenon, <3>1, <3>2
    <2> QED BY Zenon, <2>2, <2>3, <2>4
  <1>19. exited /\ stream' # None =>
            \A s \in stream'.pending : Capped(sinceExit, Window) <= s.age
    BY Zenon, <1>3, <1>6, <1>13
  <1>20. exited /\ Settle <= sinceExit => Held' = {}
    BY Zenon, <1>5, <1>10, <1>13
  <1> QED BY Zenon, <1>12, <1>13, <1>15, <1>17, <1>18, <1>19, <1>20

-----------------------------------------------------------------------------
(* The steps.                                                              *)

\* A cycle of the drain, whatever it admits of what it polls.
LEMMA CycleKeeps ==
    ASSUME Ind, NEW taken \in Polls, Poll(taken), NEW records \in SUBSET Polled(taken),
           Payloads(records), finalized' => finalized \/ Settled
    PROVE  Ind'
  <1>1. /\ Types /\ Fresh /\ InOrder /\ Across /\ OpInv /\ LaneInv /\ EmitInv
        /\ MarkInv /\ EndInv
    BY Zenon DEF Ind
  <1>2. /\ op' = op /\ opAge' = opAge /\ nextSeq' = nextSeq /\ closed' = closed
        /\ exited' = exited /\ sinceExit' = sinceExit
    BY Zenon DEF Poll, kernel
  <1>3. /\ stream' # None => stream' \in Lanes
        /\ emitted' \in Seq(Handed)
        /\ LaneInv' /\ EmitInv' /\ MarkInv'
        /\ exited /\ stream' # None =>
             \A s \in stream'.pending : Capped(sinceExit, Window) <= s.age
        /\ exited /\ Settle <= sinceExit => Held' = {}
    BY Zenon, Emission
  <1>4. /\ buffer' \in [Cpus -> Seq(Records)]
        /\ \A c \in Cpus : \A j \in DOMAIN buffer'[c] :
             taken[c] + j \in DOMAIN buffer[c] /\ buffer'[c][j] = buffer[c][taken[c] + j]
    BY Zenon, <1>1, PollShape
  <1>5. Fresh' /\ InOrder' /\ Across' /\ OpInv'
    BY Zenon, <1>1, PollKeeps
  <1>6. Types'
    BY Zenon, <1>1, <1>2, <1>3, <1>4 DEF Types
  <1>7. EndInv'
    <2>1. ASSUME exited, NEW c \in Cpus, NEW i \in DOMAIN buffer'[c], buffer'[c][i].seq > 0
          PROVE  sinceExit <= buffer'[c][i].wait
      BY Zenon, <1>1, <1>4, <2>1 DEF EndInv
    <2>2. finalized' => exited /\ Settle <= sinceExit
      <3>1. Settled => exited /\ Settle <= sinceExit
        <4>1. sinceExit \in 0 .. Settle
          BY Zenon, <1>1 DEF Types
        <4> QED BY <4>1, Numbers DEF Settled
      <3> QED BY Zenon, <1>1, <3>1 DEF EndInv
    <2>3. (~exited => sinceExit = 0) /\ (exited => closed)
      BY Zenon, <1>1 DEF EndInv
    <2> QED BY Zenon, <1>2, <1>3, <2>1, <2>2, <2>3 DEF EndInv
  <1> QED BY Zenon, <1>3, <1>5, <1>6, <1>7 DEF Ind

\* A drain cycle keeps the invariant, whether the process is still bound or
\* not, and so does one that fails half-way.
LEMMA DrainKeeps ==
    ASSUME Ind, NEW taken \in Polls, Drain(taken) \/ CycleFails(taken)
    PROVE  Ind'
  <1>1. {} \in SUBSET Polled(taken) /\ Polled(taken) \in SUBSET Polled(taken)
    BY Zenon
  <1>2. Finalize => (finalized' => finalized \/ Settled)
    BY Zenon DEF Finalize, trace
  <1>3. CASE DrainCycle(taken)
    BY Zenon, <1>1, <1>2, <1>3, CycleKeeps DEF DrainCycle
  <1>4. CASE CycleInactive(taken)
    BY Zenon, <1>1, <1>2, <1>4, CycleKeeps DEF CycleInactive
  <1>5. CASE CycleFails(taken)
    <2>1. finalized' => finalized \/ Settled
      BY Zenon, <1>5 DEF CycleFails, trace
    <2> QED BY Zenon, <1>1, <1>5, <2>1, CycleKeeps DEF CycleFails
  <1> QED BY Zenon, <1>3, <1>4, <1>5 DEF Drain

\* An operation that begins or ends leaves everything else alone.
LEMMA OpKeeps ==
    ASSUME Ind, BeginOp \/ EndOp
    PROVE  Ind'
  <1>1. /\ Types /\ Fresh /\ InOrder /\ Across /\ OpInv /\ LaneInv /\ EmitInv
        /\ MarkInv /\ EndInv
    BY Zenon DEF Ind
  <1>2. /\ nextSeq' = nextSeq /\ closed' = closed /\ exited' = exited
        /\ sinceExit' = sinceExit /\ buffer' = buffer /\ stream' = stream
        /\ emitted' = emitted /\ renewed' = renewed /\ finalized' = finalized
        /\ opAge' = 0
    BY Zenon DEF BeginOp, EndOp, lane, trace
  <1>3. (op' = "running" /\ ~closed) \/ op' = "idle"
    BY Zenon DEF BeginOp, EndOp
  <1>4. Types'
    <2>1. 0 \in 0 .. Window
      BY Numbers
    <2> QED BY Zenon, <1>1, <1>2, <1>3, <2>1 DEF Types
  <1>5. OpInv'
    <2>1. ASSUME NEW c \in Cpus, NEW i \in DOMAIN buffer[c] PROVE 0 <= buffer[c][i].wait
      <3>1. buffer[c][i].wait \in Nat
        BY Zenon, <1>1, BufferNumbers DEF Types
      <3> QED BY <3>1
    <2> QED BY Zenon, <1>2, <1>3, <2>1 DEF OpInv
  <1>6. Fresh' /\ InOrder' /\ Across' /\ LaneInv'
    BY Zenon, <1>1, <1>2 DEF Fresh, InOrder, Across, LaneInv
  <1>7. LastSeq' = LastSeq /\ \A i : Previous(i)' = Previous(i)
    BY Zenon, <1>2 DEF LastSeq, Previous
  <1>8. EmitInv' /\ MarkInv'
    BY Zenon, <1>1, <1>2, <1>7 DEF EmitInv, MarkInv
  <1>9. EndInv'
    BY Zenon, <1>1, <1>2 DEF EndInv, Held
  <1> QED BY Zenon, <1>4, <1>5, <1>6, <1>8, <1>9 DEF Ind

\* Records of a released socket and of an exit.
Notices == {r \in Records : r.seq <= 0 /\ r.wait <= r.age}

\* The kernel appends some of them to a buffer.
LEMMA SubmitShape ==
    ASSUME Types, NEW c \in Cpus, NEW records \in Seq(Notices), Submit(c, records)
    PROVE  /\ buffer' \in [Cpus -> Seq(Records)]
           /\ \A d \in Cpus : \A i \in DOMAIN buffer'[d] :
                \/ i \in DOMAIN buffer[d] /\ buffer'[d][i] = buffer[d][i]
                \/ buffer'[d][i] \in Notices
  <1>1. buffer' = [buffer EXCEPT ![c] = @ \o records]
    BY Zenon DEF Submit
  <1>2. buffer \in [Cpus -> Seq(Records)]
    BY Zenon DEF Types
  <1> DEFINE b == buffer[c]
             z == b \o records
  <1>3. b \in Seq(Records) /\ buffer'[c] = z /\ \A d \in Cpus \ {c} : buffer'[d] = buffer[d]
    BY Zenon, <1>1, <1>2
  <1>4. buffer' = [d \in Cpus |-> IF d = c THEN z ELSE buffer[d]]
    BY Zenon, <1>1, <1>2
  <1> HIDE DEF b
  <1>5. records \in Seq(Records) /\ \A k \in DOMAIN records : records[k] \in Notices
    BY DEF Notices
  <1>6. /\ z \in Seq(Records) /\ Len(z) = Len(b) + Len(records)
        /\ \A i \in 1 .. Len(b) + Len(records) : z[i] =
              IF i <= Len(b) THEN b[i] ELSE records[i - Len(b)]
    BY <1>3, <1>5, SeqBehind
  <1> HIDE DEF z
  <1>7. /\ DOMAIN b = 1 .. Len(b) /\ Len(b) \in Nat
        /\ DOMAIN records = 1 .. Len(records) /\ Len(records) \in Nat
        /\ DOMAIN z = 1 .. Len(b) + Len(records)
    BY Zenon, <1>3, <1>5, <1>6, SeqPlaces
  <1>8. \A i \in DOMAIN z : (i \in DOMAIN b /\ z[i] = b[i]) \/ z[i] \in Notices
    <2> SUFFICES ASSUME NEW i \in DOMAIN z, i \notin DOMAIN b PROVE z[i] \in Notices
      BY <1>6, <1>7
    <2>1. i - Len(b) \in DOMAIN records /\ ~ (i <= Len(b))
      BY <1>7
    <2> QED BY Zenon, <1>5, <1>6, <1>7, <2>1
  <1>9. buffer' \in [Cpus -> Seq(Records)]
    BY Zenon, <1>2, <1>4, <1>6
  <1>10. ASSUME NEW d \in Cpus, NEW i \in DOMAIN buffer'[d]
         PROVE  \/ i \in DOMAIN buffer[d] /\ buffer'[d][i] = buffer[d][i]
                \/ buffer'[d][i] \in Notices
    <2>1. CASE d = c
      BY Zenon, <1>3, <1>8, <2>1 DEF b
    <2>2. CASE d # c
      BY Zenon, <1>3, <2>2
    <2> QED BY Zenon, <2>1, <2>2
  <1> QED BY Zenon, <1>9, <1>10

\* A notice that is delivered or lost.
LEMMA SentNotices ==
    ASSUME NEW delivered
    PROVE  /\ Sent(CloseRecord, delivered) \in Seq(Notices)
           /\ Sent(ExitRecord, delivered) \in Seq(Notices)
  <1>1. Record(CloseRecord, 0) \in Notices /\ Record(ExitRecord, 0) \in Notices
    BY Numbers DEF Notices, Records, Record, CloseRecord, ExitRecord
  <1> DEFINE x == Record(CloseRecord, 0)
             y == Record(ExitRecord, 0)
  <1> HIDE DEF x, y
  <1>2. x \in Notices /\ y \in Notices
    BY Zenon, <1>1 DEF x, y
  <1>3. <<x>> \in Seq(Notices) /\ <<y>> \in Seq(Notices) /\ <<>> \in Seq(Notices)
    BY <1>2
  <1> QED BY Zenon, <1>3 DEF Sent, x, y

\* Closing the socket, and the end of the process.
LEMMA CloseKeeps ==
    ASSUME Ind, NEW c \in Cpus, NEW delivered, Close(c, delivered) \/ Exit(c, delivered)
    PROVE  Ind'
  <1>1. /\ Types /\ Fresh /\ InOrder /\ Across /\ OpInv /\ LaneInv /\ EmitInv
        /\ MarkInv /\ EndInv
    BY Zenon DEF Ind
  <1>2. /\ nextSeq' = nextSeq /\ closed' = TRUE
        /\ sinceExit' = sinceExit /\ stream' = stream
        /\ emitted' = emitted /\ renewed' = renewed /\ finalized' = finalized
        /\ op' = "idle" /\ (opAge' = opAge \/ opAge' = 0)
        /\ exited => exited'
    <2>1. CASE Close(c, delivered)
      BY Zenon, <2>1 DEF Close, lane, trace
    <2>2. CASE Exit(c, delivered)
      BY Zenon, <2>2 DEF Exit, lane, trace
    <2> QED BY Zenon, <2>1, <2>2
  <1>3. \E records \in Seq(Notices) : Submit(c, records)
    <2> DEFINE x == Sent(CloseRecord, delivered)
               y == Sent(ExitRecord, delivered)
               w == IF closed THEN <<>> ELSE x
    <2>1. x \in Seq(Notices) /\ y \in Seq(Notices) /\ <<>> \in Seq(Notices)
      BY Zenon, SentNotices, SeqEmpty
    <2>2. Submit(c, x) \/ Submit(c, w \o y)
      BY Zenon DEF Close, Exit
    <2>3. w \in Seq(Notices)
      BY Zenon, <2>1
    <2> HIDE DEF x, y, w
    <2>4. w \o y \in Seq(Notices)
      BY Zenon, <2>1, <2>3, SeqBehind
    <2> QED BY Zenon, <2>1, <2>2, <2>4
  <1>4. /\ buffer' \in [Cpus -> Seq(Records)]
        /\ \A d \in Cpus : \A i \in DOMAIN buffer'[d] :
             \/ i \in DOMAIN buffer[d] /\ buffer'[d][i] = buffer[d][i]
             \/ buffer'[d][i] \in Notices
    BY Zenon, <1>1, <1>3, SubmitShape
  <1>5. nextSeq \in Nat /\ nextSeq > 0
    <2>1. nextSeq \in 1 .. MaxSeq + 1
      BY Zenon, <1>1 DEF Types
    <2> QED BY <2>1, Numbers
  <1>6. \A r \in Notices : ~ (r.seq > 0) /\ r.seq < nextSeq /\ r.wait <= r.age
    BY <1>5, Numbers DEF Notices, Records
  <1>7. \A d \in Cpus : \A i \in DOMAIN buffer'[d] : buffer'[d][i].seq > 0 =>
           i \in DOMAIN buffer[d] /\ buffer'[d][i] = buffer[d][i]
    BY Zenon, <1>4, <1>6
  <1>8. Types'
    <2>1. 0 \in 0 .. Window
      BY Numbers
    <2> QED BY Zenon, <1>1, <1>2, <1>4, <2>1 DEF Types
  <1>9. Fresh'
    BY Zenon, <1>1, <1>2, <1>4, <1>6 DEF Fresh
  <1>10. InOrder'
    BY Zenon, <1>1, <1>7 DEF InOrder
  <1>11. Across'
    <2> SUFFICES ASSUME NEW a \in Cpus, NEW d \in Cpus, a # d,
                        NEW i \in DOMAIN buffer'[a], NEW j \in DOMAIN buffer'[d],
                        buffer'[a][i].seq > 0, buffer'[d][j].seq > 0
                 PROVE  Earlier(buffer'[a][i], buffer'[d][j])
      BY Zenon DEF Across
    <2>1. /\ i \in DOMAIN buffer[a] /\ buffer'[a][i] = buffer[a][i]
          /\ j \in DOMAIN buffer[d] /\ buffer'[d][j] = buffer[d][j]
      BY Zenon, <1>7
    <2>2. Earlier(buffer[a][i], buffer[d][j])
      BY Zenon, <1>1, <2>1 DEF Across
    <2> QED BY Zenon, <2>1, <2>2
  <1>12. OpInv'
    BY Zenon, <1>2 DEF OpInv
  <1>13. LaneInv'
    <2>1. ASSUME stream # None, NEW s \in stream.pending, NEW d \in Cpus,
                 NEW i \in DOMAIN buffer'[d], buffer'[d][i].seq > 0
          PROVE  Earlier(buffer'[d][i], s)
      BY Zenon, <1>1, <1>7, <2>1 DEF LaneInv
    <2> QED BY Zenon, <1>1, <1>2, <2>1 DEF LaneInv
  <1>14. LastSeq' = LastSeq /\ \A i : Previous(i)' = Previous(i)
    BY Zenon, <1>2 DEF LastSeq, Previous
  <1>15. EmitInv'
    <2>1. ASSUME NEW d \in Cpus, NEW i \in DOMAIN buffer'[d], buffer'[d][i].seq > 0
          PROVE  LastSeq < buffer'[d][i].seq
      BY Zenon, <1>1, <1>7, <2>1 DEF EmitInv
    <2> QED BY Zenon, <1>1, <1>2, <1>14, <2>1 DEF EmitInv
  <1>16. MarkInv'
    BY Zenon, <1>1, <1>2, <1>14 DEF MarkInv
  <1>17. \A d \in Cpus : \A i \in DOMAIN buffer[d] :
            buffer[d][i].seq > 0 => sinceExit <= buffer[d][i].wait
    <2>1. CASE exited
      BY Zenon, <1>1, <2>1 DEF EndInv
    <2>2. CASE ~exited
      <3>1. sinceExit = 0
        BY Zenon, <1>1, <2>2 DEF EndInv
      <3>2. \A d \in Cpus : \A i \in DOMAIN buffer[d] : buffer[d][i].wait \in Nat
        BY Zenon, <1>1, BufferNumbers DEF Types
      <3> QED BY <3>1, <3>2
    <2> QED BY Zenon, <2>1, <2>2
  <1>18. stream # None => \A s \in stream.pending : Capped(sinceExit, Window) <= s.age
    <2>1. CASE exited
      BY Zenon, <1>1, <2>1 DEF EndInv
    <2>2. CASE ~exited
      <3>1. sinceExit = 0
        BY Zenon, <1>1, <2>2 DEF EndInv
      <3>2. stream # None => \A s \in stream.pending : s.age \in Nat
        BY Zenon, <1>1, Numbered DEF Types
      <3> QED BY <3>1, <3>2, Numbers DEF Capped
    <2> QED BY Zenon, <2>1, <2>2
  <1>19. EndInv'
    <2>1. ASSUME NEW d \in Cpus, NEW i \in DOMAIN buffer'[d], buffer'[d][i].seq > 0
          PROVE  sinceExit <= buffer'[d][i].wait
      BY Zenon, <1>7, <1>17, <2>1
    <2>2. ~exited => sinceExit = 0
      BY Zenon, <1>1 DEF EndInv
    <2>3. finalized => exited /\ Settle <= sinceExit /\ Held' = {}
      BY Zenon, <1>1, <1>2 DEF EndInv, Held
    <2> QED BY Zenon, <1>2, <1>18, <2>1, <2>2, <2>3 DEF EndInv
  <1> QED BY Zenon, <1>8, <1>9, <1>10, <1>11, <1>12, <1>13, <1>15, <1>16, <1>19 DEF Ind

\* A captured chunk is appended to the buffer of the CPU, or lost.
LEMMA CaptureShape ==
    ASSUME Types, NEW c \in Cpus, NEW delivered, Capture(c, delivered)
    PROVE  /\ buffer' \in [Cpus -> Seq(Records)]
           /\ \A d \in Cpus : \A i \in DOMAIN buffer'[d] :
                \/ i \in DOMAIN buffer[d] /\ buffer'[d][i] = buffer[d][i]
                \/ /\ d = c /\ i = Len(buffer[c]) + 1
                   /\ buffer'[d][i].seq = nextSeq /\ buffer'[d][i].wait = 0
                   /\ buffer'[d][i].age \in Nat /\ buffer'[d][i].age <= opAge
  <1> DEFINE a == IF direction = "outbound" THEN opAge ELSE 0
             r == Record(nextSeq, a)
             b == buffer[c]
             z == Append(b, r)
  <1>1. buffer \in [Cpus -> Seq(Records)] /\ b \in Seq(Records)
    BY Zenon DEF Types
  <1>2. CASE buffer' = buffer
    BY Zenon, <1>1, <1>2
  <1>3. CASE buffer' = [buffer EXCEPT ![c] = Append(@, r)]
    <2>1. a \in Nat /\ a <= opAge /\ a <= Window
      BY Numbers DEF Types
    <2> HIDE DEF a
    <2>2. r = [seq |-> nextSeq, wait |-> 0, age |-> a]
      BY Zenon DEF Record
    <2>3. nextSeq \in 1 .. MaxSeq
      BY Numbers DEF Types, Capture
    <2>4. r \in Records /\ r.seq = nextSeq /\ r.wait = 0 /\ r.age = a
      BY <2>1, <2>2, <2>3, Numbers DEF Records
    <2>5. buffer'[c] = z /\ \A d \in Cpus \ {c} : buffer'[d] = buffer[d]
      BY Zenon, <1>1, <1>3
    <2>6. buffer' = [d \in Cpus |-> IF d = c THEN z ELSE buffer[d]]
      BY Zenon, <1>1, <1>3
    <2> HIDE DEF r, b
    <2>7. /\ z \in Seq(Records) /\ Len(z) = Len(b) + 1 /\ Len(b) \in Nat
          /\ DOMAIN z = 1 .. Len(b) + 1 /\ DOMAIN b = 1 .. Len(b)
          /\ \A i \in 1 .. Len(b) : z[i] = b[i]
          /\ z[Len(b) + 1] = r
      BY <1>1, <2>4
    <2> HIDE DEF z
    <2>8. \A i \in DOMAIN z : (i \in DOMAIN b /\ z[i] = b[i]) \/ (i = Len(b) + 1 /\ z[i] = r)
      BY <2>7
    <2>9. buffer' \in [Cpus -> Seq(Records)]
      BY Zenon, <1>1, <2>6, <2>7
    <2>10. ASSUME NEW d \in Cpus, NEW i \in DOMAIN buffer'[d]
           PROVE  \/ i \in DOMAIN buffer[d] /\ buffer'[d][i] = buffer[d][i]
                  \/ /\ d = c /\ i = Len(buffer[c]) + 1
                     /\ buffer'[d][i].seq = nextSeq /\ buffer'[d][i].wait = 0
                     /\ buffer'[d][i].age \in Nat /\ buffer'[d][i].age <= opAge
      <3>1. CASE d = c
        <4>1. (i \in DOMAIN b /\ z[i] = b[i]) \/ (i = Len(b) + 1 /\ z[i] = r)
          BY Zenon, <2>5, <2>8, <3>1
        <4> QED BY Zenon, <2>1, <2>4, <2>5, <3>1, <4>1 DEF b
      <3>2. CASE d # c
        BY Zenon, <2>5, <3>2
      <3> QED BY Zenon, <3>1, <3>2
    <2> QED BY Zenon, <2>9, <2>10
  <1>4. buffer' = buffer \/ buffer' = [buffer EXCEPT ![c] = Append(@, r)]
    BY Zenon DEF Capture
  <1> QED BY Zenon, <1>2, <1>3, <1>4

\* The capture of a chunk, delivered or lost.
LEMMA CaptureKeeps ==
    ASSUME Ind, NEW c \in Cpus, NEW delivered, Capture(c, delivered)
    PROVE  Ind'
  <1>1. /\ Types /\ Fresh /\ InOrder /\ Across /\ OpInv /\ LaneInv /\ EmitInv
        /\ MarkInv /\ EndInv
    BY Zenon DEF Ind
  <1>2. /\ op \in {"running", c} /\ op' = c /\ nextSeq' = nextSeq + 1 /\ opAge' = opAge
        /\ closed' = closed /\ exited' = exited /\ sinceExit' = sinceExit
        /\ stream' = stream /\ emitted' = emitted /\ renewed' = renewed
        /\ finalized' = finalized
    BY Zenon DEF Capture, lane, trace
  <1>3. nextSeq \in Nat /\ nextSeq > 0 /\ nextSeq' \in 1 .. MaxSeq + 1 /\ opAge \in Nat
    <2>1. nextSeq \in 1 .. MaxSeq + 1 /\ nextSeq <= MaxSeq /\ opAge \in 0 .. Window
      BY Zenon, <1>1 DEF Types, Capture
    <2> QED BY <1>2, <2>1, Numbers
  <1>4. op # "idle" /\ "running" \notin Cpus /\ ~closed /\ ~exited /\ ~finalized
    <2>1. "idle" \notin Cpus /\ "running" \notin Cpus
      BY Zenon, CpusValid
    <2>2. op # "idle"
      <3>1. "running" # "idle"
        OBVIOUS
      <3> QED BY Zenon, <1>2, <2>1, <3>1
    <2> QED BY Zenon, <1>1, <2>1, <2>2 DEF OpInv, EndInv
  <1>5. /\ buffer' \in [Cpus -> Seq(Records)]
        /\ \A d \in Cpus : \A i \in DOMAIN buffer'[d] :
             \/ i \in DOMAIN buffer[d] /\ buffer'[d][i] = buffer[d][i]
             \/ /\ d = c /\ i = Len(buffer[c]) + 1
                /\ buffer'[d][i].seq = nextSeq /\ buffer'[d][i].wait = 0
                /\ buffer'[d][i].age \in Nat /\ buffer'[d][i].age <= opAge
    BY Zenon, <1>1, CaptureShape
  <1>6. \A d \in Cpus : \A i \in DOMAIN buffer[d] :
          /\ i \in Nat /\ i <= Len(buffer[d]) /\ Len(buffer[d]) \in Nat
          /\ buffer[d][i].seq \in Int /\ buffer[d][i].seq < nextSeq
    BY Zenon, <1>1, BufferNumbers DEF Types, Fresh
  <1>7. Types'
    BY Zenon, <1>1, <1>2, <1>3, <1>5 DEF Types
  <1>8. Fresh'
    <2> SUFFICES ASSUME NEW d \in Cpus, NEW i \in DOMAIN buffer'[d]
                 PROVE  buffer'[d][i].seq < nextSeq' /\ buffer'[d][i].wait <= buffer'[d][i].age
      BY Zenon DEF Fresh
    <2>1. CASE i \in DOMAIN buffer[d] /\ buffer'[d][i] = buffer[d][i]
      <3>1. buffer[d][i].wait <= buffer[d][i].age
        BY Zenon, <1>1, <2>1 DEF Fresh
      <3>2. buffer[d][i].seq < nextSeq'
        <4>1. buffer[d][i].seq \in Int /\ buffer[d][i].seq < nextSeq
          BY Zenon, <1>6, <2>1
        <4> QED BY <1>2, <1>3, <4>1
      <3> QED BY Zenon, <2>1, <3>1, <3>2
    <2>2. CASE /\ buffer'[d][i].seq = nextSeq /\ buffer'[d][i].wait = 0
               /\ buffer'[d][i].age \in Nat
      BY <1>2, <1>3, <2>2
    <2> QED BY Zenon, <1>5, <2>1, <2>2
  <1>9. InOrder'
    <2> SUFFICES ASSUME NEW d \in Cpus, NEW i \in DOMAIN buffer'[d], NEW j \in DOMAIN buffer'[d],
                        i < j, buffer'[d][i].seq > 0, buffer'[d][j].seq > 0
                 PROVE  buffer'[d][i].seq < buffer'[d][j].seq
      BY Zenon DEF InOrder
    <2>1. CASE /\ i \in DOMAIN buffer[d] /\ buffer'[d][i] = buffer[d][i]
               /\ j \in DOMAIN buffer[d] /\ buffer'[d][j] = buffer[d][j]
      BY Zenon, <1>1, <2>1 DEF InOrder
    <2>2. CASE /\ i \in DOMAIN buffer[d] /\ buffer'[d][i] = buffer[d][i]
               /\ buffer'[d][j].seq = nextSeq
      BY Zenon, <1>6, <2>2
    <2>3. CASE d = c /\ i = Len(buffer[c]) + 1
      <3>1. j \in DOMAIN buffer[c] \/ j = Len(buffer[c]) + 1
        BY Zenon, <1>5, <2>3
      <3>2. Len(buffer[c]) \in Nat
        BY Zenon, <1>1, BufferNumbers DEF Types
      <3>3. j \in DOMAIN buffer[c] => j \in Nat /\ j <= Len(buffer[c])
        BY Zenon, <1>6
      <3>4. FALSE
        BY <2>3, <3>1, <3>2, <3>3
      <3> QED BY Zenon, <3>4
    <2> QED BY Zenon, <1>5, <2>1, <2>2, <2>3
  <1>10. \A d \in Cpus \ {c} : \A i \in DOMAIN buffer[d] :
            buffer[d][i].seq > 0 => opAge <= buffer[d][i].wait
    BY Zenon, <1>1, <1>2, <1>4 DEF OpInv
  <1>11. ASSUME NEW d \in Cpus, d # c, NEW i \in DOMAIN buffer'[d]
         PROVE  i \in DOMAIN buffer[d] /\ buffer'[d][i] = buffer[d][i]
    BY Zenon, <1>5, <1>11
  <1>12. Across'
    <2> SUFFICES ASSUME NEW a \in Cpus, NEW d \in Cpus, a # d,
                        NEW i \in DOMAIN buffer'[a], NEW j \in DOMAIN buffer'[d],
                        buffer'[a][i].seq > 0, buffer'[d][j].seq > 0
                 PROVE  Earlier(buffer'[a][i], buffer'[d][j])
      BY Zenon DEF Across
    <2>1. CASE /\ i \in DOMAIN buffer[a] /\ buffer'[a][i] = buffer[a][i]
               /\ j \in DOMAIN buffer[d] /\ buffer'[d][j] = buffer[d][j]
      <3>1. Earlier(buffer[a][i], buffer[d][j])
        BY Zenon, <1>1, <2>1 DEF Across
      <3> QED BY Zenon, <2>1, <3>1
    <2>2. CASE d = c /\ ~ (j \in DOMAIN buffer[d] /\ buffer'[d][j] = buffer[d][j])
      <3>1. /\ buffer'[d][j].seq = nextSeq
            /\ buffer'[d][j].age \in Nat /\ buffer'[d][j].age <= opAge
        BY Zenon, <1>5, <2>2
      <3>2. i \in DOMAIN buffer[a] /\ buffer'[a][i] = buffer[a][i]
        BY Zenon, <1>11, <2>2
      <3>3. opAge <= buffer'[a][i].wait /\ buffer'[a][i].wait \in Nat
        <4>1. opAge <= buffer[a][i].wait
          BY Zenon, <1>10, <2>2, <3>2
        <4>2. buffer[a][i].wait \in Nat
          BY Zenon, <1>1, <3>2, BufferNumbers DEF Types
        <4> QED BY Zenon, <3>2, <4>1, <4>2
      <3>4. buffer'[d][j].age <= buffer'[a][i].wait
        BY <1>3, <3>1, <3>3
      <3>5. buffer'[a][i].seq # nextSeq
        <4>1. buffer[a][i].seq \in Int /\ buffer[a][i].seq < nextSeq
          BY Zenon, <1>6, <3>2
        <4> QED BY <1>3, <3>2, <4>1
      <3> QED BY Zenon, <3>1, <3>4, <3>5 DEF Earlier
    <2>3. CASE a = c /\ ~ (i \in DOMAIN buffer[a] /\ buffer'[a][i] = buffer[a][i])
      <3>1. buffer'[a][i].seq = nextSeq
        BY Zenon, <1>5, <2>3
      <3>2. j \in DOMAIN buffer[d] /\ buffer'[d][j] = buffer[d][j]
        BY Zenon, <1>11, <2>3
      <3>3. buffer[d][j].seq \in Int /\ buffer[d][j].seq < nextSeq
        BY Zenon, <1>6, <3>2
      <3>4. nextSeq # buffer'[d][j].seq /\ ~ (nextSeq < buffer'[d][j].seq)
        BY <1>3, <3>2, <3>3
      <3> QED BY Zenon, <3>1, <3>4 DEF Earlier
    <2> QED BY Zenon, <1>11, <2>1, <2>2, <2>3
  <1>13. OpInv'
    <2>1. ASSUME NEW d \in Cpus \ {c}, NEW i \in DOMAIN buffer'[d], buffer'[d][i].seq > 0
          PROVE  opAge <= buffer'[d][i].wait
      BY Zenon, <1>10, <1>11, <2>1
    <2> QED BY Zenon, <1>2, <1>4, <2>1 DEF OpInv
  <1>14. LaneInv'
    <2> SUFFICES ASSUME stream # None
                 PROVE  /\ \A s \in stream.pending : s.seq < nextSeq'
                        /\ \A s, t \in stream.pending : s.seq = t.seq => s = t
                        /\ \A s \in stream.pending, d \in Cpus : \A i \in DOMAIN buffer'[d] :
                              buffer'[d][i].seq > 0 => Earlier(buffer'[d][i], s)
      BY Zenon, <1>2 DEF LaneInv
    <2>1. \A s \in stream.pending : s.seq \in Nat /\ s.seq < nextSeq
      BY Zenon, <1>1, Numbered DEF Types, LaneInv
    <2>2. \A s \in stream.pending :
             s.seq < nextSeq' /\ nextSeq # s.seq /\ ~ (nextSeq < s.seq)
      BY <1>2, <1>3, <2>1
    <2>3. ASSUME NEW s \in stream.pending, NEW d \in Cpus, NEW i \in DOMAIN buffer'[d],
                 buffer'[d][i].seq > 0
          PROVE  Earlier(buffer'[d][i], s)
      <3>1. CASE i \in DOMAIN buffer[d] /\ buffer'[d][i] = buffer[d][i]
        <4>1. Earlier(buffer[d][i], s)
          BY Zenon, <1>1, <2>3, <3>1 DEF LaneInv
        <4> QED BY Zenon, <3>1, <4>1
      <3>2. CASE buffer'[d][i].seq = nextSeq
        BY Zenon, <2>2, <3>2 DEF Earlier
      <3> QED BY Zenon, <1>5, <3>1, <3>2
    <2> QED BY Zenon, <1>1, <2>2, <2>3 DEF LaneInv
  <1>15. LastSeq' = LastSeq /\ \A i : Previous(i)' = Previous(i)
    BY Zenon, <1>2 DEF LastSeq, Previous
  <1>16. EmitInv'
    <2>1. LastSeq \in Nat /\ LastSeq < nextSeq
      BY Zenon, <1>1, LastNumber DEF EmitInv
    <2>2. LastSeq < nextSeq'
      BY <1>2, <1>3, <2>1
    <2>3. ASSUME NEW d \in Cpus, NEW i \in DOMAIN buffer'[d], buffer'[d][i].seq > 0
          PROVE  LastSeq < buffer'[d][i].seq
      BY Zenon, <1>1, <1>5, <2>1, <2>3 DEF EmitInv
    <2> QED BY Zenon, <1>1, <1>2, <1>15, <2>2, <2>3 DEF EmitInv
  <1>17. MarkInv'
    BY Zenon, <1>1, <1>2, <1>15 DEF MarkInv
  <1>18. EndInv'
    BY Zenon, <1>1, <1>2, <1>4 DEF EndInv
  <1> QED BY Zenon, <1>7, <1>8, <1>9, <1>12, <1>13, <1>14, <1>16, <1>17, <1>18 DEF Ind

\* A function on 1 .. n is a sequence.
LEMMA FunctionIsSeq ==
    ASSUME NEW S, NEW n \in Nat, NEW f \in [1 .. n -> S]
    PROVE  f \in Seq(S)
  OBVIOUS

\* A tick makes what is buffered and what is held older.
LEMMA TickShape ==
    ASSUME Types, Tick
    PROVE  /\ buffer' \in [Cpus -> Seq(Records)]
           /\ \A c \in Cpus : \A i \in DOMAIN buffer'[c] :
                /\ i \in DOMAIN buffer[c] /\ buffer'[c][i].seq = buffer[c][i].seq
                /\ buffer'[c][i].wait = buffer[c][i].wait + 1
                /\ buffer'[c][i].age = Capped(buffer[c][i].age + 1, Window)
                /\ buffer[c][i].wait < Jitter
           /\ stream' = None <=> stream = None
           /\ stream # None =>
                /\ stream' \in Lanes /\ stream'.last = stream.last
                /\ \A p \in stream'.pending : \E s \in stream.pending :
                      p = [seq |-> s.seq, age |-> Capped(s.age + 1, Window)]
  <1>1. buffer \in [Cpus -> Seq(Records)]
    BY Zenon DEF Types
  <1>2. buffer' = [c \in Cpus |-> [i \in DOMAIN buffer[c] |->
                    [buffer[c][i] EXCEPT !.wait = @ + 1, !.age = Capped(@ + 1, Window)]]]
    BY Zenon DEF Tick
  <1>3. \A c \in Cpus : \A i \in DOMAIN buffer[c] : buffer[c][i].wait < Jitter
    BY Zenon DEF Tick
  <1>4. ASSUME NEW r \in Records, r.wait < Jitter, NEW x,
               x = [r EXCEPT !.wait = @ + 1, !.age = Capped(@ + 1, Window)]
        PROVE  /\ x \in Records /\ x.seq = r.seq /\ x.wait = r.wait + 1
               /\ x.age = Capped(r.age + 1, Window)
    <2> DEFINE w == r.wait + 1
               a == Capped(r.age + 1, Window)
    <2>1. w \in 0 .. Jitter /\ a \in 0 .. Window
      BY <1>4, Numbers DEF Records, Capped
    <2>2. x = [seq |-> r.seq, wait |-> w, age |-> a]
      BY <1>4 DEF Records
    <2>3. r.seq \in -1 .. MaxSeq
      BY DEF Records
    <2> HIDE DEF w, a
    <2>4. x \in Records /\ x.seq = r.seq /\ x.wait = w /\ x.age = a
      BY <2>1, <2>2, <2>3 DEF Records
    <2> QED BY Zenon, <2>4 DEF w, a
  <1>5. ASSUME NEW c \in Cpus
        PROVE  /\ buffer'[c] \in Seq(Records)
               /\ \A i \in DOMAIN buffer'[c] :
                    /\ i \in DOMAIN buffer[c] /\ buffer'[c][i].seq = buffer[c][i].seq
                    /\ buffer'[c][i].wait = buffer[c][i].wait + 1
                    /\ buffer'[c][i].age = Capped(buffer[c][i].age + 1, Window)
                    /\ buffer[c][i].wait < Jitter
    <2>1. /\ Len(buffer[c]) \in Nat /\ DOMAIN buffer[c] = 1 .. Len(buffer[c])
          /\ \A i \in DOMAIN buffer[c] : buffer[c][i] \in Records
      BY Zenon, <1>1, BufferNumbers
    <2>2. /\ DOMAIN buffer'[c] = DOMAIN buffer[c]
          /\ buffer'[c] = [i \in DOMAIN buffer[c] |-> buffer'[c][i]]
          /\ \A i \in DOMAIN buffer[c] : buffer'[c][i] =
               [buffer[c][i] EXCEPT !.wait = @ + 1, !.age = Capped(@ + 1, Window)]
      BY Zenon, <1>2
    <2>3. \A i \in DOMAIN buffer[c] :
            /\ buffer'[c][i] \in Records /\ buffer'[c][i].seq = buffer[c][i].seq
            /\ buffer'[c][i].wait = buffer[c][i].wait + 1
            /\ buffer'[c][i].age = Capped(buffer[c][i].age + 1, Window)
      BY Zenon, <1>3, <1>4, <2>1, <2>2
    <2>4. buffer'[c] \in [1 .. Len(buffer[c]) -> Records]
      BY Zenon, <2>1, <2>2, <2>3
    <2>5. buffer'[c] \in Seq(Records)
      BY Zenon, <2>1, <2>4, FunctionIsSeq
    <2> QED BY Zenon, <1>3, <2>2, <2>3, <2>5
  <1>6. buffer' \in [Cpus -> Seq(Records)]
    BY Zenon, <1>2, <1>5
  <1>7. CASE stream = None
    BY Zenon, <1>5, <1>6, <1>7 DEF Tick
  <1>8. CASE stream # None
    <2> DEFINE n == Capped(stream.idle + 1, Retention)
               P == {[s EXCEPT !.age = Capped(@ + 1, Window)] : s \in stream.pending}
    <2>1. stream \in Lanes
      BY Zenon, <1>8 DEF Types
    <2>2. stream' = [stream EXCEPT !.idle = n, !.pending = P]
      BY <1>8, <2>1 DEF Tick, Lanes
    <2>3. \A s \in stream.pending :
            /\ [s EXCEPT !.age = Capped(@ + 1, Window)]
                 = [seq |-> s.seq, age |-> Capped(s.age + 1, Window)]
            /\ [seq |-> s.seq, age |-> Capped(s.age + 1, Window)] \in Pieces
      <3> SUFFICES ASSUME NEW s \in stream.pending
                   PROVE  /\ [s EXCEPT !.age = Capped(@ + 1, Window)]
                               = [seq |-> s.seq, age |-> Capped(s.age + 1, Window)]
                          /\ [seq |-> s.seq, age |-> Capped(s.age + 1, Window)] \in Pieces
        BY Zenon
      <3>1. s \in Pieces /\ s.seq \in 1 .. MaxSeq /\ s.age \in 0 .. Window
        BY Zenon, <2>1, Numbered
      <3>2. Capped(s.age + 1, Window) \in 0 .. Window
        BY <3>1, Numbers DEF Capped
      <3>3. [s EXCEPT !.age = Capped(@ + 1, Window)]
              = [seq |-> s.seq, age |-> Capped(s.age + 1, Window)]
        BY <3>1 DEF Pieces
      <3> QED BY Zenon, <3>1, <3>2, <3>3 DEF Pieces
    <2>4. \A p \in P : \E s \in stream.pending :
             p = [seq |-> s.seq, age |-> Capped(s.age + 1, Window)]
      BY Zenon, <2>3
    <2>5. P \in SUBSET Pieces
      BY Zenon, <2>3, <2>4
    <2>6. n \in 0 .. Retention
      BY <2>1, Numbers DEF Lanes, Capped
    <2> HIDE DEF n, P
    <2>7. stream' \in Lanes /\ stream'.last = stream.last /\ stream'.pending = P
      BY <2>1, <2>2, <2>5, <2>6 DEF Lanes
    <2>8. stream' # None
      <3>1. \A x \in Lanes : x \in [last : Nat, pending : SUBSET [seq : Nat, age : Nat], idle : Nat]
        BY Numbers DEF Lanes, Pieces
      <3> QED BY Zenon, <2>7, <3>1, NoEntry
    <2> QED BY Zenon, <1>5, <1>6, <1>8, <2>4, <2>7, <2>8
  <1> QED BY Zenon, <1>7, <1>8

\* Comparing ages survives a tick.
LEMMA AgesTogether ==
    ASSUME NEW a \in Nat, NEW w \in Nat, a <= w, NEW n \in Nat
    PROVE  /\ Capped(a + 1, n) <= w + 1
           /\ w + 1 <= n => a + 1 <= n /\ Capped(a + 1, n) = a + 1
  BY DEF Capped

\* The passing of time keeps the invariant: everything ages together.
LEMMA TickKeeps ==
    ASSUME Ind, Tick
    PROVE  Ind'
  <1>1. /\ Types /\ Fresh /\ InOrder /\ Across /\ OpInv /\ LaneInv /\ EmitInv
        /\ MarkInv /\ EndInv
    BY Zenon DEF Ind
  <1>2. /\ op \in {"idle", "running"} /\ op' = op /\ nextSeq' = nextSeq
        /\ closed' = closed /\ exited' = exited /\ emitted' = emitted
        /\ renewed' = renewed /\ finalized' = finalized
        /\ opAge' = (IF op = "running" THEN Capped(opAge + 1, Window) ELSE 0)
        /\ sinceExit' = (IF exited THEN Capped(sinceExit + 1, Settle) ELSE 0)
    BY Zenon DEF Tick, trace
  <1>3. /\ buffer' \in [Cpus -> Seq(Records)]
        /\ \A c \in Cpus : \A i \in DOMAIN buffer'[c] :
             /\ i \in DOMAIN buffer[c] /\ buffer'[c][i].seq = buffer[c][i].seq
             /\ buffer'[c][i].wait = buffer[c][i].wait + 1
             /\ buffer'[c][i].age = Capped(buffer[c][i].age + 1, Window)
             /\ buffer[c][i].wait < Jitter
        /\ stream' = None <=> stream = None
        /\ stream # None =>
             /\ stream' \in Lanes /\ stream'.last = stream.last
             /\ \A p \in stream'.pending : \E s \in stream.pending :
                   p = [seq |-> s.seq, age |-> Capped(s.age + 1, Window)]
    BY Zenon, <1>1, TickShape
  <1>4. \A c \in Cpus : \A i \in DOMAIN buffer[c] :
           /\ buffer[c][i].wait \in Nat /\ buffer[c][i].age \in Nat
           /\ buffer[c][i].wait <= buffer[c][i].age
    BY Zenon, <1>1, BufferNumbers DEF Types, Fresh
  <1>5. stream # None => \A p \in stream'.pending : \E s \in stream.pending :
           /\ p.seq = s.seq /\ p.age = Capped(s.age + 1, Window)
           /\ s.age \in Nat
           /\ p = [seq |-> s.seq, age |-> Capped(s.age + 1, Window)]
    <2> SUFFICES ASSUME stream # None, NEW p \in stream'.pending
                 PROVE  \E s \in stream.pending :
                          /\ p.seq = s.seq /\ p.age = Capped(s.age + 1, Window)
                          /\ s.age \in Nat
                          /\ p = [seq |-> s.seq, age |-> Capped(s.age + 1, Window)]
      BY Zenon
    <2>1. PICK s \in stream.pending : p = [seq |-> s.seq, age |-> Capped(s.age + 1, Window)]
      BY Zenon, <1>3
    <2>2. s.age \in Nat
      BY Zenon, <1>1, Numbered DEF Types
    <2>3. p.seq = s.seq /\ p.age = Capped(s.age + 1, Window)
      BY <2>1
    <2> QED BY Zenon, <2>1, <2>2, <2>3
  <1>6. opAge \in Nat /\ sinceExit \in Nat /\ sinceExit <= Settle
    <2>1. opAge \in 0 .. Window /\ sinceExit \in 0 .. Settle
      BY Zenon, <1>1 DEF Types
    <2> QED BY <2>1, Numbers
  <1>7. Types'
    <2>1. opAge' \in 0 .. Window /\ sinceExit' \in 0 .. Settle
      BY <1>2, <1>6, Numbers DEF Capped
    <2> QED BY Zenon, <1>1, <1>2, <1>3, <2>1 DEF Types
  <1>8. Fresh'
    <2> SUFFICES ASSUME NEW c \in Cpus, NEW i \in DOMAIN buffer'[c]
                 PROVE  buffer'[c][i].seq < nextSeq' /\ buffer'[c][i].wait <= buffer'[c][i].age
      BY Zenon DEF Fresh
    <2> DEFINE r == buffer[c][i]
               x == buffer'[c][i]
    <2>1. /\ x.seq = r.seq /\ x.wait = r.wait + 1 /\ x.age = Capped(r.age + 1, Window)
          /\ r.wait < Jitter /\ r.wait \in Nat /\ r.age \in Nat /\ r.wait <= r.age
      BY Zenon, <1>3, <1>4
    <2>2. r.seq < nextSeq
      BY Zenon, <1>1, <1>3 DEF Fresh
    <2> HIDE DEF r, x
    <2>3. x.wait <= x.age
      BY <2>1, Numbers DEF Capped
    <2> QED BY Zenon, <1>2, <2>1, <2>2, <2>3 DEF x
  <1>9. InOrder'
    <2> SUFFICES ASSUME NEW c \in Cpus, NEW i \in DOMAIN buffer'[c], NEW j \in DOMAIN buffer'[c],
                        i < j, buffer'[c][i].seq > 0, buffer'[c][j].seq > 0
                 PROVE  buffer'[c][i].seq < buffer'[c][j].seq
      BY Zenon DEF InOrder
    <2>1. /\ i \in DOMAIN buffer[c] /\ buffer'[c][i].seq = buffer[c][i].seq
          /\ j \in DOMAIN buffer[c] /\ buffer'[c][j].seq = buffer[c][j].seq
      BY Zenon, <1>3
    <2>2. buffer[c][i].seq < buffer[c][j].seq
      BY Zenon, <1>1, <2>1 DEF InOrder
    <2> QED BY Zenon, <2>1, <2>2
  <1>10. ASSUME NEW c \in Cpus, NEW i \in DOMAIN buffer'[c], NEW p, NEW s, s.age \in Nat,
                p.seq = s.seq, p.age = Capped(s.age + 1, Window), Earlier(buffer[c][i], s)
         PROVE  Earlier(buffer'[c][i], p)
    <2> DEFINE r == buffer[c][i]
               x == buffer'[c][i]
    <2>1. x.seq = r.seq /\ x.wait = r.wait + 1 /\ r.wait \in Nat
      BY Zenon, <1>3, <1>4
    <2>2. r.seq # s.seq /\ (r.seq < s.seq => s.age <= r.wait)
      BY Zenon, <1>10 DEF Earlier
    <2>3. x.seq # p.seq
      BY Zenon, <1>10, <2>1, <2>2
    <2>4. ASSUME x.seq < p.seq PROVE p.age <= x.wait
      <3>1. s.age <= r.wait
        BY Zenon, <1>10, <2>1, <2>2, <2>4
      <3>2. Capped(s.age + 1, Window) <= r.wait + 1
        BY Zenon, <1>10, <2>1, <3>1, AgesTogether, Numbers
      <3> QED BY Zenon, <1>10, <2>1, <3>2
    <2>5. Earlier(x, p)
      BY Zenon, <2>3, <2>4 DEF Earlier
    <2> QED BY Zenon, <2>5
  <1>11. Across'
    <2> SUFFICES ASSUME NEW a \in Cpus, NEW d \in Cpus, a # d,
                        NEW i \in DOMAIN buffer'[a], NEW j \in DOMAIN buffer'[d],
                        buffer'[a][i].seq > 0, buffer'[d][j].seq > 0
                 PROVE  Earlier(buffer'[a][i], buffer'[d][j])
      BY Zenon DEF Across
    <2>1. /\ i \in DOMAIN buffer[a] /\ buffer'[a][i].seq = buffer[a][i].seq
          /\ j \in DOMAIN buffer[d] /\ buffer'[d][j].seq = buffer[d][j].seq
          /\ buffer'[d][j].age = Capped(buffer[d][j].age + 1, Window)
          /\ buffer[d][j].age \in Nat
      BY Zenon, <1>3, <1>4
    <2>2. Earlier(buffer[a][i], buffer[d][j])
      BY Zenon, <1>1, <2>1 DEF Across
    <2> QED BY Zenon, <1>10, <2>1, <2>2
  <1>12. ASSUME NEW k \in Nat, NEW n \in Nat, NEW c \in Cpus, NEW i \in DOMAIN buffer'[c],
                k <= buffer[c][i].wait
         PROVE  Capped(k + 1, n) <= buffer'[c][i].wait
    <2>1. buffer'[c][i].wait = buffer[c][i].wait + 1 /\ buffer[c][i].wait \in Nat
      BY Zenon, <1>3, <1>4
    <2>2. Capped(k + 1, n) <= buffer[c][i].wait + 1
      BY Zenon, <1>12, <2>1, AgesTogether
    <2> QED BY Zenon, <2>1, <2>2
  <1>13. OpInv'
    <2>1. ASSUME op # "idle", NEW c \in Cpus \ {op}, NEW i \in DOMAIN buffer'[c],
                 buffer'[c][i].seq > 0
          PROVE  opAge' <= buffer'[c][i].wait
      <3>1. opAge' = Capped(opAge + 1, Window)
        BY Zenon, <1>2, <2>1
      <3>2. opAge <= buffer[c][i].wait
        BY Zenon, <1>1, <1>3, <2>1 DEF OpInv
      <3> QED BY Zenon, <1>6, <1>12, <3>1, <3>2, Numbers
    <2>2. closed => op = "idle"
      BY Zenon, <1>1 DEF OpInv
    <2> QED BY Zenon, <1>2, <2>1, <2>2 DEF OpInv
  <1>14. LaneInv'
    <2> SUFFICES ASSUME stream # None
                 PROVE  /\ \A p \in stream'.pending : p.seq < nextSeq'
                        /\ \A p, q \in stream'.pending : p.seq = q.seq => p = q
                        /\ \A p \in stream'.pending, c \in Cpus : \A i \in DOMAIN buffer'[c] :
                              buffer'[c][i].seq > 0 => Earlier(buffer'[c][i], p)
      BY Zenon, <1>3 DEF LaneInv
    <2>1. \A p \in stream'.pending : p.seq < nextSeq'
      BY Zenon, <1>1, <1>2, <1>5 DEF LaneInv
    <2>2. ASSUME NEW p \in stream'.pending, NEW q \in stream'.pending, p.seq = q.seq
          PROVE  p = q
      <3>1. PICK s \in stream.pending :
              p.seq = s.seq /\ p = [seq |-> s.seq, age |-> Capped(s.age + 1, Window)]
        BY Zenon, <1>5
      <3>2. PICK t \in stream.pending :
              q.seq = t.seq /\ q = [seq |-> t.seq, age |-> Capped(t.age + 1, Window)]
        BY Zenon, <1>5
      <3>3. s = t
        BY Zenon, <1>1, <2>2, <3>1, <3>2 DEF LaneInv
      <3> QED BY Zenon, <3>1, <3>2, <3>3
    <2>3. ASSUME NEW p \in stream'.pending, NEW c \in Cpus, NEW i \in DOMAIN buffer'[c],
                 buffer'[c][i].seq > 0
          PROVE  Earlier(buffer'[c][i], p)
      <3>1. PICK s \in stream.pending :
              p.seq = s.seq /\ p.age = Capped(s.age + 1, Window) /\ s.age \in Nat
        BY Zenon, <1>5
      <3>2. i \in DOMAIN buffer[c] /\ buffer[c][i].seq > 0
        BY Zenon, <1>3, <2>3
      <3>3. Earlier(buffer[c][i], s)
        BY Zenon, <1>1, <3>2 DEF LaneInv
      <3> QED BY Zenon, <1>10, <3>1, <3>3
    <2> QED BY Zenon, <2>1, <2>2, <2>3
  <1>15. LastSeq' = LastSeq /\ \A i : Previous(i)' = Previous(i)
    BY Zenon, <1>2 DEF LastSeq, Previous
  <1>16. EmitInv'
    <2>1. ASSUME NEW c \in Cpus, NEW i \in DOMAIN buffer'[c], buffer'[c][i].seq > 0
          PROVE  LastSeq < buffer'[c][i].seq
      <3>1. i \in DOMAIN buffer[c] /\ buffer'[c][i].seq = buffer[c][i].seq
        BY Zenon, <1>3
      <3>2. LastSeq < buffer[c][i].seq
        BY Zenon, <1>1, <2>1, <3>1 DEF EmitInv
      <3> QED BY Zenon, <3>1, <3>2
    <2>2. ASSUME stream # None
          PROVE  (\A p \in stream'.pending : LastSeq < p.seq) /\ stream'.last \in {0, LastSeq}
      BY Zenon, <1>1, <1>3, <1>5, <2>2 DEF EmitInv
    <2> QED BY Zenon, <1>1, <1>2, <1>3, <1>15, <2>1, <2>2 DEF EmitInv
  <1>17. MarkInv'
    BY Zenon, <1>1, <1>2, <1>3, <1>15 DEF MarkInv
  <1>18. EndInv'
    <2>1. ASSUME exited, NEW c \in Cpus, NEW i \in DOMAIN buffer'[c], buffer'[c][i].seq > 0
          PROVE  sinceExit' <= buffer'[c][i].wait
      <3>1. sinceExit' = Capped(sinceExit + 1, Settle)
        BY Zenon, <1>2, <2>1
      <3>2. sinceExit <= buffer[c][i].wait
        BY Zenon, <1>1, <1>3, <2>1 DEF EndInv
      <3> QED BY Zenon, <1>6, <1>12, <3>1, <3>2, Numbers
    <2>2. ASSUME exited, stream # None, NEW p \in stream'.pending
          PROVE  Capped(sinceExit', Window) <= p.age
      <3>1. PICK s \in stream.pending :
              p.age = Capped(s.age + 1, Window) /\ s.age \in Nat
        BY Zenon, <1>5, <2>2
      <3>2. Capped(sinceExit, Window) <= s.age
        BY Zenon, <1>1, <2>2 DEF EndInv
      <3>3. sinceExit' = Capped(sinceExit + 1, Settle)
        BY Zenon, <1>2, <2>2
      <3> QED BY <1>6, <3>1, <3>2, <3>3, Numbers DEF Capped
    <2>3. ASSUME finalized
          PROVE  exited /\ Settle <= sinceExit' /\ Held' = {}
      <3>1. exited /\ Settle <= sinceExit /\ Held = {}
        BY Zenon, <1>1, <2>3 DEF EndInv
      <3>2. Settle <= sinceExit'
        BY <1>2, <1>6, <3>1, Numbers DEF Capped
      <3>3. Held' = {}
        <4>1. stream # None => stream.pending = {}
          BY Zenon, <3>1 DEF Held
        <4>2. stream # None => stream'.pending = {}
          BY Zenon, <1>5, <4>1
        <4>3. Held' = IF stream' = None THEN {} ELSE {s.seq : s \in stream'.pending}
          BY Zenon DEF Held
        <4> QED BY Zenon, <1>3, <4>2, <4>3
      <3> QED BY Zenon, <3>1, <3>2, <3>3
    <2>4. (~exited => sinceExit' = 0) /\ (exited => closed)
      BY Zenon, <1>1, <1>2 DEF EndInv
    <2> QED BY Zenon, <1>2, <1>3, <2>1, <2>2, <2>3, <2>4 DEF EndInv
  <1> QED BY Zenon, <1>7, <1>8, <1>9, <1>11, <1>13, <1>14, <1>16, <1>17, <1>18 DEF Ind

\* Nothing is captured, held or handed on at the start.
LEMMA InitInd == Init => Ind
  <1> SUFFICES ASSUME Init PROVE Ind
    BY Zenon
  <1>1. /\ op = "idle" /\ opAge = 0 /\ nextSeq = 1 /\ closed = FALSE /\ exited = FALSE
        /\ sinceExit = 0 /\ buffer = [c \in Cpus |-> <<>>] /\ stream = None
        /\ emitted = <<>> /\ finalized = FALSE
    BY Zenon DEF Init
  <1>2. (\A c \in Cpus : DOMAIN buffer[c] = {}) /\ DOMAIN emitted = {}
    BY <1>1
  <1>3. Types
    <2>1. 0 \in 0 .. Window /\ 1 \in 1 .. MaxSeq + 1 /\ 0 \in 0 .. Settle
      BY Numbers
    <2>2. <<>> \in Seq(Records) /\ <<>> \in Seq(Handed)
      BY Zenon, SeqEmpty
    <2> QED BY Zenon, <1>1, <2>1, <2>2 DEF Types
  <1>4. LastSeq = 0
    BY Zenon, <1>1 DEF LastSeq
  <1>5. Fresh /\ InOrder /\ Across /\ OpInv /\ LaneInv
    BY Zenon, <1>1, <1>2 DEF Fresh, InOrder, Across, OpInv, LaneInv
  <1>6. EmitInv
    <2>1. 0 < 1
      OBVIOUS
    <2> QED BY Zenon, <1>1, <1>2, <1>4, <2>1 DEF EmitInv
  <1>7. MarkInv /\ EndInv
    BY Zenon, <1>1, <1>2, <1>4 DEF MarkInv, EndInv
  <1> QED BY Zenon, <1>3, <1>5, <1>6, <1>7 DEF Ind

\* Every step keeps the invariant.
LEMMA NextInd == Ind /\ [Next]_vars => Ind'
  <1> SUFFICES ASSUME Ind, [Next]_vars PROVE Ind'
    BY Zenon
  <1>1. CASE BeginOp \/ EndOp
    BY Zenon, <1>1, OpKeeps
  <1>2. CASE \E c \in Cpus, delivered \in BOOLEAN : Capture(c, delivered)
    BY Zenon, <1>2, CaptureKeeps
  <1>3. CASE \E c \in Cpus, delivered \in SUBSET {CloseRecord, ExitRecord} :
                Close(c, delivered) \/ Exit(c, delivered)
    BY Zenon, <1>3, CloseKeeps
  <1>4. CASE Tick
    BY Zenon, <1>4, TickKeeps
  <1>5. CASE \E taken \in Polls : Drain(taken) \/ CycleFails(taken)
    BY Zenon, <1>5, DrainKeeps
  <1>6. CASE UNCHANGED vars
    <2>1. /\ op' = op /\ opAge' = opAge /\ nextSeq' = nextSeq /\ closed' = closed
          /\ exited' = exited /\ sinceExit' = sinceExit /\ buffer' = buffer
          /\ stream' = stream /\ emitted' = emitted /\ renewed' = renewed
          /\ finalized' = finalized
      BY Zenon, <1>6 DEF vars, kernel, lane, trace
    <2>2. LastSeq' = LastSeq /\ Held' = Held /\ \A i : Previous(i)' = Previous(i)
      BY Zenon, <2>1 DEF LastSeq, Held, Previous
    <2>3. Types' /\ Fresh' /\ InOrder' /\ Across' /\ OpInv' /\ LaneInv'
      BY Zenon, <2>1 DEF Ind, Types, Fresh, InOrder, Across, OpInv, LaneInv
    <2>4. EmitInv' /\ MarkInv' /\ EndInv'
      BY Zenon, <2>1, <2>2 DEF Ind, EmitInv, MarkInv, EndInv
    <2> QED BY Zenon, <2>3, <2>4 DEF Ind
  <1> QED BY Zenon, <1>1, <1>2, <1>3, <1>4, <1>5, <1>6 DEF Next

\* The invariant holds in every behaviour.
LEMMA IndHolds == Spec => []Ind
  BY InitInd, NextInd, PTL DEF Spec

-----------------------------------------------------------------------------
(* The theorems.                                                           *)

\* A record in flight is held by the lane or buffered on a CPU.
LEMMA InFlightPlace ==
    ASSUME NEW s \in InFlight
    PROVE  s \in Held \/ \E c \in Cpus : s \in Captured(c)
  BY Zenon DEF InFlight

\* What the invariant says of the chunks handed on.
LEMMA IndOrder == Ind => SkipsOnlyTheLost
  <1> SUFFICES ASSUME Ind, NEW i \in DOMAIN emitted
               PROVE  /\ Previous(i) < emitted[i].seq
                      /\ \A s \in InFlight \ {CloseRecord, ExitRecord} : emitted[i].seq < s
    BY Zenon DEF SkipsOnlyTheLost
  <1>1. Types /\ EmitInv
    BY Zenon DEF Ind
  <1>2. /\ LastSeq \in Nat /\ DOMAIN emitted = 1 .. Len(emitted) /\ Len(emitted) \in Nat
        /\ \A j \in DOMAIN emitted :
             /\ emitted[j].seq \in Nat /\ 0 < emitted[j].seq /\ emitted[j].seq <= LastSeq
    BY Zenon, <1>1, LastNumber
  <1>3. Previous(i) < emitted[i].seq
    <2>1. CASE i = 1
      BY Zenon, <1>2, <2>1 DEF Previous
    <2>2. CASE i # 1
      <3>1. i - 1 \in DOMAIN emitted /\ i - 1 < i
        BY <1>2, <2>2
      <3> QED BY Zenon, <1>1, <2>2, <3>1 DEF Previous, EmitInv
    <2> QED BY Zenon, <2>1, <2>2
  <1>4. ASSUME NEW s \in InFlight, s # CloseRecord, s # ExitRecord
        PROVE  emitted[i].seq < s
    <2>1. CASE s \in Held
      <3>1. PICK p \in stream.pending : stream # None /\ s = p.seq
        BY Zenon, <2>1 DEF Held
      <3>2. LastSeq < s
        BY Zenon, <1>1, <3>1 DEF EmitInv
      <3>3. s \in Nat
        BY Zenon, <1>1, <3>1, Numbered DEF Types
      <3> QED BY <1>2, <3>2, <3>3
    <2>2. CASE \E c \in Cpus : s \in Captured(c)
      <3>1. PICK c \in Cpus : s \in Captured(c)
        BY Zenon, <2>2
      <3>2. PICK j \in DOMAIN buffer[c] : s = buffer[c][j].seq
        BY Zenon, <3>1 DEF Captured, Range
      <3>3. buffer[c][j] \in Records
        BY Zenon, <1>1, BufferNumbers DEF Types
      <3>4. s \in -1 .. MaxSeq
        BY Zenon, <3>2, <3>3 DEF Records
      <3>5. s > 0 /\ s \in Int
        BY <1>4, <3>4, Numbers DEF CloseRecord, ExitRecord
      <3>6. LastSeq < s
        BY Zenon, <1>1, <3>2, <3>5 DEF EmitInv
      <3> QED BY <1>2, <3>5, <3>6
    <2> QED BY Zenon, <1>4, <2>1, <2>2, InFlightPlace
  <1> QED BY Zenon, <1>3, <1>4

\* Chunks are handed on in order, and what is skipped is gone for good, with
\* any number of CPUs and chunks, any window longer than the jitter, and
\* records that are lost or polled in any order.
THEOREM SkipsLost == Spec => []SkipsOnlyTheLost
  BY IndHolds, IndOrder, PTL

\* The marks of discontinuity are exact as long as the lane keeps its entry.
THEOREM GapsExact == Spec => []GapsAreExact
  <1>1. Ind => GapsAreExact
    BY Zenon DEF Ind, MarkInv, GapsAreExact
  <1> QED BY IndHolds, <1>1, PTL

\* Nothing is held for a trace when it is finalized, for any settle delay not
\* shorter than the window.
THEOREM NothingHeldAtEnd == Spec => []FinalizedHoldsNothing
  <1>1. Ind => FinalizedHoldsNothing
    BY Zenon DEF Ind, EndInv, FinalizedHoldsNothing
  <1> QED BY IndHolds, <1>1, PTL
=============================================================================
