--------------------------- MODULE StreamQueueProofs ---------------------------
(* Theorems about StreamQueue, for every number of rentals and leases. *)
EXTENDS StreamQueue, FiniteSetTheorems, FunctionTheorems, SequenceTheorems, TLAPS

Leases == [Rentals -> Lease \cup {NoLease}]

Distinct(line) == \A i, j \in DOMAIN line : line[i] = line[j] => i = j

\* What a method may assume of the leases and the line it promotes from.
Promotable(leases, line) ==
    /\ leases \in Leases
    /\ line \in Seq(Rentals)
    /\ Distinct(line)
    /\ Held(leases) \cap Members(line) = {}
    /\ Cardinality(Held(leases)) <= Cap

\* What holds of them when the method is done.
Settled(leases, line) ==
    /\ Promotable(leases, line)
    /\ line # <<>> => Cardinality(Held(leases)) = Cap

\* The inductive invariant
IInv ==
    /\ TypeOK
    /\ Settled(lease, waiting)
    /\ BusyTruthful

\* At least one lease is configured, whatever the environment variable says.
LEMMA CapType == Cap \in Nat \ {0}
  BY StreamAssumption DEF Cap

\* A lease that starts is a lease.
LEMMA NewLeaseType ==
  ASSUME NEW g \in BOOLEAN
  PROVE  NewLease(g) \in Lease /\ NewLease(g) # NoLease
<1>1. 0 \in 0..Ttl /\ 0 \in 0..Idle
  BY StreamAssumption
<1>2. NewLease(g) \in Lease
  BY <1>1, Zenon DEF NewLease, Lease
<1> QED
  BY <1>2, NoLeaseAssumption

\* The set of holders is a finite set of rentals, and its size is a number.
LEMMA HeldFinite ==
  ASSUME NEW leases
  PROVE  /\ Held(leases) \subseteq Rentals
         /\ IsFiniteSet(Held(leases))
         /\ Cardinality(Held(leases)) \in Nat
<1>1. Held(leases) \subseteq Rentals
  BY DEF Held
<1>2. IsFiniteSet(Held(leases))
  BY <1>1, FS_Subset, StreamAssumption
<1> QED
  BY <1>1, <1>2, FS_CardinalityType

\* A promotion takes no more than the line has or the free leases allow.
LEMMA PromotionsBound ==
  ASSUME NEW leases, NEW line \in Seq(Rentals), Cardinality(Held(leases)) <= Cap
  PROVE  /\ Promotions(leases, line) \in 0..Len(line)
         /\ Cardinality(Held(leases)) + Promotions(leases, line) <= Cap
         /\ Promotions(leases, line) < Len(line)
              => Cardinality(Held(leases)) + Promotions(leases, line) = Cap
  BY HeldFinite, CapType, LenProperties DEF Promotions, Least

\* The first n rentals of a line without repetitions are n rentals.
LEMMA PrefixCardinality ==
  ASSUME NEW line \in Seq(Rentals), Distinct(line), NEW n \in 0..Len(line)
  PROVE  /\ IsFiniteSet({line[i] : i \in 1..n})
         /\ Cardinality({line[i] : i \in 1..n}) = n
<1> DEFINE S == {line[i] : i \in 1..n}
           f == [i \in 1..n |-> line[i]]
<1>1. DOMAIN line = 1..Len(line) /\ Len(line) \in Nat
  BY LenProperties
<1>2. f \in Bijection(1..n, S)
  <2>1. f \in [1..n -> S]
    OBVIOUS
  <2>2. \A a, b \in 1..n : f[a] = f[b] => a = b
    BY <1>1 DEF Distinct
  <2>3. \A s \in S : \E a \in 1..n : f[a] = s
    OBVIOUS
  <2> QED
    BY <2>1, <2>2, <2>3, Fun_IsBij
<1>3. IsFiniteSet(1..n) /\ Cardinality(1..n) = n
  BY <1>1, FS_Interval
<1>4. ExistsBijection(1..n, S)
  BY <1>2 DEF ExistsBijection
<1> HIDE DEF S
<1>5. IsFiniteSet(S) /\ Cardinality(S) = n
  BY <1>3, <1>4, FS_Bijection
<1> QED
  BY <1>5 DEF S

\* What is left of the line after a promotion
LEMMA RestProperties ==
  ASSUME NEW leases, NEW line \in Seq(Rentals), Cardinality(Held(leases)) <= Cap
  PROVE  /\ Rest(leases, line) \in Seq(Rentals)
         /\ Len(Rest(leases, line)) = Len(line) - Promotions(leases, line)
         /\ \A i \in DOMAIN Rest(leases, line) :
              /\ i + Promotions(leases, line) \in DOMAIN line
              /\ Rest(leases, line)[i] = line[i + Promotions(leases, line)]
<1> DEFINE n == Promotions(leases, line)
<1>1. n \in 0..Len(line) /\ Len(line) \in Nat /\ DOMAIN line = 1..Len(line)
  BY PromotionsBound, LenProperties
<1> HIDE DEF n
<1>2. \A i \in (n + 1)..Len(line) : line[i] \in Rentals
  BY <1>1, ElementOfSeq
<1>3. /\ SubSeq(line, n + 1, Len(line)) \in Seq(Rentals)
      /\ Len(SubSeq(line, n + 1, Len(line))) = Len(line) - n
      /\ \A i \in 1..(Len(line) - n) : SubSeq(line, n + 1, Len(line))[i] = line[i + n]
  <2>1. n + 1 \in Int /\ Len(line) \in Int
    BY <1>1
  <2> QED
    BY <1>1, <1>2, <2>1, SubSeqProperties
<1>4. DOMAIN SubSeq(line, n + 1, Len(line)) = 1..(Len(line) - n)
  BY <1>3, LenProperties
<1> QED
  BY <1>1, <1>3, <1>4 DEF Rest, n

\* The holders after a promotion are the holders before it and the promoted.
LEMMA GrantedHeld ==
  ASSUME NEW leases \in Leases, NEW line \in Seq(Rentals),
         Cardinality(Held(leases)) <= Cap
  PROVE  /\ Granted(leases, line) \in Leases
         /\ Promoted(leases, line) \subseteq Members(line)
         /\ Held(Granted(leases, line)) = Held(leases) \cup Promoted(leases, line)
<1>1. /\ Promotions(leases, line) \in 0..Len(line)
      /\ DOMAIN line = 1..Len(line)
      /\ Len(line) \in Nat
  BY PromotionsBound, LenProperties
<1>2. Promoted(leases, line) \subseteq Members(line)
  BY <1>1 DEF Promoted, Members
<1>3. Promoted(leases, line) \subseteq Rentals
  BY <1>1, <1>2, ElementOfSeq DEF Members
<1>4. NewLease(TRUE) \in Lease /\ NewLease(TRUE) # NoLease
  BY NewLeaseType
<1> QED
  BY <1>2, <1>3, <1>4 DEF Granted, Held, Leases

\* The heart of the matter: a promotion settles what it is given.
LEMMA PromotionSettles ==
  ASSUME NEW leases, NEW line, Promotable(leases, line)
  PROVE  Settled(Granted(leases, line), Rest(leases, line))
<1> DEFINE n == Promotions(leases, line)
           G == Granted(leases, line)
           R == Rest(leases, line)
           P == Promoted(leases, line)
<1> USE DEF Promotable
<1>1. n \in 0..Len(line) /\ Len(line) \in Nat /\ DOMAIN line = 1..Len(line)
  BY PromotionsBound, LenProperties
<1>2. G \in Leases /\ P \subseteq Members(line) /\ Held(G) = Held(leases) \cup P
  BY GrantedHeld
<1>3. /\ R \in Seq(Rentals)
      /\ Len(R) = Len(line) - n
      /\ \A i \in DOMAIN R : i + n \in DOMAIN line /\ R[i] = line[i + n]
  BY RestProperties
<1>4. DOMAIN R = 1..Len(R) /\ Len(R) \in Nat
  BY <1>3, LenProperties
<1>5. P = {line[i] : i \in 1..n}
  BY DEF Promoted
<1> HIDE DEF n, G, R, P
<1>6. IsFiniteSet(P) /\ Cardinality(P) = n
  BY <1>1, <1>5, PrefixCardinality
<1>7. Cardinality(Held(G)) = Cardinality(Held(leases)) + n
  <2>1. Held(leases) \cap P = {}
    BY <1>2
  <2>2. Cardinality(Held(leases) \cap P) = 0
    BY <2>1, FS_EmptySet
  <2>3. Cardinality(Held(leases) \cup P)
          = Cardinality(Held(leases)) + Cardinality(P) - Cardinality(Held(leases) \cap P)
    BY <1>6, HeldFinite, FS_Union
  <2> QED
    BY <1>1, <1>2, <1>6, <2>2, <2>3, HeldFinite
<1>8. Distinct(R)
  <2> SUFFICES ASSUME NEW i \in DOMAIN R, NEW j \in DOMAIN R, R[i] = R[j]
               PROVE  i = j
    BY DEF Distinct
  <2>1. line[i + n] = line[j + n] /\ i + n \in DOMAIN line /\ j + n \in DOMAIN line
    BY <1>3
  <2>2. i + n = j + n
    BY <2>1 DEF Distinct
  <2> QED
    BY <1>1, <1>4, <2>2
<1>9. Held(G) \cap Members(R) = {}
  <2> SUFFICES ASSUME NEW i \in DOMAIN R, R[i] \in Held(G)
               PROVE  FALSE
    BY DEF Members
  <2>1. R[i] = line[i + n] /\ i + n \in DOMAIN line
    BY <1>3
  <2>2. R[i] \in Members(line)
    BY <2>1 DEF Members
  <2>3. R[i] \in P
    BY <1>2, <2>2
  <2>4. PICK j \in 1..n : R[i] = line[j]
    BY <1>5, <2>3
  <2>5. j \in DOMAIN line
    BY <1>1
  <2>6. j = i + n
    BY <2>1, <2>4, <2>5 DEF Distinct
  <2> QED
    BY <1>1, <1>4, <2>6
<1>10. Cardinality(Held(leases)) + n <= Cap
       /\ (n < Len(line) => Cardinality(Held(leases)) + n = Cap)
  BY PromotionsBound DEF n
<1>11. R # <<>> => n < Len(line)
  <2> SUFFICES ASSUME R # <<>> PROVE n < Len(line)
    OBVIOUS
  <2>1. Len(R) \in Nat \ {0}
    BY <1>3, EmptySeq
  <2>2. Len(R) = Len(line) - n
    BY <1>3
  <2>3. n \in Nat /\ Len(line) \in Nat
    BY <1>1
  <2> QED
    BY <2>1, <2>2, <2>3
<1> QED
  BY <1>2, <1>3, <1>7, <1>8, <1>9, <1>10, <1>11 DEF Settled, G, R

\* Dropping stale leases leaves something to promote from.
LEMMA DroppedPromotable ==
  ASSUME NEW leases, NEW line, Promotable(leases, line)
  PROVE  Promotable(Dropped(leases), line)
<1> USE DEF Promotable
<1>1. Dropped(leases) \in Leases
  BY DEF Dropped, Leases
<1>2. Held(Dropped(leases)) \subseteq Held(leases)
  BY DEF Held, Dropped, Stale
<1>3. Cardinality(Held(Dropped(leases))) <= Cardinality(Held(leases))
  BY <1>2, HeldFinite, FS_Subset
<1>4. Cardinality(Held(Dropped(leases))) <= Cap
  BY <1>3, HeldFinite, CapType
<1> QED
  BY <1>1, <1>2, <1>4

\* Every admit and prune continues from settled leases and line.
LEMMA KeptSettled ==
  ASSUME Settled(lease, waiting)
  PROVE  Settled(Kept, Line)
BY DroppedPromotable, PromotionSettles DEF Settled, Kept, Line

\* Taking a rental out of a line keeps the order and the others.
LEMMA WithoutProperties ==
  ASSUME NEW line \in Seq(Rentals), Distinct(line), NEW r \in Rentals
  PROVE  /\ Without(line, r) \in Seq(Rentals)
         /\ Distinct(Without(line, r))
         /\ Members(Without(line, r)) \subseteq Members(line) \ {r}
<1>1. Len(line) \in Nat /\ DOMAIN line = 1..Len(line)
  BY LenProperties
<1>2. CASE r \notin Members(line)
  BY <1>2 DEF Without
<1>3. CASE r \in Members(line)
  <2> DEFINE p == PlaceOf(r, line)
             w == [i \in 1..(Len(line) - 1) |-> IF i < p THEN line[i] ELSE line[i + 1]]
  <2>1. p \in 1..Len(line) /\ line[p] = r
    BY <1>1, <1>3 DEF PlaceOf, Members
  <2>2. Without(line, r) = w
    BY <1>3 DEF Without
  <2>3. w \in [1..(Len(line) - 1) -> Rentals]
    BY <1>1, ElementOfSeq
  <2>4. w \in Seq(Rentals) /\ DOMAIN w = 1..(Len(line) - 1)
    BY <1>1, <2>1, <2>3, IsASeq
  <2>5. \A i \in DOMAIN w :
           \E k \in DOMAIN line : /\ w[i] = line[k] /\ k # p
                                 /\ k = IF i < p THEN i ELSE i + 1
    BY <1>1, <2>1, <2>4
  <2> HIDE DEF w, p
  <2>6. Distinct(w)
    BY <1>1, <2>1, <2>4, <2>5 DEF Distinct
  <2>7. Members(w) \subseteq Members(line) \ {r}
    BY <1>1, <2>1, <2>5 DEF Members, Distinct
  <2> QED
    BY <2>2, <2>4, <2>6, <2>7
<1> QED
  BY <1>2, <1>3

\* Forgetting promises leaves promises.
LEMMA ForgetType ==
  ASSUME NEW promise \in [Rentals -> [position : Nat, left : Nat]], NEW line
  PROVE  Forget(promise, line) \in [Rentals -> [position : Nat, left : Nat]]
BY DEF Forget, NotTold

\* The promises told to the waiting rentals are pairs of numbers.
LEMMA ToldType ==
  ASSUME NEW promise \in [Rentals -> [position : Nat, left : Nat]], NEW line,
         NEW leases, NEW r \in Rentals, line \in Seq(Rentals)
  PROVE  /\ Forget(promise, line) \in [Rentals -> [position : Nat, left : Nat]]
         /\ r \in Members(line) => PlaceOf(r, line) \in Nat
         /\ EstimatedWait(leases, PlaceOf(r, line)) \in Nat
<1>1. Forget(promise, line) \in [Rentals -> [position : Nat, left : Nat]]
  BY DEF Forget, NotTold
<1>2. r \in Members(line) => PlaceOf(r, line) \in Nat
  BY LenProperties DEF PlaceOf, Members
<1>3. ASSUME NEW n PROVE Remaining(leases, n) \in Nat
  <2> DEFINE D == {d \in 0..(Ttl - 1) :
                     Cardinality({q \in Held(leases) : Ttl - leases[q].age <= d}) < n}
  <2>1. IsFiniteSet(0..(Ttl - 1))
    BY StreamAssumption, FS_Interval
  <2>2. D \in SUBSET (0..(Ttl - 1))
    OBVIOUS
  <2> HIDE DEF D
  <2>3. Cardinality(D) \in Nat
    BY <2>1, <2>2, FS_Subset, FS_CardinalityType
  <2> QED
    BY <2>3 DEF Remaining, D
<1>4. EstimatedWait(leases, PlaceOf(r, line)) \in Nat
  BY <1>3, StreamAssumption DEF EstimatedWait, Most, Least
<1> QED
  BY <1>1, <1>2, <1>4

--------------------------------------------------------------------------------
(* The inductive invariant, one lemma per method *)

ToldOK == told \in [Rentals -> [position : Nat, left : Nat]]

\* Writing settled leases and line, and publishing, is all that is left to do.
LEMMA StoreKeepsIInv ==
  ASSUME IInv, NEW leases, NEW line, Settled(leases, line), Store(leases, line), ToldOK'
  PROVE  IInv'
<1> USE DEF IInv, Settled, Promotable, Leases, Store, ToldOK
<1>1. TypeOK'
  <2>1. busy' \in BOOLEAN
    BY Zenon
  <2>2. lease' \in Leases /\ waiting' \in Seq(Rentals) /\ adminSlots' \subseteq Bays
    BY DEF TypeOK
  <2> QED
    BY <2>1, <2>2, Zenon DEF TypeOK
<1>2. Settled(lease, waiting)'
  BY DEF Held, Members, Distinct, Cap
<1>3. BusyTruthful'
  BY Zenon DEF BusyTruthful, Held
<1> QED
  BY <1>1, <1>2, <1>3, Zenon

\* A change inside a lease that stays a lease changes nobody's right to it.
LEMMA TouchSettled ==
  ASSUME NEW leases, NEW line, Settled(leases, line), NEW r \in Rentals, NEW l \in Lease
  PROVE  leases[r] # NoLease => Settled([leases EXCEPT ![r] = l], line)
<1> SUFFICES ASSUME leases[r] # NoLease
             PROVE  Settled([leases EXCEPT ![r] = l], line)
  OBVIOUS
<1>1. [leases EXCEPT ![r] = l] \in Leases
  BY DEF Settled, Promotable, Leases
<1>2. Held([leases EXCEPT ![r] = l]) = Held(leases)
  BY NoLeaseAssumption DEF Held, Settled, Promotable, Leases
<1> QED
  BY <1>1, <1>2 DEF Settled, Promotable

\* A holder's poll or claim only resets the quiet time of its lease.
LEMMA AdmitHolderKeepsIInv ==
  ASSUME IInv, NEW r \in Rentals, AdmitHolder(r)
  PROVE  IInv'
<1>1. Settled(Kept, Line)
  BY KeptSettled DEF IInv
<1>2. Kept[r] \in Lease
  BY <1>1 DEF AdmitHolder, Settled, Promotable, Leases
<1>3. 0 \in 0..Idle
  BY StreamAssumption
<1>4. [Kept[r] EXCEPT !.quiet = 0] \in Lease
  BY <1>2, <1>3 DEF Lease
<1>5. [Kept EXCEPT ![r].quiet = 0] = [Kept EXCEPT ![r] = [Kept[r] EXCEPT !.quiet = 0]]
  OBVIOUS
<1>6. Settled([Kept EXCEPT ![r].quiet = 0], Line)
  BY <1>1, <1>4, <1>5, TouchSettled DEF AdmitHolder
<1>7. ToldOK'
  BY <1>1, ToldType DEF AdmitHolder, ToldOK, IInv, TypeOK, Settled, Promotable
<1> QED
  BY <1>6, <1>7, StoreKeepsIInv DEF AdmitHolder

\* What Tell records is a place and a time.
LEMMA TellType ==
  ASSUME ToldOK, NEW leases, NEW line \in Seq(Rentals), NEW r \in Members(line)
  PROVE  Tell(r, leases, line) \in [Rentals -> [position : Nat, left : Nat]]
<1>1. r \in Rentals
  BY ElementOfSeq, LenProperties DEF Members
<1>2. /\ Forget(told, line) \in [Rentals -> [position : Nat, left : Nat]]
      /\ PlaceOf(r, line) \in Nat
      /\ EstimatedWait(leases, PlaceOf(r, line)) \in Nat
  BY <1>1, ToldType DEF ToldOK
<1> QED
  BY <1>1, <1>2 DEF Tell

\* A waiter's poll prunes, promotes and quotes its place again.
LEMMA AdmitWaiterKeepsIInv ==
  ASSUME IInv, NEW r \in Rentals, AdmitWaiter(r)
  PROVE  IInv'
<1>1. Settled(Kept, Line)
  BY KeptSettled DEF IInv
<1>2. ToldOK'
  BY <1>1, TellType DEF AdmitWaiter, ToldOK, IInv, TypeOK, Settled, Promotable
<1> QED
  BY <1>1, <1>2, StoreKeepsIInv DEF AdmitWaiter

\* A poll that finds room prunes and promotes, and takes no lease.
LEMMA AdmitUntrackedKeepsIInv ==
  ASSUME IInv, NEW r \in Rentals, AdmitUntracked(r)
  PROVE  IInv'
<1>1. Settled(Kept, Line)
  BY KeptSettled DEF IInv
<1>2. ToldOK'
  BY <1>1, ToldType DEF AdmitUntracked, ToldOK, IInv, TypeOK, Settled, Promotable
<1> QED
  BY <1>1, <1>2, StoreKeepsIInv DEF AdmitUntracked

\* With room nobody waits, so the new lease is the only change.
LEMMA AdmitClaimKeepsIInv ==
  ASSUME IInv, NEW r \in Rentals, AdmitClaim(r)
  PROVE  IInv'
<1> DEFINE L == [Kept EXCEPT ![r] = NewLease(FALSE)]
<1>1. Settled(Kept, Line)
  BY KeptSettled DEF IInv
<1>2. Line = <<>> /\ Cardinality(Held(Kept)) < Cap /\ r \notin Held(Kept)
  BY <1>1, HeldFinite, CapType DEF AdmitClaim, Newcomer, HasRoom, Settled, Held
<1>3. NewLease(FALSE) \in Lease /\ NewLease(FALSE) # NoLease
  BY NewLeaseType
<1>4. L \in Leases /\ Held(L) = Held(Kept) \cup {r}
  BY <1>1, <1>3 DEF Settled, Promotable, Leases, Held
<1>5. Cardinality(Held(L)) <= Cap
  <2>1. Cardinality(Held(Kept) \cup {r}) = Cardinality(Held(Kept)) + 1
    BY <1>2, HeldFinite, FS_AddElement
  <2>2. Cardinality(Held(Kept)) + 1 <= Cap
    BY <1>2, HeldFinite, CapType
  <2>3. Held(L) = Held(Kept) \cup {r}
    BY <1>4
  <2> QED
    BY <2>1, <2>2, <2>3, Zenon
<1>6. Members(Line) = {}
  BY <1>2 DEF Members
<1>7. Settled(L, Line)
  BY <1>1, <1>2, <1>4, <1>5, <1>6 DEF Settled, Promotable
<1>8. ToldOK'
  BY <1>1, ToldType DEF AdmitClaim, ToldOK, IInv, TypeOK, Settled, Promotable
<1> QED
  BY <1>7, <1>8, StoreKeepsIInv DEF AdmitClaim

\* A rental is appended when every lease is taken and it is not in line yet.
LEMMA AdmitEnqueueKeepsIInv ==
  ASSUME IInv, NEW r \in Rentals, AdmitEnqueue(r)
  PROVE  IInv'
<1> DEFINE A == Append(Line, r)
<1>1. Settled(Kept, Line)
  BY KeptSettled DEF IInv
<1>2. Line \in Seq(Rentals) /\ Distinct(Line) /\ r \notin Members(Line) /\ Kept[r] = NoLease
  BY <1>1 DEF AdmitEnqueue, Newcomer, Settled, Promotable
<1>3. Len(Line) \in Nat /\ DOMAIN Line = 1..Len(Line)
  BY <1>2, LenProperties
<1>4. /\ A \in Seq(Rentals)
      /\ Len(A) = Len(Line) + 1
      /\ \A i \in 1..Len(Line) : A[i] = Line[i]
      /\ A[Len(Line) + 1] = r
  BY <1>2, AppendProperties
<1>5. DOMAIN A = 1..(Len(Line) + 1)
  BY <1>4, LenProperties
<1> HIDE DEF A
<1>6. Members(A) = Members(Line) \cup {r}
  BY <1>3, <1>4, <1>5 DEF Members
<1>7. Distinct(A)
  <2>1. \A i \in 1..Len(Line) : A[i] \in Members(Line)
    BY <1>3, <1>4 DEF Members
  <2> QED
    BY <1>2, <1>3, <1>4, <1>5, <2>1 DEF Distinct
<1>8. Held(Kept) \cap Members(A) = {}
  BY <1>1, <1>2, <1>6 DEF Held, Settled, Promotable
<1>9. Cardinality(Held(Kept)) = Cap
  BY <1>1, HeldFinite, CapType DEF AdmitEnqueue, HasRoom, Settled, Promotable
<1>10. Settled(Kept, A)
  BY <1>1, <1>4, <1>7, <1>8, <1>9 DEF Settled, Promotable
<1>11. ToldOK'
  BY <1>4, <1>6, TellType DEF AdmitEnqueue, ToldOK, IInv, TypeOK, A
<1> QED
  BY <1>10, <1>11, StoreKeepsIInv DEF AdmitEnqueue, A

\* A release frees one lease or place and promotes what now fits.
LEMMA ReleaseKeepsIInv ==
  ASSUME IInv, NEW r \in Rentals, Release(r)
  PROVE  IInv'
<1> DEFINE kept == [lease EXCEPT ![r] = NoLease]
           line == Without(waiting, r)
<1>1. Promotable(lease, waiting)
  BY DEF IInv, Settled
<1>2. line \in Seq(Rentals) /\ Distinct(line) /\ Members(line) \subseteq Members(waiting) \ {r}
  BY <1>1, WithoutProperties DEF Promotable
<1>3. kept \in Leases /\ Held(kept) \subseteq Held(lease)
  BY <1>1 DEF Promotable, Leases, Held
<1>4. Cardinality(Held(kept)) <= Cap
  <2>1. Cardinality(Held(kept)) <= Cardinality(Held(lease))
    BY <1>3, HeldFinite, FS_Subset
  <2> QED
    BY <1>1, <2>1, HeldFinite, CapType DEF Promotable
<1>5. Promotable(kept, line)
  BY <1>1, <1>2, <1>3, <1>4 DEF Promotable
<1>6. Settled(Granted(kept, line), Rest(kept, line))
  BY <1>5, PromotionSettles
<1>7. ToldOK'
  BY <1>6, ToldType DEF Release, ToldOK, IInv, TypeOK, Settled, Promotable
<1> QED
  BY <1>6, <1>7, StoreKeepsIInv DEF Release

\* The two readers prune and promote.
LEMMA PruneKeepsIInv ==
  ASSUME IInv, Prune
  PROVE  IInv'
<1>1. Settled(Kept, Line)
  BY KeptSettled DEF IInv
<1>2. ToldOK'
  BY <1>1, ForgetType DEF Prune, ToldOK, IInv, TypeOK, Settled, Promotable
<1> QED
  BY <1>1, <1>2, StoreKeepsIInv DEF Prune

\* mark_prepared and the clock change leases from within: the holders, the
\* line and the published flag stay.
LEMMA SameHoldersKeepIInv ==
  ASSUME IInv, lease' \in Leases, Held(lease') = Held(lease), ToldOK',
         UNCHANGED <<waiting, adminSlots, busy>>
  PROVE  IInv'
<1>1. TypeOK'
  BY DEF IInv, TypeOK, ToldOK, Leases
<1>2. Settled(lease, waiting)'
  <2>1. Settled(lease', waiting)
    BY DEF IInv, Settled, Promotable
  <2> QED
    BY <2>1
<1>3. Held(lease)' = Held(lease)
  BY DEF Held
<1>4. BusyTruthful'
  BY <1>3, Zenon DEF IInv, BusyTruthful
<1> QED
  BY <1>1, <1>2, <1>4, Zenon DEF IInv

\* mark_prepared changes a lease that is held, and nobody's holding.
LEMMA MarkPreparedKeepsIInv ==
  ASSUME IInv, NEW r \in Rentals, MarkPrepared(r)
  PROVE  IInv'
<1> DEFINE l == [lease[r] EXCEPT !.prepared = TRUE, !.needsGrant = FALSE, !.quiet = 0]
<1>1. lease \in Leases /\ lease[r] \in Lease
  BY DEF IInv, TypeOK, Leases, MarkPrepared
<1>2. 0 \in 0..Idle
  BY StreamAssumption
<1>3. l \in Lease
  BY <1>1, <1>2, Zenon DEF Lease
<1>4. lease' = [lease EXCEPT ![r] = l]
  BY DEF MarkPrepared
<1> HIDE DEF l
<1>5. l # NoLease
  BY <1>3, NoLeaseAssumption
<1>6. lease' \in Leases /\ Held(lease') = Held(lease)
  BY <1>1, <1>3, <1>4, <1>5 DEF Leases, Held, MarkPrepared
<1>7. ToldOK'
  BY DEF MarkPrepared, IInv, TypeOK, ToldOK
<1> QED
  BY <1>6, <1>7, SameHoldersKeepIInv DEF MarkPrepared

\* The clock ages leases and takes none.
LEMMA TickKeepsIInv ==
  ASSUME IInv, Tick
  PROVE  IInv'
<1>1. lease \in Leases
  BY DEF IInv, TypeOK, Leases
<1>2. ASSUME NEW l \in Lease
      PROVE  [l EXCEPT !.age = Least(@ + 1, Ttl), !.quiet = Least(@ + 1, Idle)] \in Lease
  <2>1. Least(l.age + 1, Ttl) \in 0..Ttl /\ Least(l.quiet + 1, Idle) \in 0..Idle
    BY <1>2, StreamAssumption DEF Lease, Least
  <2> QED
    BY <2>1, <1>2, Zenon DEF Lease
<1>3. lease' \in Leases /\ Held(lease') = Held(lease)
  BY <1>1, <1>2, NoLeaseAssumption DEF Leases, Held, Tick
<1>4. ToldOK'
  <2>1. \A n \in Nat : Most(n - 1, 0) \in Nat
    BY DEF Most
  <2>2. \A r \in Rentals : [told[r] EXCEPT !.left = Most(@ - 1, 0)] \in [position : Nat, left : Nat]
    BY <2>1 DEF IInv, TypeOK
  <2> QED
    BY <2>2 DEF Tick, ToldOK
<1> QED
  BY <1>3, <1>4, SameHoldersKeepIInv DEF Tick

\* Marking a bay changes the published flag with the set it is about.
LEMMA MarkAdminKeepsIInv ==
  ASSUME IInv, NEW bay \in Bays, NEW active \in BOOLEAN, MarkAdmin(bay, active)
  PROVE  IInv'
<1>1. adminSlots' \subseteq Bays
  BY DEF IInv, TypeOK, MarkAdmin
<1>2. TypeOK'
  BY <1>1, Zenon DEF IInv, TypeOK, MarkAdmin
<1>3. Settled(lease, waiting)'
  BY DEF IInv, Settled, Promotable, Leases, Members, Distinct, Cap, Held, MarkAdmin
<1>4. BusyTruthful'
  BY Zenon DEF BusyTruthful, Held, MarkAdmin
<1> QED
  BY <1>2, <1>3, <1>4, Zenon DEF IInv

\* Initially nobody watches and nobody waits.
LEMMA InitIInv == Init => IInv
<1> SUFFICES ASSUME Init PROVE IInv
  OBVIOUS
<1>1. Held(lease) = {}
  BY DEF Held, Init
<1>2. Cardinality(Held(lease)) <= Cap
  BY <1>1, FS_EmptySet, CapType
<1>3. waiting = <<>> /\ waiting \in Seq(Rentals) /\ Distinct(waiting)
  BY EmptySeq DEF Init, Distinct
<1>4. TypeOK
  BY <1>3 DEF Init, TypeOK, NotTold
<1>5. Settled(lease, waiting)
  BY <1>1, <1>2, <1>3 DEF Init, Settled, Promotable, Leases
<1>6. BusyTruthful
  BY <1>1 DEF Init, BusyTruthful
<1> QED
  BY <1>4, <1>5, <1>6 DEF IInv

\* Every step of the queue keeps the invariant.
LEMMA NextKeepsIInv == IInv /\ [Next]_vars => IInv'
<1> SUFFICES ASSUME IInv, [Next]_vars PROVE IInv'
  OBVIOUS
<1>1. ASSUME NEW r \in Rentals, AdmitHolder(r) PROVE IInv'
  BY <1>1, AdmitHolderKeepsIInv
<1>2. ASSUME NEW r \in Rentals, AdmitWaiter(r) PROVE IInv'
  BY <1>2, AdmitWaiterKeepsIInv
<1>3. ASSUME NEW r \in Rentals, AdmitUntracked(r) PROVE IInv'
  BY <1>3, AdmitUntrackedKeepsIInv
<1>4. ASSUME NEW r \in Rentals, AdmitClaim(r) PROVE IInv'
  BY <1>4, AdmitClaimKeepsIInv
<1>5. ASSUME NEW r \in Rentals, AdmitEnqueue(r) PROVE IInv'
  BY <1>5, AdmitEnqueueKeepsIInv
<1>6. ASSUME NEW r \in Rentals, MarkPrepared(r) PROVE IInv'
  BY <1>6, MarkPreparedKeepsIInv
<1>7. ASSUME NEW r \in Rentals, Release(r) PROVE IInv'
  BY <1>7, ReleaseKeepsIInv
<1>8. ASSUME NEW bay \in Bays, NEW active \in BOOLEAN, MarkAdmin(bay, active) PROVE IInv'
  BY <1>8, MarkAdminKeepsIInv
<1>9. CASE Prune
  BY <1>9, PruneKeepsIInv
<1>10. CASE Tick
  BY <1>10, TickKeepsIInv
<1>11. CASE UNCHANGED vars
  BY <1>11 DEF vars, IInv, TypeOK, Settled, Promotable, Leases, Members,
               Distinct, Cap, Held, BusyTruthful
<1> QED
  BY <1>1, <1>2, <1>3, <1>4, <1>5, <1>6, <1>7, <1>8, <1>9, <1>10, <1>11 DEF Next

--------------------------------------------------------------------------------
(* Theorems *)

\* The strengthened invariant holds of every behaviour of the queue.
THEOREM InductiveInvariant == Spec => []IInv
  BY InitIInv, NextKeepsIInv, PTL DEF Spec

\* Cap, places, work and flag together, in every reachable state.
THEOREM QueueStaysInOrder == Spec => []QueueInv
<1>1. IInv => QueueInv
  BY DEF IInv, Settled, Promotable, QueueInv, LeaseCap, OnePlace, Distinct, WorkConserving
<1> QED
  BY <1>1, InductiveInvariant, PTL

\* Every variable of the queue keeps its type.
THEOREM TypeCorrect == Spec => []TypeOK
<1>1. IInv => TypeOK
  BY DEF IInv
<1> QED
  BY <1>1, InductiveInvariant, PTL

\* At most max_concurrent leases exist, for every number of rentals, leases
\* and ticks: no interleaving of claims, prunes and releases hands out more.
THEOREM AtMostCapLeases == Spec => []LeaseCap
<1>1. IInv => LeaseCap
  BY DEF IInv, Settled, Promotable, LeaseCap
<1> QED
  BY <1>1, InductiveInvariant, PTL

\* A rental is in one place: in line once, or holding a lease, or neither.
THEOREM EveryRentalInOnePlace == Spec => []OnePlace
<1>1. IInv => OnePlace
  BY DEF IInv, Settled, Promotable, OnePlace, Distinct
<1> QED
  BY <1>1, InductiveInvariant, PTL

\* A rental waits only while all leases are taken.
THEOREM NobodyWaitsForAFreeLease == Spec => []WorkConserving
<1>1. IInv => WorkConserving
  BY DEF IInv, Settled, WorkConserving
<1> QED
  BY <1>1, InductiveInvariant, PTL

\* The flag that slows the farm snapshots down agrees with the queue.
THEOREM PublishedFlagTruthful == Spec => []BusyTruthful
<1>1. IInv => BusyTruthful
  BY DEF IInv
<1> QED
  BY <1>1, InductiveInvariant, PTL

--------------------------------------------------------------------------------
(* The promised time *)

\* The leases that end within the given time
Due(leases, left) == {h \in Held(leases) : Ttl - leases[h].age <= left}

\* Whoever stands in line has as many leases before it as its place says that
\* end within what is left of the promised time.
PromiseSafe(leases, line, promise) ==
    \A i \in DOMAIN line :
        promise[line[i]].position \in 1..Cap
            => i <= Cardinality(Due(leases, promise[line[i]].left))

\* The inductive invariant of the promised time, next to IInv
PInv == PromiseSafe(lease, waiting, told)

\* The leases that are due are finitely many holders.
LEMMA DueFinite ==
  ASSUME NEW leases, NEW left
  PROVE  /\ Due(leases, left) \subseteq Held(leases)
         /\ IsFiniteSet(Due(leases, left)) /\ Cardinality(Due(leases, left)) \in Nat
<1>1. Due(leases, left) \subseteq Held(leases)
  BY DEF Due
<1> QED
  BY <1>1, HeldFinite, FS_Subset, FS_CardinalityType

\* More leases, or more time, let no fewer of them be due.
LEMMA DueGrows ==
  ASSUME NEW leases, NEW left, NEW others, NEW longer,
         Due(leases, left) \subseteq Due(others, longer)
  PROVE  Cardinality(Due(leases, left)) <= Cardinality(Due(others, longer))
  BY DueFinite, FS_Subset

\* The time quoted for a place covers the ends of as many leases.
LEMMA EstimateCovers ==
  ASSUME NEW leases \in Leases, NEW i \in 1..Cardinality(Held(leases))
  PROVE  i <= Cardinality(Due(leases, EstimatedWait(leases, i)))
<1> DEFINE few == {d \in 0..(Ttl - 1) : Cardinality(Due(leases, d)) < i}
           D == Remaining(leases, i)
<1>1. Ttl \in Nat /\ MinWait \in Nat /\ Cardinality(Held(leases)) \in Nat \ {0} /\ i \in Nat
  BY StreamAssumption, HeldFinite
<1>2. \A h \in Held(leases) : leases[h].age \in 0..Ttl
  BY DEF Held, Leases, Lease
<1>3. ASSUME NEW d \in Int, NEW e \in Int, d <= e
      PROVE  Cardinality(Due(leases, d)) <= Cardinality(Due(leases, e))
  <2>1. Due(leases, d) \subseteq Due(leases, e)
    BY <1>1, <1>2, <1>3 DEF Due
  <2> QED
    BY <2>1, DueGrows
<1>4. D = Cardinality(few)
  BY DEF Remaining, Due
<1>5. IsFiniteSet(0..(Ttl - 1)) /\ Cardinality(0..(Ttl - 1)) = Ttl
  <2>1. 0 \in Int /\ Ttl - 1 \in Int
    BY <1>1
  <2>2. /\ IsFiniteSet(0..(Ttl - 1))
        /\ Cardinality(0..(Ttl - 1)) = IF 0 > Ttl - 1 THEN 0 ELSE (Ttl - 1) - 0 + 1
    BY <2>1, FS_Interval
  <2> QED
    BY <1>1, <2>2
<1>6. IsFiniteSet(few) /\ Cardinality(few) \in Nat /\ Cardinality(few) <= Ttl
  <2>1. few \subseteq 0..(Ttl - 1)
    OBVIOUS
  <2> HIDE DEF few
  <2> QED
    BY <1>5, <2>1, FS_Subset, FS_CardinalityType
<1>7. i <= Cardinality(Due(leases, D))
  <2> SUFFICES ASSUME Cardinality(Due(leases, D)) < i
               PROVE  FALSE
    BY <1>1, DueFinite
  <2>1. CASE D < Ttl
    <3>1. D \in 0..(Ttl - 1)
      BY <1>1, <1>4, <1>6, <2>1
    <3>2. \A d \in 0..D : d \in few
      <4> SUFFICES ASSUME NEW d \in 0..D PROVE d \in few
        OBVIOUS
      <4>1. Cardinality(Due(leases, d)) <= Cardinality(Due(leases, D))
        BY <1>3, <3>1
      <4>2. Cardinality(Due(leases, d)) \in Nat /\ Cardinality(Due(leases, D)) \in Nat
        BY DueFinite
      <4>3. Cardinality(Due(leases, d)) < i
        BY <1>1, <4>1, <4>2
      <4>4. d \in 0..(Ttl - 1)
        BY <1>1, <3>1
      <4> QED
        BY <4>3, <4>4
    <3> HIDE DEF D, few
    <3>3. 0..D \subseteq few
      BY <3>2
    <3>4. IsFiniteSet(0..D) /\ Cardinality(0..D) = D + 1
      BY <3>1, <1>1, FS_Interval
    <3>5. Cardinality(0..D) <= Cardinality(few)
      BY <1>6, <3>3, FS_Subset
    <3> QED
      BY <1>4, <1>6, <3>4, <3>5
  <2>2. CASE D = Ttl
    <3>1. Due(leases, Ttl) = Held(leases)
      BY <1>1, <1>2 DEF Due
    <3> QED
      BY <1>1, <2>2, <3>1
  <2> QED
    BY <1>1, <1>4, <1>6, <2>1, <2>2
<1> HIDE DEF D, few
<1>8. D \in Nat /\ D <= Ttl
  BY <1>4, <1>6
<1>9. EstimatedWait(leases, i) \in Nat /\ D <= EstimatedWait(leases, i)
  <2>1. Least(i, Cardinality(Held(leases))) = i /\ Cardinality(Held(leases)) # 0
    BY <1>1 DEF Least
  <2>2. EstimatedWait(leases, i) = Most(MinWait, Least(Ttl, D))
    BY <2>1 DEF EstimatedWait, D
  <2> QED
    BY <1>1, <1>8, <2>2 DEF Most, Least
<1>10. Cardinality(Due(leases, D)) <= Cardinality(Due(leases, EstimatedWait(leases, i)))
  BY <1>3, <1>8, <1>9
<1> QED
  BY <1>1, <1>7, <1>10, DueFinite

\* Leases that end or are given back move everybody up as they are given on.
LEMMA PromotionKeepsPromise ==
  ASSUME NEW before, NEW queue, Settled(before, queue),
         NEW leases, NEW line, Promotable(leases, line),
         Held(leases) \subseteq Held(before),
         \A h \in Held(leases) : leases[h] = before[h],
         \A i \in DOMAIN line : \E k \in DOMAIN queue : i <= k /\ line[i] = queue[k],
         NEW promise, PromiseSafe(before, queue, promise)
  PROVE  PromiseSafe(Granted(leases, line), Rest(leases, line), promise)
<1> DEFINE n == Promotions(leases, line)
           G == Granted(leases, line)
           R == Rest(leases, line)
<1> SUFFICES ASSUME NEW i \in DOMAIN R, promise[R[i]].position \in 1..Cap
             PROVE  i <= Cardinality(Due(G, promise[R[i]].left))
  BY DEF PromiseSafe
<1>1. /\ line \in Seq(Rentals) /\ queue \in Seq(Rentals) /\ leases \in Leases
      /\ Cardinality(Held(leases)) <= Cap /\ Held(leases) \cap Members(line) = {}
  BY DEF Settled, Promotable
<1>2. /\ i + n \in DOMAIN line /\ R[i] = line[i + n]
      /\ R \in Seq(Rentals) /\ Len(R) = Len(line) - n
  BY <1>1, RestProperties
<1>3. /\ n \in Nat /\ n \in 0..Len(line) /\ Len(line) \in Nat
      /\ n < Len(line) => Cardinality(Held(leases)) + n = Cap
  BY <1>1, PromotionsBound, LenProperties
<1>4. i \in 1..Len(R) /\ Len(R) \in Nat
  BY <1>2, LenProperties
<1>5. PICK k \in DOMAIN queue : i + n <= k /\ R[i] = queue[k]
  BY <1>2
<1>6. k \in Nat /\ queue # <<>>
  BY <1>1, <1>5, LenProperties, EmptySeq
<1> DEFINE left == promise[R[i]].left
           old == Due(before, left)
           gone == Held(before) \ Held(leases)
<1> HIDE DEF n, G, R
<1>7. k <= Cardinality(old)
  BY <1>5 DEF PromiseSafe
<1>8. IsFiniteSet(gone) /\ Cardinality(gone) = n
  <2>1. Held(before) \cap Held(leases) = Held(leases)
    OBVIOUS
  <2>2. /\ IsFiniteSet(Held(before) \ Held(leases))
        /\ Cardinality(Held(before) \ Held(leases))
             = Cardinality(Held(before)) - Cardinality(Held(before) \cap Held(leases))
    BY HeldFinite, FS_Difference
  <2>3. Cardinality(Held(before)) = Cap /\ Cardinality(Held(leases)) + n = Cap
    BY <1>2, <1>3, <1>4, <1>6 DEF Settled
  <2>4. Cardinality(Held(leases)) \in Nat /\ Cardinality(Held(before)) \in Nat
    BY HeldFinite
  <2>5. /\ IsFiniteSet(gone)
        /\ Cardinality(gone) = Cardinality(Held(before)) - Cardinality(Held(leases))
    BY <2>1, <2>2
  <2> HIDE DEF gone
  <2> QED
    BY <1>3, <2>3, <2>4, <2>5
<1>9. old \ gone \subseteq Due(G, left)
  <2>1. Held(G) = Held(leases) \cup Promoted(leases, line)
        /\ Promoted(leases, line) \subseteq Members(line)
    BY <1>1, GrantedHeld DEF G
  <2>2. \A h \in Held(leases) : G[h] = before[h]
    BY <1>1, <2>1 DEF G, Granted, Held
  <2>3. old \ gone \subseteq Held(leases)
    BY DEF Due
  <2> QED
    BY <2>1, <2>2, <2>3 DEF Due
<1> HIDE DEF left
<1>10. IsFiniteSet(old) /\ Cardinality(old) \in Nat
  BY DueFinite
<1> HIDE DEF old, gone
<1>11. /\ IsFiniteSet(old \ gone) /\ Cardinality(old \ gone) \in Nat
       /\ Cardinality(old \ gone) = Cardinality(old) - Cardinality(old \cap gone)
  BY <1>10, FS_Difference, FS_CardinalityType
<1>12. Cardinality(old \cap gone) <= n /\ Cardinality(old \cap gone) \in Nat
  <2>1. old \cap gone \subseteq gone
    OBVIOUS
  <2> QED
    BY <1>8, <2>1, FS_Subset, FS_CardinalityType
<1>13. Cardinality(old \ gone) <= Cardinality(Due(G, left))
  BY <1>9, DueFinite, FS_Subset
<1>14. Cardinality(Due(G, left)) \in Nat
  BY DueFinite
<1>15. i <= Cardinality(Due(G, left))
  BY <1>3, <1>4, <1>5, <1>6, <1>7, <1>10, <1>11, <1>12, <1>13, <1>14
<1> QED
  BY <1>15 DEF left

\* Every admit and prune continues from promises that are kept.
LEMMA KeptPromise ==
  ASSUME IInv, PInv
  PROVE  PromiseSafe(Kept, Line, told)
<1>1. Settled(lease, waiting) /\ Promotable(Dropped(lease), waiting)
  BY DroppedPromotable DEF IInv, Settled
<1>2. /\ Held(Dropped(lease)) \subseteq Held(lease)
      /\ \A h \in Held(Dropped(lease)) : Dropped(lease)[h] = lease[h]
  BY DEF Held, Dropped, Stale
<1>3. \A i \in DOMAIN waiting : i <= i
  BY <1>1, LenProperties DEF Settled, Promotable
<1> QED
  BY <1>1, <1>2, <1>3, PromotionKeepsPromise DEF PInv, Kept, Line

\* Promises survive what changes no holder and no end of a lease.
LEMMA PromiseCarries ==
  ASSUME NEW leases, NEW line, NEW promise, PromiseSafe(leases, line, promise),
         NEW others, NEW told2, Held(others) = Held(leases),
         \A h \in Held(leases) : others[h].age = leases[h].age,
         \A i \in DOMAIN line : told2[line[i]] = promise[line[i]]
  PROVE  PromiseSafe(others, line, told2)
<1>1. ASSUME NEW left PROVE Due(others, left) = Due(leases, left)
  BY DEF Due
<1> QED
  BY <1>1 DEF PromiseSafe

\* What the rentals in line were told is not forgotten.
LEMMA ForgetKeeps ==
  ASSUME NEW line \in Seq(Rentals), NEW i \in DOMAIN line, NEW promise
  PROVE  Forget(promise, line)[line[i]] = promise[line[i]] /\ line[i] \in Rentals
<1>1. line[i] \in Rentals /\ line[i] \in Members(line)
  BY ElementOfSeq, LenProperties DEF Members
<1> QED
  BY <1>1 DEF Forget

\* The answer that quotes a place is a promise that is kept.
LEMMA TellPromise ==
  ASSUME IInv, NEW leases, NEW line, Settled(leases, line), NEW r \in Members(line),
         \A i \in DOMAIN line :
            line[i] # r /\ told[line[i]].position \in 1..Cap
               => i <= Cardinality(Due(leases, told[line[i]].left))
  PROVE  PromiseSafe(leases, line, Tell(r, leases, line))
<1> DEFINE T == Tell(r, leases, line)
           p == PlaceOf(r, line)
<1>1. line \in Seq(Rentals) /\ Distinct(line) /\ leases \in Leases /\ line # <<>>
  BY DEF Settled, Promotable, Members
<1>2. p \in DOMAIN line /\ line[p] = r /\ DOMAIN line = 1..Len(line)
      /\ (\A i \in DOMAIN line : line[i] = r => i = p)
  BY <1>1, LenProperties DEF PlaceOf, Members, Distinct
<1>3. r \in Rentals /\ Cardinality(Held(leases)) = Cap
  BY <1>1, <1>2, ElementOfSeq DEF Settled
<1>4. /\ T[r] = [position |-> p, left |-> EstimatedWait(leases, p)]
      /\ \A q \in Rentals : q # r => T[q] = Forget(told, line)[q]
  BY <1>3 DEF Tell, Forget
<1> HIDE DEF T, p
<1> SUFFICES ASSUME NEW i \in DOMAIN line, T[line[i]].position \in 1..Cap
             PROVE  i <= Cardinality(Due(leases, T[line[i]].left))
  BY DEF PromiseSafe, T
<1>5. CASE line[i] = r
  <2>1. i = p /\ p \in 1..Cardinality(Held(leases)) /\ T[line[i]].left = EstimatedWait(leases, p)
    BY <1>2, <1>3, <1>4, <1>5
  <2> QED
    BY <1>1, <2>1, EstimateCovers
<1>6. CASE line[i] # r
  <2>1. T[line[i]] = told[line[i]]
    BY <1>1, <1>4, <1>6, ForgetKeeps
  <2> QED
    BY <1>6, <2>1
<1> QED
  BY <1>5, <1>6

\* Leases and line are stored with what the waiting rentals were told.
LEMMA StoreKeepsPromise ==
  ASSUME NEW leases, NEW line, Store(leases, line), PromiseSafe(leases, line, told')
  PROVE  PInv'
<1>1. lease' = leases /\ waiting' = line
  BY DEF Store
<1> QED
  BY <1>1 DEF PInv, PromiseSafe, Due, Held, Cap

\* A poll or a claim that leaves the line as the prune has left it
LEMMA AdmitHolderKeepsPromise ==
  ASSUME IInv, PInv, NEW r \in Rentals, AdmitHolder(r)
  PROVE  PInv'
<1> DEFINE L == [Kept EXCEPT ![r].quiet = 0]
<1>1. Settled(Kept, Line) /\ PromiseSafe(Kept, Line, told)
  BY KeptSettled, KeptPromise DEF IInv
<1>2. Store(L, Line) /\ told' = Forget(told, Line) /\ Kept[r] # NoLease
  BY DEF AdmitHolder
<1>3. Kept \in Leases /\ Line \in Seq(Rentals)
  BY <1>1 DEF Settled, Promotable
<1>4. Kept[r] \in Lease /\ 0 \in 0..Idle
  BY <1>2, <1>3, StreamAssumption DEF Leases
<1>5. [Kept[r] EXCEPT !.quiet = 0] \in Lease /\ [Kept[r] EXCEPT !.quiet = 0].age = Kept[r].age
  BY <1>4 DEF Lease
<1>6. /\ Held(L) = Held(Kept)
      /\ \A h \in Held(Kept) : L[h].age = Kept[h].age
  <2>1. L = [Kept EXCEPT ![r] = [Kept[r] EXCEPT !.quiet = 0]]
    OBVIOUS
  <2> QED
    BY <1>2, <1>3, <1>5, <2>1, NoLeaseAssumption DEF Held, Leases
<1> HIDE DEF L
<1>7. \A i \in DOMAIN Line : told'[Line[i]] = told[Line[i]]
  BY <1>2, <1>3, ForgetKeeps
<1>8. PromiseSafe(L, Line, told')
  BY <1>1, <1>6, <1>7, PromiseCarries
<1> QED
  BY <1>2, <1>8, StoreKeepsPromise

\* A waiter is told its place and a time again.
LEMMA AdmitWaiterKeepsPromise ==
  ASSUME IInv, PInv, NEW r \in Rentals, AdmitWaiter(r)
  PROVE  PInv'
<1>1. Settled(Kept, Line) /\ PromiseSafe(Kept, Line, told)
  BY KeptSettled, KeptPromise DEF IInv
<1>2. Store(Kept, Line) /\ told' = Tell(r, Kept, Line) /\ r \in Members(Line)
  BY DEF AdmitWaiter
<1>3. PromiseSafe(Kept, Line, Tell(r, Kept, Line))
  BY <1>1, <1>2, TellPromise DEF PromiseSafe
<1> QED
  BY <1>2, <1>3, StoreKeepsPromise

\* A poll with room, and the two readers, leave what the prune has left.
LEMMA PruneKeepsPromise ==
  ASSUME IInv, PInv, Store(Kept, Line), told' = Forget(told, Line)
  PROVE  PInv'
<1>1. Settled(Kept, Line) /\ PromiseSafe(Kept, Line, told)
  BY KeptSettled, KeptPromise DEF IInv
<1>2. \A i \in DOMAIN Line : told'[Line[i]] = told[Line[i]]
  BY <1>1, ForgetKeeps DEF Settled, Promotable
<1>3. PromiseSafe(Kept, Line, told')
  BY <1>1, <1>2, PromiseCarries
<1> QED
  BY <1>3, StoreKeepsPromise

\* With room for a claim nobody waits.
LEMMA AdmitClaimKeepsPromise ==
  ASSUME IInv, PInv, NEW r \in Rentals, AdmitClaim(r)
  PROVE  PInv'
<1>1. Settled(Kept, Line)
  BY KeptSettled DEF IInv
<1>2. Line = <<>>
  BY <1>1, HeldFinite, CapType DEF AdmitClaim, HasRoom, Settled
<1>3. PromiseSafe([Kept EXCEPT ![r] = NewLease(FALSE)], Line, told')
  BY <1>2 DEF PromiseSafe
<1> QED
  BY <1>3, StoreKeepsPromise DEF AdmitClaim

\* A rental that joins the line changes nobody's place.
LEMMA AdmitEnqueueKeepsPromise ==
  ASSUME IInv, PInv, NEW r \in Rentals, AdmitEnqueue(r)
  PROVE  PInv'
<1> DEFINE A == Append(Line, r)
<1>1. Settled(Kept, Line) /\ PromiseSafe(Kept, Line, told)
  BY KeptSettled, KeptPromise DEF IInv
<1>2. Store(Kept, A) /\ told' = Tell(r, Kept, A)
  BY DEF AdmitEnqueue
<1>3. Settled(Kept, A)
  <2>1. IInv'
    BY AdmitEnqueueKeepsIInv
  <2>2. lease' = Kept /\ waiting' = A
    BY <1>2 DEF Store
  <2> QED
    BY <2>1, <2>2 DEF IInv, Settled, Promotable, Leases, Held, Members, Distinct, Cap
<1>4. Line \in Seq(Rentals)
  BY <1>1 DEF Settled, Promotable
<1>5. /\ DOMAIN Line = 1..Len(Line) /\ Len(Line) \in Nat
      /\ Len(A) = Len(Line) + 1 /\ A \in Seq(Rentals)
      /\ \A i \in 1..Len(Line) : A[i] = Line[i]
      /\ A[Len(Line) + 1] = r
  BY <1>4, LenProperties, AppendProperties
<1>6. DOMAIN A = 1..(Len(Line) + 1)
  BY <1>5, LenProperties
<1> HIDE DEF A
<1>7. r \in Members(A)
  BY <1>5, <1>6 DEF Members
<1>8. \A i \in DOMAIN A :
         A[i] # r /\ told[A[i]].position \in 1..Cap
            => i <= Cardinality(Due(Kept, told[A[i]].left))
  BY <1>1, <1>5, <1>6 DEF PromiseSafe
<1>9. PromiseSafe(Kept, A, Tell(r, Kept, A))
  BY <1>3, <1>7, <1>8, TellPromise
<1> QED
  BY <1>2, <1>9, StoreKeepsPromise

\* A line without a rental is the line, shifted behind it.
LEMMA WithoutShifts ==
  ASSUME NEW line \in Seq(Rentals), Distinct(line), NEW r \in Rentals
  PROVE  \E p \in Nat : \A i \in DOMAIN Without(line, r) :
            LET k == IF i < p THEN i ELSE i + 1
            IN  k \in DOMAIN line /\ Without(line, r)[i] = line[k]
<1>1. Len(line) \in Nat /\ DOMAIN line = 1..Len(line)
  BY LenProperties
<1>2. CASE r \notin Members(line)
  <2>1. /\ Len(line) + 1 \in Nat
        /\ \A i \in DOMAIN Without(line, r) :
              i < Len(line) + 1 /\ i \in DOMAIN line /\ Without(line, r)[i] = line[i]
    BY <1>1, <1>2 DEF Without
  <2> QED
    BY <2>1
<1>3. CASE r \in Members(line)
  <2> DEFINE p == PlaceOf(r, line)
             w == [i \in 1..(Len(line) - 1) |-> IF i < p THEN line[i] ELSE line[i + 1]]
  <2>1. p \in 1..Len(line)
    BY <1>1, <1>3 DEF PlaceOf, Members
  <2>2. Without(line, r) = w
    BY <1>3 DEF Without
  <2>3. \A i \in DOMAIN w :
           LET k == IF i < p THEN i ELSE i + 1 IN k \in DOMAIN line /\ w[i] = line[k]
    BY <1>1, <2>1
  <2>4. p \in Nat
    BY <1>1, <2>1
  <2> HIDE DEF w, p
  <2>5. \A i \in DOMAIN Without(line, r) :
           LET k == IF i < p THEN i ELSE i + 1
           IN  k \in DOMAIN line /\ Without(line, r)[i] = line[k]
    BY <2>2, <2>3
  <2> QED
    BY <2>4, <2>5
<1> QED
  BY <1>2, <1>3

\* What a release promotes from
LEMMA ReleasePromotable ==
  ASSUME IInv, NEW r \in Rentals
  PROVE  LET kept == [lease EXCEPT ![r] = NoLease]
         IN  /\ Promotable(kept, Without(waiting, r))
             /\ Held(kept) \subseteq Held(lease) \ {r}
             /\ \A h \in Held(kept) : kept[h] = lease[h]
             /\ \A q \in Rentals : q # r => kept[q] = lease[q]
<1> DEFINE kept == [lease EXCEPT ![r] = NoLease]
           line == Without(waiting, r)
<1>1. Promotable(lease, waiting)
  BY DEF IInv, Settled
<1>2. line \in Seq(Rentals) /\ Distinct(line) /\ Members(line) \subseteq Members(waiting) \ {r}
  BY <1>1, WithoutProperties DEF Promotable
<1>3. /\ kept \in Leases /\ Held(kept) \subseteq Held(lease) \ {r}
      /\ \A q \in Rentals : q # r => kept[q] = lease[q]
      /\ kept[r] = NoLease
  BY <1>1 DEF Promotable, Leases, Held
<1> HIDE DEF kept, line
<1>4. Cardinality(Held(kept)) <= Cap
  <2>1. Cardinality(Held(kept)) <= Cardinality(Held(lease))
    BY <1>3, HeldFinite, FS_Subset
  <2> QED
    BY <1>1, <2>1, HeldFinite, CapType DEF Promotable
<1>5. Promotable(kept, line)
  BY <1>1, <1>2, <1>3, <1>4 DEF Promotable
<1>6. \A h \in Held(kept) : kept[h] = lease[h]
  BY <1>3 DEF Held
<1> QED
  BY <1>3, <1>5, <1>6 DEF kept, line

\* A release moves up those behind the rental, and promotes as many as it freed.
LEMMA ReleaseKeepsPromise ==
  ASSUME IInv, PInv, NEW r \in Rentals, Release(r)
  PROVE  PInv'
<1> DEFINE kept == [lease EXCEPT ![r] = NoLease]
           line == Without(waiting, r)
<1>1. /\ Promotable(kept, line) /\ Held(kept) \subseteq Held(lease)
      /\ \A h \in Held(kept) : kept[h] = lease[h]
  BY ReleasePromotable
<1>2. /\ Store(Granted(kept, line), Rest(kept, line)) /\ told' = Forget(told, Rest(kept, line))
  BY DEF Release
<1>3. Settled(lease, waiting) /\ waiting \in Seq(Rentals) /\ Distinct(waiting)
  BY DEF IInv, Settled, Promotable
<1>4. \A i \in DOMAIN line : \E k \in DOMAIN waiting : i <= k /\ line[i] = waiting[k]
  <2>1. PICK p \in Nat : \A i \in DOMAIN line :
           LET k == IF i < p THEN i ELSE i + 1 IN k \in DOMAIN waiting /\ line[i] = waiting[k]
    BY <1>3, WithoutShifts
  <2>2. \A i \in DOMAIN line : i \in Nat
    BY <1>1, LenProperties DEF Promotable
  <2> HIDE DEF line
  <2> SUFFICES ASSUME NEW i \in DOMAIN line
               PROVE  \E k \in DOMAIN waiting : i <= k /\ line[i] = waiting[k]
    OBVIOUS
  <2> QED
    BY <2>1, <2>2
<1> HIDE DEF kept, line
<1>5. PromiseSafe(Granted(kept, line), Rest(kept, line), told)
  BY <1>1, <1>3, <1>4, PromotionKeepsPromise DEF PInv
<1>6. Rest(kept, line) \in Seq(Rentals)
  BY <1>1, RestProperties DEF Promotable
<1>7. \A i \in DOMAIN Rest(kept, line) : told'[Rest(kept, line)[i]] = told[Rest(kept, line)[i]]
  BY <1>2, <1>6, ForgetKeeps
<1>8. PromiseSafe(Granted(kept, line), Rest(kept, line), told')
  BY <1>5, <1>7, PromiseCarries
<1> QED
  BY <1>2, <1>8, StoreKeepsPromise

\* A second less to wait, a second less to run
LEMMA TickKeepsPromise ==
  ASSUME IInv, PInv, Tick
  PROVE  PInv'
<1>1. /\ lease \in Leases /\ waiting \in Seq(Rentals)
      /\ told \in [Rentals -> [position : Nat, left : Nat]]
  BY DEF IInv, TypeOK, Leases
<1> SUFFICES ASSUME NEW i \in DOMAIN waiting, told'[waiting[i]].position \in 1..Cap
             PROVE  i <= Cardinality(Due(lease', told'[waiting[i]].left))
  BY DEF PInv, PromiseSafe, Due, Held, Cap, Tick
<1> DEFINE q == waiting[i]
<1>2. q \in Rentals
  BY <1>1, ElementOfSeq, LenProperties
<1>3. /\ told'[q].position = told[q].position /\ told[q].left \in Nat
      /\ told'[q].left = Most(told[q].left - 1, 0)
  BY <1>1, <1>2 DEF Tick
<1> HIDE DEF q
<1>4. Due(lease, told[q].left) \subseteq Due(lease', told'[q].left)
  <2> SUFFICES ASSUME NEW h \in Held(lease), Ttl - lease[h].age <= told[q].left
               PROVE  h \in Held(lease') /\ Ttl - lease'[h].age <= told'[q].left
    BY DEF Due
  <2>1. lease[h] \in Lease /\ h \in Rentals
    BY <1>1 DEF Held, Leases
  <2>2. /\ lease'[h].age = Least(lease[h].age + 1, Ttl)
        /\ lease[h].age \in 0..Ttl
    BY <2>1 DEF Tick, Lease, Held
  <2>3. Ttl - lease'[h].age <= told'[q].left
    BY <1>3, <2>2, StreamAssumption DEF Least, Most
  <2>4. Held(lease') = Held(lease)
    <3>1. ASSUME NEW l \in Lease
          PROVE  [l EXCEPT !.age = Least(@ + 1, Ttl), !.quiet = Least(@ + 1, Idle)] # NoLease
      <4>1. Least(l.age + 1, Ttl) \in 0..Ttl /\ Least(l.quiet + 1, Idle) \in 0..Idle
        BY <3>1, StreamAssumption DEF Lease, Least
      <4>2. [l EXCEPT !.age = Least(@ + 1, Ttl), !.quiet = Least(@ + 1, Idle)] \in Lease
        BY <4>1, <3>1, Zenon DEF Lease
      <4> QED
        BY <4>2, NoLeaseAssumption
    <3> QED
      BY <1>1, <3>1 DEF Leases, Held, Tick
  <2> QED
    BY <2>3, <2>4
<1>5. Cardinality(Due(lease, told[q].left)) <= Cardinality(Due(lease', told'[q].left))
  BY <1>4, DueGrows
<1>6. i <= Cardinality(Due(lease, told[q].left))
  BY <1>3 DEF PInv, PromiseSafe, q
<1>7. i \in Nat
  BY <1>1, LenProperties
<1> QED
  BY <1>5, <1>6, <1>7, DueFinite DEF q

\* mark_prepared and mark_admin change no end and no promise.
LEMMA MarkKeepsPromise ==
  ASSUME IInv, PInv,
         \/ \E r \in Rentals : MarkPrepared(r)
         \/ \E bay \in Bays, active \in BOOLEAN : MarkAdmin(bay, active)
         \/ UNCHANGED vars
  PROVE  PInv'
<1>1. lease \in Leases
  BY DEF IInv, TypeOK, Leases
<1>2. UNCHANGED <<waiting, told>>
  BY DEF MarkPrepared, MarkAdmin, vars
<1>3. /\ Held(lease') = Held(lease)
      /\ \A h \in Held(lease) : lease'[h].age = lease[h].age
  <2>1. CASE UNCHANGED lease
    BY <2>1
  <2>2. ASSUME NEW r \in Rentals, MarkPrepared(r)
        PROVE  /\ Held(lease') = Held(lease)
               /\ \A h \in Held(lease) : lease'[h].age = lease[h].age
    <3> DEFINE l == [lease[r] EXCEPT !.prepared = TRUE, !.needsGrant = FALSE, !.quiet = 0]
    <3>1. lease[r] \in Lease
      BY <1>1, <2>2 DEF MarkPrepared, Leases
    <3>2. 0 \in 0..Idle
      BY StreamAssumption
    <3>3. l \in Lease /\ l.age = lease[r].age
      BY <3>1, <3>2 DEF Lease
    <3>4. lease' = [lease EXCEPT ![r] = l]
      BY <2>2 DEF MarkPrepared
    <3> HIDE DEF l
    <3> QED
      BY <1>1, <2>2, <3>3, <3>4, NoLeaseAssumption DEF Held, Leases, MarkPrepared
  <2> QED
    BY <2>1, <2>2 DEF MarkAdmin, vars
<1>4. PromiseSafe(lease', waiting, told)
  BY <1>3, PromiseCarries DEF PInv
<1> QED
  BY <1>2, <1>4 DEF PInv, PromiseSafe, Due, Held, Cap

\* Every step keeps the promises.
LEMMA NextKeepsPromise == IInv /\ PInv /\ [Next]_vars => PInv'
<1> SUFFICES ASSUME IInv, PInv, [Next]_vars PROVE PInv'
  OBVIOUS
<1>1. ASSUME NEW r \in Rentals, AdmitUntracked(r) PROVE PInv'
  BY <1>1, PruneKeepsPromise DEF AdmitUntracked
<1>2. CASE Prune
  BY <1>2, PruneKeepsPromise DEF Prune
<1> QED
  BY <1>1, <1>2, AdmitHolderKeepsPromise, AdmitWaiterKeepsPromise, AdmitClaimKeepsPromise,
     AdmitEnqueueKeepsPromise, ReleaseKeepsPromise, TickKeepsPromise, MarkKeepsPromise DEF Next

\* When the promised time is over, the leases that have to end have ended.
LEMMA PromisesHold == IInv /\ PInv => PromiseKept
<1> SUFFICES ASSUME IInv, PInv, NEW r \in Members(waiting),
                    told[r].position \in 1..Cap, told[r].left = 0
             PROVE  r \in Promoted(Dropped(lease), waiting)
  BY DEF PromiseKept
<1>1. /\ Promotable(lease, waiting) /\ Promotable(Dropped(lease), waiting)
      /\ lease \in Leases
  BY DroppedPromotable DEF IInv, Settled, Promotable
<1>2. DOMAIN waiting = 1..Len(waiting) /\ Len(waiting) \in Nat
  BY <1>1, LenProperties DEF Promotable
<1>3. PICK i \in DOMAIN waiting : waiting[i] = r
  BY DEF Members
<1> DEFINE over == Due(lease, 0)
           D == Dropped(lease)
<1>4. i <= Cardinality(over) /\ over \subseteq Held(lease)
  BY <1>3, DueFinite DEF PInv, PromiseSafe
<1>5. Held(D) \subseteq Held(lease) \ over
  <2>1. \A h \in over : Stale(lease[h])
    BY <1>1, StreamAssumption DEF Due, Stale, Held, Leases, Lease
  <2> QED
    BY <2>1 DEF Dropped, Held, Stale
<1>6. /\ IsFiniteSet(over) /\ Cardinality(over) \in Nat
      /\ Cardinality(Held(lease)) \in Nat /\ Cardinality(Held(lease)) <= Cap
      /\ Cardinality(Held(D)) \in Nat /\ Cap \in Nat
  BY <1>1, DueFinite, HeldFinite, CapType DEF Promotable
<1> HIDE DEF over, D
<1>7. Cardinality(Held(D)) <= Cardinality(Held(lease)) - Cardinality(over)
  <2>1. Held(lease) \cap over = over
    BY <1>4
  <2>2. /\ IsFiniteSet(Held(lease) \ over)
        /\ Cardinality(Held(lease) \ over)
             = Cardinality(Held(lease)) - Cardinality(Held(lease) \cap over)
    BY HeldFinite, FS_Difference
  <2>3. Cardinality(Held(D)) <= Cardinality(Held(lease) \ over)
    BY <1>5, <2>2, FS_Subset
  <2> QED
    BY <2>1, <2>2, <2>3
<1>8. /\ Promotions(D, waiting) \in 0..Len(waiting)
      /\ Promotions(D, waiting) < Len(waiting)
           => Cardinality(Held(D)) + Promotions(D, waiting) = Cap
  BY <1>1, PromotionsBound DEF Promotable, D
<1>9. i <= Promotions(D, waiting)
  BY <1>2, <1>4, <1>6, <1>7, <1>8
<1> QED
  BY <1>2, <1>3, <1>8, <1>9 DEF Promoted, D

\* estimated_wait_seconds is an upper bound for whoever was told a place within
\* the number of leases, whatever calls come in between.
THEOREM PromisesAreKept == Spec => []PromiseKept
<1>1. Init => PInv
  BY DEF Init, PInv, PromiseSafe
<1>2. IInv /\ PInv /\ [Next]_vars => PInv'
  BY NextKeepsPromise
<1> QED
  BY <1>1, <1>2, PromisesHold, InductiveInvariant, PTL DEF Spec

--------------------------------------------------------------------------------
(* The two action properties: nobody overtakes, and leases run their time *)

\* A rental's place is where it stands.
LEMMA PlaceIs ==
  ASSUME NEW line, Distinct(line), NEW i \in DOMAIN line
  PROVE  line[i] \in Members(line) /\ PlaceOf(line[i], line) = i
BY DEF PlaceOf, Members, Distinct

\* Whoever is promoted stood before everybody that is left in line.
LEMMA PromotedStoodFirst ==
  ASSUME NEW leases, NEW line, Promotable(leases, line),
         NEW r \in Promoted(leases, line), NEW q \in Members(Rest(leases, line))
  PROVE  \E i, j \in DOMAIN line : i < j /\ line[i] = r /\ line[j] = q
<1> DEFINE n == Promotions(leases, line)
           R == Rest(leases, line)
<1>1. n \in 0..Len(line) /\ Len(line) \in Nat /\ DOMAIN line = 1..Len(line)
  BY PromotionsBound, LenProperties DEF Promotable
<1>2. /\ R \in Seq(Rentals)
      /\ \A k \in DOMAIN R : k + n \in DOMAIN line /\ R[k] = line[k + n]
  BY RestProperties DEF Promotable
<1>3. DOMAIN R = 1..Len(R) /\ Len(R) \in Nat
  BY <1>2, LenProperties
<1>4. PICK i \in 1..n : r = line[i]
  BY DEF Promoted
<1>5. PICK k \in DOMAIN R : q = R[k]
  BY DEF Members
<1> HIDE DEF n, R
<1>6. i \in DOMAIN line /\ k + n \in DOMAIN line /\ i < k + n /\ line[k + n] = q
  BY <1>1, <1>2, <1>3, <1>4, <1>5
<1> QED
  BY <1>4, <1>6

\* Promoting leaves those alone that hold a lease, and gives only to the line.
LEMMA GrantedGivesToTheLine ==
  ASSUME NEW leases, NEW line, Promotable(leases, line), NEW r \in Rentals
  PROVE  /\ leases[r] # NoLease => Granted(leases, line)[r] = leases[r]
         /\ leases[r] = NoLease /\ Granted(leases, line)[r] # NoLease
              => r \in Promoted(leases, line)
<1>1. Promoted(leases, line) \subseteq Members(line)
  BY GrantedHeld DEF Promotable
<1> QED
  BY <1>1 DEF Promotable, Granted, Held

\* What a prune does to one rental's lease
LEMMA KeptOf ==
  ASSUME IInv, NEW r \in Rentals
  PROVE  /\ lease[r] # NoLease => Kept[r] = IF Stale(lease[r]) THEN NoLease ELSE lease[r]
         /\ lease[r] = NoLease /\ Kept[r] # NoLease
              => r \in Promoted(Dropped(lease), waiting)
<1>1. Promotable(lease, waiting) /\ Promotable(Dropped(lease), waiting)
  BY DroppedPromotable DEF IInv, Settled
<1>2. Promoted(Dropped(lease), waiting) \subseteq Members(waiting)
  BY <1>1, GrantedHeld DEF Promotable
<1>3. lease[r] # NoLease => r \notin Members(waiting)
  BY <1>1 DEF Promotable, Held
<1> QED
  BY <1>2, <1>3 DEF Kept, Granted, Dropped, Stale

\* A prune that gives r a lease has taken everybody before r out of the line.
LEMMA KeptInOrder ==
  ASSUME IInv, NEW q \in Rentals, NEW r \in Rentals,
         lease[r] = NoLease, Kept[r] # NoLease, Ahead(q, r)
  PROVE  q \notin Members(Line) /\ Kept[q] # NoLease
<1> DEFINE D == Dropped(lease)
<1>1. Promotable(D, waiting)
  BY DroppedPromotable DEF IInv, Settled
<1>2. r \in Promoted(D, waiting) /\ Promoted(D, waiting) \subseteq Members(waiting)
  BY <1>1, KeptOf, GrantedHeld DEF Promotable
<1>3. PlaceOf(q, waiting) < PlaceOf(r, waiting) /\ q \in Members(waiting)
  BY <1>2 DEF Ahead
<1>4. DOMAIN waiting = 1..Len(waiting) /\ Len(waiting) \in Nat /\ Distinct(waiting)
  BY <1>1, LenProperties DEF Promotable
<1>5. q \notin Members(Line)
  <2> SUFFICES ASSUME q \in Members(Rest(D, waiting)) PROVE FALSE
    BY DEF Line
  <2>1. PICK i, j \in DOMAIN waiting : i < j /\ waiting[i] = r /\ waiting[j] = q
    BY <1>1, <1>2, PromotedStoodFirst
  <2>2. PlaceOf(r, waiting) = i /\ PlaceOf(q, waiting) = j
    BY <1>4, <2>1, PlaceIs
  <2> QED
    BY <1>3, <1>4, <2>1, <2>2
<1>6. q \in Promoted(D, waiting)
  <2>1. PICK j \in DOMAIN waiting : waiting[j] = q
    BY <1>3 DEF Members
  <2>2. PICK i \in 1..Promotions(D, waiting) : waiting[i] = r
    BY <1>2 DEF Promoted
  <2>3. Promotions(D, waiting) \in 0..Len(waiting)
    BY <1>1, PromotionsBound DEF Promotable
  <2>4. i \in DOMAIN waiting
    BY <1>4, <2>3
  <2>5. PlaceOf(r, waiting) = i /\ PlaceOf(q, waiting) = j
    BY <1>4, <2>1, <2>2, <2>4, PlaceIs
  <2>6. j \in 1..Promotions(D, waiting)
    BY <1>3, <1>4, <2>3, <2>5
  <2> QED
    BY <2>1, <2>6 DEF Promoted
<1>7. Kept[q] # NoLease
  <2>1. NewLease(TRUE) # NoLease
    BY NewLeaseType
  <2> QED
    BY <1>6, <2>1 DEF Kept, Granted
<1> QED
  BY <1>5, <1>7

\* Taking r out of a line leaves the others in their order.
LEMMA WithoutKeepsOrder ==
  ASSUME NEW line \in Seq(Rentals), Distinct(line), NEW r \in Rentals,
         NEW i \in DOMAIN Without(line, r), NEW j \in DOMAIN Without(line, r), i < j
  PROVE  LET w == Without(line, r)
         IN  PlaceOf(w[i], line) < PlaceOf(w[j], line) /\ w[j] \in Members(line)
                                                       /\ w[i] \in Members(line)
<1> DEFINE w == Without(line, r)
<1>1. PICK p \in Nat : \A k \in DOMAIN w :
         LET s == IF k < p THEN k ELSE k + 1 IN s \in DOMAIN line /\ w[k] = line[s]
  BY WithoutShifts
<1>2. i \in Nat /\ j \in Nat
  <2>1. w \in Seq(Rentals)
    BY WithoutProperties
  <2> QED
    BY <2>1, LenProperties
<1> HIDE DEF w
<1> DEFINE a == IF i < p THEN i ELSE i + 1
           b == IF j < p THEN j ELSE j + 1
<1>3. a \in DOMAIN line /\ w[i] = line[a] /\ b \in DOMAIN line /\ w[j] = line[b]
  BY <1>1 DEF w
<1>4. a < b
  BY <1>2
<1> HIDE DEF a, b
<1>5. /\ PlaceOf(w[i], line) = a /\ PlaceOf(w[j], line) = b
      /\ w[i] \in Members(line) /\ w[j] \in Members(line)
  BY <1>3, PlaceIs
<1> QED
  BY <1>4, <1>5 DEF w

\* A release that gives r a lease has taken everybody before r out of the line.
LEMMA ReleaseInOrder ==
  ASSUME IInv, NEW p \in Rentals, Release(p), NEW q \in Rentals, NEW r \in Rentals,
         lease[r] = NoLease, lease'[r] # NoLease, Ahead(q, r)
  PROVE  q \notin Members(waiting')
<1> DEFINE kept == [lease EXCEPT ![p] = NoLease]
           line == Without(waiting, p)
<1>1. Promotable(kept, line) /\ \A s \in Rentals : s # p => kept[s] = lease[s]
  BY ReleasePromotable
<1>2. lease' = Granted(kept, line) /\ waiting' = Rest(kept, line)
  BY DEF Release, Store
<1>3. Promotable(lease, waiting)
  BY DEF IInv, Settled
<1>4. kept[r] = NoLease
  BY <1>3 DEF Promotable, Leases
<1> HIDE DEF kept
<1>5. r \in Promoted(kept, line)
  BY <1>1, <1>2, <1>4, GrantedGivesToTheLine
<1> SUFFICES ASSUME q \in Members(Rest(kept, line)) PROVE FALSE
  BY <1>2
<1>6. PICK i, j \in DOMAIN line : i < j /\ line[i] = r /\ line[j] = q
  BY <1>1, <1>5, PromotedStoodFirst
<1>7. PlaceOf(r, waiting) < PlaceOf(q, waiting) /\ r \in Members(waiting)
      /\ q \in Members(waiting)
  BY <1>3, <1>6, WithoutKeepsOrder DEF Promotable
<1>8. PlaceOf(r, waiting) \in Nat /\ PlaceOf(q, waiting) \in Nat
  BY <1>3, <1>7, LenProperties DEF Promotable, PlaceOf, Members
<1> QED
  BY <1>7, <1>8 DEF Ahead

\* No rental gets a lease while one that was in line before it stays in line,
\* whether it comes from the line, claims with room, or promotes by a release.
LEMMA NextInOrder ==
  ASSUME IInv, [Next]_vars, NEW q \in Rentals, NEW r \in Rentals,
         lease[r] = NoLease, lease'[r] # NoLease, q # r, Ahead(q, r)
  PROVE  q \notin Members(waiting')
<1>1. Settled(Kept, Line)
  BY KeptSettled DEF IInv
<1>2. Kept \in Leases /\ Line \in Seq(Rentals)
  BY <1>1 DEF Settled, Promotable
<1>3. ASSUME waiting' = Line, Kept[r] # NoLease PROVE q \notin Members(waiting')
  BY <1>3, KeptInOrder
<1>4. ASSUME NEW p \in Rentals, AdmitHolder(p) PROVE q \notin Members(waiting')
  <2>1. waiting' = Line /\ lease' = [Kept EXCEPT ![p].quiet = 0] /\ Kept[p] # NoLease
    BY <1>4 DEF AdmitHolder, Store
  <2>2. Kept[r] # NoLease
    BY <1>2, <2>1 DEF Leases
  <2> QED
    BY <1>3, <2>1, <2>2
<1>5. ASSUME NEW p \in Rentals, AdmitWaiter(p) \/ AdmitUntracked(p) \/ Prune
      PROVE  q \notin Members(waiting')
  BY <1>3, <1>5 DEF AdmitWaiter, AdmitUntracked, Prune, Store
<1>6. ASSUME NEW p \in Rentals, AdmitClaim(p) PROVE q \notin Members(waiting')
  <2>1. waiting' = Line
    BY <1>6 DEF AdmitClaim, Store
  <2>2. Line = <<>>
    BY <1>1, <1>6, HeldFinite, CapType DEF AdmitClaim, HasRoom, Settled
  <2> QED
    BY <2>1, <2>2 DEF Members
<1>7. ASSUME NEW p \in Rentals, AdmitEnqueue(p) PROVE q \notin Members(waiting')
  <2>1. waiting' = Append(Line, p) /\ lease' = Kept /\ Kept[p] = NoLease
    BY <1>7 DEF AdmitEnqueue, Newcomer, Store
  <2>2. q \notin Members(Line) /\ q # p
    BY <2>1, KeptInOrder
  <2>3. \A i \in DOMAIN Append(Line, p) : i \in DOMAIN Line \/ Append(Line, p)[i] = p
    BY <1>2, AppendProperties, LenProperties
  <2>4. \A i \in DOMAIN Line : Append(Line, p)[i] = Line[i]
    BY <1>2, AppendProperties, LenProperties
  <2> QED
    BY <2>1, <2>2, <2>3, <2>4 DEF Members
<1>8. ASSUME NEW p \in Rentals, MarkPrepared(p) PROVE FALSE
  BY <1>8 DEF MarkPrepared, IInv, TypeOK
<1>9. CASE Tick
  BY <1>9 DEF Tick
<1> QED
  BY <1>4, <1>5, <1>6, <1>7, <1>8, <1>9, ReleaseInOrder DEF Next, MarkAdmin, vars

\* A lease is taken only when stale or released, and starts over only where
\* nobody waits afterwards.
RunsItsTime(r) ==
    lease[r] # NoLease =>
        IF lease'[r] = NoLease
        THEN Stale(lease[r]) \/ Release(r)
        ELSE ~(lease'[r].age < lease[r].age) \/ waiting' = <<>>

\* Every step lets a lease run its time.
LEMMA NextRuns ==
  ASSUME IInv, [Next]_vars, NEW r \in Rentals
  PROVE  RunsItsTime(r)
<1> SUFFICES ASSUME lease[r] # NoLease
             PROVE  IF lease'[r] = NoLease
                    THEN Stale(lease[r]) \/ Release(r)
                    ELSE ~(lease'[r].age < lease[r].age) \/ waiting' = <<>>
  BY DEF RunsItsTime
<1>1. Settled(Kept, Line)
  BY KeptSettled DEF IInv
<1>2. Kept \in Leases /\ lease \in Leases
  BY <1>1 DEF Settled, Promotable, IInv
<1>3. lease[r].age \in 0..Ttl /\ lease[r] \in Lease
  BY <1>2 DEF Leases, Lease
<1>4. ~(lease[r].age < lease[r].age)
  BY <1>3
<1>5. Kept[r] = IF Stale(lease[r]) THEN NoLease ELSE lease[r]
  BY KeptOf
<1>6. CASE lease'[r] = Kept[r]
  BY <1>4, <1>5, <1>6
<1>7. ASSUME NEW p \in Rentals, AdmitHolder(p), lease'[r] # Kept[r]
      PROVE  ~Stale(lease[r]) /\ lease'[r] # NoLease /\ lease'[r].age = lease[r].age
  <2>1. lease' = [Kept EXCEPT ![p].quiet = 0] /\ Kept[p] # NoLease
    BY <1>7 DEF AdmitHolder, Store
  <2>2. r = p
    BY <1>2, <1>7, <2>1 DEF Leases
  <2>3. Kept[r] = lease[r] /\ ~Stale(lease[r])
    BY <1>5, <2>1, <2>2
  <2>4. lease'[r] = [lease[r] EXCEPT !.quiet = 0]
    BY <1>2, <2>1, <2>2, <2>3 DEF Leases
  <2>5. 0 \in 0..Idle
    BY StreamAssumption
  <2>6. lease'[r] \in Lease /\ lease'[r].age = lease[r].age
    BY <1>3, <2>4, <2>5 DEF Lease
  <2> QED
    BY <2>3, <2>6, NoLeaseAssumption
<1>8. ASSUME NEW p \in Rentals, AdmitClaim(p), lease'[r] # Kept[r]
      PROVE  lease'[r] # NoLease /\ waiting' = <<>>
  <2>1. waiting' = Line /\ lease' = [Kept EXCEPT ![p] = NewLease(FALSE)]
    BY <1>8 DEF AdmitClaim, Store
  <2>2. Line = <<>>
    BY <1>1, <1>8, HeldFinite, CapType DEF AdmitClaim, HasRoom, Settled
  <2>3. lease'[r] = NewLease(FALSE)
    BY <1>2, <1>8, <2>1 DEF Leases
  <2> QED
    BY <2>1, <2>2, <2>3, NewLeaseType
<1>9. ASSUME NEW p \in Rentals, Release(p), p # r PROVE lease'[r] = lease[r]
  <2> DEFINE kept == [lease EXCEPT ![p] = NoLease]
             line == Without(waiting, p)
  <2>1. Promotable(kept, line) /\ kept[r] = lease[r]
    BY <1>9, ReleasePromotable
  <2>2. lease' = Granted(kept, line)
    BY <1>9 DEF Release, Store
  <2> HIDE DEF kept, line
  <2> QED
    BY <2>1, <2>2, GrantedGivesToTheLine
<1>10. ASSUME NEW p \in Rentals, MarkPrepared(p)
       PROVE  lease'[r] # NoLease /\ lease'[r].age = lease[r].age
  <2> DEFINE l == [lease[p] EXCEPT !.prepared = TRUE, !.needsGrant = FALSE, !.quiet = 0]
  <2>1. lease' = [lease EXCEPT ![p] = l] /\ lease[p] # NoLease
    BY <1>10 DEF MarkPrepared
  <2>2. lease[p] \in Lease
    BY <1>2, <2>1 DEF Leases
  <2>3. 0 \in 0..Idle
    BY StreamAssumption
  <2>4. l \in Lease /\ l.age = lease[p].age
    BY <2>2, <2>3 DEF Lease
  <2> HIDE DEF l
  <2>5. lease'[r] = IF r = p THEN l ELSE lease[r]
    BY <1>2, <2>1 DEF Leases
  <2> QED
    BY <2>4, <2>5, NoLeaseAssumption
<1>11. ASSUME Tick PROVE lease'[r] # NoLease /\ ~(lease'[r].age < lease[r].age)
  <2> DEFINE l == [lease[r] EXCEPT !.age = Least(@ + 1, Ttl), !.quiet = Least(@ + 1, Idle)]
  <2>1. lease'[r] = l
    BY <1>11 DEF Tick
  <2>2. /\ Least(lease[r].age + 1, Ttl) \in 0..Ttl
        /\ Least(lease[r].quiet + 1, Idle) \in 0..Idle
        /\ ~(Least(lease[r].age + 1, Ttl) < lease[r].age)
    BY <1>3, StreamAssumption DEF Lease, Least
  <2>3. l.age = Least(lease[r].age + 1, Ttl)
    BY <1>3 DEF Lease
  <2>4. l \in Lease
    BY <1>3, <2>2, Zenon DEF Lease
  <2> HIDE DEF l
  <2> QED
    BY <2>1, <2>2, <2>3, <2>4, NoLeaseAssumption
<1>12. CASE lease' = lease
  BY <1>4, <1>12
<1>13. CASE \E p \in Rentals : AdmitHolder(p)
  BY <1>4, <1>6, <1>7, <1>13
<1>14. CASE \E p \in Rentals : AdmitClaim(p)
  BY <1>6, <1>8, <1>14
<1>15. CASE \E p \in Rentals : Release(p)
  <2>1. PICK p \in Rentals : Release(p)
    BY <1>15
  <2>2. CASE p = r
    <3>1. Release(r)
      BY <2>1, <2>2
    <3>2. lease'[r] = NoLease
      <4>1. Promotable([lease EXCEPT ![r] = NoLease], Without(waiting, r))
        BY ReleasePromotable
      <4>2. Without(waiting, r) \in Seq(Rentals) /\ r \notin Members(Without(waiting, r))
        BY WithoutProperties DEF IInv, Settled, Promotable
      <4>3. r \notin Promoted([lease EXCEPT ![r] = NoLease], Without(waiting, r))
        BY <4>1, <4>2, GrantedHeld DEF Promotable
      <4> QED
        BY <1>2, <3>1, <4>3 DEF Release, Store, Granted, Leases
    <3> QED
      BY <3>1, <3>2
  <2>3. CASE p # r
    <3>1. lease'[r] = lease[r]
      BY <1>9, <2>1, <2>3
    <3> QED
      BY <1>4, <3>1
  <2> QED
    BY <2>2, <2>3
<1>16. CASE \E p \in Rentals : MarkPrepared(p)
  BY <1>4, <1>10, <1>16
<1>17. CASE \E p \in Rentals : AdmitWaiter(p) \/ AdmitUntracked(p) \/ AdmitEnqueue(p)
  BY <1>6, <1>17 DEF AdmitWaiter, AdmitUntracked, AdmitEnqueue, Store
<1>18. CASE Prune
  BY <1>6, <1>18 DEF Prune, Store
<1> QED
  BY <1>11, <1>12, <1>13, <1>14, <1>15, <1>16, <1>17, <1>18 DEF Next, MarkAdmin, vars

\* First come, first served: no admit, prune or release gives a lease to a
\* rental while one that waited before it stays in line.
THEOREM FirstComeFirstServed == Spec => NoOvertaking
<1> DEFINE A == \A q, r \in Rentals :
                   /\ lease[r] = NoLease /\ lease'[r] # NoLease
                   /\ q # r /\ Ahead(q, r)
                   => q \notin Members(waiting')
<1>1. IInv /\ [Next]_vars => [A]_vars
  BY NextInOrder
<1> HIDE DEF A
<1>2. Spec => [][A]_vars
  BY <1>1, InductiveInvariant, PTL DEF Spec
<1> QED
  BY <1>2 DEF NoOvertaking, A

\* Nobody's lease is cut short by what another rental does to the queue, and
\* nobody's starts over while others wait.
THEOREM LeasesAreRespected == Spec => LeasesRunTheirTime
<1> DEFINE A == \A r \in Rentals :
                   /\ lease[r] # NoLease /\ lease'[r] # NoLease
                   /\ lease'[r].age < lease[r].age
                   => waiting' = <<>>
           B == \A r \in Rentals :
                   lease[r] # NoLease /\ lease'[r] = NoLease
                      => Stale(lease[r]) \/ Release(r)
<1>1. IInv /\ [Next]_vars => [A]_vars /\ [B]_vars
  BY NextRuns DEF RunsItsTime
<1> HIDE DEF A, B
<1>2. Spec => [][A]_vars /\ [][B]_vars
  BY <1>1, InductiveInvariant, PTL DEF Spec
<1> QED
  BY <1>2 DEF LeasesRunTheirTime, NoRenewalOverWaiters, OnlyStaleLeasesAreTaken, A, B
================================================================================
