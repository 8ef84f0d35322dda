------------------------ MODULE RedisGroupCapProofs ------------------------
(***************************************************************************)
(* Proof that the delivery cap of a consumer-group route holds: CapHolds,  *)
(* for a route with a cap and a single consumer, for as long as one scan   *)
(* can look at its whole pending list (Fits) and the ids it claims at a    *)
(* time are in byte order (BatchOrdered); for every number of entries and  *)
(* deliveries.                                                             *)
(*                                                                         *)
(* What could go wrong is the COUNT of XPENDING (redis.rs:829): entries    *)
(* that are pending between the claimed ones use up the rows of the reply. *)
(* The claim loop goes round in stream order, so a pending entry has been  *)
(* delivered at least as often as those behind it, and more often when it  *)
(* was delivered later than they were (EarlierMore).  An entry that lies   *)
(* between the claimed ones and was not claimed is therefore over the cap  *)
(* before the one it pushes out; only a lost process leaves such entries   *)
(* behind, and those of one loss are claimed together (LeftAlike).         *)
(***************************************************************************)
EXTENDS RedisGroupCaseProofs, FiniteSetTheorems, FunctionTheorems

\* One process reads for the group.
Single == \A c, d \in Consumers : c = d

\* One XAUTOCLAIM can look at the whole pending list.  A longer list is scanned
\* in parts: what a part passes over as too young is idle when the next one runs,
\* which then claims what is behind it first.
Fits == Cardinality(Pending) <= ScanLimit

\* The byte order of the ids claimed together is their order in the stream.
BatchOrdered ==
  \A c \in Consumers : \A e, f \in EntriesOf(batch[c]) : LexRank[e] <= LexRank[f] <=> e <= f

\* While e is young, f is as young: f was not delivered before e.
Older(e, f) ==
  \A i \in DOMAIN fresh : e \in fresh[i] => \E j \in DOMAIN fresh : i <= j /\ f \in fresh[j]

EarlierMore ==
  \A e, f \in Pending :
    e < f => times[e] > times[f] \/ (times[e] = times[f] /\ Older(e, f))

\* The scan passes an entry only when it was delivered more often than what is
\* still ahead of the cursor.
CursorPassed ==
  \A c \in Consumers :
    /\ cursor[c] <= groupLast
    /\ \A e \in Pending : e < cursor[c] =>
         /\ times[e] > 1
         /\ \A f \in Pending : cursor[c] <= f => times[e] > times[f]

\* Entries the claim loop is looking at.
InHand(c) == EntriesOf(batch[c]) \cup EntriesOf(dying[c])

\* Pending entries over the cap that the claim loop does not look at.
LeftOver(c) == {e \in Pending : times[e] > MaxDeliveries /\ e \notin InHand(c)}

\* The entries of E become idle together.
Alike(E) == \A i \in DOMAIN fresh : \A e, f \in E : e \in fresh[i] => f \in fresh[i]

LeftAlike ==
  \A c \in Consumers :
    /\ Alike(InHand(c))
    /\ crashes = 0 => LeftOver(c) = {}
    /\ crashes <= 1 => Alike(LeftOver(c))

\* No pending entry lies between the claimed ones and in front of one that is
\* over the cap.
NoGap ==
  \A c \in Consumers : claimPc[c] \in {"claimed", "count"} /\ crashes <= 1 =>
    \A a, b \in EntriesOf(batch[c]), e \in Pending :
      times[b] > MaxDeliveries /\ a < e /\ e < b => e \in EntriesOf(batch[c])

\* The batch is filled by a scan, and what leaves the pending list meanwhile was
\* handled with success.
BatchPlace == \A c \in Consumers : claimPc[c] \in {"sleep", "scan"} => batch[c] = {}
BatchAcked ==
  \A c \in Consumers : \A t \in batch[c] : owner[t[1]] = Nobody => t[1] \in succ

\* XPENDING told the count of every claimed entry that is over the cap.
CountsKnown ==
  \A c \in Consumers :
    claimPc[c] \in {"decide", "dlack", "dlacked", "dlpub"} /\ crashes <= 1 =>
      \A t \in batch[c] : owner[t[1]] # Nobody /\ times[t[1]] > MaxDeliveries =>
        \E k \in counts[c] : k[1] = t[1] /\ k[2] > MaxDeliveries

\* What is buffered above the cap has been handled with success meanwhile.
BufferWithin ==
  crashes <= 1 => \A c \in Consumers : \A t \in claimBuf[c] :
                    t[2] > MaxDeliveries => t[1] \in succ

OrderInv == faults = 0 => EarlierMore /\ CursorPassed
ScanInv  == faults = 0 => LeftAlike /\ NoGap /\ BatchPlace /\ BatchAcked
CountInv == faults = 0 => CountsKnown /\ BufferWithin /\ CapHolds

-----------------------------------------------------------------------------
(* Ages and deliveries *)

\* Time keeps the order of deliveries.
LEMMA OlderAges ==
  ASSUME TypeOK, fresh # <<>>, fresh' = Tail(fresh), NEW e, NEW f, Older(e, f)
  PROVE  Older(e, f)'
<1>1. fresh \in Seq(SUBSET Entries) /\ Len(fresh) \in Nat /\ Len(fresh) > 0
  BY DEF TypeOK
<1>2. /\ DOMAIN fresh = 1..Len(fresh) /\ DOMAIN fresh' = 1..(Len(fresh) - 1)
      /\ \A i \in 1..(Len(fresh) - 1) : fresh'[i] = fresh[i + 1]
  BY <1>1
<1>3. ASSUME NEW i \in DOMAIN fresh', e \in fresh'[i]
      PROVE  \E j \in DOMAIN fresh' : i <= j /\ f \in fresh'[j]
  <2>1. i + 1 \in DOMAIN fresh /\ e \in fresh[i + 1]
    BY <1>1, <1>2, <1>3
  <2>2. PICK j \in DOMAIN fresh : i + 1 <= j /\ f \in fresh[j]
    BY <2>1 DEF Older
  <2>3. j - 1 \in DOMAIN fresh' /\ i <= j - 1 /\ fresh'[j - 1] = fresh[j]
    BY <1>1, <1>2, <2>2
  <2> QED
    BY <2>2, <2>3
<1> QED
  BY <1>3 DEF Older

\* Entries that become idle together still do.
LEMMA AlikeAges ==
  ASSUME TypeOK, fresh # <<>>, fresh' = Tail(fresh), NEW E, Alike(E)
  PROVE  \A i \in DOMAIN fresh' : \A e, f \in E : e \in fresh'[i] => f \in fresh'[i]
<1>1. fresh \in Seq(SUBSET Entries) /\ Len(fresh) \in Nat /\ Len(fresh) > 0
  BY DEF TypeOK
<1>2. /\ DOMAIN fresh = 1..Len(fresh) /\ DOMAIN fresh' = 1..(Len(fresh) - 1)
      /\ \A i \in 1..(Len(fresh) - 1) : fresh'[i] = fresh[i + 1]
  BY <1>1
<1>3. \A i \in DOMAIN fresh' : i + 1 \in DOMAIN fresh /\ fresh'[i] = fresh[i + 1]
  BY <1>1, <1>2
<1> QED
  BY <1>3 DEF Alike

\* What a delivery does to the order, the counts and the pending list.
LEMMA Delivers ==
  ASSUME ConstantsAssumption, TypeOK, NEW c \in Consumers, NEW E \in SUBSET Entries,
         Deliver(E, c)
  PROVE  /\ Pending' = Pending \cup E
         /\ \A e \in E : times'[e] = times[e] + 1
         /\ \A e \in Entries \ E : times'[e] = times[e]
         /\ \A e, f : f \in E => Older(e, f)'
         /\ \A e, f : e \notin E /\ Older(e, f) => Older(e, f)'
         /\ \A i \in DOMAIN fresh' :
              IF i \in DOMAIN fresh THEN fresh'[i] = fresh[i] ELSE fresh'[i] = E
<1>1. /\ owner' = [e \in Entries |-> IF e \in E THEN c ELSE owner[e]]
      /\ times' = [e \in Entries |-> IF e \in E THEN times[e] + 1 ELSE times[e]]
      /\ fresh' = IF E = {} THEN fresh ELSE Append(fresh, E)
  BY DEF Deliver
<1>2. Pending' = Pending \cup E
  BY <1>1 DEF Pending, ConstantsAssumption
<1>3. /\ \A e \in E : times'[e] = times[e] + 1
      /\ \A e \in Entries \ E : times'[e] = times[e]
  BY <1>1
<1>4. fresh \in Seq(SUBSET Entries) /\ Len(fresh) \in Nat /\ DOMAIN fresh = 1..Len(fresh)
  BY DEF TypeOK
<1>5. CASE E = {}
  BY <1>1, <1>2, <1>3, <1>5 DEF Older
<1>6. CASE E # {}
  <2>1. /\ DOMAIN fresh' = 1..(Len(fresh) + 1) /\ fresh'[Len(fresh) + 1] = E
        /\ \A i \in 1..Len(fresh) : fresh'[i] = fresh[i]
    BY <1>1, <1>4, <1>6
  <2>2. \A i \in DOMAIN fresh' : i <= Len(fresh) + 1
    BY <1>4, <2>1
  <2>3. \A i \in DOMAIN fresh' : i \in DOMAIN fresh \/ i = Len(fresh) + 1
    BY <1>4, <2>1
  <2>4. \A e, f : f \in E => Older(e, f)'
    BY <1>4, <2>1, <2>2 DEF Older
  <2>5. DOMAIN fresh \subseteq DOMAIN fresh' /\ Len(fresh) + 1 \notin DOMAIN fresh
    BY <1>4, <2>1
  <2>6. \A e, f : e \notin E /\ Older(e, f) => Older(e, f)'
    BY <1>4, <2>1, <2>3, <2>5 DEF Older
  <2> QED
    BY <1>2, <1>3, <1>4, <2>1, <2>3, <2>4, <2>5, <2>6
<1> QED
  BY <1>5, <1>6

\* Every set of entries is a finite set of numbers.
LEMMA EntriesFinite ==
  Entries \subseteq Int /\ \A S \in SUBSET Entries : IsFiniteSet(S)
<1>1. Entries \subseteq Int /\ IsFiniteSet(Entries)
  BY ConstantsAssumption, FS_Interval DEF ConstantsAssumption, Entries
<1> QED
  BY <1>1, FS_Subset

\* FirstK takes what is in front of what it takes.
LEMMA FirstKDown ==
  ASSUME NEW S \in SUBSET Entries, NEW k \in Nat, NEW f \in FirstK(S, k), NEW e \in S, e < f
  PROVE  e \in FirstK(S, k)
<1> DEFINE L == {y \in S : y < e}
           M == {y \in S : y < f}
<1>1. Entries \subseteq Int /\ IsFiniteSet(Entries)
  BY ConstantsAssumption, FS_Interval DEF ConstantsAssumption, Entries
<1>2. IsFiniteSet(M)
  BY <1>1, FS_Subset
<1>0. e \in Int /\ f \in Int /\ \A y \in S : y \in Int
  BY <1>1, FirstKSubset
<1>3. L \subseteq M
  <2> SUFFICES ASSUME NEW y \in S, y < e PROVE y < f
    OBVIOUS
  <2>1. y \in Int /\ e \in Int /\ f \in Int /\ y < e /\ e < f
    BY <1>0
  <2> QED
    BY <2>1
<1>4. IsFiniteSet(L) /\ Cardinality(L) <= Cardinality(M)
  BY <1>2, <1>3, FS_Subset
<1>5. Cardinality(M) < k
  BY DEF FirstK
<1>6. Cardinality(L) \in Nat /\ Cardinality(M) \in Nat
  BY <1>2, <1>4, FS_CardinalityType
<1>7. Cardinality(L) < k
  BY <1>4, <1>5, <1>6
<1> QED
  BY <1>7 DEF FirstK

\* FirstK takes all of a set that is not larger.
LEMMA FirstKAll ==
  ASSUME NEW S \in SUBSET Entries, NEW k \in Nat, Cardinality(S) <= k
  PROVE  FirstK(S, k) = S
<1>1. Entries \subseteq Int /\ IsFiniteSet(S)
  BY EntriesFinite
<1>2. ASSUME NEW x \in S PROVE x \in FirstK(S, k)
  <2> DEFINE L == {y \in S : y < x}
  <2>1. L \subseteq S \ {x}
    BY <1>1
  <2>2. IsFiniteSet(S \ {x}) /\ Cardinality(S \ {x}) = Cardinality(S) - 1
    BY <1>1, FS_RemoveElement
  <2>3. Cardinality(L) <= Cardinality(S \ {x}) /\ IsFiniteSet(L)
    BY <2>1, <2>2, FS_Subset
  <2>4. Cardinality(L) \in Nat /\ Cardinality(S) \in Nat
    BY <1>1, <2>3, FS_CardinalityType
  <2>5. Cardinality(L) < k
    BY <2>2, <2>3, <2>4
  <2> QED
    BY <2>5 DEF FirstK
<1> QED
  BY <1>2, FirstKSubset

\* A scan that can look at the whole list looks at all of it behind the cursor.
LEMMA WholeReach ==
  ASSUME TypeOK, Fits, NEW c \in Consumers
  PROVE  /\ Reach(c) = {e \in Pending : cursor[c] <= e}
         /\ Claimable(c) = FirstK({x \in Idle : cursor[c] <= x}, ClaimCount)
<1> DEFINE S == {e \in Pending : cursor[c] <= e}
<1>1. Pending \in SUBSET Entries /\ S \in SUBSET Entries /\ S \subseteq Pending
  BY DEF Pending
<1>2. IsFiniteSet(Pending) /\ ScanLimit \in Nat
  BY <1>1, EntriesFinite, ClaimersAssumption DEF ClaimersAssumption
<1>3. /\ Cardinality(S) <= Cardinality(Pending)
      /\ Cardinality(S) \in Nat /\ Cardinality(Pending) \in Nat
  BY <1>1, <1>2, FS_Subset, FS_CardinalityType
<1>4. Cardinality(S) <= ScanLimit
  BY <1>2, <1>3 DEF Fits
<1>5. Reach(c) = S
  BY <1>1, <1>2, <1>4, FirstKAll DEF Reach
<1>6. Idle \cap S = {x \in Idle : cursor[c] <= x}
  BY DEF Idle
<1> QED
  BY <1>5, <1>6 DEF Claimable

\* Such a scan resumes behind what it claimed, or at the start of the list.
LEMMA ResumesBehind ==
  ASSUME TypeOK, Fits, NEW c \in Consumers, NEW n, ResumesAt(c, n), n # 0
  PROVE  LET rest == {x \in Pending : \A g \in Claimable(c) : g < x}
         IN n \in rest /\ \A f \in rest : n <= f
<1> DEFINE ahead == {e \in Pending : cursor[c] <= e /\ e \notin Examined(c)}
           rest == {x \in Pending : \A g \in Claimable(c) : g < x}
<1>1. Reach(c) = {e \in Pending : cursor[c] <= e}
  BY WholeReach
<1>2. n \in ahead /\ \A f \in ahead : n <= f
  BY DEF ResumesAt
<1>3. ~(Cardinality(Claimable(c)) < ClaimCount)
  BY <1>1, <1>2 DEF Examined
<1>4. PICK g \in Claimable(c) : TRUE
  <2>1. Cardinality({}) = 0 /\ ClaimCount \in Nat \ {0}
    BY ConstantsAssumption, FS_EmptySet DEF ConstantsAssumption
  <2> QED
    BY <1>3, <2>1
<1>5. Claimable(c) \subseteq Reach(c)
  BY FirstKSubset DEF Claimable
<1>6. /\ Pending \subseteq Int /\ Claimable(c) \subseteq Int
      /\ cursor[c] \in Int /\ cursor[c] <= g
  BY <1>1, <1>5, ConstantsAssumption DEF ConstantsAssumption, TypeOK, Pending, Entries
<1>7. Examined(c) = {e \in Reach(c) : \E h \in Claimable(c) : e <= h}
  BY <1>3 DEF Examined
<1>8. ASSUME NEW x \in Pending
      PROVE  x \in ahead <=> x \in rest
  <2>1. x \in rest => cursor[c] <= x
    BY <1>6
  <2>2. cursor[c] <= x => (x \in Examined(c) <=> \E h \in Claimable(c) : x <= h)
    BY <1>1, <1>7
  <2>3. (\E h \in Claimable(c) : x <= h) <=> ~(\A h \in Claimable(c) : h < x)
    BY <1>6
  <2> QED
    BY <2>1, <2>2, <2>3
<1>9. ahead = rest
  BY <1>8
<1> QED
  BY <1>2, <1>9

\* Pending entries have been delivered.
LEMMA PendingFacts ==
  ASSUME IndInv
  PROVE  \A e \in Pending : /\ e \in Entries /\ e \in Nat /\ e > 0
                            /\ times[e] \in Nat /\ times[e] > 0 /\ e <= groupLast
<1>1. \A e \in Entries : e \in Nat /\ e > 0 /\ times[e] \in Nat
  BY ConstantsAssumption DEF ConstantsAssumption, Entries, IndInv, TypeOK
<1>2. groupLast \in Nat
  BY ConstantsAssumption DEF ConstantsAssumption, IndInv, TypeOK
<1> QED
  BY <1>1, <1>2 DEF Pending, IndInv, LedgerInv, Undealt

\* A scan passes a pending entry only when it was delivered more often than what
\* the scan claims behind it.
LEMMA ScanPasses ==
  ASSUME IndInv, Fits, EarlierMore, CursorPassed, NEW c \in Consumers,
         NEW e \in Pending, NEW f \in Claimable(c), e < f, e \notin Claimable(c)
  PROVE  times[e] > times[f]
<1> DEFINE S == {x \in Idle : cursor[c] <= x}
<1>1. S \subseteq Pending /\ S \subseteq Entries /\ Claimable(c) = FirstK(S, ClaimCount)
  BY PendingFacts, WholeReach DEF Idle, IndInv
<1>2. f \in S /\ f \in Pending
  BY <1>1, FirstKSubset
<1>3. e \in Nat /\ f \in Nat /\ cursor[c] \in Nat /\ ClaimCount \in Nat
  BY <1>2, PendingFacts, ConstantsAssumption DEF ConstantsAssumption, IndInv, TypeOK
<1>4. e \notin S
  BY <1>1, <1>3, FirstKDown
<1>5. CASE e < cursor[c]
  BY <1>2, <1>5 DEF CursorPassed
<1>6. CASE cursor[c] <= e
  <2>1. e \notin Idle
    BY <1>4, <1>6
  <2>2. PICK i \in DOMAIN fresh : e \in fresh[i]
    BY <2>1 DEF Idle
  <2>3. \A j \in DOMAIN fresh : f \notin fresh[j]
    BY <1>2 DEF Idle
  <2>4. ~Older(e, f)
    BY <2>2, <2>3 DEF Older
  <2> QED
    BY <1>2, <2>4 DEF EarlierMore
<1> QED
  BY <1>3, <1>5, <1>6

\* The order of the pending list holds after a scan.
LEMMA ScanOrder ==
  ASSUME IndInv, Fits, EarlierMore, CursorPassed, NEW c \in Consumers, Deliver(Claimable(c), c)
  PROVE  EarlierMore'
<1> DEFINE E == Claimable(c)
<1>1. E \in SUBSET Entries /\ E \subseteq Pending
  BY HandedOutEntries DEF IndInv
<1>2. /\ Pending' = Pending
      /\ \A e \in E : times'[e] = times[e] + 1
      /\ \A e \in Entries \ E : times'[e] = times[e]
      /\ \A e, f : f \in E => Older(e, f)'
      /\ \A e, f : e \notin E /\ Older(e, f) => Older(e, f)'
  <2>1. TypeOK
    BY DEF IndInv
  <2>2. Pending' = Pending \cup E
    BY <1>1, <2>1, Delivers, ConstantsAssumption
  <2> QED
    BY <1>1, <2>1, <2>2, Delivers, ConstantsAssumption
<1>3. SUFFICES ASSUME NEW e \in Pending, NEW f \in Pending, e < f
               PROVE  times'[e] > times'[f] \/ (times'[e] = times'[f] /\ Older(e, f)')
  BY <1>2 DEF EarlierMore
<1>4. e \in Entries /\ f \in Entries /\ times[e] \in Nat /\ times[f] \in Nat
  BY PendingFacts
<1>5. times[e] > times[f] \/ (times[e] = times[f] /\ Older(e, f))
  BY <1>3 DEF EarlierMore
<1>6. CASE e \in E
  BY <1>2, <1>4, <1>5, <1>6
<1>7. CASE e \notin E /\ f \in E
  BY <1>2, <1>3, <1>4, <1>7, ScanPasses
<1>8. CASE e \notin E /\ f \notin E
  BY <1>2, <1>4, <1>5, <1>8
<1> QED
  BY <1>6, <1>7, <1>8

\* The cursor of the reply has only passed entries that are ahead in deliveries.
LEMMA ScanCursor ==
  ASSUME IndInv, Fits, EarlierMore, CursorPassed, Single, NEW c \in Consumers,
         Deliver(Claimable(c), c), NEW n \in Nat, ResumesAt(c, n), UNCHANGED groupLast,
         cursor'[c] = n
  PROVE  CursorPassed'
<1> DEFINE E == Claimable(c)
           rest == {x \in Pending : \A g \in E : g < x}
<1>1. E \in SUBSET Entries /\ E \subseteq Pending
  BY HandedOutEntries DEF IndInv
<1>2. /\ Pending' = Pending
      /\ \A e \in E : times'[e] = times[e] + 1
      /\ \A e \in Entries \ E : times'[e] = times[e]
  <2>1. TypeOK
    BY DEF IndInv
  <2>2. Pending' = Pending \cup E
    BY <1>1, <2>1, Delivers, ConstantsAssumption
  <2> QED
    BY <1>1, <2>1, <2>2, Delivers, ConstantsAssumption
<1>3. groupLast \in Nat
  BY ConstantsAssumption DEF ConstantsAssumption, IndInv, TypeOK
<1>4. CASE n = 0
  BY <1>2, <1>3, <1>4, PendingFacts DEF CursorPassed, Single
<1>5. CASE n \in rest /\ \A f \in rest : n <= f
  <2>1. n \in Pending /\ n <= groupLast'
    BY <1>5, PendingFacts
  <2>2. ASSUME NEW e \in Pending, e < n
        PROVE  times'[e] > 1 /\ \A f \in Pending : n <= f => times'[e] > times'[f]
    <3>1. \A f \in Pending : n <= f => f \notin E /\ times'[f] = times[f] /\ f \in Nat
      BY <1>2, <1>5, PendingFacts
    <3>2. CASE e \in E
      BY <1>2, <2>2, <3>1, <3>2, PendingFacts DEF EarlierMore
    <3>3. CASE e \notin E
      <4>0. e \notin rest
        BY <1>5, <2>2, PendingFacts
      <4>1. PICK g \in E : ~(g < e)
        BY <4>0
      <4>2. e < g /\ g < n /\ g \in Pending
        <5>1. g \in Pending /\ g < n /\ g # e
          BY <1>1, <1>5, <3>3, <4>1
        <5>2. g \in Nat /\ e \in Nat
          BY <5>1, PendingFacts
        <5> QED
          BY <4>1, <5>1, <5>2
      <4>3. times[e] > times[g] /\ times'[e] = times[e]
        BY <1>2, <3>3, <4>2, ScanPasses, PendingFacts
      <4>4. \A f \in Pending : n <= f => times[g] >= times[f]
        BY <4>2, PendingFacts DEF EarlierMore
      <4> QED
        BY <3>1, <4>2, <4>3, <4>4, PendingFacts
    <3> QED
      BY <3>2, <3>3
  <2> QED
    BY <1>2, <2>1, <2>2 DEF CursorPassed, Single
<1>6. n # 0 => n \in rest /\ \A f \in rest : n <= f
  BY ResumesBehind DEF IndInv
<1> QED
  BY <1>4, <1>5, <1>6

-----------------------------------------------------------------------------
(* Steps without a failing command *)

Calm(c) == Start(c) \/ Crash(c) \/ ReadLoop(c) \/ Handle(c) \/ ClaimLoop(c)

\* While no command has failed, no failing command was served and no read loop
\* has ended.
LEMMA NoFault ==
  ASSUME TypeOK, EndedByFault, [Next]_vars, faults' = 0
  PROVE  /\ faults = 0
         /\ XAdd \/ Age \/ UNCHANGED vars \/ \E c \in Consumers : Calm(c)
<1>0. faults \in Nat /\ crashes \in Nat
  BY ConstantsAssumption DEF ConstantsAssumption, TypeOK
<1>1. CASE XAdd \/ Age \/ UNCHANGED vars
  BY <1>1 DEF XAdd, Age, vars, env
<1>2. ASSUME NEW c \in Consumers, Process(c)
      PROVE  faults = 0 /\ Calm(c)
  <2>1. CASE Start(c) \/ Crash(c)
    BY <2>1 DEF Start, Crash, env, Calm
  <2>2. CASE ReadLoop(c)
    BY <2>2 DEF ReadLoop, PollRead, ServeRead, env, Calm
  <2>3. CASE Handle(c)
    BY <2>3 DEF Handle, TakeRead, TakeClaim, HandlerOk, HandlerErr, Ack, env, Calm
  <2>4. CASE ClaimLoop(c)
    <3>1. UNCHANGED faults
      BY <2>4 DEF ClaimLoop, PollScan, ServeScan, PollClaimed, ServeCounts, Condemn,
           FillBuffer, ServeDeadAck, PollDeadAcked, ServeDeadLetter, env
    <3> QED
      BY <2>4, <3>1 DEF Calm
  <2>5. CASE ReadError(c) \/ AckFails(c) \/ ClaimError(c)
    <3>1. faults' = faults + 1
      BY <2>5 DEF ReadError, ReadReplyLost, ReadFails, AckFails, ClaimError, ScanReplyLost,
           ScanFails, CountsFail, DeadAckReplyLost, DeadAckFails, DeadLetterFails, SpendFault
    <3> QED
      BY <1>0, <3>1
  <2>6. CASE StreamsEnded(c)
    BY <2>6 DEF StreamsEnded, env, EndedByFault
  <2> QED
    BY <1>2, <2>1, <2>2, <2>3, <2>4, <2>5, <2>6 DEF Process
<1> QED
  BY <1>1, <1>2 DEF Next

LEMMA EndedInit == Init => EndedByFault
BY DEF Init, EndedByFault

LEMMA EndedNext ==
  ASSUME TypeOK, EndedByFault, [Next]_vars
  PROVE  EndedByFault'
<1> SUFFICES ASSUME faults' = 0 PROVE \A d \in Consumers : readPc'[d] # "ended"
  BY DEF EndedByFault
<1> USE DEF reader, TypeOK
<1>0. \A d \in Consumers : readPc[d] # "ended"
  BY NoFault DEF EndedByFault
<1>1. CASE XAdd \/ Age \/ UNCHANGED vars
  BY <1>0, <1>1 DEF XAdd, Age, vars
<1>2. ASSUME NEW c \in Consumers, Calm(c)
      PROVE  \A d \in Consumers : readPc'[d] # "ended"
  <2>1. CASE Start(c) \/ Crash(c)
    BY <1>0, <2>1 DEF Start, Crash, Forget
  <2>2. CASE ReadLoop(c)
    BY <1>0, <2>2 DEF ReadLoop, PollRead, ServeRead
  <2>3. CASE Handle(c)
    BY <1>0, <2>3 DEF Handle, TakeRead, TakeClaim, HandlerOk, HandlerErr, Ack
  <2>4. CASE ClaimLoop(c)
    BY <1>0, <2>4 DEF ClaimLoop, PollScan, ServeScan, ExecScan, PollClaimed, ServeCounts, Condemn,
           FillBuffer, ServeDeadAck, ExecDeadAck, PollDeadAcked, ServeDeadLetter
  <2> QED
    BY <1>2, <2>1, <2>2, <2>3, <2>4 DEF Calm
<1> QED
  BY <1>1, <1>2, NoFault

-----------------------------------------------------------------------------
(* The order of the pending list *)

\* Only deliveries, time and scans can disturb the order.
LEMMA OrderKept ==
  ASSUME IndInv, TypeOK', EarlierMore, CursorPassed, UNCHANGED <<times, fresh>>,
         Pending' \subseteq Pending, groupLast <= groupLast',
         \A c \in Consumers : cursor'[c] \in {cursor[c], 0}
  PROVE  EarlierMore' /\ CursorPassed'
<1>1. EarlierMore'
  BY DEF EarlierMore, Older
<1>2. groupLast \in Nat /\ groupLast' \in Nat /\ \A c \in Consumers : cursor[c] \in Nat
  BY ConstantsAssumption DEF ConstantsAssumption, IndInv, TypeOK
<1>3. ASSUME NEW c \in Consumers, NEW e \in Pending', e < cursor'[c]
      PROVE  cursor'[c] = cursor[c] /\ e \in Pending
  BY <1>3, PendingFacts
<1>4. \A c \in Consumers : cursor'[c] <= groupLast'
  BY <1>2 DEF CursorPassed
<1>5. CursorPassed'
  BY <1>3, <1>4 DEF CursorPassed
<1> QED
  BY <1>1, <1>5

\* A read delivers entries behind all that are pending.
LEMMA ReadOrder ==
  ASSUME IndInv, TypeOK', EarlierMore, CursorPassed, NEW c \in Consumers, ServeRead(c)
  PROVE  EarlierMore' /\ CursorPassed'
<1> DEFINE E == Undelivered
<1>0. TypeOK /\ E \in SUBSET Entries /\ Deliver(E, c) /\ UNCHANGED cursor
  BY HandedOutEntries DEF IndInv, ServeRead, ExecRead, claimer
<1>1. /\ Pending' = Pending \cup E
      /\ \A e \in E : times'[e] = times[e] + 1
      /\ \A e \in Entries \ E : times'[e] = times[e]
      /\ \A e, f : f \in E => Older(e, f)'
      /\ \A e, f : e \notin E /\ Older(e, f) => Older(e, f)'
  BY <1>0, Delivers, ConstantsAssumption
<1>2. \A e \in E : e \in Nat /\ e > groupLast /\ times[e] = 0 /\ times'[e] = 1
  BY <1>1, FirstHandedOut, ConstantsAssumption DEF Undelivered, Entries, ConstantsAssumption
<1>3. groupLast \in Nat /\ groupLast' \in Nat /\ groupLast <= groupLast'
  BY <1>0, ReadAdvances, ConstantsAssumption DEF ConstantsAssumption, TypeOK, ServeRead
<1>4. \A e \in Pending \ E : times'[e] = times[e] /\ times'[e] \in Nat /\ times'[e] >= 1
                             /\ e \in Nat /\ e <= groupLast
  BY <1>1, PendingFacts
<1>5. EarlierMore'
  <2>1. SUFFICES ASSUME NEW e \in Pending', NEW f \in Pending', e < f
                 PROVE  times'[e] > times'[f] \/ (times'[e] = times'[f] /\ Older(e, f)')
    BY DEF EarlierMore
  <2>2. CASE f \in E
    <3>1. times'[f] = 1 /\ times'[e] \in Nat /\ times'[e] >= 1 /\ Older(e, f)'
      BY <1>1, <1>2, <1>4, <2>2
    <3> QED
      BY <3>1
  <2>3. CASE f \notin E
    <3>1. f \in Pending \ E
      BY <1>1, <2>3
    <3>2. e \in Pending \ E
      BY <1>1, <1>2, <1>3, <1>4, <2>1, <3>1
    <3> QED
      BY <1>1, <1>4, <2>1, <3>1, <3>2 DEF EarlierMore
  <2> QED
    BY <2>2, <2>3
<1>6. CursorPassed'
  <2>1. \A d \in Consumers : cursor[d] \in Nat /\ cursor[d] <= groupLast
    BY <1>0, ConstantsAssumption DEF ConstantsAssumption, TypeOK, CursorPassed
  <2>2. ASSUME NEW d \in Consumers, NEW e \in Pending', e < cursor[d]
        PROVE  /\ times'[e] > 1
               /\ \A f \in Pending' : cursor[d] <= f => times'[e] > times'[f]
    <3>1. e \in Pending \ E
      BY <1>1, <1>2, <1>3, <2>1, <2>2
    <3>2. times'[e] > 1 /\ times'[e] = times[e]
      BY <1>4, <2>2, <3>1 DEF CursorPassed
    <3>3. ASSUME NEW f \in Pending', cursor[d] <= f
          PROVE  times'[e] > times'[f]
      <4>1. CASE f \in E
        BY <1>2, <3>2, <4>1
      <4>2. CASE f \notin E
        BY <1>1, <1>4, <2>2, <3>1, <3>2, <3>3, <4>2 DEF CursorPassed
      <4> QED
        BY <4>1, <4>2
    <3> QED
      BY <3>2, <3>3
  <2> QED
    BY <1>0, <1>3, <2>1, <2>2 DEF CursorPassed
<1> QED
  BY <1>5, <1>6

LEMMA OrderInit == Init => OrderInv
BY ConstantsAssumption
DEF Init, OrderInv, EarlierMore, CursorPassed, Pending, ConstantsAssumption

\* Every step of a single consumer keeps the order.
LEMMA OrderNext ==
  ASSUME Single, Fits, IndInv, TypeOK', EndedByFault, OrderInv, [Next]_vars
  PROVE  OrderInv'
<1> SUFFICES ASSUME faults' = 0 PROVE EarlierMore' /\ CursorPassed'
  BY DEF OrderInv
<1> USE DEF server, reader, handler, claimer, env, history
<1>0. /\ TypeOK /\ EarlierMore /\ CursorPassed
      /\ XAdd \/ Age \/ UNCHANGED vars \/ \E c \in Consumers : Calm(c)
  BY NoFault DEF IndInv, OrderInv
<1>a. groupLast \in Nat /\ groupLast' \in Nat
  BY <1>0, ConstantsAssumption DEF ConstantsAssumption, TypeOK
<1>1. CASE UNCHANGED <<times, fresh, owner, groupLast, cursor>>
  BY <1>0, <1>1, <1>a, OrderKept DEF Pending
<1>2. CASE Age
  <2>1. /\ fresh # <<>> /\ fresh' = Tail(fresh)
        /\ UNCHANGED <<times, owner, groupLast, cursor>>
    BY <1>2 DEF Age
  <2>2. EarlierMore'
    BY <1>0, <2>1, OlderAges DEF EarlierMore, Pending
  <2> QED
    BY <1>0, <2>1, <2>2 DEF CursorPassed, Pending
<1>3. ASSUME NEW c \in Consumers, Calm(c), ~UNCHANGED <<times, fresh, owner, groupLast, cursor>>
      PROVE  EarlierMore' /\ CursorPassed'
  <2>1. CASE Start(c)
    <3>1. groupLast <= groupLast'
      BY <1>0, <2>1, StartAdvances DEF IndInv, LedgerInv
    <3> QED
      BY <1>0, <2>1, <3>1, OrderKept DEF Start, Pending
  <2>2. CASE Crash(c)
    BY <1>0, <1>a, <2>2, OrderKept DEF Crash, Forget, Pending, TypeOK
  <2>3. CASE ServeRead(c)
    BY <1>0, <2>3, ReadOrder
  <2>4. CASE Ack(c)
    BY <1>0, <1>a, <2>4, OrderKept DEF Ack, XAck, Pending, TypeOK
  <2>5. CASE ServeDeadAck(c)
    BY <1>0, <1>a, <2>5, OrderKept DEF ServeDeadAck, ExecDeadAck, XAck, Pending, TypeOK
  <2>6. CASE ServeScan(c)
    <3>1. Deliver(Claimable(c), c) /\ UNCHANGED groupLast
      BY <2>6 DEF ServeScan, ExecScan
    <3>2. PICK n \in 0..MaxEntries : ResumesAt(c, n) /\ cursor' = [cursor EXCEPT ![c] = n]
      BY <2>6 DEF ServeScan
    <3>3. n \in Nat /\ cursor'[c] = n
      BY <1>0, <3>2, ConstantsAssumption DEF ConstantsAssumption, TypeOK
    <3> QED
      BY <1>0, <3>1, <3>2, <3>3, ScanOrder, ScanCursor
  <2>7. CASE PollRead(c) \/ TakeRead(c) \/ TakeClaim(c) \/ HandlerOk(c) \/ HandlerErr(c)
    BY <1>3, <2>7 DEF PollRead, TakeRead, TakeClaim, HandlerOk, HandlerErr
  <2>8. CASE \/ PollScan(c) \/ PollClaimed(c) \/ ServeCounts(c) \/ Condemn(c)
             \/ FillBuffer(c) \/ PollDeadAcked(c) \/ ServeDeadLetter(c)
    BY <1>3, <2>8
    DEF PollScan, PollClaimed, ServeCounts, Condemn, FillBuffer, PollDeadAcked, ServeDeadLetter
  <2> QED
    BY <1>3, <2>1, <2>2, <2>3, <2>4, <2>5, <2>6, <2>7, <2>8
    DEF Calm, ReadLoop, Handle, ClaimLoop
<1>4. XAdd \/ UNCHANGED vars => UNCHANGED <<times, fresh, owner, groupLast, cursor>>
  BY DEF XAdd, vars
<1> QED
  BY <1>0, <1>1, <1>2, <1>3, <1>4
-----------------------------------------------------------------------------
(* What the claim loop holds *)

\* Entries of the batch are behind none that a read hands out.
LEMMA HeldFacts ==
  ASSUME IndInv, NEW c \in Consumers, NEW t \in batch[c] \cup dying[c]
  PROVE  /\ t[1] \in Entries /\ t[1] \in Nat /\ t[1] <= groupLast /\ t[1] \notin Undelivered
         /\ t[2] \in Nat /\ times[t[1]] \in Nat /\ t[2] <= times[t[1]]
<1>1. t \in Tokens /\ 1 <= t[2] /\ t[2] <= times[t[1]]
  BY HeldTokens DEF IndInv
<1>2. t[1] \in Entries /\ t[2] \in Nat /\ times[t[1]] \in Nat
  BY <1>1, TokenParts DEF IndInv, TypeOK
<1>3. t[1] \in Nat /\ groupLast \in Nat
  BY <1>2, ConstantsAssumption DEF ConstantsAssumption, Entries, IndInv, TypeOK
<1>4. t[1] <= groupLast
  BY <1>1, <1>2, <1>3 DEF IndInv, LedgerInv, Undealt
<1> QED
  BY <1>1, <1>2, <1>3, <1>4 DEF Undelivered

\* A read adds first deliveries to the pending list and leaves the rest alone.
LEMMA ReadEffect ==
  ASSUME IndInv, NEW c \in Consumers, ServeRead(c)
  PROVE  /\ Pending' = Pending \cup Undelivered
         /\ \A e \in Undelivered : e \in Nat /\ e > groupLast /\ times'[e] = 1
         /\ \A e \in Entries \ Undelivered : times'[e] = times[e] /\ owner'[e] = owner[e]
         /\ \A i \in DOMAIN fresh' :
              IF i \in DOMAIN fresh THEN fresh'[i] = fresh[i] ELSE fresh'[i] = Undelivered
         /\ UNCHANGED <<claimer, crashes, history>>
<1>1. TypeOK /\ Undelivered \in SUBSET Entries /\ Deliver(Undelivered, c)
      /\ UNCHANGED <<claimer, crashes, history>>
  BY HandedOutEntries DEF IndInv, ServeRead, ExecRead
<1>2. /\ Pending' = Pending \cup Undelivered
      /\ \A e \in Undelivered : times'[e] = times[e] + 1
      /\ \A e \in Entries \ Undelivered : times'[e] = times[e]
      /\ \A i \in DOMAIN fresh' :
           IF i \in DOMAIN fresh THEN fresh'[i] = fresh[i] ELSE fresh'[i] = Undelivered
  BY <1>1, Delivers, ConstantsAssumption
<1>3. \A e \in Undelivered : e \in Nat /\ e > groupLast /\ times[e] = 0
  BY FirstHandedOut, ConstantsAssumption DEF Undelivered, Entries, ConstantsAssumption
<1>4. \A e \in Entries \ Undelivered : owner'[e] = owner[e]
  BY <1>1 DEF Deliver
<1> QED
  BY <1>1, <1>2, <1>3, <1>4

\* A scan starts with empty hands and ends with the claimed entries in them.
LEMMA ScanEffect ==
  ASSUME IndInv, DyingPlace, BatchPlace, NEW c \in Consumers, ServeScan(c)
  PROVE  /\ Claimable(c) \subseteq Pending /\ Claimable(c) \subseteq Idle
         /\ Pending' = Pending /\ InHand(c) = {} /\ InHand(c)' = Claimable(c)
         /\ EntriesOf(batch'[c]) = Claimable(c)
         /\ \A e \in Claimable(c) : times'[e] = times[e] + 1 /\ owner'[e] = c
         /\ \A e \in Entries \ Claimable(c) : times'[e] = times[e]
         /\ \A i \in DOMAIN fresh' :
              IF i \in DOMAIN fresh THEN fresh'[i] = fresh[i] ELSE fresh'[i] = Claimable(c)
         /\ claimPc'[c] = "claimed" /\ UNCHANGED <<claimBuf, counts, crashes, history>>
<1> DEFINE E == Claimable(c)
<1>1. /\ TypeOK /\ Deliver(E, c) /\ claimPc[c] = "scan"
      /\ batch' = [batch EXCEPT ![c] = DeliveredTokens(E)]
      /\ claimPc' = [claimPc EXCEPT ![c] = "claimed"]
      /\ UNCHANGED <<dying, claimBuf, counts, crashes, history>>
  BY DEF IndInv, ServeScan, ExecScan
<1>2. E \in SUBSET Entries /\ E \subseteq Pending
  BY <1>1, HandedOutEntries
<1>3. E \subseteq Idle
  BY FirstKSubset DEF Claimable
<1>4. /\ Pending' = Pending \cup E
      /\ \A e \in E : times'[e] = times[e] + 1
      /\ \A e \in Entries \ E : times'[e] = times[e]
      /\ \A i \in DOMAIN fresh' :
           IF i \in DOMAIN fresh THEN fresh'[i] = fresh[i] ELSE fresh'[i] = E
  BY <1>1, <1>2, Delivers, ConstantsAssumption
<1>5. \A e \in E : owner'[e] = c
  BY <1>1, <1>2 DEF Deliver
<1>6. batch[c] = {} /\ dying[c] = {} /\ dying'[c] = {} /\ batch'[c] = DeliveredTokens(E)
      /\ claimPc'[c] = "claimed"
  BY <1>1 DEF DyingPlace, BatchPlace, TypeOK
<1>7. EntriesOf({}) = {}
  BY DEF EntriesOf
<1>8. EntriesOf(DeliveredTokens(E)) = E
  <2>1. \A t \in DeliveredTokens(E) : t[1] \in E
    BY DEF DeliveredTokens
  <2>2. \A e \in E : <<e, times[e] + 1>> \in DeliveredTokens(E) /\ <<e, times[e] + 1>>[1] = e
    BY DEF DeliveredTokens
  <2>3. EntriesOf(DeliveredTokens(E)) \subseteq E
    BY <2>1 DEF EntriesOf
  <2>4. E \subseteq EntriesOf(DeliveredTokens(E))
    BY <2>2 DEF EntriesOf
  <2> QED
    BY <2>3, <2>4
<1>9. InHand(c) = {} /\ InHand(c)' = E /\ EntriesOf(batch'[c]) = E
  BY <1>6, <1>7, <1>8 DEF InHand
<1> QED
  BY <1>1, <1>2, <1>3, <1>4, <1>5, <1>6, <1>9

\* A batch is dropped or looked at before the loop sleeps again, and an entry of
\* it only leaves the pending list after a success.
LEMMA BatchNext ==
  ASSUME Single, IndInv, OnceInv, BatchPlace, BatchAcked,
         XAdd \/ Age \/ UNCHANGED vars \/ \E c \in Consumers : Calm(c)
  PROVE  BatchPlace' /\ BatchAcked'
<1> USE DEF server, reader, handler, claimer, env, history
<1>0. TypeOK /\ DyingPlace /\ LettersApart
  BY DEF IndInv, OnceInv
<1>1. CASE UNCHANGED <<claimPc, batch, owner, succ>>
  BY <1>1 DEF BatchPlace, BatchAcked
<1>2. ASSUME NEW c \in Consumers, Calm(c), ~UNCHANGED <<claimPc, batch, owner, succ>>
      PROVE  BatchPlace' /\ BatchAcked'
  <2>0. \A d \in Consumers : d = c
    BY DEF Single
  <2>1. CASE Crash(c)
    BY <1>0, <2>0, <2>1 DEF Crash, Forget, TypeOK, BatchPlace, BatchAcked
  <2>2. CASE ServeRead(c)
    <3>1. \A e \in Entries \ Undelivered : owner'[e] = owner[e]
      BY <2>2, ReadEffect
    <3>2. UNCHANGED <<claimPc, batch, succ>>
      BY <2>2, ReadEffect
    <3> QED
      BY <3>1, <3>2, HeldFacts DEF BatchPlace, BatchAcked
  <2>3. CASE HandlerOk(c)
    BY <2>3 DEF HandlerOk, BatchPlace, BatchAcked
  <2>4. CASE Ack(c)
    <3>1. /\ owner' = [e \in Entries |-> IF \E t \in job[c] : t[1] = e THEN Nobody ELSE owner[e]]
          /\ ackDue[c] /\ UNCHANGED <<claimPc, batch, succ>>
      BY <2>4 DEF Ack, XAck
    <3>2. \A t \in job[c] : t[1] \in succ
      BY <3>1 DEF IndInv, LedgerInv, AckedAfterSuccess
    <3> QED
      BY <3>1, <3>2, HeldFacts DEF BatchPlace, BatchAcked
  <2>5. CASE PollScan(c) \/ PollClaimed(c) \/ ServeCounts(c) \/ PollDeadAcked(c)
             \/ ServeDeadLetter(c)
    <3>1. UNCHANGED <<batch, owner, succ>>
      BY <2>5 DEF PollScan, PollClaimed, ServeCounts, PollDeadAcked, ServeDeadLetter
    <3>2. claimPc'[c] \in {"sleep", "scan"} => batch[c] = {}
      BY <1>0, <2>5
      DEF PollScan, PollClaimed, ServeCounts, PollDeadAcked, ServeDeadLetter, TypeOK, BatchPlace
    <3> QED
      BY <2>0, <3>1, <3>2 DEF BatchPlace, BatchAcked
  <2>6. CASE ServeScan(c)
    <3>1. /\ EntriesOf(batch'[c]) = Claimable(c) /\ claimPc'[c] = "claimed"
          /\ \A e \in Claimable(c) : owner'[e] = c
      BY <1>0, <2>6, ScanEffect
    <3>2. \A t \in batch'[c] : t[1] \in Claimable(c)
      BY <3>1 DEF EntriesOf
    <3> QED
      BY <2>0, <3>1, <3>2, ConstantsAssumption
      DEF BatchPlace, BatchAcked, ConstantsAssumption
  <2>7. CASE Condemn(c) \/ FillBuffer(c)
    <3>1. /\ batch'[c] \subseteq batch[c] /\ UNCHANGED <<owner, succ>>
          /\ claimPc'[c] \in {"sleep", "scan"} => batch'[c] = {}
      BY <1>0, <2>7 DEF Condemn, FillBuffer, TypeOK
    <3> QED
      BY <2>0, <3>1 DEF BatchPlace, BatchAcked
  <2>8. CASE ServeDeadAck(c)
    <3>1. /\ owner' = [e \in Entries |-> IF \E t \in dying[c] : t[1] = e THEN Nobody ELSE owner[e]]
          /\ claimPc'[c] = "dlacked" /\ UNCHANGED <<batch, succ>>
      BY <1>0, <2>8 DEF ServeDeadAck, ExecDeadAck, XAck, TypeOK
    <3>2. \A t \in batch[c] : owner'[t[1]] = owner[t[1]]
      BY <1>0, <3>1, HeldFacts DEF LettersApart
    <3> QED
      BY <2>0, <3>1, <3>2 DEF BatchPlace, BatchAcked
  <2>9. CASE Start(c) \/ PollRead(c) \/ TakeRead(c) \/ TakeClaim(c) \/ HandlerErr(c)
    BY <1>2, <2>9 DEF Start, PollRead, TakeRead, TakeClaim, HandlerErr
  <2> QED
    BY <1>2, <2>1, <2>2, <2>3, <2>4, <2>5, <2>6, <2>7, <2>8, <2>9
    DEF Calm, ReadLoop, Handle, ClaimLoop
<1>3. XAdd \/ Age \/ UNCHANGED vars => UNCHANGED <<claimPc, batch, owner, succ>>
  BY DEF XAdd, Age, vars
<1> QED
  BY <1>1, <1>2, <1>3
\* An entry over the cap that a decision lets go is not pending any more.
LEMMA Decided ==
  ASSUME HasCap, IndInv, CountsKnown, crashes <= 1, NEW c \in Consumers,
         claimPc[c] = "decide", OverCap(c) = {}, NEW t \in batch[c],
         times[t[1]] > MaxDeliveries
  PROVE  owner[t[1]] = Nobody
BY DEF CountsKnown, OverCap

\* Steps that deliver nothing and keep the claim loop's hands.
LEMMA LeftKept ==
  ASSUME Single, LeftAlike, UNCHANGED <<times, fresh>>, Pending' \subseteq Pending,
         crashes \in Nat, crashes' = crashes, NEW c \in Consumers,
         InHand(c)' \subseteq InHand(c), LeftOver(c)' \subseteq LeftOver(c)
  PROVE  LeftAlike'
<1>1. \A d \in Consumers : d = c
  BY DEF Single
<1>2. /\ Alike(InHand(c))
      /\ crashes = 0 => LeftOver(c) = {}
      /\ crashes <= 1 => Alike(LeftOver(c))
  BY DEF LeftAlike
<1>3. Alike(InHand(c))' /\ (crashes' = 0 => LeftOver(c)' = {})
  BY <1>2 DEF Alike
<1>4. crashes' <= 1 => Alike(LeftOver(c))'
  BY <1>2 DEF Alike
<1> QED
  BY <1>1, <1>3, <1>4 DEF LeftAlike

\* The claimed entries become idle together, and so do those that the loss of a
\* process left above the cap.
LEMMA LeftNext ==
  ASSUME Single, HasCap, MaxDeliveries > 0, IndInv, TypeOK', OnceInv, BatchPlace, LeftAlike,
         CountsKnown, XAdd \/ Age \/ UNCHANGED vars \/ \E c \in Consumers : Calm(c)
  PROVE  LeftAlike'
<1> USE DEF server, reader, handler, claimer, env, history
<1>0. TypeOK /\ DyingPlace /\ crashes \in Nat /\ MaxDeliveries \in Nat
  BY ConstantsAssumption DEF ConstantsAssumption, IndInv, OnceInv, TypeOK
<1>1. CASE UNCHANGED <<times, fresh, owner, batch, dying, crashes>>
  <2>1. \A c \in Consumers : InHand(c)' = InHand(c) /\ LeftOver(c)' = LeftOver(c)
    BY <1>1 DEF InHand, LeftOver, Pending
  <2> QED
    BY <1>1, <2>1 DEF LeftAlike, Alike
<1>2. CASE Age
  <2>1. fresh # <<>> /\ fresh' = Tail(fresh) /\ UNCHANGED <<times, owner, batch, dying, crashes>>
    BY <1>2 DEF Age
  <2>2. \A c \in Consumers : InHand(c)' = InHand(c) /\ LeftOver(c)' = LeftOver(c)
    BY <2>1 DEF InHand, LeftOver, Pending
  <2>3. ASSUME NEW E, Alike(E)
        PROVE  \A i \in DOMAIN fresh' : \A e, f \in E : e \in fresh'[i] => f \in fresh'[i]
    BY <1>0, <2>1, <2>3, AlikeAges
  <2> QED
    BY <2>1, <2>2, <2>3 DEF LeftAlike, Alike
<1>3. ASSUME NEW c \in Consumers, Calm(c),
             ~UNCHANGED <<times, fresh, owner, batch, dying, crashes>>
      PROVE  LeftAlike'
  <2>0. \A d \in Consumers : d = c
    BY DEF Single
  <2>a. /\ Alike(InHand(c))
        /\ crashes = 0 => LeftOver(c) = {}
        /\ crashes <= 1 => Alike(LeftOver(c))
    BY DEF LeftAlike
  <2>1. CASE Crash(c)
    <3>1. /\ batch'[c] = {} /\ dying'[c] = {} /\ crashes' = crashes + 1
          /\ UNCHANGED <<times, fresh, owner>>
      BY <1>0, <2>1 DEF Crash, Forget, TypeOK
    <3>2. InHand(c)' = {}
      BY <3>1 DEF InHand, EntriesOf
    <3>3. crashes' # 0 /\ (crashes' <= 1 => crashes = 0)
      BY <1>0, <3>1
    <3>4. LeftOver(c)' \subseteq LeftOver(c) \cup InHand(c)
      BY <3>1 DEF LeftOver, Pending
    <3>5. crashes' <= 1 => LeftOver(c)' \subseteq InHand(c)
      BY <2>a, <3>3, <3>4
    <3>6. crashes' <= 1 => Alike(LeftOver(c))'
      BY <2>a, <3>1, <3>5 DEF Alike
    <3>7. Alike(InHand(c))'
      BY <3>2 DEF Alike
    <3> QED
      BY <2>0, <3>3, <3>6, <3>7 DEF LeftAlike
  <2>2. CASE ServeRead(c)
    <3>1. /\ Pending' = Pending \cup Undelivered
          /\ \A e \in Undelivered : times'[e] = 1
          /\ \A e \in Entries \ Undelivered : times'[e] = times[e]
          /\ \A i \in DOMAIN fresh' :
               IF i \in DOMAIN fresh THEN fresh'[i] = fresh[i] ELSE fresh'[i] = Undelivered
          /\ UNCHANGED <<batch, dying, crashes>>
      BY <2>2, ReadEffect
    <3>2. InHand(c)' = InHand(c)
      BY <3>1 DEF InHand
    <3>3. \A e \in InHand(c) : e \notin Undelivered
      BY HeldFacts DEF InHand, EntriesOf
    <3>4. \A e \in LeftOver(c)' : e \notin Undelivered /\ e \in LeftOver(c)
      <4>1. ASSUME NEW e \in LeftOver(c)' PROVE e \notin Undelivered /\ e \in LeftOver(c)
        <5>1. e \in Pending' /\ times'[e] > MaxDeliveries /\ e \notin InHand(c)
          BY <3>2 DEF LeftOver
        <5>2. e \notin Undelivered
          BY <1>0, <3>1, <5>1
        <5>3. e \in Entries /\ e \in Pending
          BY <3>1, <5>1, <5>2 DEF Pending
        <5> QED
          BY <3>1, <5>1, <5>2, <5>3 DEF LeftOver
      <4> QED
        BY <4>1
    <3>5. Alike(InHand(c))'
      BY <2>a, <3>1, <3>2, <3>3 DEF Alike
    <3>6. crashes' <= 1 => Alike(LeftOver(c))'
      BY <2>a, <3>1, <3>4 DEF Alike
    <3> QED
      BY <2>0, <2>a, <3>1, <3>4, <3>5, <3>6 DEF LeftAlike
  <2>3. CASE ServeScan(c)
    <3>1. /\ Claimable(c) \subseteq Idle /\ Pending' = Pending
          /\ InHand(c) = {} /\ InHand(c)' = Claimable(c)
          /\ \A e \in Entries \ Claimable(c) : times'[e] = times[e]
          /\ \A i \in DOMAIN fresh' :
               IF i \in DOMAIN fresh THEN fresh'[i] = fresh[i] ELSE fresh'[i] = Claimable(c)
          /\ UNCHANGED crashes
      BY <1>0, <2>3, ScanEffect
    <3>2. \A e \in LeftOver(c)' : e \notin Claimable(c) /\ e \in LeftOver(c)
      BY <3>1 DEF LeftOver, Pending
    <3>3. Alike(InHand(c))'
      BY <3>1 DEF Alike, Idle
    <3>4. crashes' <= 1 => Alike(LeftOver(c))'
      BY <2>a, <3>1, <3>2 DEF Alike
    <3> QED
      BY <2>0, <2>a, <3>1, <3>2, <3>3, <3>4 DEF LeftAlike
  <2>4. CASE Ack(c)
    <3>1. Pending' \subseteq Pending /\ UNCHANGED <<times, fresh, batch, dying, crashes>>
      BY <1>0, <2>4 DEF Ack, XAck, Pending, TypeOK
    <3>2. InHand(c)' = InHand(c)
      BY <3>1 DEF InHand
    <3> QED
      BY <1>0, <3>1, <3>2, LeftKept DEF LeftOver
  <2>5. CASE Condemn(c)
    <3>1. PICK t \in batch[c] : /\ dying' = [dying EXCEPT ![c] = {t}]
                                /\ batch' = [batch EXCEPT ![c] = @ \ {t}]
      BY <2>5 DEF Condemn, OverCap
    <3>2. /\ dying[c] = {} /\ dying'[c] = {t} /\ batch'[c] = batch[c] \ {t}
          /\ UNCHANGED <<times, fresh, owner, crashes>>
      BY <1>0, <2>5, <3>1 DEF Condemn, DyingPlace, TypeOK
    <3>3. InHand(c)' = InHand(c)
      BY <3>2 DEF InHand, EntriesOf
    <3>4. Pending' = Pending /\ LeftOver(c)' = LeftOver(c)
      BY <3>2, <3>3 DEF LeftOver, Pending
    <3> QED
      BY <1>0, <3>2, <3>3, <3>4, LeftKept
  <2>6. CASE FillBuffer(c)
    <3>1. /\ batch'[c] = {} /\ dying[c] = {} /\ dying'[c] = {} /\ claimPc[c] = "decide"
          /\ OverCap(c) = {} /\ UNCHANGED <<times, fresh, owner, crashes>>
      BY <1>0, <2>6 DEF FillBuffer, DyingPlace, TypeOK
    <3>2. InHand(c)' = {} /\ InHand(c) = EntriesOf(batch[c])
      BY <3>1 DEF InHand, EntriesOf
    <3>3. CASE crashes <= 1
      <4>1. \A e \in InHand(c) : times[e] > MaxDeliveries => e \notin Pending
        BY <3>1, <3>2, <3>3, Decided DEF EntriesOf, Pending
      <4>2. LeftOver(c)' \subseteq LeftOver(c)
        BY <3>1, <4>1 DEF LeftOver, Pending
      <4> QED
        BY <1>0, <3>1, <3>2, <4>2, LeftKept DEF Pending
    <3>4. CASE ~(crashes <= 1)
      BY <1>0, <2>0, <3>1, <3>2, <3>4 DEF LeftAlike, Alike
    <3> QED
      BY <3>3, <3>4
  <2>7. CASE ServeDeadAck(c)
    <3>1. Pending' \subseteq Pending /\ UNCHANGED <<times, fresh, batch, dying, crashes>>
      BY <1>0, <2>7 DEF ServeDeadAck, ExecDeadAck, XAck, Pending, TypeOK
    <3>2. InHand(c)' = InHand(c)
      BY <3>1 DEF InHand
    <3> QED
      BY <1>0, <3>1, <3>2, LeftKept DEF LeftOver
  <2>8. CASE PollDeadAcked(c) \/ ServeDeadLetter(c)
    <3>1. /\ claimPc[c] \in {"dlacked", "dlpub"} /\ dying'[c] \in {dying[c], {}}
          /\ UNCHANGED <<times, fresh, owner, batch, crashes>>
      BY <1>0, <2>8 DEF PollDeadAcked, ServeDeadLetter, TypeOK
    <3>2. \A e \in EntriesOf(dying[c]) : e \notin Pending
      BY <3>1 DEF IndInv, CapInv, DyingCondemned, EntriesOf, Pending
    <3>3. InHand(c)' \subseteq InHand(c) /\ InHand(c) \subseteq InHand(c)' \cup EntriesOf(dying[c])
      BY <3>1 DEF InHand, EntriesOf
    <3>4. Pending' = Pending /\ LeftOver(c)' \subseteq LeftOver(c)
      BY <3>1, <3>2, <3>3 DEF LeftOver, Pending
    <3> QED
      BY <1>0, <3>1, <3>3, <3>4, LeftKept
  <2>9. CASE \/ Start(c) \/ PollRead(c) \/ TakeRead(c) \/ TakeClaim(c)
             \/ HandlerOk(c) \/ HandlerErr(c)
    BY <1>3, <2>9 DEF Start, PollRead, TakeRead, TakeClaim, HandlerOk, HandlerErr
  <2>10. CASE PollScan(c) \/ PollClaimed(c) \/ ServeCounts(c)
    BY <1>3, <2>10 DEF PollScan, PollClaimed, ServeCounts
  <2> QED
    BY <1>3, <2>1, <2>2, <2>3, <2>4, <2>5, <2>6, <2>7, <2>8, <2>9, <2>10
    DEF Calm, ReadLoop, Handle, ClaimLoop
<1>4. XAdd \/ UNCHANGED vars => UNCHANGED <<times, fresh, owner, batch, dying, crashes>>
  BY DEF XAdd, vars
<1> QED
  BY <1>1, <1>2, <1>3, <1>4
-----------------------------------------------------------------------------
(* The reply of XPENDING *)

\* A scan leaves no pending entry between the ones it claims and in front of one
\* that is over the cap: such an entry would be over the cap itself, together
\* with the claimed one before it, and idle like that one.
LEMMA ScanGap ==
  ASSUME IndInv, Fits, DyingPlace, BatchPlace, EarlierMore, CursorPassed, LeftAlike, crashes <= 1,
         NEW c \in Consumers, ServeScan(c), NEW a \in Claimable(c), NEW b \in Claimable(c),
         NEW e \in Pending, times'[b] > MaxDeliveries, a < e, e < b
  PROVE  e \in Claimable(c)
<1> SUFFICES ASSUME e \notin Claimable(c) PROVE FALSE
  OBVIOUS
<1> DEFINE S == {x \in Idle : cursor[c] <= x}
<1>1. /\ Claimable(c) \subseteq Pending /\ Claimable(c) \subseteq Idle /\ InHand(c) = {}
      /\ times'[b] = times[b] + 1
  BY ScanEffect
<1>2. /\ a \in Nat /\ b \in Nat /\ e \in Nat /\ e \in Entries /\ a \in Entries
      /\ times[a] \in Nat /\ times[b] \in Nat /\ times[e] \in Nat /\ MaxDeliveries \in Nat
  BY <1>1, PendingFacts, ConstantsAssumption DEF ConstantsAssumption
<1>3. times[e] > times[b]
  BY ScanPasses
<1>4. times[a] >= times[e]
  BY <1>1, <1>2 DEF EarlierMore
<1>5. e \in LeftOver(c) /\ a \in LeftOver(c)
  BY <1>1, <1>2, <1>3, <1>4 DEF LeftOver
<1>6. e \notin Idle
  <2>1. Claimable(c) = FirstK(S, ClaimCount) /\ ClaimCount \in Nat
    BY WholeReach, ConstantsAssumption DEF IndInv, ConstantsAssumption
  <2>2. S \in SUBSET Entries
    BY DEF Idle, Pending
  <2>3. cursor[c] <= a /\ cursor[c] \in Nat
    BY <2>1, FirstKSubset, ConstantsAssumption DEF ConstantsAssumption, IndInv, TypeOK
  <2>4. e \in Idle => e \in S
    BY <1>2, <2>3
  <2> QED
    BY <2>1, <2>2, <2>4, FirstKDown
<1>7. PICK i \in DOMAIN fresh : e \in fresh[i]
  BY <1>6 DEF Idle
<1>8. a \in fresh[i]
  BY <1>5, <1>7 DEF LeftAlike, Alike
<1> QED
  BY <1>1, <1>8 DEF Idle

\* Nothing gets between the claimed entries before their counts are read.
LEMMA GapNext ==
  ASSUME Single, Fits, IndInv, TypeOK', OnceInv, BatchPlace, EarlierMore, CursorPassed,
         LeftAlike, NoGap, XAdd \/ Age \/ UNCHANGED vars \/ \E c \in Consumers : Calm(c)
  PROVE  NoGap'
<1> USE DEF server, reader, handler, claimer, env, history
<1>0. TypeOK /\ DyingPlace
  BY DEF IndInv, OnceInv
<1>1. CASE /\ UNCHANGED <<batch, times, crashes>> /\ Pending' \subseteq Pending
           /\ \A c \in Consumers : claimPc'[c] \in {"claimed", "count"} =>
                                     claimPc[c] \in {"claimed", "count"}
  BY <1>1 DEF NoGap
<1>2. ASSUME NEW c \in Consumers, Calm(c)
      PROVE  NoGap'
  <2>0. \A d \in Consumers : d = c
    BY DEF Single
  <2>1. CASE Crash(c)
    BY <1>0, <2>0, <2>1 DEF Crash, Forget, TypeOK, NoGap
  <2>2. CASE ServeRead(c)
    <3>1. /\ Pending' = Pending \cup Undelivered
          /\ \A e \in Undelivered : e \in Nat /\ e > groupLast
          /\ \A e \in Entries \ Undelivered : times'[e] = times[e]
          /\ UNCHANGED <<batch, crashes, claimPc>>
      BY <2>2, ReadEffect
    <3>2. \A b \in EntriesOf(batch[c]) : /\ b \in Nat /\ b <= groupLast
                                         /\ times'[b] = times[b]
      BY <3>1, HeldFacts DEF EntriesOf
    <3>3. groupLast \in Nat
      BY <1>0, ConstantsAssumption DEF ConstantsAssumption, TypeOK
    <3>4. \A b \in EntriesOf(batch[c]), e \in Undelivered : ~(e < b)
      BY <3>1, <3>2, <3>3
    <3> QED
      BY <2>0, <3>1, <3>2, <3>4 DEF NoGap
  <2>3. CASE ServeScan(c)
    <3>1. /\ Pending' = Pending /\ EntriesOf(batch'[c]) = Claimable(c) /\ crashes' = crashes
      BY <1>0, <2>3, ScanEffect
    <3>2. SUFFICES ASSUME crashes <= 1, NEW a \in Claimable(c), NEW b \in Claimable(c),
                          NEW e \in Pending, times'[b] > MaxDeliveries, a < e, e < b
                   PROVE  e \in Claimable(c)
      BY <2>0, <3>1 DEF NoGap
    <3> QED
      BY <1>0, <2>3, <3>2, ScanGap
  <2>4. CASE PollClaimed(c)
    BY <1>0, <1>1, <2>4 DEF PollClaimed, Pending, TypeOK
  <2>5. CASE Ack(c)
    BY <1>0, <1>1, <2>5 DEF Ack, XAck, Pending, TypeOK
  <2>6. CASE \/ Start(c) \/ PollRead(c) \/ TakeRead(c) \/ TakeClaim(c)
             \/ HandlerOk(c) \/ HandlerErr(c)
    BY <1>1, <2>6 DEF Start, PollRead, TakeRead, TakeClaim, HandlerOk, HandlerErr, Pending
  <2>7. CASE \/ PollScan(c) \/ ServeCounts(c) \/ Condemn(c) \/ FillBuffer(c)
             \/ ServeDeadAck(c) \/ PollDeadAcked(c) \/ ServeDeadLetter(c)
    <3>1. claimPc'[c] \notin {"claimed", "count"}
      BY <1>0, <2>7
      DEF PollScan, ServeCounts, Condemn, FillBuffer, ServeDeadAck, ExecDeadAck, PollDeadAcked,
          ServeDeadLetter, TypeOK
    <3> QED
      BY <2>0, <3>1 DEF NoGap
  <2> QED
    BY <1>2, <2>1, <2>2, <2>3, <2>4, <2>5, <2>6, <2>7 DEF Calm, ReadLoop, Handle, ClaimLoop
<1>3. CASE XAdd \/ Age \/ UNCHANGED vars
  BY <1>1, <1>3 DEF XAdd, Age, vars, Pending
<1> QED
  BY <1>2, <1>3

\* A batch has as many deliveries as entries.
LEMMA BatchSize ==
  ASSUME IndInv, LettersApart, NEW c \in Consumers
  PROVE  /\ IsFiniteSet(EntriesOf(batch[c])) /\ IsFiniteSet(batch[c])
         /\ Cardinality(EntriesOf(batch[c])) = Cardinality(batch[c])
<1> DEFINE B == batch[c]
           E == EntriesOf(B)
           back == [e \in E |-> CHOOSE t \in B : t[1] = e]
<1>1. E \subseteq Entries
  BY HeldFacts DEF EntriesOf
<1>2. IsFiniteSet(Entries)
  BY ConstantsAssumption, FS_Interval DEF ConstantsAssumption, Entries
<1>3. IsFiniteSet(E)
  BY <1>1, <1>2, FS_Subset
<1>4. \A e \in E : back[e] \in B /\ back[e][1] = e
  BY DEF EntriesOf
<1>5. \A t \in B : t[1] \in E /\ back[t[1]] = t
  BY <1>4 DEF EntriesOf, LettersApart
<1>6. back \in Bijection(E, B)
  <2>1. back \in [E -> B]
    BY <1>4
  <2>2. \A e, f \in E : back[e] = back[f] => e = f
    BY <1>4
  <2>3. \A t \in B : \E e \in E : back[e] = t
    BY <1>5
  <2> HIDE DEF back
  <2>4. back \in Injection(E, B)
    BY <2>1, <2>2, Fun_IsInj
  <2>5. back \in Surjection(E, B)
    BY <2>1, <2>3, Fun_IsSurj
  <2> QED
    BY <2>4, <2>5, Fun_IsBij
<1> HIDE DEF back, E, B
<1>7. IsFiniteSet(B) /\ Cardinality(B) = Cardinality(E)
  BY <1>3, <1>6, FS_Bijection DEF ExistsBijection
<1> QED
  BY <1>3, <1>7 DEF E, B
\* A non-empty set of entries has a least one.
LEMMA LeastEntry ==
  ASSUME NEW S \in SUBSET Nat, S # {}
  PROVE  \E a \in S : \A e \in S : a <= e
<1>1. PICK a \in S : \A e \in S : ~(<<e, a>> \in OpToRel(<, Nat))
  BY NatLessThanWellFounded, WFMin
<1>2. \A e \in S : ~(e < a)
  BY <1>1 DEF OpToRel
<1>3. \A e \in S : e \in Nat /\ a \in Nat
  OBVIOUS
<1>4. ASSUME NEW e \in S PROVE a <= e
  BY <1>2, <1>3
<1> QED
  BY <1>4

\* XPENDING tells the count of a claimed entry that is still pending and over
\* the cap: in front of it are claimed entries only, fewer than COUNT.
LEMMA CountsTell ==
  ASSUME Single, BatchOrdered, IndInv, LettersApart, NoGap, crashes <= 1,
         NEW c \in Consumers, claimPc[c] = "count", NEW t \in batch[c],
         owner[t[1]] # Nobody, times[t[1]] > MaxDeliveries
  PROVE  t[1] \in FirstK(PendingRange(c), Cardinality(batch[c]))
<1> DEFINE b == t[1]
           E == EntriesOf(batch[c])
           M == {y \in PendingRange(c) : y < b}
<1>1. E \subseteq Entries /\ E \in SUBSET Nat /\ b \in E
  BY HeldFacts DEF EntriesOf
<1>2. PICK a \in E : \A e \in E : a <= e
  BY <1>1, LeastEntry
<1>3. \A e, f \in E : LexRank[e] <= LexRank[f] <=> e <= f
  BY DEF BatchOrdered
<1>4. owner[b] = c
  BY <1>1 DEF IndInv, TypeOK, Single
<1>5. b \in PendingRange(c)
  BY <1>1, <1>3, <1>4 DEF PendingRange
<1>6. ASSUME NEW y \in M PROVE y \in E \ {b}
  <2>1. y \in Entries /\ y \in Nat /\ owner[y] = c /\ y < b
    BY ConstantsAssumption DEF PendingRange, Entries, ConstantsAssumption
  <2>2. a <= y
    BY <1>2, <1>3 DEF PendingRange
  <2>3. y \in Pending
    BY <2>1, ConstantsAssumption DEF Pending, ConstantsAssumption
  <2>4. a < y => y \in E
    BY <1>1, <2>1, <2>3 DEF NoGap
  <2> QED
    BY <1>1, <2>1, <2>2, <2>4
<1>7. /\ IsFiniteSet(E) /\ Cardinality(E) = Cardinality(batch[c])
      /\ IsFiniteSet(E \ {b}) /\ Cardinality(E \ {b}) = Cardinality(E) - 1
      /\ Cardinality(E) \in Nat
  BY <1>1, BatchSize, FS_RemoveElement, FS_CardinalityType
<1>8. M \subseteq E \ {b}
  BY <1>6
<1>9. Cardinality(M) <= Cardinality(E \ {b}) /\ Cardinality(M) \in Nat
  BY <1>7, <1>8, FS_Subset, FS_CardinalityType
<1>10. Cardinality(M) < Cardinality(batch[c])
  BY <1>7, <1>9
<1> QED
  BY <1>5, <1>10 DEF FirstK

LEMMA CountsNext ==
  ASSUME Single, HasCap, BatchOrdered, IndInv, TypeOK', OnceInv, NoGap, CountsKnown,
         XAdd \/ Age \/ UNCHANGED vars \/ \E c \in Consumers : Calm(c)
  PROVE  CountsKnown'
<1> DEFINE Told == {"decide", "dlack", "dlacked", "dlpub"}
<1> USE DEF server, reader, handler, claimer, env, history
<1>0. TypeOK /\ DyingPlace /\ LettersApart /\ crashes \in Nat
  BY ConstantsAssumption DEF ConstantsAssumption, IndInv, OnceInv, TypeOK
<1>1. CASE /\ UNCHANGED <<times, counts, crashes>>
           /\ \A d \in Consumers : batch'[d] \subseteq batch[d]
           /\ \A e : owner'[e] = owner[e] \/ owner'[e] = Nobody
           /\ \A d \in Consumers : claimPc'[d] \in Told => claimPc[d] \in Told
  BY <1>1 DEF CountsKnown
<1>2. ASSUME NEW c \in Consumers, Calm(c)
      PROVE  CountsKnown'
  <2>0. \A d \in Consumers : d = c
    BY DEF Single
  <2>1. CASE Crash(c)
    BY <1>0, <2>0, <2>1 DEF Crash, Forget, TypeOK, CountsKnown
  <2>2. CASE ServeRead(c)
    <3>1. /\ \A e \in Entries \ Undelivered : times'[e] = times[e] /\ owner'[e] = owner[e]
          /\ UNCHANGED <<claimPc, batch, counts, crashes>>
      BY <2>2, ReadEffect
    <3>2. \A t \in batch[c] : times'[t[1]] = times[t[1]] /\ owner'[t[1]] = owner[t[1]]
      BY <3>1, HeldFacts
    <3> QED
      BY <2>0, <3>1, <3>2 DEF CountsKnown
  <2>3. CASE ServeCounts(c)
    <3>1. /\ counts'[c] = {<<e, times[e]>> : e \in FirstK(PendingRange(c), Cardinality(batch[c]))}
          /\ claimPc[c] = "count" /\ UNCHANGED <<owner, times, batch, crashes>>
      BY <1>0, <2>3 DEF ServeCounts, TypeOK
    <3>2. SUFFICES ASSUME crashes <= 1, NEW t \in batch[c], owner[t[1]] # Nobody,
                          times[t[1]] > MaxDeliveries
                   PROVE  \E k \in counts'[c] : k[1] = t[1] /\ k[2] > MaxDeliveries
      BY <2>0, <3>1 DEF CountsKnown
    <3>3. t[1] \in FirstK(PendingRange(c), Cardinality(batch[c]))
      BY <1>0, <3>1, <3>2, CountsTell
    <3>4. <<t[1], times[t[1]]>> \in counts'[c]
      BY <3>1, <3>3
    <3> QED
      BY <3>2, <3>4
  <2>4. CASE ServeDeadAck(c)
    <3>1. /\ claimPc[c] \in Told /\ UNCHANGED <<times, counts, crashes, batch>>
          /\ \A e \in Entries : owner'[e] = owner[e] \/ owner'[e] = Nobody
      BY <1>0, <2>4 DEF ServeDeadAck, ExecDeadAck, XAck, TypeOK
    <3> QED
      BY <2>0, <3>1, HeldFacts DEF CountsKnown
  <2>5. CASE Ack(c)
    <3>1. /\ UNCHANGED <<times, counts, crashes, batch, claimPc>>
          /\ \A e \in Entries : owner'[e] = owner[e] \/ owner'[e] = Nobody
      BY <1>0, <2>5 DEF Ack, XAck, TypeOK
    <3> QED
      BY <2>0, <3>1, HeldFacts DEF CountsKnown
  <2>6. CASE Condemn(c) \/ PollDeadAcked(c) \/ ServeDeadLetter(c)
    <3>1. /\ claimPc[c] \in Told /\ UNCHANGED <<owner, times, counts, crashes>>
          /\ batch'[c] \subseteq batch[c]
      BY <1>0, <2>6 DEF Condemn, PollDeadAcked, ServeDeadLetter, TypeOK
    <3> QED
      BY <2>0, <3>1 DEF CountsKnown
  <2>7. CASE PollScan(c) \/ ServeScan(c) \/ PollClaimed(c) \/ FillBuffer(c)
    <3>1. claimPc'[c] \notin Told
      BY <1>0, <2>7 DEF PollScan, ServeScan, ExecScan, PollClaimed, FillBuffer, TypeOK
    <3> QED
      BY <2>0, <3>1 DEF CountsKnown
  <2>8. CASE \/ Start(c) \/ PollRead(c) \/ TakeRead(c) \/ TakeClaim(c)
             \/ HandlerOk(c) \/ HandlerErr(c)
    BY <1>1, <2>8 DEF Start, PollRead, TakeRead, TakeClaim, HandlerOk, HandlerErr
  <2> QED
    BY <1>2, <2>1, <2>2, <2>3, <2>4, <2>5, <2>6, <2>7, <2>8
    DEF Calm, ReadLoop, Handle, ClaimLoop
<1>3. CASE XAdd \/ Age \/ UNCHANGED vars
  BY <1>1, <1>3 DEF XAdd, Age, vars
<1> QED
  BY <1>2, <1>3
-----------------------------------------------------------------------------
(* The cap *)

\* What the claim loop buffers is within the cap or has been handled, and so is
\* what the handler gets.
LEMMA BufferNext ==
  ASSUME Single, HasCap, MaxDeliveries > 0, IndInv, TypeOK', FirstAhead, faults = 0,
         BatchAcked, CountsKnown, BufferWithin, CapHolds,
         XAdd \/ Age \/ UNCHANGED vars \/ \E c \in Consumers : Calm(c)
  PROVE  BufferWithin' /\ CapHolds'
<1> USE DEF server, reader, handler, claimer, env, history
<1>0. TypeOK /\ MaxDeliveries \in Nat
  BY ConstantsAssumption DEF ConstantsAssumption, IndInv
<1>1. CASE UNCHANGED <<claimBuf, called, succ, faults, crashes>>
  BY <1>1 DEF BufferWithin, CapHolds
<1>2. ASSUME NEW c \in Consumers, Calm(c),
             ~UNCHANGED <<claimBuf, called, succ, faults, crashes>>
      PROVE  BufferWithin' /\ CapHolds'
  <2>0. \A d \in Consumers : d = c
    BY DEF Single
  <2>1. CASE Crash(c)
    BY <1>0, <2>0, <2>1 DEF Crash, Forget, TypeOK, BufferWithin, CapHolds
  <2>2. CASE TakeRead(c)
    <3>1. PICK t \in readBuf[c] : called' = called \cup {t}
      BY <2>2 DEF TakeRead
    <3>2. ~(t[2] > MaxDeliveries)
      BY <1>0, <3>1 DEF FirstAhead
    <3>3. UNCHANGED <<claimBuf, succ, faults, crashes>>
      BY <2>2 DEF TakeRead
    <3> QED
      BY <3>1, <3>2, <3>3 DEF BufferWithin, CapHolds
  <2>3. CASE TakeClaim(c)
    <3>1. PICK t \in claimBuf[c] : /\ claimBuf' = [claimBuf EXCEPT ![c] = @ \ {t}]
                                   /\ called' = called \cup {t}
      BY <2>3 DEF TakeClaim
    <3>2. claimBuf'[c] \subseteq claimBuf[c] /\ UNCHANGED <<succ, faults, crashes>>
      BY <1>0, <2>3, <3>1 DEF TakeClaim, TypeOK
    <3> QED
      BY <2>0, <3>1, <3>2 DEF BufferWithin, CapHolds
  <2>4. CASE HandlerOk(c)
    BY <2>4 DEF HandlerOk, BufferWithin, CapHolds
  <2>5. CASE FillBuffer(c)
    <3>1. /\ claimBuf'[c] = batch[c] /\ claimPc[c] = "decide" /\ OverCap(c) = {}
          /\ UNCHANGED <<called, succ, faults, crashes>>
      BY <1>0, <2>5 DEF FillBuffer, TypeOK
    <3>2. ASSUME crashes <= 1, NEW t \in batch[c], t[2] > MaxDeliveries
          PROVE  t[1] \in succ
      <4>1. times[t[1]] > MaxDeliveries
        BY <1>0, <3>2, HeldFacts
      <4>2. owner[t[1]] = Nobody
        BY <3>1, <3>2, <4>1, Decided
      <4> QED
        BY <4>2 DEF BatchAcked
    <3> QED
      BY <2>0, <3>1, <3>2 DEF BufferWithin, CapHolds
  <2>6. CASE Start(c) \/ ReadLoop(c) \/ HandlerErr(c) \/ Ack(c)
    BY <1>2, <2>6 DEF Start, ReadLoop, PollRead, ServeRead, ExecRead, HandlerErr, Ack
  <2>7. CASE \/ PollScan(c) \/ ServeScan(c) \/ PollClaimed(c) \/ ServeCounts(c) \/ Condemn(c)
             \/ ServeDeadAck(c) \/ PollDeadAcked(c) \/ ServeDeadLetter(c)
    BY <1>2, <2>7
    DEF PollScan, ServeScan, ExecScan, PollClaimed, ServeCounts, Condemn, ServeDeadAck,
        ExecDeadAck, PollDeadAcked, ServeDeadLetter
  <2> QED
    BY <1>2, <2>1, <2>2, <2>3, <2>4, <2>5, <2>6, <2>7 DEF Calm, Handle, ClaimLoop
<1>3. XAdd \/ Age \/ UNCHANGED vars => UNCHANGED <<claimBuf, called, succ, faults, crashes>>
  BY DEF XAdd, Age, vars
<1> QED
  BY <1>1, <1>2, <1>3

\* What the cap rests on, all of it kept by every step.
CapInductive ==
  EndedByFault /\ OnceInv /\ FirstAhead /\ OrderInv /\ ScanInv /\ CountInv

LEMMA CapInit == Init => CapInductive
<1> SUFFICES ASSUME Init PROVE CapInductive
  OBVIOUS
<1>1. EndedByFault /\ OnceInv /\ FirstAhead /\ OrderInv
  BY EndedInit, OnceInit, FirstInit, OrderInit
<1>2. ScanInv
  BY DEF Init, ScanInv, LeftAlike, NoGap, BatchPlace, BatchAcked, Alike, InHand, EntriesOf,
         LeftOver, Pending
<1>3. CountInv
  BY DEF Init, CountInv, CountsKnown, BufferWithin, CapHolds
<1> QED
  BY <1>1, <1>2, <1>3 DEF CapInductive

LEMMA CapInductiveNext ==
  ASSUME Single, HasCap, MaxDeliveries > 0, Fits, BatchOrdered, IndInv, IndInv', CapInductive,
         [Next]_vars
  PROVE  CapInductive'
<1> USE DEF CapInductive
<1>0. TypeOK /\ TypeOK'
  BY DEF IndInv
<1>1. EndedByFault' /\ OnceInv' /\ FirstAhead'
  BY <1>0, EndedNext, OnceNext, DyingPlaceNext, FirstNext DEF Single, OnceInv
<1>2. OrderInv'
  BY <1>0, OrderNext
<1>3. ASSUME faults' = 0
      PROVE  (LeftAlike /\ NoGap /\ BatchPlace /\ BatchAcked)'
             /\ (CountsKnown /\ BufferWithin /\ CapHolds)'
  <2>1. /\ faults = 0
        /\ XAdd \/ Age \/ UNCHANGED vars \/ \E c \in Consumers : Calm(c)
    BY <1>0, <1>3, NoFault
  <2>2. /\ EarlierMore /\ CursorPassed /\ LeftAlike /\ NoGap /\ BatchPlace /\ BatchAcked
        /\ CountsKnown /\ BufferWithin /\ CapHolds
    BY <2>1 DEF OrderInv, ScanInv, CountInv
  <2>3. BatchPlace' /\ BatchAcked'
    BY <2>1, <2>2, BatchNext
  <2>4. LeftAlike'
    BY <1>0, <2>1, <2>2, LeftNext
  <2>5. NoGap'
    BY <1>0, <2>1, <2>2, GapNext
  <2>6. CountsKnown'
    BY <1>0, <2>1, <2>2, CountsNext
  <2>7. BufferWithin' /\ CapHolds'
    BY <1>0, <2>1, <2>2, BufferNext
  <2> QED
    BY <2>3, <2>4, <2>5, <2>6, <2>7
<1> QED
  BY <1>1, <1>2, <1>3 DEF ScanInv, CountInv

\* Until a command fails, and while one scan can look at the whole pending list,
\* that list is ordered by deliveries and age for a single consumer, and the claim
\* cursor has only passed entries that are ahead in deliveries: the scan goes
\* round, it does not favour an entry.
THEOREM OrderedPendingList ==
  ASSUME Single
  PROVE  Spec /\ []Fits => []OrderInv
<1>1. Init => EndedByFault /\ OrderInv
  BY EndedInit, OrderInit
<1>2. Fits /\ IndInv /\ IndInv' /\ EndedByFault /\ OrderInv /\ [Next]_vars =>
        EndedByFault' /\ OrderInv'
  BY EndedNext, OrderNext DEF IndInv
<1> QED
  BY <1>1, <1>2, Inductive, PTL DEF Spec

\* While one scan can look at the whole pending list and the ids claimed together
\* are in byte order, a single consumer with a cap never gives its handler an
\* entry above it, unless an earlier call for the entry has succeeded, until a
\* command fails or the process has been lost twice.
THEOREM CapNotMissed ==
  ASSUME Single, HasCap, MaxDeliveries > 0
  PROVE  Spec /\ []Fits /\ []BatchOrdered => []CapHolds
<1>1. Init => CapInductive
  BY CapInit
<1>2. Fits /\ BatchOrdered /\ IndInv /\ IndInv' /\ CapInductive /\ [Next]_vars => CapInductive'
  BY CapInductiveNext
<1>3. CapInductive => CapHolds
  BY DEF CapInductive, CountInv, CapHolds
<1> QED
  BY <1>1, <1>2, <1>3, Inductive, PTL DEF Spec

=============================================================================
