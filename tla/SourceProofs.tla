------------------------------ MODULE SourceProofs ------------------------------
(***************************************************************************)
(* What the log of any source is like, however long: positions follow its  *)
(* order, and the table is what its last changes made of it.  Before it,   *)
(* what every module of proofs needs: induction stated on a set instead of *)
(* a predicate, and sums over finite sets.                                 *)
(***************************************************************************)
EXTENDS Source, FiniteSetTheorems, WellFoundedInduction, TLAPS

-----------------------------------------------------------------------------
(* Induction, on a set instead of a predicate.                              *)

\* A set of numbers that is not empty has a least one.
LEMMA LeastOf ==
  ASSUME NEW T \in SUBSET Nat, T # {}
  PROVE  \E m \in T : \A k \in T : m <= k
<1>1. PICK m \in T : \A k \in T : ~(<<k, m>> \in OpToRel(<, Nat))
  BY NatLessThanWellFounded, WFMin
<1>2. \A k \in T : ~(k < m)
  BY <1>1 DEF OpToRel
<1> QED BY <1>2

LEMMA NatSetInduction ==
  ASSUME NEW S, 0 \in S, \A n \in Nat : n \in S => n + 1 \in S
  PROVE  Nat \subseteq S
<1> SUFFICES ASSUME Nat \ S # {} PROVE FALSE
  OBVIOUS
<1>1. PICK m \in Nat \ S : \A k \in Nat \ S : m <= k
  BY LeastOf
<1>2. m # 0 /\ m - 1 \in Nat /\ m - 1 \in S
  BY <1>1
<1> QED BY <1>1, <1>2

\* A bounded set of numbers that is not empty has a greatest one.
LEMMA GreatestOf ==
  ASSUME NEW T \in SUBSET Nat, T # {}, NEW b \in Nat, \A k \in T : k <= b
  PROVE  \E m \in T : \A k \in T : k <= m
<1> DEFINE D == {d \in Nat : b - d \in T}
<1>1. D # {}
  <2>1. PICK k \in T : k <= b
    OBVIOUS
  <2>2. b - k \in Nat /\ b - (b - k) = k
    BY <2>1
  <2> QED BY <2>2
<1>2. PICK d \in D : \A c \in D : d <= c
  BY <1>1, LeastOf
<1>3. ASSUME NEW k \in T PROVE k <= b - d
  <2>1. b - k \in D /\ d \in Nat /\ k \in Nat /\ k <= b
    OBVIOUS
  <2>2. d <= b - k
    BY <1>2, <2>1
  <2> QED BY <2>1, <2>2
<1>4. b - d \in T
  OBVIOUS
<1> QED BY <1>3, <1>4

\* The places of a sequence from a set of places: one of them holds the greatest.
LEMMA GreatestPlace ==
  ASSUME NEW n \in Nat, NEW J \in SUBSET (1..n), J # {},
         NEW f, \A j \in J : f[j] \in Nat
  PROVE  \E m \in J : \A j \in J : f[j] <= f[m]
<1> DEFINE S == {k \in Nat : \A I \in SUBSET J :
                   I # {} /\ (\A i \in I : i <= k) => \E m \in I : \A j \in I : f[j] <= f[m]}
<1>1. 0 \in S
  <2> SUFFICES ASSUME NEW I \in SUBSET J, I # {}, \A i \in I : i <= 0 PROVE FALSE
    OBVIOUS
  <2>1. PICK i \in I : i \in 1..n /\ i <= 0
    OBVIOUS
  <2> QED BY <2>1
<1>2. ASSUME NEW k \in Nat, k \in S PROVE k + 1 \in S
  <2> SUFFICES ASSUME NEW I \in SUBSET J, I # {}, \A i \in I : i <= k + 1
               PROVE  \E m \in I : \A j \in I : f[j] <= f[m]
    OBVIOUS
  <2> DEFINE L == I \ {k + 1}
  <2>1. \A i \in L : i <= k
    OBVIOUS
  <2>2. CASE k + 1 \notin I
    <3>1. L = I
      BY <2>2
    <3> QED BY <1>2, <2>1, <3>1
  <2>3. CASE L = {}
    <3>1. I = {k + 1}
      BY <2>3
    <3> QED BY <3>1
  <2>4. CASE k + 1 \in I /\ L # {}
    <3>1. PICK m \in L : \A j \in L : f[j] <= f[m]
      BY <1>2, <2>1, <2>4
    <3>2. f[m] \in Nat /\ f[k + 1] \in Nat /\ \A j \in L : f[j] \in Nat
      BY <2>4
    <3>3. CASE f[m] <= f[k + 1]
      <4>1. \A j \in I : f[j] <= f[k + 1]
        BY <3>1, <3>2, <3>3
      <4> QED BY <2>4, <4>1
    <3>4. CASE ~(f[m] <= f[k + 1])
      BY <3>1, <3>2, <3>4
    <3> QED BY <3>3, <3>4
  <2> QED BY <2>2, <2>3, <2>4
<1> HIDE DEF S
<1>3. n \in S
  BY <1>1, <1>2, NatSetInduction
<1> QED BY <1>3 DEF S

-----------------------------------------------------------------------------
(* Sums over finite sets.                                                   *)

\* Of the sets a property holds of, subsets of a finite one, one is minimal.
LEMMA MinimalSet ==
  ASSUME NEW D, IsFiniteSet(D), NEW B \in SUBSET (SUBSET D), B # {}
  PROVE  \E s \in B : \A t \in SUBSET s : t # s => t \notin B
<1> DEFINE T == {Cardinality(s) : s \in B}
<1>1. \A s \in B : IsFiniteSet(s) /\ Cardinality(s) \in Nat
  BY FS_Subset, FS_CardinalityType
<1>2. T \in SUBSET Nat /\ T # {}
  BY <1>1
<1> HIDE DEF T
<1>3. PICK m \in T : \A k \in T : m <= k
  BY <1>2, LeastOf
<1>4. PICK s \in B : m = Cardinality(s)
  BY <1>3 DEF T
<1>5. ASSUME NEW t \in SUBSET s, t # s, t \in B PROVE FALSE
  <2>1. Cardinality(t) <= Cardinality(s) /\ (Cardinality(s) = Cardinality(t) => s = t)
    BY <1>1, <1>5, FS_Subset
  <2>2. Cardinality(s) <= Cardinality(t) /\ Cardinality(s) \in Nat /\ Cardinality(t) \in Nat
    BY <1>1, <1>3, <1>4, <1>5 DEF T
  <2> QED BY <1>5, <2>1, <2>2
<1> QED BY <1>5

\* The element a fold takes next.
Pick(s) == CHOOSE x \in s : TRUE

\* It is one of them.
LEMMA PickIn ==
  ASSUME NEW s, s # {}
  PROVE  Pick(s) \in s
BY DEF Pick

\* The recursion a sum over the subsets of S goes by.
SumsUp(f, W, S) ==
  f = [s \in SUBSET S |-> IF s = {} THEN 0 ELSE W[Pick(s)] + f[s \ {Pick(s)}]]

\* A sum, one element at a time.
LEMMA SumEquation ==
  ASSUME NEW f, NEW W, NEW S, SumsUp(f, W, S), NEW s \in SUBSET S
  PROVE  f[s] = IF s = {} THEN 0 ELSE W[Pick(s)] + f[s \ {Pick(s)}]
BY DEF SumsUp

\* One step of the recursion on a candidate for the sum.
Refined(f, W, S) ==
  [s \in SUBSET S |-> IF s = {} THEN 0 ELSE W[Pick(s)] + f[s \ {Pick(s)}]]

\* Over a finite set the recursion has a solution.
LEMMA SumExists ==
  ASSUME NEW S, IsFiniteSet(S), NEW W
  PROVE  \E f : SumsUp(f, W, S)
<1> DEFINE Right(f, s) == f[s] = Refined(f, W, S)[s]
<1> DEFINE Good == {n \in Nat : \E f : /\ f = [s \in SUBSET S |-> f[s]]
                                       /\ \A s \in SUBSET S : Cardinality(s) <= n => Right(f, s)}
<1>1. \A s \in SUBSET S : IsFiniteSet(s) /\ Cardinality(s) \in Nat
                          /\ Cardinality(s) <= Cardinality(S) /\ Cardinality(S) \in Nat
  BY FS_Subset, FS_CardinalityType
<1>2. 0 \in Good
  <2> DEFINE f == [s \in SUBSET S |-> 0]
  <2>1. \A s \in SUBSET S : Cardinality(s) <= 0 => s = {}
    BY <1>1, FS_EmptySet
  <2>2. \A s \in SUBSET S : Cardinality(s) <= 0 => Right(f, s)
    BY <2>1 DEF Refined
  <2>3. f = [s \in SUBSET S |-> f[s]]
    OBVIOUS
  <2> HIDE DEF f, Right
  <2> QED BY <2>2, <2>3
<1>3. ASSUME NEW n \in Nat, n \in Good PROVE n + 1 \in Good
  <2>1. PICK f : \A s \in SUBSET S : Cardinality(s) <= n => Right(f, s)
    BY <1>3
  <2> DEFINE g == Refined(f, W, S)
  <2>2. ASSUME NEW s \in SUBSET S, Cardinality(s) <= n + 1 PROVE Right(g, s)
    <3>1. CASE s = {}
      BY <3>1 DEF Refined
    <3>2. CASE s # {}
      <4> DEFINE x == Pick(s)
      <4> DEFINE t == s \ {x}
      <4>1. x \in s
        BY <3>2, PickIn
      <4> HIDE DEF x
      <4>2. t \in SUBSET S /\ Cardinality(t) <= n
        BY <1>1, <2>2, <4>1, FS_RemoveElement
      <4>3. f[t] = g[t]
        BY <2>1, <4>2
      <4>4. g[s] = W[x] + f[t] /\ Refined(g, W, S)[s] = W[x] + g[t]
        BY <3>2 DEF Refined, x
      <4> QED BY <4>3, <4>4
    <3> QED BY <3>1, <3>2
  <2>3. g = [s \in SUBSET S |-> g[s]]
    BY DEF Refined
  <2>4. \A s \in SUBSET S : Cardinality(s) <= n + 1 => Right(g, s)
    BY <2>2
  <2> HIDE DEF g, Right
  <2>5. \E h : /\ h = [s \in SUBSET S |-> h[s]]
               /\ \A s \in SUBSET S : Cardinality(s) <= n + 1 => Right(h, s)
    BY <2>3, <2>4
  <2>6. n + 1 \in Nat
    OBVIOUS
  <2> HIDE DEF Right
  <2> QED BY <2>5, <2>6 DEF Good
<1> HIDE DEF Good
<1>4. Cardinality(S) \in Good
  <2>1. Cardinality(S) \in Nat /\ Nat \subseteq Good
    BY <1>1, <1>2, <1>3, NatSetInduction
  <2> QED BY <2>1
<1>5. PICK f : /\ f = [s \in SUBSET S |-> f[s]]
               /\ \A s \in SUBSET S : Right(f, s)
  BY <1>1, <1>4 DEF Good
<1>6. f = Refined(f, W, S)
  BY <1>5 DEF Refined
<1> QED BY <1>6 DEF Refined, SumsUp

\* Sums over a set and over one it is part of agree.
LEMMA SumsAgree ==
  ASSUME NEW D, IsFiniteSet(D), NEW W, NEW S \in SUBSET D, NEW f, SumsUp(f, W, D),
         NEW g, SumsUp(g, W, S), NEW s \in SUBSET S
  PROVE  f[s] = g[s]
<1> DEFINE B == {t \in SUBSET S : f[t] # g[t]}
<1> SUFFICES ASSUME B # {} PROVE FALSE
  OBVIOUS
<1>1. IsFiniteSet(S) /\ B \in SUBSET (SUBSET S)
  BY FS_Subset
<1>2. PICK t \in B : \A u \in SUBSET t : u # t => u \notin B
  BY <1>1, MinimalSet
<1>3. CASE t = {}
  <2>1. f[{}] = 0 /\ g[{}] = 0
    BY SumEquation
  <2> QED BY <1>2, <1>3, <2>1
<1>4. CASE t # {}
  <2>1. Pick(t) \in t
    BY <1>4, PickIn
  <2>2. f[t \ {Pick(t)}] = g[t \ {Pick(t)}]
    BY <1>2, <2>1
  <2>3. f[t] = W[Pick(t)] + f[t \ {Pick(t)}] /\ g[t] = W[Pick(t)] + g[t \ {Pick(t)}]
    BY <1>2, <1>4, SumEquation
  <2> QED BY <1>2, <2>2, <2>3
<1> QED BY <1>3, <1>4

\* Any element may be the one the sum takes first.
LEMMA SumTakesAny ==
  ASSUME NEW D, IsFiniteSet(D), NEW W, \A x \in D : W[x] \in Nat, NEW f, SumsUp(f, W, D)
  PROVE  /\ f[{}] = 0
         /\ \A s \in SUBSET D : f[s] \in Nat /\ \A x \in s : f[s] = W[x] + f[s \ {x}]
<1> DEFINE Right(s) == f[s] \in Nat /\ \A x \in s : f[s] = W[x] + f[s \ {x}]
<1> DEFINE B == {s \in SUBSET D : ~Right(s)}
<1>1. f[{}] = 0
  BY SumEquation
<1> SUFFICES ASSUME B # {} PROVE FALSE
  BY <1>1
<1> HIDE DEF Right
<1>2. PICK s \in B : \A t \in SUBSET s : t # s => t \notin B
  <2>1. B \in SUBSET (SUBSET D)
    OBVIOUS
  <2> HIDE DEF B
  <2> QED BY <2>1, MinimalSet
<1>3. s # {} /\ s \in SUBSET D /\ ~Right(s)
  <2>1. s \in SUBSET D /\ ~Right(s)
    BY <1>2
  <2>2. Right({})
    BY <1>1 DEF Right
  <2>3. s # {}
    BY <2>1, <2>2
  <2> QED BY <2>1, <2>3
<1> DEFINE c == Pick(s)
<1>4. c \in s
  BY <1>3, PickIn
<1>5. f[s] = W[c] + f[s \ {c}]
  BY <1>3, SumEquation
<1>6. \A t \in SUBSET s : t # s => f[t] \in Nat /\ \A x \in t : f[t] = W[x] + f[t \ {x}]
  BY <1>2, <1>3 DEF Right
<1> HIDE DEF c, B
<1>7. f[s \ {c}] \in Nat /\ f[s] \in Nat /\ W[c] \in Nat
  BY <1>3, <1>4, <1>5, <1>6
<1>8. ASSUME NEW x \in s, x # c PROVE f[s] = W[x] + f[s \ {x}]
  <2> DEFINE u == s \ {c, x}
  <2>1. (s \ {c}) \ {x} = u /\ (s \ {x}) \ {c} = u
    OBVIOUS
  <2>2. f[s \ {c}] = W[x] + f[u]
    <3>1. s \ {c} \in SUBSET s /\ s \ {c} # s /\ x \in s \ {c}
      BY <1>4, <1>8
    <3> QED BY <1>6, <2>1, <3>1
  <2>3. f[s \ {x}] = W[c] + f[u] /\ f[u] \in Nat /\ W[x] \in Nat
    <3>1. s \ {x} \in SUBSET s /\ s \ {x} # s /\ c \in s \ {x} /\ x \in D
      BY <1>3, <1>4, <1>8
    <3>2. u \in SUBSET s /\ u # s
      BY <1>8
    <3> QED BY <1>6, <2>1, <3>1, <3>2
  <2> QED BY <1>5, <1>7, <2>2, <2>3
<1>9. Right(s)
  BY <1>5, <1>7, <1>8 DEF Right
<1> QED BY <1>3, <1>9

-----------------------------------------------------------------------------
(* The invariant of the log.                                                *)

LogOrdered ==
  \A i, j \in DOMAIN log :
    /\ i <= j => log[i].lsn <= log[j].lsn
    /\ ~Ties /\ i < j => log[i].lsn < log[j].lsn

DeletesAreEmpty == \A i \in DOMAIN log : log[i].op = "d" <=> log[i].val = Absent

ChangesTo(r) == {i \in DOMAIN log : log[i].row = r}

TableIsLastChange ==
  \A r \in Rows :
    \/ ChangesTo(r) = {} /\ table[r] = Absent
    \/ \E i \in ChangesTo(r) : IsLast(i, ChangesTo(r)) /\ table[r] = log[i].val

LogInv == LogOrdered /\ DeletesAreEmpty /\ TableIsLastChange

-----------------------------------------------------------------------------
(* Records.                                                                 *)

LEMMA ValueNotAbsent == Absent \notin Values
BY EventsAssumption DEF EventsAssumption

LEMMA StreamElements ==
  ASSUME NEW e
  PROVE  e \in Stream(log) <=>
           \E i \in DOMAIN log :
             \/ e = ChangeRecord(i, log[i])
             \/ log[i].op = "d" /\ e = TombstoneRecord(i, log[i])
BY DEF Stream, Envelope

LEMMA RecordFields ==
  ASSUME NEW i, NEW c
  PROVE  /\ ChangeRecord(i, c).at = i /\ TombstoneRecord(i, c).at = i
         /\ ~ChangeRecord(i, c).tomb /\ TombstoneRecord(i, c).tomb
         /\ ChangeRecord(i, c).key = KeyOf[c.row]
         /\ TombstoneRecord(i, c).key = KeyOf[c.row]
         /\ ChangeRecord(i, c).lsn = c.lsn /\ TombstoneRecord(i, c).lsn = c.lsn
         /\ ChangeRecord(i, c).val = c.val /\ ChangeRecord(i, c).op = c.op
         /\ ChangeRecord(i, c).row = ImageRow(c)
BY DEF ChangeRecord, TombstoneRecord

-----------------------------------------------------------------------------
(* A commit.                                                                *)

LEMMA SourceInitInv == SourceInit => SourceTypeOK /\ LogInv
BY DEF SourceInit, SourceTypeOK, Changes, LogInv, LogOrdered, DeletesAreEmpty,
       TableIsLastChange, ChangesTo

\* What a commit does to the log, whichever statement it came from.
LEMMA CommitStep ==
  ASSUME SourceTypeOK, LogInv, SourceNext
  PROVE  \E r \in Rows, op \in {"c", "u", "d"}, v \in Values \cup {Absent}, n \in NextLsns :
           /\ log' = Append(log, [row |-> r, op |-> op, val |-> v, lsn |-> n])
           /\ table' = [table EXCEPT ![r] = v]
           /\ op = "d" <=> v = Absent
<1>1. CASE \E r \in Rows, v \in Values : Insert(r, v) \/ Update(r, v)
  BY <1>1, ValueNotAbsent DEF Insert, Update, Commit
<1>2. CASE \E r \in Rows : Delete(r)
  BY <1>2 DEF Delete, Commit
<1> QED BY <1>1, <1>2 DEF SourceNext

LEMMA LogGrows ==
  ASSUME SourceTypeOK, LogInv, SourceNext
  PROVE  /\ LogInv' /\ SourceTypeOK'
         /\ DOMAIN log \subseteq DOMAIN log'
         /\ \A i \in DOMAIN log : log'[i] = log[i]
         /\ DOMAIN log' = 1..(Len(log) + 1) /\ DOMAIN log = 1..Len(log)
         /\ Len(log) \in Nat
<1>1. PICK r \in Rows, op \in {"c", "u", "d"}, v \in Values \cup {Absent}, n \in NextLsns :
        /\ log' = Append(log, [row |-> r, op |-> op, val |-> v, lsn |-> n])
        /\ table' = [table EXCEPT ![r] = v]
        /\ op = "d" <=> v = Absent
  BY CommitStep
<1> DEFINE c == [row |-> r, op |-> op, val |-> v, lsn |-> n]
<1> DEFINE N == Len(log) + 1
<1>2. log \in Seq(Changes) /\ Len(log) \in Nat /\ DOMAIN log = 1..Len(log)
  BY DEF SourceTypeOK
<1>3. \A i \in DOMAIN log : log[i].lsn \in Nat \ {0}
  <2>1. \A i \in DOMAIN log : log[i] \in Changes
    BY <1>2
  <2> QED BY <2>1 DEF Changes
<1>4. n \in Nat \ {0} /\ \A i \in DOMAIN log : log[i].lsn <= n /\ (~Ties => log[i].lsn < n)
  <2>1. CASE log = <<>>
    BY <2>1, <1>2 DEF NextLsns, LastLsn
  <2>2. CASE log # <<>>
    <3>1. Len(log) \in DOMAIN log /\ LastLsn = log[Len(log)].lsn
      BY <2>2, <1>2 DEF LastLsn
    <3>2. \A i \in DOMAIN log : log[i].lsn <= LastLsn
      BY <3>1, <1>2 DEF LogInv, LogOrdered
    <3>3. n = LastLsn + 1 \/ (Ties /\ n = LastLsn)
      BY DEF NextLsns
    <3> QED BY <3>1, <3>2, <3>3, <1>3
  <2> QED BY <2>1, <2>2
<1>5. c \in Changes
  BY <1>4 DEF Changes
<1>6. /\ log' \in Seq(Changes) /\ DOMAIN log' = 1..N /\ log'[N] = c
      /\ \A i \in DOMAIN log : log'[i] = log[i]
  BY <1>1, <1>2, <1>5
<1>7. SourceTypeOK'
  BY <1>1, <1>6 DEF SourceTypeOK
<1>8. LogOrdered'
  <2> SUFFICES ASSUME NEW i \in 1..N, NEW j \in 1..N
               PROVE  /\ i <= j => log'[i].lsn <= log'[j].lsn
                      /\ ~Ties /\ i < j => log'[i].lsn < log'[j].lsn
    BY <1>6 DEF LogOrdered
  <2>1. CASE i \in DOMAIN log /\ j \in DOMAIN log
    BY <2>1, <1>6 DEF LogInv, LogOrdered
  <2>2. CASE j = N
    BY <2>2, <1>2, <1>4, <1>6
  <2>3. CASE i = N /\ j # N
    BY <2>3, <1>2
  <2> QED BY <2>1, <2>2, <2>3, <1>2
<1>9. DeletesAreEmpty'
  BY <1>1, <1>2, <1>6 DEF LogInv, DeletesAreEmpty
<1>10. TableIsLastChange'
  <2> SUFFICES ASSUME NEW q \in Rows
               PROVE  (\/ ChangesTo(q) = {} /\ table[q] = Absent
                       \/ \E i \in ChangesTo(q) : IsLast(i, ChangesTo(q))
                                                 /\ table[q] = log[i].val)'
    BY DEF TableIsLastChange
  <2>1. CASE q = r
    <3>1. N \in ChangesTo(q)' /\ table'[q] = log'[N].val
      BY <2>1, <1>1, <1>6 DEF ChangesTo, SourceTypeOK
    <3>2. \A j \in ChangesTo(q)' : j <= N
      BY <1>2, <1>6 DEF ChangesTo
    <3> QED BY <3>1, <3>2 DEF IsLast
  <2>2. CASE q # r
    <3>1. ChangesTo(q)' = ChangesTo(q)
      BY <2>2, <1>2, <1>6 DEF ChangesTo
    <3>2. table'[q] = table[q]
      BY <2>2, <1>1 DEF SourceTypeOK
    <3>3. \A i \in ChangesTo(q) : log'[i].val = log[i].val
      BY <1>6 DEF ChangesTo
    <3> QED BY <3>1, <3>2, <3>3 DEF LogInv, TableIsLastChange, IsLast
  <2> QED BY <2>1, <2>2
<1> QED BY <1>2, <1>6, <1>7, <1>8, <1>9, <1>10 DEF LogInv

\* No record is undone or invented by a commit.
LEMMA StreamGrows ==
  ASSUME SourceTypeOK, LogInv, SourceNext
  PROVE  /\ Stream(log) \subseteq Stream(log)'
         /\ \A f \in Stream(log)' \ Stream(log) : f.at = Len(log) + 1
         /\ \A f \in Stream(log) : f.at \in 1..Len(log)
         /\ Len(log) \in Nat
<1>1. /\ DOMAIN log \subseteq DOMAIN log'
      /\ \A i \in DOMAIN log : log'[i] = log[i]
      /\ DOMAIN log' = 1..(Len(log) + 1) /\ DOMAIN log = 1..Len(log)
      /\ Len(log) \in Nat
  BY LogGrows
<1>2. \A f : f \in Stream(log)' <=>
        \E i \in DOMAIN log' :
          \/ f = ChangeRecord(i, log'[i])
          \/ log'[i].op = "d" /\ f = TombstoneRecord(i, log'[i])
  BY DEF Stream, Envelope
<1>3. \A f \in Stream(log) : f \in Stream(log)'
  BY <1>1, <1>2, StreamElements
<1>4. \A f \in Stream(log)' \ Stream(log) : f.at = Len(log) + 1
  <2> SUFFICES ASSUME NEW f \in Stream(log)', f \notin Stream(log)
               PROVE  f.at = Len(log) + 1
    OBVIOUS
  <2>1. PICK i \in DOMAIN log' : \/ f = ChangeRecord(i, log'[i])
                                 \/ log'[i].op = "d" /\ f = TombstoneRecord(i, log'[i])
    BY <1>2
  <2>2. i \notin DOMAIN log
    BY <2>1, <1>1, StreamElements
  <2> QED BY <2>1, <2>2, <1>1, RecordFields
<1>5. \A f \in Stream(log) : f.at \in 1..Len(log)
  BY <1>1, StreamElements, RecordFields
<1> QED BY <1>1, <1>3, <1>4, <1>5

=============================================================================
