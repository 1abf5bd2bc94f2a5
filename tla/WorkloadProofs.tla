---------------------------- MODULE WorkloadProofs ----------------------------
(***************************************************************************)
(* The plan and the applier agree, for plans of every length and databases *)
(* of every size.                                                          *)
(*                                                                         *)
(* The argument: a planned operation carries the number of rows its table  *)
(* was thought to hold before it and after it.  Such a course of counts    *)
(* exists for what is left of the plan at every moment (Course); the pool  *)
(* never holds fewer rows than the course starts from, since what the      *)
(* applier inserts unplanned only adds to it.  That needs every insert to  *)
(* be of a key no row has, which is what Counted keeps: identity columns   *)
(* without gaps and order lines below some number.                         *)
(***************************************************************************)
EXTENDS Workload, FiniteSetTheorems, SequenceTheorems, WellFoundedInduction, TLAPS

-----------------------------------------------------------------------------
(* Numbers.                                                                 *)

\* A set of numbers with an upper bound that is not empty has a greatest one.
LEMMA GreatestLine ==
  ASSUME NEW T \in SUBSET Nat, T # {}, NEW b \in Nat, \A k \in T : k <= b
  PROVE  \E m \in T : \A k \in T : k <= m
<1> DEFINE D == {d \in Nat : b - d \in T}
<1>1. D # {}
  <2>1. PICK k \in T : k <= b
    OBVIOUS
  <2>2. b - k \in Nat /\ b - (b - k) = k
    BY <2>1
  <2> QED BY <2>2
<1>2. PICK d \in D : \A c \in D : ~(<<c, d>> \in OpToRel(<, Nat))
  BY <1>1, NatLessThanWellFounded, WFMin
<1>3. ASSUME NEW c \in D PROVE d <= c
  <2>1. c \in Nat /\ d \in Nat
    OBVIOUS
  <2>2. ~(c < d)
    BY <1>2, <2>1 DEF OpToRel
  <2> QED BY <2>1, <2>2
<1>4. ASSUME NEW k \in T PROVE k <= b - d
  <2>1. b - k \in D /\ d \in Nat /\ k \in Nat /\ k <= b
    OBVIOUS
  <2>2. d <= b - k
    BY <1>3, <2>1
  <2> QED BY <2>1, <2>2
<1> QED BY <1>4

LEMMA UptoCounts ==
  ASSUME NEW n \in Nat
  PROVE  /\ Upto(n) = 1..n /\ Upto(n) \in SUBSET Nat
         /\ IsFiniteSet(Upto(n)) /\ Cardinality(Upto(n)) = n
         /\ Upto(n + 1) = Upto(n) \cup {n + 1} /\ n + 1 \notin Upto(n)
<1>1. Upto(n) = 1..n
  BY DEF Upto
<1>2. IsFiniteSet(1..n) /\ Cardinality(1..n) = IF 1 > n THEN 0 ELSE n - 1 + 1
  BY FS_Interval
<1>3. Upto(n + 1) = 1..(n + 1)
  BY DEF Upto
<1> QED BY <1>1, <1>2, <1>3

-----------------------------------------------------------------------------
(* What an insert does to a database and the pool beside it.                *)

Identity == {"customer", "product", "order_header"}

LineNumbers(items, order) == {k[2] : k \in {k \in items : k[1] = order}}

\* Tables whose identity columns have no gap and whose order lines are finitely
\* many.
Counted(held) ==
  /\ DOMAIN held = Tables
  /\ \A t \in Identity : \E n \in Nat : held[t] = Upto(n)
  /\ held["order_item"] \in SUBSET (Nat \X Nat)
  /\ IsFiniteSet(held["order_item"])
  /\ \E b \in Nat : \A k \in held["order_item"] : k[2] <= b

World(w) == Counted(w.db) /\ w.ids = w.db

\* The insert into t of one row more, others of other tables perhaps before it.
Grown(v, w, t) ==
  /\ World(v)
  /\ \A u \in Tables : Cardinality(v.db[u]) >= Cardinality(w.db[u])
  /\ Cardinality(v.db[t]) = Cardinality(w.db[t]) + 1

LEMMA CountedFinite ==
  ASSUME NEW held, Counted(held), NEW t \in Tables
  PROVE  /\ IsFiniteSet(held[t]) /\ Cardinality(held[t]) \in Nat
         /\ held[t] \in SUBSET PrimaryKeys(t)
<1>1. CASE t \in Identity
  <2>1. PICK n \in Nat : held[t] = Upto(n)
    BY <1>1 DEF Counted
  <2>2. IsFiniteSet(Upto(n)) /\ Cardinality(Upto(n)) = n /\ Upto(n) \in SUBSET Nat
    BY UptoCounts
  <2>3. PrimaryKeys(t) = Nat
    BY <1>1 DEF PrimaryKeys, Identity
  <2> QED BY <2>1, <2>2, <2>3
<1>2. CASE t = "order_item"
  BY <1>2, FS_CardinalityType DEF Counted, PrimaryKeys
<1> QED BY <1>1, <1>2 DEF Tables, Identity

LEMMA NextGrows ==
  ASSUME NEW w, World(w), NEW t \in Identity
  PROVE  /\ Grown(WithNext(w, t), w, t)
         /\ \A u \in Tables \ {t} : WithNext(w, t).db[u] = w.db[u]
         /\ WithNext(w, t).db[t] # {}
<1> DEFINE v == WithNext(w, t)
<1>1. PICK n \in Nat : w.db[t] = Upto(n)
  BY DEF World, Counted
<1>2. Cardinality(w.db[t]) = n
  BY <1>1, UptoCounts
<1>3. v = [db |-> [w.db EXCEPT ![t] = @ \cup {n + 1}], ids |-> [w.ids EXCEPT ![t] = @ \cup {n + 1}]]
  BY <1>2 DEF WithNext, WithRow
<1>4. t \in Tables /\ DOMAIN w.db = Tables /\ t # "order_item"
  BY DEF World, Counted, Tables, Identity
<1>5. v.db[t] = Upto(n + 1) /\ v.ids = v.db /\ DOMAIN v.db = Tables
      /\ \A u \in Tables \ {t} : v.db[u] = w.db[u]
  <2>1. v.db = [w.db EXCEPT ![t] = @ \cup {n + 1}] /\ v.ids = [w.ids EXCEPT ![t] = @ \cup {n + 1}]
    BY <1>3
  <2>2. v.db[t] = w.db[t] \cup {n + 1}
    BY <2>1, <1>4
  <2> QED BY <2>1, <2>2, <1>1, <1>4, UptoCounts DEF World
<1>6. Counted(v.db)
  <2>1. ASSUME NEW u \in Identity PROVE \E m \in Nat : v.db[u] = Upto(m)
    <3>1. CASE u = t
      BY <3>1, <1>5, n + 1 \in Nat
    <3>2. CASE u # t
      BY <3>2, <1>5 DEF World, Counted, Identity, Tables
    <3> QED BY <3>1, <3>2
  <2>2. v.db["order_item"] = w.db["order_item"]
    BY <1>4, <1>5 DEF Tables
  <2> QED BY <2>1, <2>2, <1>5 DEF Counted, World
<1>7. Cardinality(v.db[t]) = Cardinality(w.db[t]) + 1
  BY <1>2, <1>5, UptoCounts, n + 1 \in Nat
<1>8. \A u \in Tables : Cardinality(w.db[u]) \in Nat
  BY CountedFinite DEF World
<1>9. v.db[t] # {}
  <2>1. Upto(n + 1) = Upto(n) \cup {n + 1}
    BY UptoCounts
  <2> QED BY <1>5, <2>1
<1> QED BY <1>4, <1>5, <1>6, <1>7, <1>8, <1>9 DEF Grown, World

\* A parent is there, and no table lost a row for it.
LEMMA ParentThere ==
  ASSUME NEW w, World(w), NEW t \in Identity
  PROVE  /\ World(WithParent(w, t))
         /\ \A u \in Tables \ {t} : WithParent(w, t).db[u] = w.db[u]
         /\ \A u \in Tables : Cardinality(WithParent(w, t).db[u]) >= Cardinality(w.db[u])
<1>1. \A u \in Tables : Cardinality(w.db[u]) \in Nat
  BY CountedFinite DEF World
<1>2. CASE w.ids[t] = {}
  BY <1>2, NextGrows DEF WithParent, Grown
<1>3. CASE w.ids[t] # {}
  BY <1>3, <1>1 DEF WithParent
<1> QED BY <1>2, <1>3

LEMMA HeaderGrows ==
  ASSUME NEW w, World(w)
  PROVE  /\ Grown(WithHeader(w), w, "order_header")
         /\ WithHeader(w).db["order_item"] = w.db["order_item"]
<1> DEFINE p == WithParent(w, "customer")
<1>1. /\ World(p)
      /\ \A u \in Tables \ {"customer"} : p.db[u] = w.db[u]
      /\ \A u \in Tables : Cardinality(p.db[u]) >= Cardinality(w.db[u])
  BY ParentThere DEF Identity
<1> HIDE DEF p
<1>2. /\ Grown(WithNext(p, "order_header"), p, "order_header")
      /\ \A u \in Tables \ {"order_header"} : WithNext(p, "order_header").db[u] = p.db[u]
  BY <1>1, NextGrows DEF Identity
<1>3. WithHeader(w) = WithNext(p, "order_header")
  BY DEF WithHeader, p
<1>4. \A u \in Tables : Cardinality(w.db[u]) \in Nat /\ Cardinality(p.db[u]) \in Nat
                        /\ Cardinality(WithNext(p, "order_header").db[u]) \in Nat
  BY <1>1, <1>2, CountedFinite DEF World, Grown
<1>5. \A u \in Tables : Cardinality(WithHeader(w).db[u]) >= Cardinality(w.db[u])
  BY <1>1, <1>2, <1>3, <1>4 DEF Grown
<1>6. p.db["order_header"] = w.db["order_header"] /\ p.db["order_item"] = w.db["order_item"]
  BY <1>1 DEF Tables
<1> QED BY <1>2, <1>3, <1>5, <1>6 DEF Grown, Tables

\* max(line_no) + 1 is a line the order does not have.
LEMMA NextLineIsNew ==
  ASSUME NEW held, Counted(held), NEW o \in Nat
  PROVE  /\ NextLine(held["order_item"], o) \in Nat
         /\ <<o, NextLine(held["order_item"], o)>> \notin held["order_item"]
<1> DEFINE items == held["order_item"]
           lines == LineNumbers(items, o)
<1>1. items \in SUBSET (Nat \X Nat) /\ lines \in SUBSET Nat
  BY DEF Counted, LineNumbers
<1>2. NextLine(items, o)
        = IF lines = {} THEN 1 ELSE 1 + (CHOOSE n \in lines : \A m \in lines : m <= n)
  BY DEF NextLine, LineNumbers
<1>3. CASE lines = {}
  <2>1. \A k \in items : k[1] # o
    BY <1>3 DEF LineNumbers
  <2> QED BY <1>2, <1>3, <2>1
<1>4. CASE lines # {}
  <2>1. PICK b \in Nat : \A k \in items : k[2] <= b
    BY DEF Counted
  <2>2. \A n \in lines : n <= b
    BY <2>1 DEF LineNumbers
  <2>3. \E n \in lines : \A m \in lines : m <= n
    BY <1>1, <1>4, <2>2, GreatestLine
  <2>4. PICK p \in lines :
          p = (CHOOSE n \in lines : \A m \in lines : m <= n) /\ \A m \in lines : m <= p
    BY <2>3
  <2>5. NextLine(items, o) = 1 + p /\ p \in Nat
    BY <1>1, <1>2, <1>4, <2>4
  <2>6. 1 + p \notin lines
    BY <2>4, <2>5
  <2>7. ASSUME <<o, 1 + p>> \in items PROVE 1 + p \in lines
    BY <2>7 DEF LineNumbers
  <2> QED BY <2>5, <2>6, <2>7
<1> QED BY <1>3, <1>4

LEMMA ItemGrows ==
  ASSUME NEW w, World(w), NEW v \in WithItem(w)
  PROVE  Grown(v, w, "order_item")
<1> DEFINE ordered == IF w.ids["order_header"] = {} THEN WithHeader(w) ELSE w
           parents == WithParent(ordered, "product")
<1>1. \A u \in Tables : Cardinality(w.db[u]) \in Nat
  BY CountedFinite DEF World
<1>2. /\ World(ordered) /\ ordered.db["order_item"] = w.db["order_item"]
      /\ \A u \in Tables : Cardinality(ordered.db[u]) >= Cardinality(w.db[u])
  BY <1>1, HeaderGrows DEF Grown
<1> HIDE DEF ordered
<1>3. /\ World(parents) /\ parents.db["order_item"] = ordered.db["order_item"]
      /\ \A u \in Tables : Cardinality(parents.db[u]) >= Cardinality(ordered.db[u])
  BY <1>2, ParentThere DEF Identity, Tables
<1>4. PICK o \in parents.ids["order_header"] :
        v = WithRow(parents, "order_item", <<o, NextLine(parents.db["order_item"], o)>>)
  BY DEF WithItem, ordered
<1> HIDE DEF parents
<1> DEFINE held == parents.db
           n == NextLine(held["order_item"], o)
<1>5. Counted(held) /\ parents.ids = held
  BY <1>3 DEF World
<1>6. o \in Nat
  BY <1>5, CountedFinite DEF PrimaryKeys, Tables
<1>7. n \in Nat /\ <<o, n>> \notin held["order_item"]
  BY <1>5, <1>6, NextLineIsNew
<1>8. v.db = [held EXCEPT !["order_item"] = @ \cup {<<o, n>>}] /\ v.ids = v.db
  BY <1>4, <1>5 DEF WithRow
<1> HIDE DEF n, held
<1>9. DOMAIN held = Tables /\ "order_item" \in Tables /\ "order_item" \notin Identity
      /\ Identity \subseteq Tables
  BY <1>5 DEF Counted, Tables, Identity
<1>10. /\ v.db["order_item"] = held["order_item"] \cup {<<o, n>>}
       /\ DOMAIN v.db = Tables
       /\ \A u \in Tables \ {"order_item"} : v.db[u] = held[u]
  BY <1>8, <1>9
<1>11. Counted(v.db)
  <2>1. \A t \in Identity : \E m \in Nat : v.db[t] = Upto(m)
    BY <1>5, <1>9, <1>10 DEF Counted
  <2>2. v.db["order_item"] \in SUBSET (Nat \X Nat)
    BY <1>5, <1>6, <1>7, <1>10 DEF Counted
  <2>3. IsFiniteSet(v.db["order_item"])
    <3>1. IsFiniteSet(held["order_item"])
      BY <1>5 DEF Counted
    <3> QED BY <1>10, <3>1, FS_AddElement
  <2>4. PICK b \in Nat : \A k \in held["order_item"] : k[2] <= b
    BY <1>5 DEF Counted
  <2>5. b + n \in Nat /\ \A k \in v.db["order_item"] : k[2] <= b + n
    <3>1. \A k \in held["order_item"] : k \in Nat \X Nat
      BY <1>5 DEF Counted
    <3>2. \A k \in held["order_item"] : k[2] \in Nat
      BY <3>1
    <3> QED BY <1>7, <1>10, <2>4, <3>2
  <2> QED BY <1>10, <2>1, <2>2, <2>3, <2>5 DEF Counted
<1>12. Cardinality(v.db["order_item"]) = Cardinality(held["order_item"]) + 1
  BY <1>5, <1>7, <1>10, FS_AddElement DEF Counted
<1>13. \A u \in Tables : Cardinality(held[u]) \in Nat /\ Cardinality(held[u]) >= Cardinality(w.db[u])
  <2>1. \A u \in Tables : Cardinality(held[u]) \in Nat
    BY <1>5, CountedFinite
  <2>2. \A u \in Tables : Cardinality(ordered.db[u]) \in Nat
    BY <1>2, CountedFinite DEF World
  <2> QED BY <1>1, <1>2, <1>3, <2>1, <2>2 DEF held
<1>14. held["order_item"] = w.db["order_item"]
  BY <1>2, <1>3 DEF held
<1> QED BY <1>8, <1>9, <1>10, <1>11, <1>12, <1>13, <1>14 DEF Grown, World

LEMMA InsertGrows ==
  ASSUME NEW w, World(w), NEW t \in Tables, NEW v \in Inserted(w, t)
  PROVE  Grown(v, w, t)
<1>1. CASE t = "order_item"
  BY <1>1, ItemGrows DEF Inserted
<1>2. CASE t = "order_header"
  BY <1>2, HeaderGrows DEF Inserted
<1>3. CASE t \in {"customer", "product"}
  BY <1>3, NextGrows DEF Inserted, Identity
<1> QED BY <1>1, <1>2, <1>3 DEF Tables

-----------------------------------------------------------------------------
(* The course of counts.                                                    *)

Kinds == {"insert", "update", "delete"}

Operations == [action : Kinds, table : Tables]

\* One operation between two counts of its table.
Fits(action, before, after) ==
  CASE action = "insert" -> after = before + 1
    [] action = "delete" -> before > 0 /\ after = before - 1
    [] OTHER -> before > 0 /\ after = before

\* A table's count before the first of the operations, and after each.
Courses(plan, t) ==
  {h \in [0..Len(plan) -> Nat] : \A i \in 1..Len(plan) :
     IF plan[i].table = t THEN Fits(plan[i].action, h[i - 1], h[i]) ELSE h[i] = h[i - 1]}

Course(t) ==
  \E h \in Courses(ops, t) :
    IF phase = "plan"
    THEN h[0] = SeedRowCounts(asked[1], asked[2])[t] /\ h[Len(ops)] = rows[t]
    ELSE h[0] <= Cardinality(ids[t])

WorkloadInv ==
  /\ WorkloadTypeOK
  /\ asked \in (0..MaxDimension) \X (0..MaxDimension)
  /\ Counted(db)
  /\ phase = "run" => ids = db
  /\ \A op \in {ops[i] : i \in 1..Len(ops)} : op.action = "delete" => op.table = "order_item"
  /\ skipped = 0
  /\ \A t \in Tables : Course(t)

LEMMA KindsOf == \A t \in Tables : Actions(t) \subseteq Kinds
BY DEF Actions, Kinds, Tables

LEMMA WorkloadInitInv == Init => WorkloadInv
<1> SUFFICES ASSUME Init PROVE WorkloadInv
  OBVIOUS
<1>1. PICK c \in 0..MaxDimension, p \in 0..MaxDimension :
        asked = <<c, p>> /\ rows = SeedRowCounts(c, p)
  BY DEF Init
<1>2. PICK cs \in 0..MaxDimension, ps \in 0..MaxDimension, os \in 0..MaxDimension,
           lines \in SUBSET {1, 2} :
        db = [customer |-> Upto(cs), product |-> Upto(ps), order_header |-> Upto(os),
              order_item |-> {<<1, n>> : n \in lines}]
  BY DEF Init, Existing
<1>3. Counted(db)
  <2>1. DOMAIN db = Tables
    BY <1>2 DEF Tables
  <2>2. db["customer"] = Upto(cs) /\ db["product"] = Upto(ps) /\ db["order_header"] = Upto(os)
        /\ db["order_item"] = {<<1, n>> : n \in lines}
    BY <1>2
  <2>3. cs \in Nat /\ ps \in Nat /\ os \in Nat
    BY WorkloadAssumption
  <2>4. \A t \in Identity : \E n \in Nat : db[t] = Upto(n)
    BY <2>2, <2>3 DEF Identity
  <2>5. db["order_item"] \in SUBSET {<<1, 1>>, <<1, 2>>}
    BY <2>2
  <2>6. IsFiniteSet({<<1, 1>>} \cup {<<1, 2>>})
    <3>1. IsFiniteSet({<<1, 1>>})
      BY FS_Singleton
    <3> QED BY <3>1, FS_AddElement
  <2>7. {<<1, 1>>, <<1, 2>>} = {<<1, 1>>} \cup {<<1, 2>>}
    OBVIOUS
  <2>8. IsFiniteSet(db["order_item"])
    BY <2>5, <2>6, <2>7, FS_Subset
  <2> QED BY <2>1, <2>4, <2>5, <2>8 DEF Counted
<1>4. WorkloadTypeOK
  <2>1. rows \in [Tables -> Nat]
    BY <1>1, WorkloadAssumption DEF SeedRowCounts
  <2>2. \A t \in Tables : db[t] \in SUBSET PrimaryKeys(t)
    BY <1>3, CountedFinite
  <2> QED BY <2>1, <2>2 DEF Init, WorkloadTypeOK, Empty
<1>5. ASSUME NEW t \in Tables PROVE Course(t)
  <2> DEFINE h == [i \in 0..Len(ops) |-> rows[t]]
  <2>1. Len(ops) = 0 /\ phase = "plan" /\ rows[t] \in Nat
    BY <1>4 DEF Init, WorkloadTypeOK
  <2>2. h \in Courses(ops, t)
    BY <2>1 DEF Courses
  <2>3. h[0] = rows[t] /\ h[Len(ops)] = rows[t]
    BY <2>1
  <2> QED BY <1>1, <2>1, <2>2, <2>3 DEF Course
<1>6. Len(ops) = 0 /\ phase = "plan" /\ skipped = 0
  BY DEF Init
<1> QED BY <1>1, <1>3, <1>4, <1>5, <1>6 DEF WorkloadInv

\* An operation added to the plan takes the course one count further.
LEMMA CourseGrows ==
  ASSUME NEW plan \in Seq(Operations), NEW t \in Tables, NEW h \in Courses(plan, t),
         NEW op \in Operations, NEW n \in Nat,
         IF op.table = t THEN Fits(op.action, h[Len(plan)], n) ELSE n = h[Len(plan)]
  PROVE  \E g \in Courses(Append(plan, op), t) : g[0] = h[0] /\ g[Len(Append(plan, op))] = n
<1> DEFINE more == Append(plan, op)
           g == [i \in 0..Len(more) |-> IF i = Len(more) THEN n ELSE h[i]]
<1>1. /\ Len(plan) \in Nat /\ Len(more) = Len(plan) + 1
      /\ \A i \in 1..Len(plan) : more[i] = plan[i]
      /\ more[Len(plan) + 1] = op
  OBVIOUS
<1>2. h \in [0..Len(plan) -> Nat]
      /\ \A i \in 1..Len(plan) :
           IF plan[i].table = t THEN Fits(plan[i].action, h[i - 1], h[i]) ELSE h[i] = h[i - 1]
  BY DEF Courses
<1> HIDE DEF more
<1>3. g \in [0..Len(more) -> Nat]
  BY <1>1, <1>2
<1>4. ASSUME NEW i \in 1..Len(more)
      PROVE  IF more[i].table = t THEN Fits(more[i].action, g[i - 1], g[i]) ELSE g[i] = g[i - 1]
  <2>1. CASE i = Len(more)
    <3>1. g[i] = n /\ g[i - 1] = h[Len(plan)] /\ more[i] = op
      BY <1>1, <2>1
    <3> QED BY <3>1
  <2>2. CASE i # Len(more)
    <3>1. i \in 1..Len(plan) /\ g[i] = h[i] /\ g[i - 1] = h[i - 1] /\ more[i] = plan[i]
      BY <1>1, <2>2
    <3> QED BY <3>1, <1>2
  <2> QED BY <2>1, <2>2
<1>5. g \in Courses(more, t)
  BY <1>3, <1>4 DEF Courses
<1>6. g[0] = h[0] /\ g[Len(more)] = n
  BY <1>1
<1> QED BY <1>5, <1>6 DEF more

\* The course of what is left starts from the count after the first operation.
LEMMA CourseOfRest ==
  ASSUME NEW plan \in Seq(Operations), plan # <<>>, NEW t \in Tables, NEW h \in Courses(plan, t)
  PROVE  /\ \E g \in Courses(Tail(plan), t) : g[0] = h[1]
         /\ h[0] \in Nat /\ h[1] \in Nat
         /\ IF Head(plan).table = t THEN Fits(Head(plan).action, h[0], h[1]) ELSE h[1] = h[0]
<1> DEFINE rest == Tail(plan)
           g == [i \in 0..Len(rest) |-> h[i + 1]]
<1>1. /\ Len(plan) \in Nat /\ Len(rest) = Len(plan) - 1 /\ Len(rest) \in Nat
      /\ \A i \in 1..Len(rest) : rest[i] = plan[i + 1]
      /\ Head(plan) = plan[1] /\ 1 \in 1..Len(plan)
  BY HeadTailProperties
<1>2. h \in [0..Len(plan) -> Nat]
      /\ \A i \in 1..Len(plan) :
           IF plan[i].table = t THEN Fits(plan[i].action, h[i - 1], h[i]) ELSE h[i] = h[i - 1]
  BY DEF Courses
<1> HIDE DEF rest
<1>3. g \in [0..Len(rest) -> Nat]
  BY <1>1, <1>2
<1>4. ASSUME NEW i \in 1..Len(rest)
      PROVE  IF rest[i].table = t THEN Fits(rest[i].action, g[i - 1], g[i]) ELSE g[i] = g[i - 1]
  <2>1. i + 1 \in 1..Len(plan) /\ g[i] = h[i + 1] /\ g[i - 1] = h[i] /\ (i + 1) - 1 = i
        /\ rest[i] = plan[i + 1]
    BY <1>1
  <2> QED BY <1>2, <2>1
<1>5. g \in Courses(rest, t) /\ g[0] = h[1]
  BY <1>1, <1>3, <1>4 DEF Courses
<1>6. h[0] \in Nat /\ h[1] \in Nat
  BY <1>1, <1>2
<1>7. IF plan[1].table = t THEN Fits(plan[1].action, h[0], h[1]) ELSE h[1] = h[0]
  <2>1. 1 - 1 = 0
    OBVIOUS
  <2> QED BY <1>1, <1>2, <2>1
<1> QED BY <1>1, <1>5, <1>6, <1>7 DEF rest

-----------------------------------------------------------------------------
(* The steps.                                                               *)

LEMMA PlanStepInv == WorkloadInv /\ PlanStep => WorkloadInv'
<1> SUFFICES ASSUME WorkloadInv, PlanStep PROVE WorkloadInv'
  OBVIOUS
<1>0. PICK t \in Tables : \E a \in Actions(t) :
        LET action == IF Infeasible(t, a) THEN "insert" ELSE a
        IN  /\ ops' = Append(ops, [action |-> action, table |-> t])
            /\ deflected' = IF Infeasible(t, a) THEN deflected + 1 ELSE deflected
            /\ rows' = [rows EXCEPT ![t] =
                 CASE action = "insert" -> @ + 1
                   [] action = "delete" -> @ - 1
                   [] OTHER -> @]
  BY DEF PlanStep
<1>1. PICK a \in Actions(t) :
        LET action == IF Infeasible(t, a) THEN "insert" ELSE a
        IN  /\ ops' = Append(ops, [action |-> action, table |-> t])
            /\ deflected' = IF Infeasible(t, a) THEN deflected + 1 ELSE deflected
            /\ rows' = [rows EXCEPT ![t] =
                 CASE action = "insert" -> @ + 1
                   [] action = "delete" -> @ - 1
                   [] OTHER -> @]
  BY <1>0
<1> DEFINE action == IF Infeasible(t, a) THEN "insert" ELSE a
           op == [action |-> action, table |-> t]
<1>2. ops' = Append(ops, op) /\ UNCHANGED <<phase, asked, db, ids, applied, skipped>> /\ phase = "plan"
  BY <1>1 DEF PlanStep
<1>3. rows \in [Tables -> Nat] /\ ops \in Seq(Operations) /\ deflected \in Nat
  BY DEF WorkloadInv, WorkloadTypeOK, Operations, Kinds
<1>4. action \in Kinds /\ op \in Operations /\ (action = "delete" => t = "order_item")
  <2>1. a \in Kinds /\ (a = "delete" => t = "order_item")
    BY DEF Actions, Kinds
  <2> QED BY <2>1 DEF Operations, Kinds
<1>5. Fits(action, rows[t], rows'[t]) /\ rows' \in [Tables -> Nat]
      /\ \A u \in Tables \ {t} : rows'[u] = rows[u]
  <2>1. rows' = [rows EXCEPT ![t] = CASE action = "insert" -> @ + 1
                   [] action = "delete" -> @ - 1
                   [] OTHER -> @]
    BY <1>1
  <2>2. rows'[t] = CASE action = "insert" -> rows[t] + 1
                   [] action = "delete" -> rows[t] - 1
                   [] OTHER -> rows[t]
    BY <1>3, <2>1
  <2>3. action # "insert" => rows[t] # 0
    BY <1>4 DEF Infeasible, Kinds
  <2>4. rows[t] \in Nat
    BY <1>3
  <2>5. Fits(action, rows[t], rows'[t]) /\ rows'[t] \in Nat
    BY <1>4, <2>2, <2>3, <2>4 DEF Fits, Kinds
  <2> QED BY <1>3, <2>1, <2>5
<1> HIDE DEF action
<1>6. ops' \in Seq(Operations)
  BY <1>2, <1>3, <1>4
<1>7. deflected' \in Nat
  BY <1>1, <1>3
<1>8. WorkloadTypeOK'
  BY <1>2, <1>5, <1>6, <1>7 DEF WorkloadInv, WorkloadTypeOK, Operations, Kinds
<1>9. ASSUME NEW u \in Tables PROVE Course(u)'
  <2>1. PICK h \in Courses(ops, u) :
          h[0] = SeedRowCounts(asked[1], asked[2])[u] /\ h[Len(ops)] = rows[u]
    BY <1>2 DEF WorkloadInv, Course
  <2>2. IF op.table = u THEN Fits(op.action, h[Len(ops)], rows'[u]) ELSE rows'[u] = h[Len(ops)]
    BY <1>5, <2>1
  <2>3. rows'[u] \in Nat
    BY <1>5
  <2>4. \E g \in Courses(Append(ops, op), u) : g[0] = h[0] /\ g[Len(Append(ops, op))] = rows'[u]
    BY <1>3, <1>4, <2>2, <2>3, CourseGrows
  <2>5. \E g \in Courses(ops', u) : g[0] = SeedRowCounts(asked[1], asked[2])[u] /\ g[Len(ops')] = rows'[u]
    BY <1>2, <2>1, <2>4
  <2> QED BY <1>2, <2>5 DEF Course
<1>10. ASSUME NEW i \in 1..Len(ops'), ops'[i].action = "delete" PROVE ops'[i].table = "order_item"
  <2>1. Len(ops') = Len(ops) + 1 /\ ops'[Len(ops) + 1] = op
        /\ \A j \in 1..Len(ops) : ops'[j] = ops[j]
    BY <1>2, <1>3
  <2>2. i = Len(ops) + 1 \/ i \in 1..Len(ops)
    BY <1>3, <2>1
  <2> QED BY <1>4, <1>10, <2>1, <2>2 DEF WorkloadInv
<1> QED BY <1>2, <1>8, <1>9, <1>10 DEF WorkloadInv

\* A dimension topped up has no gap and holds what it held and what was asked.
LEMMA ToppedUp ==
  ASSUME NEW held \in Nat, NEW want \in Nat
  PROVE  \E n \in Nat : n >= want /\ TopUp(Upto(held), want) = Upto(n)
<1>1. Upto(held) = 1..held /\ Upto(want) = 1..want
  BY UptoCounts
<1>2. CASE held <= want
  BY <1>1, <1>2 DEF TopUp
<1>3. CASE want <= held
  BY <1>1, <1>3 DEF TopUp
<1> QED BY <1>2, <1>3

LEMMA AdoptInv == WorkloadInv /\ AdoptAndSeed => WorkloadInv'
<1> SUFFICES ASSUME WorkloadInv, AdoptAndSeed PROVE WorkloadInv'
  OBVIOUS
<1> DEFINE full == [db EXCEPT !["customer"] = TopUp(@, asked[1]),
                              !["product"] = TopUp(@, asked[2])]
<1>1. /\ phase = "plan" /\ phase' = "run" /\ db' = full /\ ids' = full
      /\ UNCHANGED <<rows, ops, deflected, asked, applied, skipped>>
  BY DEF AdoptAndSeed
<1>2. asked[1] \in Nat /\ asked[2] \in Nat
  BY WorkloadAssumption DEF WorkloadInv
<1>3. DOMAIN db = Tables /\ DOMAIN full = Tables
  BY DEF WorkloadInv, Counted
<1>4. /\ full["customer"] = TopUp(db["customer"], asked[1])
      /\ full["product"] = TopUp(db["product"], asked[2])
      /\ full["order_header"] = db["order_header"] /\ full["order_item"] = db["order_item"]
  BY <1>3 DEF Tables
<1> HIDE DEF full
<1>5. PICK c \in Nat : db["customer"] = Upto(c)
  BY DEF WorkloadInv, Counted, Identity
<1>6. PICK p \in Nat : db["product"] = Upto(p)
  BY DEF WorkloadInv, Counted, Identity
<1>7. PICK nc \in Nat : nc >= asked[1] /\ full["customer"] = Upto(nc)
  <2>1. \E n \in Nat : n >= asked[1] /\ TopUp(Upto(c), asked[1]) = Upto(n)
    BY <1>2, ToppedUp
  <2> QED BY <1>4, <1>5, <2>1
<1>8. PICK np \in Nat : np >= asked[2] /\ full["product"] = Upto(np)
  <2>1. \E n \in Nat : n >= asked[2] /\ TopUp(Upto(p), asked[2]) = Upto(n)
    BY <1>2, ToppedUp
  <2> QED BY <1>4, <1>6, <2>1
<1>9. Counted(full)
  <2>1. \A t \in Identity : \E n \in Nat : full[t] = Upto(n)
    BY <1>4, <1>7, <1>8 DEF Identity, WorkloadInv, Counted
  <2> QED BY <1>3, <1>4, <2>1 DEF WorkloadInv, Counted
<1>10. WorkloadTypeOK'
  <2>1. \A t \in Tables : full[t] \in SUBSET PrimaryKeys(t)
    BY <1>9, CountedFinite
  <2> QED BY <1>1, <2>1 DEF WorkloadInv, WorkloadTypeOK
<1>11. ASSUME NEW t \in Tables PROVE SeedRowCounts(asked[1], asked[2])[t] <= Cardinality(full[t])
  <2>1. Cardinality(full[t]) \in Nat
    BY <1>9, CountedFinite
  <2>2. CASE t = "customer"
    BY <1>2, <1>7, <2>2, UptoCounts DEF SeedRowCounts, Tables
  <2>3. CASE t = "product"
    BY <1>2, <1>8, <2>3, UptoCounts DEF SeedRowCounts, Tables
  <2>4. CASE t \notin {"customer", "product"}
    <3>1. SeedRowCounts(asked[1], asked[2])[t] = 0
      BY <2>4 DEF SeedRowCounts
    <3> QED BY <2>1, <3>1
  <2> QED BY <2>2, <2>3, <2>4
<1>12. ASSUME NEW t \in Tables PROVE Course(t)'
  <2>1. PICK h \in Courses(ops, t) : h[0] = SeedRowCounts(asked[1], asked[2])[t]
    BY <1>1 DEF WorkloadInv, Course
  <2>2. ops' = ops /\ ids' = full /\ phase' = "run"
    BY <1>1
  <2>3. h \in Courses(ops', t) /\ h[0] <= Cardinality(ids'[t])
    BY <1>11, <2>1, <2>2
  <2>4. \E g \in Courses(ops', t) : g[0] <= Cardinality(ids'[t])
    BY <2>3
  <2> QED BY <2>2, <2>4 DEF Course
<1> QED BY <1>1, <1>9, <1>10, <1>12 DEF WorkloadInv

\* What one applied operation leaves of the database and the pool.
AppliedTo(op) ==
  /\ Counted(db') /\ ids' = db'
  /\ \A t \in Tables :
       IF t = op.table
       THEN CASE op.action = "insert" -> Cardinality(ids'[t]) = Cardinality(ids[t]) + 1
              [] op.action = "delete" -> Cardinality(ids'[t]) = Cardinality(ids[t]) - 1
              [] OTHER -> Cardinality(ids'[t]) = Cardinality(ids[t])
       ELSE Cardinality(ids'[t]) >= Cardinality(ids[t])

LEMMA ApplyLeaves ==
  ASSUME WorkloadInv, phase = "run", NEW op \in Operations, Apply(op),
         op.action = "delete" => op.table = "order_item"
  PROVE  AppliedTo(op)
<1> DEFINE w == [db |-> db, ids |-> ids]
<1>1. World(w) /\ w.db = db /\ w.ids = ids /\ ids = db
  BY DEF WorkloadInv, World
<1>2. \A t \in Tables : Cardinality(ids[t]) \in Nat
  BY <1>1, CountedFinite DEF World
<1>3. op.action \in Kinds /\ op.table \in Tables
  BY DEF Operations
<1>4. CASE op.action = "insert"
  <2>1. PICK v \in Inserted(w, op.table) : db' = v.db /\ ids' = v.ids
    BY <1>4 DEF Apply, Insert
  <2>2. Grown(v, w, op.table)
    BY <1>1, <1>3, <2>1, InsertGrows
  <2> QED BY <1>1, <1>4, <2>1, <2>2 DEF Grown, World, AppliedTo
<1>5. CASE op.action = "update"
  <2>1. UNCHANGED <<db, ids>>
    BY <1>5 DEF Apply, Update
  <2> QED BY <1>1, <1>2, <1>5, <2>1 DEF World, AppliedTo
<1>6. CASE op.action = "delete"
  <2>1. PICK k \in ids["order_item"] :
          /\ ids' = [ids EXCEPT !["order_item"] = @ \ {k}]
          /\ db' = [db EXCEPT !["order_item"] = @ \ {k}]
    BY <1>6 DEF Apply, Delete
  <2>2. DOMAIN ids = Tables /\ IsFiniteSet(ids["order_item"])
    BY <1>1 DEF World, Counted
  <2>3. /\ ids'["order_item"] = ids["order_item"] \ {k} /\ DOMAIN ids' = Tables
        /\ \A t \in Tables \ {"order_item"} : ids'[t] = ids[t]
        /\ ids' = db'
    BY <1>1, <2>1, <2>2 DEF Tables
  <2>4. /\ IsFiniteSet(ids'["order_item"])
        /\ Cardinality(ids'["order_item"]) = Cardinality(ids["order_item"]) - 1
    BY <2>1, <2>2, <2>3, FS_RemoveElement
  <2>5. Counted(ids')
    <3>1. \A t \in Identity : \E n \in Nat : ids'[t] = Upto(n)
      BY <1>1, <2>3 DEF World, Counted, Identity, Tables
    <3> QED BY <1>1, <2>3, <2>4, <3>1 DEF World, Counted
  <2>6. ASSUME NEW t \in Tables \ {"order_item"} PROVE Cardinality(ids'[t]) >= Cardinality(ids[t])
    BY <1>2, <2>3
  <2> QED BY <1>6, <2>3, <2>4, <2>5, <2>6 DEF AppliedTo
<1> QED BY <1>3, <1>4, <1>5, <1>6 DEF Kinds

LEMMA HeadOperation ==
  ASSUME WorkloadTypeOK, ops # <<>>
  PROVE  ops \in Seq(Operations) /\ Head(ops) \in Operations
<1>1. ops \in Seq(Operations)
  BY DEF WorkloadTypeOK, Operations, Kinds
<1> QED BY <1>1, HeadTailProperties

\* No operation of the plan finds an empty pool.
LEMMA PoolHasRow ==
  ASSUME WorkloadInv, phase = "run", ops # <<>>, Head(ops).action # "insert"
  PROVE  ids[Head(ops).table] # {}
<1>1. ops \in Seq(Operations) /\ Head(ops) \in Operations
  BY HeadOperation DEF WorkloadInv
<1> DEFINE t == Head(ops).table
<1>2. t \in Tables /\ Head(ops).action \in Kinds
  BY <1>1 DEF Operations
<1>3. PICK h \in Courses(ops, t) : h[0] <= Cardinality(ids[t])
  BY <1>2 DEF WorkloadInv, Course
<1>4. h[0] \in Nat /\ h[1] \in Nat /\ Fits(Head(ops).action, h[0], h[1])
  BY <1>1, <1>2, CourseOfRest
<1>5. h[0] > 0
  BY <1>2, <1>4 DEF Fits, Kinds
<1>6. Cardinality({}) = 0
  BY FS_EmptySet
<1>7. ASSUME ids[t] = {} PROVE FALSE
  <2>1. h[0] <= 0
    BY <1>3, <1>6, <1>7
  <2> QED BY <1>4, <1>5, <2>1
<1> QED BY <1>7

LEMMA ApplyStepLeaves ==
  ASSUME WorkloadInv, ApplyStep
  PROVE  /\ Apply(Head(ops)) /\ AppliedTo(Head(ops)) /\ Head(ops) \in Operations
         /\ applied' = [applied EXCEPT ![Head(ops).action] = @ + 1] /\ skipped' = skipped
         /\ phase = "run" /\ ops # <<>>
<1>1. phase = "run" /\ ops # <<>>
  BY DEF ApplyStep
<1>2. ops \in Seq(Operations) /\ Head(ops) \in Operations
  BY <1>1, HeadOperation DEF WorkloadInv
<1>3. ~(ids[Head(ops).table] = {} /\ Head(ops).action # "insert")
  BY <1>1, PoolHasRow
<1>4. Apply(Head(ops)) /\ applied' = [applied EXCEPT ![Head(ops).action] = @ + 1] /\ skipped' = skipped
  BY <1>3 DEF ApplyStep
<1>5. Head(ops).action = "delete" => Head(ops).table = "order_item"
  <2>1. 1 \in 1..Len(ops) /\ Head(ops) = ops[1]
    BY <1>1, <1>2
  <2> QED BY <2>1 DEF WorkloadInv
<1>6. AppliedTo(Head(ops))
  BY <1>1, <1>2, <1>4, <1>5, ApplyLeaves
<1> QED BY <1>1, <1>2, <1>4, <1>6

LEMMA ApplyStepInv == WorkloadInv /\ ApplyStep => WorkloadInv'
<1> SUFFICES ASSUME WorkloadInv, ApplyStep PROVE WorkloadInv'
  OBVIOUS
<1> DEFINE op == Head(ops)
<1>1. /\ AppliedTo(op) /\ op \in Operations /\ skipped' = skipped
      /\ applied' = [applied EXCEPT ![op.action] = @ + 1]
      /\ phase = "run" /\ ops # <<>>
  BY ApplyStepLeaves
<1>2. ops' = Tail(ops) /\ UNCHANGED <<phase, rows, deflected, asked>>
  BY DEF ApplyStep
<1>3. ops \in Seq(Operations) /\ ops' \in Seq(Operations)
      /\ Len(ops') = Len(ops) - 1 /\ \A i \in 1..Len(ops') : ops'[i] = ops[i + 1]
  <2>1. ops \in Seq(Operations)
    BY DEF WorkloadInv, WorkloadTypeOK, Operations, Kinds
  <2> QED BY <1>1, <1>2, <2>1, HeadTailProperties
<1> HIDE DEF op
<1>4. Counted(db') /\ ids' = db'
  BY <1>1 DEF AppliedTo
<1>5. WorkloadTypeOK'
  <2>1. \A t \in Tables : db'[t] \in SUBSET PrimaryKeys(t)
    BY <1>4, CountedFinite
  <2>2. applied' \in [Kinds -> Nat]
    <3>1. applied \in [Kinds -> Nat] /\ op.action \in Kinds
      BY <1>1 DEF WorkloadInv, WorkloadTypeOK, Kinds, Operations
    <3>2. applied[op.action] + 1 \in Nat
      BY <3>1
    <3> QED BY <1>1, <3>1, <3>2
  <2> QED BY <1>1, <1>2, <1>3, <1>4, <2>1, <2>2 DEF WorkloadInv, WorkloadTypeOK, Operations, Kinds
<1>6. ASSUME NEW t \in Tables PROVE Course(t)'
  <2>1. PICK h \in Courses(ops, t) : h[0] <= Cardinality(ids[t])
    BY <1>1 DEF WorkloadInv, Course
  <2>2. /\ \E g \in Courses(ops', t) : g[0] = h[1]
        /\ h[0] \in Nat /\ h[1] \in Nat
        /\ IF op.table = t THEN Fits(op.action, h[0], h[1]) ELSE h[1] = h[0]
    BY <1>1, <1>2, <1>3, CourseOfRest DEF op
  <2>3. Cardinality(ids[t]) \in Nat /\ Cardinality(ids'[t]) \in Nat
    BY <1>1, <1>4, CountedFinite DEF WorkloadInv
  <2>4. h[1] <= Cardinality(ids'[t])
    <3>1. op.action \in Kinds
      BY <1>1 DEF Operations
    <3>2. CASE op.table = t /\ op.action = "insert"
      BY <1>1, <2>1, <2>2, <2>3, <3>2 DEF AppliedTo, Fits
    <3>3. CASE op.table = t /\ op.action = "update"
      BY <1>1, <2>1, <2>2, <2>3, <3>3 DEF AppliedTo, Fits
    <3>4. CASE op.table = t /\ op.action = "delete"
      BY <1>1, <2>1, <2>2, <2>3, <3>4 DEF AppliedTo, Fits
    <3>5. CASE op.table # t
      BY <1>1, <2>1, <2>2, <2>3, <3>5 DEF AppliedTo
    <3> QED BY <3>1, <3>2, <3>3, <3>4, <3>5 DEF Kinds
  <2>5. \E g \in Courses(ops', t) : g[0] <= Cardinality(ids'[t])
    BY <2>2, <2>4
  <2> QED BY <1>1, <1>2, <2>5 DEF Course
<1>7. ASSUME NEW i \in 1..Len(ops'), ops'[i].action = "delete" PROVE ops'[i].table = "order_item"
  <2>1. Len(ops) \in Nat /\ i + 1 \in 1..Len(ops) /\ ops'[i] = ops[i + 1]
    BY <1>3
  <2> QED BY <1>7, <2>1 DEF WorkloadInv
<1> QED BY <1>1, <1>2, <1>4, <1>5, <1>6, <1>7 DEF WorkloadInv

LEMMA WorkloadInvStep == WorkloadInv /\ [Next]_workloadVars => WorkloadInv'
<1>1. WorkloadInv /\ UNCHANGED workloadVars => WorkloadInv'
  BY DEF WorkloadInv, workloadVars, WorkloadTypeOK, Course
<1> QED BY <1>1, PlanStepInv, AdoptInv, ApplyStepInv DEF Next

-----------------------------------------------------------------------------
(* The theorems.                                                            *)

\* The planner's counts never go below zero and the applier's keys stay keys, in
\* plans of every length (plan, Applier.run).
THEOREM WorkloadInvariance == Spec => []WorkloadInv
<1> QED BY WorkloadInitInv, WorkloadInvStep, PTL DEF Spec

\* The plan, the pool and the database keep their types, from any database a run may
\* find (plan, Applier.run).
THEOREM WorkloadTypes == Spec => []WorkloadTypeOK
<1>1. WorkloadInv => WorkloadTypeOK
  BY DEF WorkloadInv
<1> QED BY <1>1, WorkloadInvariance, PTL

\* The planner tracks what the applier will find without seeing a database: no
\* operation of a plan of any length is skipped, whatever the run found there and
\* whatever parents the applier inserted that the plan knows nothing of.
THEOREM NothingIsSkipped == Spec => []NothingSkipped
<1>1. WorkloadInv => NothingSkipped
  BY DEF WorkloadInv, NothingSkipped
<1> QED BY <1>1, WorkloadInvariance, PTL

\* The pool stays the live primary keys through every insert, implicit or planned,
\* and every delete, so a picked key always has a row.
THEOREM ThePoolIsTheDatabase == Spec => []PoolIsTheDatabase
<1>1. WorkloadInv => PoolIsTheDatabase
  BY DEF WorkloadInv, PoolIsTheDatabase
<1> QED BY <1>1, WorkloadInvariance, PTL

\* max(line_no) + 1 and the identity columns never meet a live row's key.
THEOREM EveryInsertAddsARow == Spec => InsertsAddRows
<1>1. WorkloadInv /\ [Next]_workloadVars =>
        [ops # <<>> /\ applied' # applied /\ Head(ops).action = "insert" =>
           Cardinality(db'[Head(ops).table]) = Cardinality(db[Head(ops).table]) + 1]_workloadVars
  <2> SUFFICES ASSUME WorkloadInv, [Next]_workloadVars, applied' # applied,
                      Head(ops).action = "insert"
               PROVE  Cardinality(db'[Head(ops).table]) = Cardinality(db[Head(ops).table]) + 1
    OBVIOUS
  <2>1. ApplyStep
    BY DEF Next, PlanStep, AdoptAndSeed, workloadVars
  <2>2. AppliedTo(Head(ops)) /\ Head(ops) \in Operations /\ phase = "run"
    BY <2>1, ApplyStepLeaves
  <2>3. Head(ops).table \in Tables /\ ids = db /\ ids' = db'
    BY <2>2 DEF Operations, WorkloadInv, AppliedTo
  <2> QED BY <2>2, <2>3 DEF AppliedTo
<1> QED BY <1>1, WorkloadInvariance, PTL DEF Spec, InsertsAddRows

=============================================================================
