----------------------------- MODULE CaptureProofs -----------------------------
(***************************************************************************)
(* What is read off the slot is the stream, for every log and every text:  *)
(* the scanner gives back the value a field was printed with, the split    *)
(* the halves of a change, and the rest follows change by change.          *)
(***************************************************************************)
EXTENDS Capture, SourceProofs, SequenceTheorems

-----------------------------------------------------------------------------
(* Recursion and induction from the end.                                    *)

\* What holds of n, and of a number when it holds of the next, holds from m to n.
LEMMA DownwardInduction ==
  ASSUME NEW m \in Nat, NEW n \in Nat, m <= n, NEW S, n \in S,
         \A i \in m..(n - 1) : i + 1 \in S => i \in S
  PROVE  \A i \in m..n : i \in S
<1> DEFINE T == {d \in Nat : d <= n - m => n - d \in S}
<1>1. 0 \in T
  OBVIOUS
<1>2. ASSUME NEW d \in Nat, d \in T PROVE d + 1 \in T
  <2> SUFFICES ASSUME d + 1 <= n - m PROVE n - (d + 1) \in S
    OBVIOUS
  <2>1. n - d \in S /\ n - (d + 1) \in m..(n - 1) /\ (n - (d + 1)) + 1 = n - d
    BY <1>2
  <2> QED BY <2>1
<1>3. Nat \subseteq T
  <2> HIDE DEF T
  <2> QED BY <1>1, <1>2, NatSetInduction
<1> SUFFICES ASSUME NEW i \in m..n PROVE i \in S
  OBVIOUS
<1>4. n - i \in T /\ n - i <= n - m /\ n - (n - i) = i
  BY <1>3
<1> QED BY <1>4

\* What holds of 0, and of the next number with a number, holds up to n.
LEMMA UpwardInduction ==
  ASSUME NEW n \in Nat, NEW S, 0 \in S, \A i \in 0..(n - 1) : i \in S => i + 1 \in S
  PROVE  \A i \in 0..n : i \in S
<1> DEFINE T == {d \in Nat : d <= n => d \in S}
<1>1. 0 \in T
  OBVIOUS
<1>2. ASSUME NEW d \in Nat, d \in T PROVE d + 1 \in T
  BY <1>2
<1>3. Nat \subseteq T
  <2> HIDE DEF T
  <2> QED BY <1>1, <1>2, NatSetInduction
<1> QED BY <1>3

\* A step on a run that reads what comes later and, past N, nothing.
LooksAhead(step, S, N) ==
  \A i \in Places, g, h \in [Places -> S] :
    (i > N \/ \A j \in Places : j > i => g[j] = h[j]) => step[i][g] = step[i][h]

IsRun(f, step) == \A i \in Places : f[i] = step[i][f]

\* Such a step has a run.
LEMMA RecursionFromTheEnd ==
  ASSUME NEW S, S # {}, NEW N \in Nat, NEW step \in [Places -> [[Places -> S] -> S]],
         LooksAhead(step, S, N)
  PROVE  \E f \in [Places -> S] : IsRun(f, step)
<1> DEFINE Right(d) == \E f \in [Places -> S] : \A i \in Places : i + d > N => f[i] = step[i][f]
<1> DEFINE T == {d \in Nat : Right(d)}
<1>1. Right(0)
  <2>0. PICK s \in S : TRUE
    OBVIOUS
  <2> DEFINE h == [i \in Places |-> s]
  <2> DEFINE f == [i \in Places |-> step[i][h]]
  <2>1. h \in [Places -> S]
    OBVIOUS
  <2>2. f \in [Places -> S]
    BY <2>1
  <2>3. \A i \in Places : i > N => step[i][h] = step[i][f]
    BY <2>1, <2>2 DEF LooksAhead
  <2>4. \A i \in Places : f[i] = step[i][h]
    OBVIOUS
  <2> HIDE DEF h, f
  <2>5. \A i \in Places : i + 0 > N => f[i] = step[i][f]
    BY <2>3, <2>4 DEF Places
  <2> QED BY <2>2, <2>5
<1>2. ASSUME NEW d \in Nat, Right(d) PROVE Right(d + 1)
  <2>1. PICK f \in [Places -> S] : \A i \in Places : i + d > N => f[i] = step[i][f]
    BY <1>2
  <2> DEFINE g == [i \in Places |-> step[i][f]]
  <2>3. g \in [Places -> S]
    OBVIOUS
  <2>4. \A i \in Places : g[i] = step[i][f]
    OBVIOUS
  <2> HIDE DEF g
  <2>5. \A i \in Places : i + d > N => g[i] = f[i]
    BY <2>1, <2>4
  <2>6. ASSUME NEW i \in Places, i + (d + 1) > N PROVE step[i][f] = step[i][g]
    <3>1. \A j \in Places : j > i => j + d > N
      BY <2>6 DEF Places
    <3> QED BY <2>3, <2>5, <3>1 DEF LooksAhead
  <2>7. \A i \in Places : i + (d + 1) > N => g[i] = step[i][g]
    BY <2>4, <2>6
  <2> QED BY <2>3, <2>7
<1> HIDE DEF Right
<1>3. Nat \subseteq T
  <2>1. 0 \in T /\ \A d \in Nat : d \in T => d + 1 \in T
    BY <1>1, <1>2
  <2> HIDE DEF T
  <2> QED BY <2>1, NatSetInduction
<1>4. PICK f \in [Places -> S] : \A i \in Places : i + (N + 1) > N => f[i] = step[i][f]
  <2>1. N + 1 \in T /\ Right(N + 1)
    BY <1>3
  <2> QED BY <2>1 DEF Right
<1>5. \A i \in Places : i + (N + 1) > N
  BY DEF Places
<1>6. IsRun(f, step)
  BY <1>4, <1>5 DEF IsRun
<1> QED BY <1>6

-----------------------------------------------------------------------------
(* Concatenations.                                                          *)

\* f holds the concatenations of the first parts.
Flattens(f, seqs, n) ==
  \A i \in 1..n : f[i] = IF i = 1 THEN seqs[i] ELSE f[i - 1] \o seqs[i]

\* The recursion of FlattenSeq has a solution.
LEMMA FlattenExists ==
  ASSUME NEW S, NEW n \in Nat, n > 0, NEW seqs \in [1..n -> Seq(S)]
  PROVE  \E f \in [1..n -> Seq(S)] : Flattens(f, seqs, n)
<1> DEFINE Step(f, i) == IF i = 1 THEN seqs[i] ELSE f[i - 1] \o seqs[i]
<1> DEFINE Right(k) == \E f \in [1..n -> Seq(S)] : \A i \in 1..n : i <= k => f[i] = Step(f, i)
<1> DEFINE T == {k \in Nat : Right(k)}
<1>1. 0 \in T
  <2>1. seqs \in [1..n -> Seq(S)] /\ \A i \in 1..n : i <= 0 => seqs[i] = Step(seqs, i)
    OBVIOUS
  <2> HIDE DEF Step
  <2> QED BY <2>1
<1>2. ASSUME NEW k \in 0..(n - 1), k \in T PROVE k + 1 \in T
  <2>1. PICK f \in [1..n -> Seq(S)] : \A i \in 1..n : i <= k => f[i] = Step(f, i)
    BY <1>2
  <2> DEFINE g == [i \in 1..n |-> Step(f, i)]
  <2>2. g \in [1..n -> Seq(S)]
    <3> SUFFICES ASSUME NEW i \in 1..n PROVE Step(f, i) \in Seq(S)
      OBVIOUS
    <3>1. CASE i = 1
      BY <3>1
    <3>2. CASE i # 1
      <4>1. f[i - 1] \in Seq(S) /\ seqs[i] \in Seq(S)
        BY <3>2
      <4>2. f[i - 1] \o seqs[i] \in Seq(S)
        BY <4>1, ConcatProperties
      <4> QED BY <3>2, <4>2
    <3> QED BY <3>1, <3>2
  <2>3. \A i \in 1..n : i <= k => g[i] = f[i]
    <3> HIDE DEF Step
    <3> QED BY <2>1
  <2>5. \A i \in 1..n : g[i] = Step(f, i)
    OBVIOUS
  <2> HIDE DEF g
  <2>4. \A i \in 1..n : i <= k + 1 => Step(g, i) = Step(f, i)
    <3>1. \A i \in 1..n : i <= k + 1 /\ i # 1 => g[i - 1] = f[i - 1]
      BY <2>3
    <3> QED BY <3>1
  <2> HIDE DEF Step
  <2>6. \A i \in 1..n : i <= k + 1 => g[i] = Step(g, i)
    BY <2>4, <2>5
  <2> QED BY <2>2, <2>6
<1>3. \A k \in 0..n : k \in T
  <2> HIDE DEF T
  <2> QED BY <1>1, <1>2, UpwardInduction
<1>4. PICK f \in [1..n -> Seq(S)] : \A i \in 1..n : i <= n => f[i] = Step(f, i)
  <2> HIDE DEF Step, Right
  <2>1. n \in 0..n
    OBVIOUS
  <2>2. Right(n)
    BY <1>3, <2>1
  <2> QED BY <2>2 DEF Right
<1>5. \A i \in 1..n : f[i] = Step(f, i)
  <2> HIDE DEF Step
  <2> QED BY <1>4
<1>6. Flattens(f, seqs, n)
  BY <1>5 DEF Flattens
<1> QED BY <1>6

\* A concatenation is the last of its prefixes.
LEMMA FlattenIsLast ==
  ASSUME NEW S, NEW n \in Nat, n > 0, NEW seqs \in [1..n -> Seq(S)]
  PROVE  \E f : /\ f = [i \in 1..n |-> IF i = 1 THEN seqs[i] ELSE f[i - 1] \o seqs[i]]
                /\ FlattenSeq(seqs) = f[n]
<1> DEFINE Right(f) == f = [i \in 1..n |-> IF i = 1 THEN seqs[i] ELSE f[i - 1] \o seqs[i]]
<1>1. \E f : Right(f)
  <2>1. PICK f \in [1..n -> Seq(S)] : Flattens(f, seqs, n)
    <3> HIDE DEF Right
    <3> QED BY FlattenExists
  <2>2. Right(f)
    BY <2>1 DEF Flattens
  <2> HIDE DEF Right
  <2> QED BY <2>2
<1> DEFINE F == CHOOSE f : Right(f)
<1>2. Right(F)
  <2> HIDE DEF Right
  <2> QED BY <1>1
<1>3. Len(seqs) = n /\ n # 0
  OBVIOUS
<1>4. FlattenSeq(seqs) = F[n]
  BY <1>3, Zenon DEF FlattenSeq
<1> HIDE DEF F
<1> QED BY <1>2, <1>4

\* Where each part of a concatenation stands: the first i fill L[i] places.
Pieces(flat, seqs, n, L) ==
  /\ L \in [0..n -> Nat] /\ L[0] = 0 /\ L[n] = Len(flat)
  /\ \A i \in 1..n :
       /\ L[i] = L[i - 1] + Len(seqs[i]) /\ L[i] <= L[n]
       /\ \A j \in 1..Len(seqs[i]) : flat[L[i - 1] + j] = seqs[i][j]

LEMMA FlattenPieces ==
  ASSUME NEW S, NEW n \in Nat, NEW seqs \in [1..n -> Seq(S)]
  PROVE  /\ FlattenSeq(seqs) \in Seq(S)
         /\ \E L : Pieces(FlattenSeq(seqs), seqs, n, L)
<1> DEFINE flat == FlattenSeq(seqs)
<1>1. CASE n = 0
  <2>1. seqs = <<>>
    BY <1>1
  <2>2. flat = <<>> /\ flat \in Seq(S) /\ Len(flat) = 0
    BY <2>1 DEF FlattenSeq
  <2> DEFINE L == [i \in 0..n |-> 0]
  <2>3. L \in [0..n -> Nat] /\ L[0] = 0 /\ L[n] = Len(flat)
    BY <1>1, <2>2
  <2>4. \A i \in 1..n : FALSE
    BY <1>1
  <2> HIDE DEF L, flat
  <2> QED BY <2>2, <2>3, <2>4 DEF flat, Pieces
<1>2. CASE n > 0
  <2>1. PICK F : /\ F = [i \in 1..n |-> IF i = 1 THEN seqs[i] ELSE F[i - 1] \o seqs[i]]
                 /\ flat = F[n]
    BY <1>2, FlattenIsLast
  <2>2. flat = F[n]
    BY <2>1
  <2>3. \A i \in 1..n : F[i] = IF i = 1 THEN seqs[i] ELSE F[i - 1] \o seqs[i]
    BY <2>1
  <2> HIDE DEF flat
  <2>4. 1 \in 1..n
    BY <1>2
  <2>5. F[1] = seqs[1] /\ \A i \in 1..n : i > 1 => F[i] = F[i - 1] \o seqs[i]
    <3>1. F[1] = seqs[1]
      BY <2>3, <2>4
    <3>2. ASSUME NEW i \in 1..n, i > 1 PROVE F[i] = F[i - 1] \o seqs[i]
      <4>1. i # 1
        BY <3>2
      <4> QED BY <2>3, <4>1
    <3> QED BY <3>1, <3>2
  <2>6. \A i \in 0..n : i \in {k \in Nat : k > 0 => F[k] \in Seq(S)}
    <3> DEFINE T == {k \in Nat : k > 0 => F[k] \in Seq(S)}
    <3>1. 0 \in T
      OBVIOUS
    <3>2. ASSUME NEW i \in 0..(n - 1), i \in T PROVE i + 1 \in T
      <4>1. CASE i = 0
        BY <4>1, <2>5
      <4>2. CASE i > 0
        <5>0. i + 1 \in 1..n /\ i + 1 > 1 /\ (i + 1) - 1 = i
          BY <4>2
        <5>1. F[i] \in Seq(S) /\ F[i + 1] = F[i] \o seqs[i + 1] /\ seqs[i + 1] \in Seq(S)
          BY <3>2, <4>2, <5>0, <2>5
        <5>2. F[i + 1] \in Seq(S)
          BY <5>1, ConcatProperties
        <5> QED BY <5>2
      <4> QED BY <4>1, <4>2
    <3> HIDE DEF T
    <3>3. \A i \in 0..n : i \in T
      BY <3>1, <3>2, UpwardInduction
    <3> QED BY <3>3 DEF T
  <2> DEFINE L == [i \in 0..n |-> IF i = 0 THEN 0 ELSE Len(F[i])]
  <2>7. L \in [0..n -> Nat]
    BY <2>6, LenProperties
  <2>8. L[0] = 0 /\ L[n] = Len(flat) /\ \A i \in 1..n : L[i] = Len(F[i])
    BY <1>2, <2>2
  <2> HIDE DEF L
  <2>9. ASSUME NEW i \in 1..n
        PROVE  /\ L[i] = L[i - 1] + Len(seqs[i])
               /\ \A j \in 1..L[i - 1] : F[i][j] = F[i - 1][j]
               /\ \A j \in 1..Len(seqs[i]) : F[i][L[i - 1] + j] = seqs[i][j]
    <3>1. CASE i = 1
      BY <3>1, <2>5, <2>8, LenProperties
    <3>2. CASE i > 1
      <4>1. F[i - 1] \in Seq(S) /\ seqs[i] \in Seq(S) /\ F[i] = F[i - 1] \o seqs[i]
        <5>1. i - 1 \in 0..n /\ i - 1 > 0
          BY <3>2
        <5>2. F[i - 1] \in Seq(S)
          BY <5>1, <2>6
        <5>3. F[i] = F[i - 1] \o seqs[i]
          BY <3>2, <2>5
        <5> QED BY <5>2, <5>3
      <4>2. /\ Len(F[i]) = Len(F[i - 1]) + Len(seqs[i])
            /\ Len(F[i - 1]) \in Nat /\ Len(seqs[i]) \in Nat
            /\ \A j \in 1..Len(F[i - 1]) + Len(seqs[i]) :
                 F[i][j] = IF j <= Len(F[i - 1]) THEN F[i - 1][j]
                           ELSE seqs[i][j - Len(F[i - 1])]
        BY <4>1, ConcatProperties, LenProperties
      <4>3. L[i] = Len(F[i]) /\ L[i - 1] = Len(F[i - 1])
        BY <3>2, <2>8
      <4>4. ASSUME NEW j \in 1..L[i - 1] PROVE F[i][j] = F[i - 1][j]
        <5>1. j \in 1..Len(F[i - 1]) + Len(seqs[i]) /\ j <= Len(F[i - 1])
          BY <4>2, <4>3
        <5> QED BY <4>2, <5>1
      <4>5. \A j \in 1..Len(seqs[i]) : F[i][L[i - 1] + j] = seqs[i][j]
        <5> SUFFICES ASSUME NEW j \in 1..Len(seqs[i]) PROVE F[i][L[i - 1] + j] = seqs[i][j]
          OBVIOUS
        <5> DEFINE p == L[i - 1] + j
        <5>1. p \in 1..Len(F[i - 1]) + Len(seqs[i]) /\ ~(p <= Len(F[i - 1]))
              /\ p - Len(F[i - 1]) = j
          BY <4>2, <4>3
        <5> HIDE DEF p
        <5>2. F[i][p] = seqs[i][j]
          BY <4>2, <5>1
        <5> QED BY <5>2 DEF p
      <4> QED BY <4>2, <4>3, <4>4, <4>5
    <3> QED BY <3>1, <3>2
  <2>10. ASSUME NEW k \in 1..n, NEW i \in k..n
         PROVE  L[k] <= L[i] /\ \A j \in 1..L[k] : F[i][j] = F[k][j]
    <3> DEFINE T == {d \in Nat : k + d <= n =>
                       L[k] <= L[k + d] /\ \A j \in 1..L[k] : F[k + d][j] = F[k][j]}
    <3>1. 0 \in T
      BY <2>7
    <3>2. ASSUME NEW d \in Nat, d \in T PROVE d + 1 \in T
      <4> SUFFICES ASSUME k + d + 1 <= n
                   PROVE  /\ L[k] <= L[k + (d + 1)]
                          /\ \A j \in 1..L[k] : F[k + (d + 1)][j] = F[k][j]
        BY SMTT(30)
      <4>1. k + (d + 1) \in 1..n /\ (k + (d + 1)) - 1 = k + d /\ k + d \in 1..n
        OBVIOUS
      <4>2. L[k + (d + 1)] = L[k + d] + Len(seqs[k + (d + 1)])
            /\ \A j \in 1..L[k + d] : F[k + (d + 1)][j] = F[k + d][j]
        BY <4>1, <2>9
      <4>3. L[k] <= L[k + d] /\ \A j \in 1..L[k] : F[k + d][j] = F[k][j]
        BY <3>2, <4>1
      <4>4. L[k] \in Nat /\ L[k + d] \in Nat /\ Len(seqs[k + (d + 1)]) \in Nat
        BY <2>7, <4>1, LenProperties
      <4> QED BY <4>2, <4>3, <4>4, SMTT(30)
    <3>3. Nat \subseteq T
      <4> HIDE DEF T
      <4> QED BY <3>1, <3>2, NatSetInduction
    <3>4. i - k \in Nat /\ k + (i - k) = i
      OBVIOUS
    <3>5. i - k \in T
      BY <3>3, <3>4
    <3> QED BY <3>4, <3>5
  <2>11. ASSUME NEW i \in 1..n
         PROVE  /\ L[i] = L[i - 1] + Len(seqs[i]) /\ L[i] <= L[n]
                /\ \A j \in 1..Len(seqs[i]) : flat[L[i - 1] + j] = seqs[i][j]
    <3>0. n \in i..n
      OBVIOUS
    <3>1. L[i] <= L[n] /\ \A j \in 1..L[i] : F[n][j] = F[i][j]
      BY <2>10, <3>0
    <3>2. L[i - 1] \in Nat /\ Len(seqs[i]) \in Nat
      BY <2>7, LenProperties
    <3>3. ASSUME NEW j \in 1..Len(seqs[i]) PROVE L[i - 1] + j \in 1..L[i]
      BY <2>9, <3>2
    <3> QED BY <2>2, <2>9, <3>1, <3>3
  <2>12. flat \in Seq(S)
    BY <1>2, <2>2, <2>6
  <2>13. Pieces(flat, seqs, n, L)
    BY <2>7, <2>8, <2>11 DEF Pieces
  <2> QED BY <2>12, <2>13 DEF flat
<1>3. n = 0 \/ n > 0
  OBVIOUS
<1> QED BY <1>1, <1>2, <1>3, Zenon

-----------------------------------------------------------------------------
(* Reading one value.                                                       *)

QuotedReads == [value : Seq(STRING), next : Nat] \cup {Raised}

\* What the scanner makes of the i-th token behind an opening quote, run being what
\* it makes of the later ones.
QuotedStep(text, run, i) ==
  IF i > Len(text) THEN Raised
  ELSE IF text[i] = Quote /\ ~(i < Len(text) /\ text[i + 1] = Quote)
  THEN [value |-> <<>>, next |-> i + 1]
  ELSE LET rest == run[IF text[i] = Quote THEN i + 2 ELSE i + 1]
       IN  IF rest = Raised THEN Raised
           ELSE [rest EXCEPT !.value = <<text[i]>> \o @]

QuotedRun(text, run) == \A i \in Places : run[i] = QuotedStep(text, run, i)

\* Raised is not something read.
LEMMA RaisedIsNoRead ==
  ASSUME NEW v \in Seq(STRING) \cup {None}, NEW n \in Nat
  PROVE  [value |-> v, next |-> n] # Raised
BY DecodeAssumption DEF DecodeAssumption

\* One step makes a read of reads.
LEMMA QuotedStepType ==
  ASSUME NEW text \in Seq(STRING), NEW run \in [Places -> QuotedReads], NEW i \in Places
  PROVE  QuotedStep(text, run, i) \in QuotedReads
<1>1. CASE i > Len(text)
  BY <1>1 DEF QuotedStep, QuotedReads
<1>2. CASE i <= Len(text) /\ text[i] = Quote /\ ~(i < Len(text) /\ text[i + 1] = Quote)
  <2>1. <<>> \in Seq(STRING) /\ i + 1 \in Nat
    BY DEF Places
  <2>2. QuotedStep(text, run, i) = [value |-> <<>>, next |-> i + 1]
    BY <1>2, LenProperties DEF QuotedStep, Places
  <2> QED BY <2>1, <2>2 DEF QuotedReads
<1>3. CASE i <= Len(text) /\ ~(text[i] = Quote /\ ~(i < Len(text) /\ text[i + 1] = Quote))
  <2> DEFINE j == IF text[i] = Quote THEN i + 2 ELSE i + 1
  <2>1. j \in Places /\ i \in 1..Len(text) /\ Len(text) \in Nat /\ ~(i > Len(text))
    BY <1>3, LenProperties DEF Places
  <2>2. run[j] \in QuotedReads /\ text[i] \in STRING
    BY <2>1, ElementOfSeq
  <2>3. QuotedStep(text, run, i) =
          IF run[j] = Raised THEN Raised
          ELSE [run[j] EXCEPT !.value = <<text[i]>> \o @]
    BY <1>3, <2>1, SMTT(30) DEF QuotedStep
  <2>4. CASE run[j] # Raised
    <3>1. run[j] \in [value : Seq(STRING), next : Nat]
      BY <2>2, <2>4 DEF QuotedReads
    <3>2. <<text[i]>> \in Seq(STRING) /\ run[j].value \in Seq(STRING)
      BY <2>2, <3>1
    <3>3. <<text[i]>> \o run[j].value \in Seq(STRING)
      BY <3>2, ConcatProperties
    <3> QED BY <2>3, <2>4, <3>1, <3>3 DEF QuotedReads
  <2>5. CASE run[j] = Raised
    BY <2>3, <2>5 DEF QuotedReads
  <2> QED BY <2>4, <2>5
<1>4. Len(text) \in Nat /\ i \in Nat
  BY LenProperties DEF Places
<1> QED BY <1>1, <1>2, <1>3, <1>4

\* The scanner has a run over every text.
LEMMA QuotedRunExists ==
  ASSUME NEW text \in Seq(STRING)
  PROVE  \E run \in [Places -> QuotedReads] : QuotedRun(text, run)
<1> DEFINE S == QuotedReads
<1> DEFINE step == [i \in Places |-> [run \in [Places -> S] |-> QuotedStep(text, run, i)]]
<1>1. step \in [Places -> [[Places -> S] -> S]]
  BY QuotedStepType
<1>2. \A i \in Places, run \in [Places -> S] : step[i][run] = QuotedStep(text, run, i)
  OBVIOUS
<1>3. ASSUME NEW i \in Places, NEW g \in [Places -> S], NEW h \in [Places -> S],
             i > Len(text) \/ \A j \in Places : j > i => g[j] = h[j]
      PROVE  QuotedStep(text, g, i) = QuotedStep(text, h, i)
  <2>1. CASE i > Len(text)
    BY <2>1 DEF QuotedStep
  <2>2. CASE \A j \in Places : j > i => g[j] = h[j]
    <3>1. g[i + 1] = h[i + 1] /\ g[i + 2] = h[i + 2]
      BY <2>2 DEF Places
    <3> QED BY <3>1 DEF QuotedStep
  <2> QED BY <1>3, <2>1, <2>2
<1>4. S # {} /\ Len(text) \in Nat
  BY LenProperties DEF QuotedReads
<1> HIDE DEF step, S
<1>5. PICK run \in [Places -> S] : IsRun(run, step)
  <2>1. LooksAhead(step, S, Len(text))
    BY <1>2, <1>3 DEF LooksAhead
  <2> QED BY <1>1, <1>4, <2>1, RecursionFromTheEnd
<1>6. QuotedRun(text, run)
  BY <1>2, <1>5 DEF QuotedRun, IsRun
<1> QED BY <1>6 DEF S

\* What Quoted makes of a text is a run's.
LEMMA QuotedIsARun ==
  ASSUME NEW text \in Seq(STRING), NEW start
  PROVE  \E run : QuotedRun(text, run) /\ Quoted(text, start) = run[start]
<1> DEFINE Right(run) == run = [i \in Places |-> QuotedStep(text, run, i)]
<1>1. \E run : Right(run)
  <2>1. PICK run \in [Places -> QuotedReads] : QuotedRun(text, run)
    BY QuotedRunExists
  <2>2. Right(run)
    BY <2>1 DEF QuotedRun
  <2> HIDE DEF Right
  <2> QED BY <2>2
<1> DEFINE R == CHOOSE run : Right(run)
<1>2. Right(R)
  <2> HIDE DEF Right
  <2> QED BY <1>1
<1>3. Quoted(text, start) = R[start]
  BY Zenon DEF Quoted, QuotedStep
<1> HIDE DEF R
<1>4. QuotedRun(text, R)
  BY <1>2 DEF QuotedRun
<1> QED BY <1>3, <1>4

\* Where the tokens of a value stand in its quoted form: the first j of them fill the
\* P[j] places behind the opening quote.
Spelled(x, v, P) ==
  /\ P \in [0..Len(v) -> Nat] /\ P[0] = 0
  /\ Len(x) = P[Len(v)] + 2 /\ x[1] = Quote /\ x[P[Len(v)] + 2] = Quote
  /\ \A j \in 1..Len(v) :
       /\ P[j] <= P[Len(v)]
       /\ IF v[j] = Quote
          THEN P[j] = P[j - 1] + 2 /\ x[P[j - 1] + 2] = Quote /\ x[P[j - 1] + 3] = Quote
          ELSE P[j] = P[j - 1] + 1 /\ x[P[j - 1] + 2] = v[j]

LEMMA PrintedIsSpelled ==
  ASSUME NEW S, Quote \in S, NEW v \in Seq(S), NEW c \in TextColumns
  PROVE  /\ Printed(c, v) \in Seq(S)
         /\ \E P : Spelled(Printed(c, v), v, P)
<1> DEFINE n == Len(v)
<1> DEFINE parts == [i \in 1..n |-> IF v[i] = Quote THEN <<Quote, Quote>> ELSE <<v[i]>>]
<1> DEFINE flat == FlattenSeq(parts)
<1> DEFINE x == <<Quote>> \o flat \o <<Quote>>
<1>1. n \in Nat /\ DOMAIN v = 1..n /\ \A i \in 1..n : v[i] \in S
  BY LenProperties, ElementOfSeq
<1>2. Printed(c, v) = x
  BY <1>1 DEF Printed
<1>3. parts \in [1..n -> Seq(S)]
  BY <1>1
<1>4. \A i \in 1..n : parts[i] = IF v[i] = Quote THEN <<Quote, Quote>> ELSE <<v[i]>>
  OBVIOUS
<1> HIDE DEF parts, n
<1>5. flat \in Seq(S)
  BY <1>1, <1>3, FlattenPieces
<1>50. PICK P : Pieces(flat, parts, n, P)
  BY <1>1, <1>3, FlattenPieces
<1>6. /\ P \in [0..n -> Nat] /\ P[0] = 0 /\ P[n] = Len(flat)
      /\ \A i \in 1..n :
           /\ P[i] = P[i - 1] + Len(parts[i]) /\ P[i] <= P[n]
           /\ \A j \in 1..Len(parts[i]) : flat[P[i - 1] + j] = parts[i][j]
  BY <1>50 DEF Pieces
<1> HIDE DEF flat
<1>7. /\ x \in Seq(S) /\ Len(x) = Len(flat) + 2 /\ Len(flat) \in Nat
      /\ x[1] = Quote /\ x[Len(flat) + 2] = Quote
      /\ \A k \in 1..Len(flat) : x[k + 1] = flat[k]
  <2>1. <<Quote>> \in Seq(S) /\ Len(<<Quote>>) = 1 /\ <<Quote>>[1] = Quote
    OBVIOUS
  <2> DEFINE y == <<Quote>> \o flat
  <2>2. /\ y \in Seq(S) /\ Len(y) = 1 + Len(flat)
        /\ \A k \in 1..1 + Len(flat) : y[k] = IF k <= 1 THEN <<Quote>>[k] ELSE flat[k - 1]
        /\ Len(flat) \in Nat
    BY <1>5, <2>1, ConcatProperties, LenProperties
  <2> HIDE DEF y
  <2>3. /\ y \o <<Quote>> \in Seq(S) /\ Len(y \o <<Quote>>) = Len(y) + 1
        /\ \A k \in 1..Len(y) + 1 :
             (y \o <<Quote>>)[k] = IF k <= Len(y) THEN y[k] ELSE <<Quote>>[k - Len(y)]
    BY <2>1, <2>2, ConcatProperties
  <2>4. x = y \o <<Quote>>
    BY DEF y
  <2> HIDE DEF x
  <2>5. x[1] = Quote
    BY <2>1, <2>2, <2>3, <2>4
  <2>6. x[Len(flat) + 2] = Quote
    <3>1. Len(flat) + 2 \in 1..Len(y) + 1 /\ ~(Len(flat) + 2 <= Len(y))
          /\ (Len(flat) + 2) - Len(y) = 1
      BY <2>2
    <3> QED BY <2>1, <2>3, <2>4, <3>1
  <2>7. ASSUME NEW k \in 1..Len(flat) PROVE x[k + 1] = flat[k]
    <3>1. k + 1 \in 1..Len(y) + 1 /\ k + 1 <= Len(y) /\ k + 1 \in 1..1 + Len(flat)
          /\ ~(k + 1 <= 1) /\ (k + 1) - 1 = k
      BY <2>2
    <3>2. x[k + 1] = y[k + 1]
      BY <2>3, <2>4, <3>1
    <3>3. y[k + 1] = flat[(k + 1) - 1]
      BY <2>2, <3>1
    <3> QED BY <3>1, <3>2, <3>3
  <2> QED BY <2>2, <2>3, <2>4, <2>5, <2>6, <2>7
<1> HIDE DEF x
<1>8. ASSUME NEW j \in 1..n
      PROVE  /\ P[j] <= P[n]
             /\ IF v[j] = Quote
                THEN P[j] = P[j - 1] + 2 /\ x[P[j - 1] + 2] = Quote /\ x[P[j - 1] + 3] = Quote
                ELSE P[j] = P[j - 1] + 1 /\ x[P[j - 1] + 2] = v[j]
  <2>1. P[j] \in Nat /\ P[j - 1] \in Nat /\ P[n] \in Nat /\ P[j] <= P[n]
    BY <1>1, <1>6
  <2>2. CASE v[j] = Quote
    <3>0. parts[j] = <<Quote, Quote>>
      BY <1>4, <2>2
    <3>1. Len(parts[j]) = 2 /\ parts[j][1] = Quote /\ parts[j][2] = Quote
      BY <3>0
    <3>2. P[j] = P[j - 1] + 2
      BY <1>6, <3>1
    <3>3. flat[P[j - 1] + 1] = Quote /\ flat[P[j - 1] + 2] = Quote
      <4>1. 1 \in 1..Len(parts[j]) /\ 2 \in 1..Len(parts[j])
        BY <3>1
      <4> QED BY <1>6, <3>1, <4>1
    <3>4. P[j - 1] + 1 \in 1..Len(flat) /\ P[j - 1] + 2 \in 1..Len(flat)
      BY <1>6, <2>1, <3>2, SMTT(30)
    <3>5. x[(P[j - 1] + 1) + 1] = Quote /\ x[(P[j - 1] + 2) + 1] = Quote
      BY <1>7, <3>3, <3>4
    <3>6. (P[j - 1] + 1) + 1 = P[j - 1] + 2 /\ (P[j - 1] + 2) + 1 = P[j - 1] + 3
      BY <2>1
    <3> QED BY <2>1, <2>2, <3>2, <3>5, <3>6
  <2>3. CASE v[j] # Quote
    <3>0. parts[j] = <<v[j]>>
      BY <1>4, <2>3
    <3>1. Len(parts[j]) = 1 /\ parts[j][1] = v[j]
      BY <3>0
    <3>2. P[j] = P[j - 1] + 1
      BY <1>6, <3>1
    <3>3. flat[P[j - 1] + 1] = v[j]
      <4>1. 1 \in 1..Len(parts[j])
        BY <3>1
      <4> QED BY <1>6, <3>1, <4>1
    <3>4. P[j - 1] + 1 \in 1..Len(flat)
      BY <1>6, <2>1, <3>2
    <3>5. x[(P[j - 1] + 1) + 1] = v[j] /\ (P[j - 1] + 1) + 1 = P[j - 1] + 2
      BY <1>7, <2>1, <3>3, <3>4, SMTT(30)
    <3> QED BY <2>1, <2>3, <3>2, <3>5
  <2> QED BY <2>2, <2>3
<1>9. Spelled(x, v, P)
  BY <1>6, <1>7, <1>8 DEF Spelled, n
<1> QED BY <1>2, <1>7, <1>9

\* Places in a text that ends k tokens behind its first p.
LEMMA CutPlaces ==
  ASSUME NEW p \in Nat, NEW k \in Nat, NEW a \in Nat, a + 2 <= k
  PROVE  /\ p + a + 2 = p + (a + 2) /\ p + (a + 2) \in Nat /\ a + 2 \in 1..k
         /\ p + (a + 2) <= p + k /\ ~(p + (a + 2) > p + k)
         /\ p + (a + 1) + 2 = p + (a + 2) + 1 /\ (a + 1) + 2 <= k + 1
         /\ p + (a + 2) + 1 = p + (a + 3)
         /\ a + 3 # k + 1 =>
              /\ a + 3 \in 1..k /\ p + (a + 3) <= p + k /\ p + (a + 2) < p + k
              /\ (a + 2) + 2 <= k + 1
OBVIOUS

LEMMA OneMoreThanNone ==
  ASSUME NEW k \in Nat
  PROVE  k = 0 \/ 1 <= k
OBVIOUS

LEMMA OneMore ==
  ASSUME NEW a \in Nat, NEW k \in Nat, a <= k + 1
  PROVE  a = k + 1 \/ a <= k
OBVIOUS

\* The text goes on with x behind its first p tokens.
Stands(x, text, p) ==
  p + Len(x) <= Len(text) /\ \A k \in 1..Len(x) : text[p + k] = x[k]

\* A value reads back from its quoted form, unless another quote follows.
LEMMA QuotedWhole ==
  ASSUME NEW text \in Seq(STRING), NEW v \in Seq(STRING), NEW c \in TextColumns, NEW p \in Nat,
         Stands(Printed(c, v), text, p),
         LET end == p + Len(Printed(c, v))
         IN  end < Len(text) => text[end + 1] # Quote
  PROVE  ReadValue(text, p + 1) = [value |-> v, next |-> p + Len(Printed(c, v)) + 1]
<1> DEFINE x == Printed(c, v)
<1> DEFINE n == Len(v)
<1> DEFINE end == p + Len(x)
<1>1. PICK P : Spelled(x, v, P)
  <2>1. Quote \in STRING
    BY DecodeAssumption DEF DecodeAssumption
  <2> QED BY <2>1, PrintedIsSpelled
<1>2. /\ P \in [0..n -> Nat] /\ P[0] = 0
      /\ Len(x) = P[n] + 2 /\ x[1] = Quote /\ x[P[n] + 2] = Quote
      /\ \A j \in 1..n :
           /\ P[j] <= P[n]
           /\ IF v[j] = Quote
              THEN P[j] = P[j - 1] + 2 /\ x[P[j - 1] + 2] = Quote /\ x[P[j - 1] + 3] = Quote
              ELSE P[j] = P[j - 1] + 1 /\ x[P[j - 1] + 2] = v[j]
  BY <1>1 DEF Spelled
<1>3. n \in Nat /\ Len(text) \in Nat /\ P[n] \in Nat /\ \A j \in 1..n : v[j] \in STRING
  <2>1. n \in Nat /\ Len(text) \in Nat /\ \A j \in 1..n : v[j] \in STRING
    BY LenProperties, ElementOfSeq
  <2> QED BY <1>2, <2>1, SMTT(30)
<1>4. /\ end \in Nat /\ end <= Len(text) /\ end = p + P[n] + 2
      /\ \A k \in 1..(P[n] + 2) : text[p + k] = x[k]
      /\ end < Len(text) => text[end + 1] # Quote
  <2>1. end = p + P[n] + 2 /\ end \in Nat
    BY <1>2, <1>3
  <2> QED BY <2>1, <1>2 DEF Stands
<1>40. p + (P[n] + 2) <= Len(text) /\ Len(text) \in Nat
  BY <1>3, <1>4
<1> HIDE DEF x, n, end
<1>5. PICK run : QuotedRun(text, run) /\ Quoted(text, p + 2) = run[p + 2]
  BY QuotedIsARun
<1> DEFINE At(j) == p + P[j] + 2
<1> DEFINE Right(j) == run[At(j)] = [value |-> SubSeq(v, j + 1, n), next |-> end + 1]
<1> DEFINE T == {j \in 0..n : Right(j)}
<1>6. \A j \in 0..n : P[j] \in Nat /\ At(j) \in Places /\ P[j] <= P[n]
  BY <1>2, <1>3, SMTT(30) DEF Places
<1>7. Right(n)
  <2>1. text[end] = Quote /\ end = At(n) /\ end \in Places
    <3>1. P[n] + 2 \in 1..(P[n] + 2) /\ end = p + (P[n] + 2) /\ n \in 0..n
      BY <1>3, <1>4, SMTT(30)
    <3> QED BY <1>2, <1>4, <1>6, <3>1, ZenonT(60)
  <2>2. ~(end > Len(text)) /\ ~(end < Len(text) /\ text[end + 1] = Quote)
    BY <1>3, <1>4
  <2>3. run[end] = [value |-> <<>>, next |-> end + 1]
    BY <1>5, <2>1, <2>2 DEF QuotedRun, QuotedStep
  <2>4. SubSeq(v, n + 1, n) = <<>>
    BY <1>3, SubSeqEmpty
  <2> QED BY <2>1, <2>3, <2>4
<1>8. ASSUME NEW i \in 0..(n - 1), Right(i + 1) PROVE Right(i)
  <2> DEFINE q == At(i)
  <2> DEFINE rest == [value |-> SubSeq(v, i + 2, n), next |-> end + 1]
  <2>0. i + 1 \in 1..n /\ (i + 1) - 1 = i /\ i + 1 \in 0..n /\ i \in 0..n
        /\ (i + 1) + 1 = i + 2
    BY <1>3
  <2>1. run[At(i + 1)] = rest /\ q \in Places /\ q \in Nat
    BY <1>6, <1>8, <2>0 DEF Places
  <2>2. SubSeq(v, i + 2, n) \in Seq(STRING)
    <3>1. \A k \in (i + 2)..n : v[k] \in STRING
      BY <1>3
    <3> QED BY <1>3, <3>1, SubSeqProperties
  <2>3. rest # Raised
    <3>1. end + 1 \in Nat
      BY <1>4
    <3> QED BY <2>2, <3>1, RaisedIsNoRead
  <2>4. [rest EXCEPT !.value = <<v[i + 1]>> \o @] = [value |-> SubSeq(v, i + 1, n), next |-> end + 1]
    <3>1. i + 1 \in 1..Len(v) /\ n \in (i + 1)..Len(v) /\ (i + 1) + 1 = i + 2
      BY <1>3 DEF n
    <3>2. SubSeq(v, i + 1, n) = <<v[i + 1]>> \o SubSeq(v, i + 2, n)
      BY <3>1, SubSeqRecursiveFirst
    <3>3. rest.value = SubSeq(v, i + 2, n) /\ rest.next = end + 1
      OBVIOUS
    <3>4. \A y : [rest EXCEPT !.value = y] = [value |-> y, next |-> end + 1]
      OBVIOUS
    <3> HIDE DEF rest
    <3>5. [rest EXCEPT !.value = <<v[i + 1]>> \o @] = [rest EXCEPT !.value = <<v[i + 1]>> \o rest.value]
      OBVIOUS
    <3> QED BY <3>2, <3>3, <3>4, <3>5
  <2> HIDE DEF rest
  <2>40. P[i] \in Nat /\ P[i + 1] \in Nat /\ P[n] \in Nat
    BY <1>2, <1>3, <2>0
  <2>41. q = p + (P[i] + 2) /\ At(i + 1) = p + (P[i + 1] + 2)
    BY <2>40, SMTT(30)
  <2>5. CASE v[i + 1] = Quote
    <3>1. /\ P[i + 1] = P[i] + 2 /\ x[P[i] + 2] = Quote /\ x[P[i] + 3] = Quote
          /\ P[i + 1] <= P[n]
      BY <1>2, <2>0, <2>5
    <3>2. P[i] + 2 \in 1..(P[n] + 2) /\ P[i] + 3 \in 1..(P[n] + 2)
      BY <2>40, <3>1, SMTT(30)
    <3>3. /\ q = p + (P[i] + 2) /\ q + 1 = p + (P[i] + 3) /\ At(i + 1) = q + 2
          /\ q < Len(text)
      <4>1. p + (P[i] + 2) < Len(text)
        <5>1. P[i] < P[n]
          BY <2>40, <3>1, SMTT(30)
        <5> QED BY <1>40, <2>40, <5>1, SMTT(30)
      <4>2. q + 1 = p + (P[i] + 3)
        BY <2>40
      <4>3. At(i + 1) = q + 2
        BY <2>40, <3>1
      <4> QED BY <2>41, <4>1, <4>2, <4>3
    <3>4. text[q] = Quote /\ text[q + 1] = Quote
      BY <1>4, <3>1, <3>2, <3>3
    <3> HIDE DEF q, At
    <3>5. run[q] = QuotedStep(text, run, q)
      BY <1>5, <2>1 DEF QuotedRun
    <3>6. run[q] = [rest EXCEPT !.value = <<Quote>> \o @]
      <4>1. ~(q > Len(text))
        BY <1>3, <2>1, <3>3
      <4>2. run[q + 2] = rest
        BY <2>1, <3>3
      <4> QED BY <2>3, <3>3, <3>4, <3>5, <4>1, <4>2 DEF QuotedStep
    <3> QED BY <2>4, <2>5, <3>6 DEF q
  <2>6. CASE v[i + 1] # Quote
    <3>1. P[i + 1] = P[i] + 1 /\ x[P[i] + 2] = v[i + 1] /\ P[i + 1] <= P[n]
      BY <1>2, <2>0, <2>6
    <3>2. P[i] + 2 \in 1..(P[n] + 2)
      BY <2>40, <3>1, SMTT(30)
    <3>3. q = p + (P[i] + 2) /\ At(i + 1) = q + 1 /\ q < Len(text)
      <4>1. p + (P[i] + 2) < Len(text)
        <5>1. P[i] < P[n]
          BY <2>40, <3>1, SMTT(30)
        <5> QED BY <1>40, <2>40, <5>1
      <4>2. At(i + 1) = q + 1
        BY <2>40, <3>1, SMTT(30)
      <4> QED BY <2>41, <4>1, <4>2
    <3>4. text[q] = v[i + 1]
      BY <1>4, <3>1, <3>2, <3>3
    <3> HIDE DEF q, At
    <3>5. run[q] = QuotedStep(text, run, q)
      BY <1>5, <2>1 DEF QuotedRun
    <3>6. run[q] = [rest EXCEPT !.value = <<v[i + 1]>> \o @]
      <4>1. ~(q > Len(text))
        BY <1>3, <2>1, <3>3
      <4>2. run[q + 1] = rest
        BY <2>1, <3>3
      <4> QED BY <2>3, <2>6, <3>4, <3>5, <4>1, <4>2 DEF QuotedStep
    <3> QED BY <2>4, <3>6 DEF q
  <2> QED BY <2>5, <2>6
<1> HIDE DEF Right
<1>9. \A i \in 0..n : i \in T
  <2>1. n \in T /\ 0 <= n
    BY <1>3, <1>7
  <2>2. \A i \in 0..(n - 1) : i + 1 \in T => i \in T
    BY <1>3, <1>8
  <2> HIDE DEF T
  <2> QED BY <1>3, <2>1, <2>2, DownwardInduction
<1>10. run[p + 2] = [value |-> v, next |-> end + 1]
  <2>1. Right(0)
    <3>1. 0 \in 0..n
      BY <1>3
    <3> QED BY <1>9, <3>1
  <2>2. SubSeq(v, 0 + 1, n) = v
    BY SubSeqFull DEF n
  <2>3. At(0) = p + 2
    BY <1>2
  <2> QED BY <2>1, <2>2, <2>3 DEF Right
<1>11. ReadValue(text, p + 1) = Quoted(text, p + 2)
  <2>1. p + 1 <= Len(text) /\ (p + 1) + 1 = p + 2
    BY <1>3, <1>4
  <2>2. text[p + 1] = Quote
    <3>1. 1 \in 1..(P[n] + 2)
      BY <1>3
    <3> QED BY <1>2, <1>4, <3>1
  <2> QED BY <2>1, <2>2 DEF ReadValue
<1> QED BY <1>5, <1>10, <1>11 DEF end, x

\* The text ends inside an x that stands behind its first p tokens, with k of it left.
EndsInside(x, text, p, k) ==
  /\ k \in Nat /\ 1 <= k /\ k < Len(x) /\ Len(text) = p + k
  /\ \A j \in 1..k : text[p + j] = x[j]

\* What is read from behind the j-th token of v to the end of a text that ends inside
\* it: what precedes a quote.
Half(read, v, j, end) ==
  \E m \in j..(Len(v) - 1) :
    v[m + 1] = Quote /\ read = [value |-> SubSeq(v, j + 1, m), next |-> end + 1]

LEMMA HalfStarts ==
  ASSUME NEW v \in Seq(STRING), NEW j \in 0..(Len(v) - 1), NEW end \in Nat, v[j + 1] = Quote
  PROVE  Half([value |-> <<>>, next |-> end + 1], v, j, end)
<1>1. Len(v) \in Nat
  BY LenProperties
<1>2. j \in j..(Len(v) - 1) /\ SubSeq(v, j + 1, j) = <<>>
  BY <1>1, SubSeqEmpty
<1> QED BY <1>2 DEF Half

LEMMA HalfGrows ==
  ASSUME NEW v \in Seq(STRING), NEW j \in 0..(Len(v) - 1), NEW end \in Nat,
         NEW read, Half(read, v, j + 1, end)
  PROVE  read # Raised /\ Half([read EXCEPT !.value = <<v[j + 1]>> \o @], v, j, end)
<1>1. Len(v) \in Nat /\ \A k \in 1..Len(v) : v[k] \in STRING
  BY LenProperties, ElementOfSeq
<1>2. PICK m \in (j + 1)..(Len(v) - 1) :
        v[m + 1] = Quote /\ read = [value |-> SubSeq(v, (j + 1) + 1, m), next |-> end + 1]
  BY DEF Half
<1>3. j + 1 \in 1..Len(v) /\ m \in (j + 1)..Len(v) /\ m \in j..(Len(v) - 1) /\ m \in Nat
  BY <1>1
<1> DEFINE rest == SubSeq(v, (j + 1) + 1, m)
<1>4. rest \in Seq(STRING)
  <2>1. \A k \in ((j + 1) + 1)..m : v[k] \in STRING
    BY <1>1, <1>3
  <2> QED BY <1>3, <2>1, SubSeqProperties
<1>5. SubSeq(v, j + 1, m) = <<v[j + 1]>> \o rest
  BY <1>3, SubSeqRecursiveFirst
<1> HIDE DEF rest
<1>6. read = [value |-> rest, next |-> end + 1]
  BY <1>2 DEF rest
<1>7. read # Raised
  BY <1>4, <1>6, RaisedIsNoRead
<1>8. [read EXCEPT !.value = <<v[j + 1]>> \o @] = [value |-> SubSeq(v, j + 1, m), next |-> end + 1]
  <2>1. read.value = rest /\ \A y : [read EXCEPT !.value = y] = [value |-> y, next |-> end + 1]
    BY <1>6
  <2>2. [read EXCEPT !.value = <<v[j + 1]>> \o @] = [read EXCEPT !.value = <<v[j + 1]>> \o read.value]
    OBVIOUS
  <2> QED BY <1>5, <2>1, <2>2
<1> QED BY <1>2, <1>3, <1>7, <1>8 DEF Half

\* A text that ends inside a quoted value is refused, but where a quote comes next:
\* there it may be read as one of the value's halves.
LEMMA QuotedCut ==
  ASSUME NEW text \in Seq(STRING), NEW v \in Seq(STRING), NEW c \in TextColumns, NEW p \in Nat,
         NEW k, EndsInside(Printed(c, v), text, p, k)
  PROVE  LET read == ReadValue(text, p + 1)
         IN  \/ read = Raised
             \/ /\ Printed(c, v)[k + 1] = Quote
                /\ read.value \in Halves(v) /\ read.next = Len(text) + 1
<1> DEFINE x == Printed(c, v)
<1> DEFINE n == Len(v)
<1>1. PICK P : Spelled(x, v, P)
  <2>1. Quote \in STRING
    BY DecodeAssumption DEF DecodeAssumption
  <2> QED BY <2>1, PrintedIsSpelled
<1>2. /\ P \in [0..n -> Nat] /\ P[0] = 0
      /\ Len(x) = P[n] + 2 /\ x[1] = Quote /\ x[P[n] + 2] = Quote
      /\ \A j \in 1..n :
           /\ P[j] <= P[n]
           /\ IF v[j] = Quote
              THEN P[j] = P[j - 1] + 2 /\ x[P[j - 1] + 2] = Quote /\ x[P[j - 1] + 3] = Quote
              ELSE P[j] = P[j - 1] + 1 /\ x[P[j - 1] + 2] = v[j]
  BY <1>1 DEF Spelled
<1>3. n \in Nat /\ P[n] \in Nat /\ k \in Nat /\ 1 <= k /\ k < P[n] + 2
  <2>1. n \in Nat
    BY LenProperties
  <2>2. P[n] \in Nat /\ Len(x) = P[n] + 2
    BY <1>2, <2>1
  <2> HIDE DEF x
  <2>3. 1 <= k /\ k < P[n] + 2 /\ k \in Nat
    BY <2>2 DEF x, EndsInside
  <2> QED BY <2>1, <2>2, <2>3
<1>40. Len(text) = p + k
  BY DEF EndsInside
<1>4. \A j \in 1..k : text[p + j] = x[j]
  BY DEF EndsInside
<1> HIDE DEF x, n
<1>5. PICK run : QuotedRun(text, run) /\ Quoted(text, p + 2) = run[p + 2]
  BY QuotedIsARun
<1> DEFINE At(j) == p + P[j] + 2
<1> DEFINE Reads(j) ==
      \/ run[At(j)] = Raised
      \/ x[k + 1] = Quote /\ Half(run[At(j)], v, j, Len(text))
<1> DEFINE Right(j) == P[j] + 2 <= k + 1 => Reads(j)
<1> DEFINE T == {j \in 0..n : Right(j)}
<1>6. \A j \in 0..n : P[j] \in Nat /\ At(j) \in Places
  BY <1>2, <1>3, SMTT(30) DEF Places
<1>7. ASSUME NEW j \in 0..n, P[j] + 2 = k + 1 PROVE run[At(j)] = Raised
  <2>1. At(j) > Len(text)
    BY <1>3, <1>40, <1>6, <1>7, SMTT(30)
  <2>2. At(j) \in Places
    BY <1>6
  <2> HIDE DEF At
  <2> QED BY <1>5, <2>1, <2>2 DEF QuotedRun, QuotedStep
<1>8. Right(n)
  <2>1. P[n] + 2 <= k + 1 => P[n] + 2 = k + 1 /\ n \in 0..n
    BY <1>3, SMTT(30)
  <2> QED BY <1>7, <2>1
<1>9. ASSUME NEW i \in 0..(n - 1), Right(i + 1) PROVE Right(i)
  <2>0. i + 1 \in 1..n /\ (i + 1) - 1 = i /\ i + 1 \in 0..n /\ i \in 0..n
    BY <1>3
  <2>1. P[i] \in Nat /\ P[i + 1] \in Nat
    BY <1>2, <1>3, <2>0
  <2>10. At(i) \in Places
    BY <1>6, <2>0
  <2>11. i \in 0..(Len(v) - 1) /\ Len(text) \in Nat
    BY <1>3, LenProperties DEF n
  <2> SUFFICES ASSUME P[i] + 2 <= k PROVE Reads(i)
    <3>1. P[i] + 2 = k + 1 => Reads(i)
      BY <1>7, <2>0
    <3> HIDE DEF At, Reads
    <3>2. P[i] + 2 <= k + 1 => P[i] + 2 = k + 1 \/ P[i] + 2 <= k
      <4>1. P[i] + 2 \in Nat /\ k \in Nat
        BY <1>3, <2>1, SMTT(30)
      <4> QED BY <4>1, OneMore
    <3> QED BY <3>1, <3>2 DEF Right
  <2> DEFINE q == p + (P[i] + 2)
  <2> DEFINE a == P[i]
  <2>20. a \in Nat /\ k \in Nat /\ a + 2 <= k
    BY <1>3, <2>1
  <2> HIDE DEF a
  <2>21. /\ p + a + 2 = p + (a + 2) /\ p + (a + 2) \in Nat /\ a + 2 \in 1..k
         /\ p + (a + 2) <= p + k /\ ~(p + (a + 2) > p + k)
         /\ p + (a + 1) + 2 = p + (a + 2) + 1 /\ (a + 1) + 2 <= k + 1
         /\ p + (a + 2) + 1 = p + (a + 3)
         /\ a + 3 # k + 1 =>
              /\ a + 3 \in 1..k /\ p + (a + 3) <= p + k /\ p + (a + 2) < p + k
              /\ (a + 2) + 2 <= k + 1
    BY <2>20, CutPlaces
  <2> HIDE DEF q
  <2>22. q = p + (a + 2) /\ At(i) = p + a + 2
    BY DEF q, a
  <2>2. At(i) = q /\ q <= Len(text)
    BY <1>40, <2>21, <2>22, Zenon
  <2>3. P[i] + 2 \in 1..k
    BY <2>21 DEF a
  <2>4. run[q] = QuotedStep(text, run, q)
    BY <1>5, <2>10, <2>2 DEF QuotedRun
  <2>5. CASE v[i + 1] = Quote
    <3>1. P[i + 1] = P[i] + 2 /\ x[P[i] + 2] = Quote /\ x[P[i] + 3] = Quote
      BY <1>2, <2>0, <2>5
    <3>2. CASE P[i] + 3 = k + 1
      <4>1. text[q] = Quote /\ q = Len(text) /\ q \in Nat
        <5>1. q = p + k
          <6>1. a + 3 = k + 1
            BY <3>2 DEF a
          <6>2. q = p + (a + 2)
            BY <2>22
          <6> QED BY <2>20, <6>1, <6>2
        <5>2. text[p + (P[i] + 2)] = Quote
          BY <1>4, <2>3, <3>1
        <5> QED BY <1>3, <1>40, <2>22, <5>1, <5>2 DEF a
      <4> HIDE DEF At, q
      <4>2. run[q] = [value |-> <<>>, next |-> Len(text) + 1]
        BY <2>4, <4>1 DEF QuotedStep
      <4>3. Half(run[q], v, i, Len(text))
        BY <2>5, <2>11, <4>2, HalfStarts
      <4> QED BY <2>2, <3>1, <3>2, <4>3
    <3>3. CASE P[i] + 3 # k + 1
      <4>1. /\ P[i] + 3 \in 1..k
            /\ p + (a + 3) <= p + k /\ p + (a + 2) < p + k /\ (a + 2) + 2 <= k + 1
        BY <2>21, <3>3, Zenon DEF a
      <4>2. text[q] = Quote /\ text[q + 1] = Quote
        <5>1. q = p + (P[i] + 2) /\ q + 1 = p + (P[i] + 3)
          BY <2>21, <2>22, Zenon DEF a
        <5>2. text[p + (P[i] + 2)] = Quote /\ text[p + (P[i] + 3)] = Quote
          BY <1>4, <2>3, <3>1, <4>1
        <5> QED BY <5>1, <5>2, Zenon
      <4>3. Reads(i + 1) /\ At(i + 1) = q + 2
        <5>1. At(i + 1) = q + 2
          BY <2>22, <3>1, Zenon DEF a
        <5>2. P[i + 1] + 2 <= k + 1
          BY <3>1, <4>1, Zenon DEF a
        <5> HIDE DEF Reads, At
        <5> QED BY <1>9, <5>1, <5>2
      <4>4. ~(q > Len(text)) /\ q < Len(text) /\ q \in Nat
        BY <1>40, <2>21, <2>22, <4>1, Zenon
      <4> DEFINE rest == run[q + 2]
      <4>5. run[q] = IF rest = Raised THEN Raised
                     ELSE [rest EXCEPT !.value = <<v[i + 1]>> \o @]
        <5> HIDE DEF At, q
        <5> QED BY <2>4, <2>5, <4>2, <4>4 DEF QuotedStep
      <4>6. rest = Raised \/ (x[k + 1] = Quote /\ Half(rest, v, i + 1, Len(text)))
        <5> HIDE DEF At, q
        <5> QED BY <4>3
      <4> HIDE DEF At, q, rest
      <4>7. CASE rest = Raised
        BY <2>2, <4>5, <4>7
      <4>8. CASE rest # Raised
        <5>1. Half([rest EXCEPT !.value = <<v[i + 1]>> \o @], v, i, Len(text))
          BY <2>11, <4>6, <4>8, HalfGrows
        <5> QED BY <2>2, <4>5, <4>6, <4>8, <5>1
      <4> QED BY <4>7, <4>8
    <3> QED BY <3>2, <3>3
  <2>6. CASE v[i + 1] # Quote
    <3>1. P[i + 1] = P[i] + 1 /\ x[P[i] + 2] = v[i + 1]
      BY <1>2, <2>0, <2>6
    <3>2. text[q] = v[i + 1]
      BY <1>4, <2>3, <2>22, <3>1 DEF a
    <3>3. Reads(i + 1) /\ At(i + 1) = q + 1
      <4>1. At(i + 1) = q + 1
        BY <2>21, <2>22, <3>1, Zenon DEF a
      <4>2. P[i + 1] + 2 <= k + 1
        BY <2>21, <3>1, Zenon DEF a
      <4> HIDE DEF Reads, At
      <4> QED BY <1>9, <4>1, <4>2
    <3>4. ~(q > Len(text)) /\ q \in Nat
      BY <1>40, <2>21, <2>22, Zenon
    <3> DEFINE rest == run[q + 1]
    <3>5. run[q] = IF rest = Raised THEN Raised
                   ELSE [rest EXCEPT !.value = <<v[i + 1]>> \o @]
      <4> HIDE DEF At, q
      <4> QED BY <2>4, <2>6, <3>2, <3>4 DEF QuotedStep
    <3>6. rest = Raised \/ (x[k + 1] = Quote /\ Half(rest, v, i + 1, Len(text)))
      <4> HIDE DEF At, q
      <4> QED BY <3>3
    <3> HIDE DEF At, q, rest
    <3>7. CASE rest = Raised
      BY <2>2, <3>5, <3>7
    <3>8. CASE rest # Raised
      <4>1. Half([rest EXCEPT !.value = <<v[i + 1]>> \o @], v, i, Len(text))
        BY <2>11, <3>6, <3>8, HalfGrows
      <4> QED BY <2>2, <3>5, <3>6, <3>8, <4>1
    <3> QED BY <3>7, <3>8
  <2> QED BY <2>5, <2>6
<1> HIDE DEF Right
<1>10. \A i \in 0..n : i \in T
  <2>1. n \in T /\ 0 <= n
    BY <1>3, <1>8
  <2>2. \A i \in 0..(n - 1) : i + 1 \in T => i \in T
    BY <1>3, <1>9
  <2> HIDE DEF T
  <2> QED BY <1>3, <2>1, <2>2, DownwardInduction
<1>11. Reads(0) /\ At(0) = p + 2
  <2>1. Right(0)
    <3>1. 0 \in 0..n
      BY <1>3
    <3> QED BY <1>10, <3>1
  <2>2. At(0) = p + 2 /\ P[0] + 2 <= k + 1
    BY <1>2, <1>3
  <2> HIDE DEF Reads, At
  <2> QED BY <2>1, <2>2 DEF Right
<1>12. ReadValue(text, p + 1) = Quoted(text, p + 2)
  <2>1. p + 1 <= Len(text) /\ (p + 1) + 1 = p + 2
    BY <1>3, <1>40
  <2>2. text[p + 1] = Quote
    <3>1. 1 \in 1..k
      BY <1>3
    <3> QED BY <1>2, <1>4, <3>1
  <2> QED BY <2>1, <2>2 DEF ReadValue
<1> DEFINE read == ReadValue(text, p + 1)
<1>13. read = run[p + 2]
  BY <1>5, <1>12
<1>14. read = Raised \/ (x[k + 1] = Quote /\ Half(read, v, 0, Len(text)))
  <2> HIDE DEF read, At
  <2> QED BY <1>11, <1>13
<1> HIDE DEF read
<1>15. ASSUME Half(read, v, 0, Len(text))
       PROVE  read.value \in Halves(v) /\ read.next = Len(text) + 1
  <2>1. PICK m \in 0..(Len(v) - 1) :
          v[m + 1] = Quote /\ read = [value |-> SubSeq(v, 0 + 1, m), next |-> Len(text) + 1]
    BY <1>15 DEF Half
  <2>2. m + 1 \in DOMAIN v /\ 0 + 1 = 1 /\ (m + 1) - 1 = m
    BY LenProperties
  <2>3. SubSeq(v, 1, (m + 1) - 1) \in Halves(v)
    BY <2>1, <2>2 DEF Halves
  <2> QED BY <2>1, <2>2, <2>3
<1> QED BY <1>14, <1>15 DEF read, x

\* The least of a set of numbers.
LEMMA MinIs ==
  ASSUME NEW T \in SUBSET Nat, NEW m \in T, \A k \in T : m <= k
  PROVE  Min(T) = m
<1> DEFINE Least(x) == x \in T /\ \A y \in T : x <= y
<1>1. Least(m) /\ \A x : Least(x) => x = m
  <2>1. \A x : Least(x) => x <= m /\ m <= x /\ x \in Nat /\ m \in Nat
    OBVIOUS
  <2> QED BY <2>1
<1>2. Min(T) = CHOOSE x \in T : \A y \in T : x <= y
  BY DEF Min
<1> QED BY <1>1, <1>2

\* It is one of them.
LEMMA MinOf ==
  ASSUME NEW T \in SUBSET Nat, T # {}
  PROVE  Min(T) \in T /\ \A k \in T : Min(T) <= k
<1>1. PICK m \in T : \A k \in T : m <= k
  BY LeastOf
<1>2. Min(T) = m
  BY <1>1, MinIs
<1> QED BY <1>1, <1>2

\* A bare value goes to the next space or the end.
LEMMA BareReads ==
  ASSUME NEW text \in Seq(STRING), NEW start \in Places, start <= Len(text) + 1
  PROVE  \E next \in start..(Len(text) + 1) :
           /\ next <= Len(text) => text[next] = Space
           /\ \A k \in start..(next - 1) : text[k] # Space
           /\ SubSeq(text, start, next - 1) \in Seq(STRING)
           /\ Bare(text, start) =
                [value |-> IF SubSeq(text, start, next - 1) = <<"null">> THEN None
                           ELSE SubSeq(text, start, next - 1),
                 next |-> next]
<1> DEFINE I == {i \in start..Len(text) : text[i] = Space}
<1> DEFINE space == IF I # {} THEN Min(I) ELSE 0
<1> DEFINE next == IF space = 0 THEN Len(text) + 1 ELSE space
<1>1. Len(text) \in Nat /\ start \in Nat /\ 1 <= start
  BY LenProperties DEF Places
<1>2. Bare(text, start) =
        [value |-> IF SubSeq(text, start, next - 1) = <<"null">> THEN None
                   ELSE SubSeq(text, start, next - 1),
         next |-> next]
  BY Zenon DEF Bare, SelectInSubSeq
<1>3. CASE I = {}
  <2>1. next = Len(text) + 1
    BY <1>3
  <2>2. \A k \in start..(next - 1) : text[k] # Space
    BY <1>1, <1>3, <2>1
  <2>3. next \in start..(Len(text) + 1) /\ ~(next <= Len(text))
    BY <1>1, <2>1
  <2> HIDE DEF next
  <2>4. SubSeq(text, start, next - 1) \in Seq(STRING)
    <3>1. \A k \in start..(next - 1) : text[k] \in STRING
      BY <1>1, <2>1, ElementOfSeq
    <3> QED BY <1>1, <2>3, <3>1, SubSeqProperties
  <2> QED BY <1>2, <2>2, <2>3, <2>4
<1>4. CASE I # {}
  <2>1. I \in SUBSET Nat /\ 0 \notin I
    BY <1>1
  <2>2. Min(I) \in I /\ \A k \in I : Min(I) <= k
    BY <1>4, <2>1, MinOf
  <2>3. next = Min(I)
    BY <1>4, <2>1, <2>2
  <2>4. next \in start..Len(text) /\ text[next] = Space
    BY <2>2, <2>3
  <2>5. \A k \in start..(next - 1) : text[k] # Space
    <3> SUFFICES ASSUME NEW k \in start..(next - 1), text[k] = Space PROVE FALSE
      OBVIOUS
    <3> HIDE DEF next
    <3>1. k \in start..Len(text) /\ k \in Nat /\ k < next /\ next \in Nat
      BY <1>1, <2>4
    <3>2. k \in I
      BY <3>1
    <3>3. next <= k
      BY <2>2, <2>3, <3>2
    <3> QED BY <3>1, <3>3
  <2> HIDE DEF next
  <2>6. SubSeq(text, start, next - 1) \in Seq(STRING)
    <3>1. \A k \in start..(next - 1) : k \in 1..Len(text)
      BY <1>1, <2>4
    <3>2. \A k \in start..(next - 1) : text[k] \in STRING
      BY <3>1, ElementOfSeq
    <3>3. next - 1 \in Int /\ start \in Int
      BY <1>1, <2>4
    <3> QED BY <3>2, <3>3, SubSeqProperties
  <2>7. next \in start..(Len(text) + 1)
    BY <1>1, <2>4
  <2> QED BY <1>2, <2>4, <2>5, <2>6, <2>7
<1> QED BY <1>3, <1>4

\* Behind the end of a text it is empty.
LEMMA BareAtTheEnd ==
  ASSUME NEW text \in Seq(STRING)
  PROVE  Bare(text, Len(text) + 1) = [value |-> <<>>, next |-> Len(text) + 1]
<1> DEFINE start == Len(text) + 1
<1>1. Len(text) \in Nat /\ start \in Places /\ start <= Len(text) + 1
  BY LenProperties DEF Places
<1>2. \A next \in start..(Len(text) + 1) : next = Len(text) + 1 /\ next - 1 = Len(text)
  BY <1>1
<1>3. SubSeq(text, start, Len(text)) = <<>> /\ <<>> # <<"null">>
  BY <1>1, SubSeqEmpty
<1> HIDE DEF start
<1>4. PICK next \in start..(Len(text) + 1) :
        Bare(text, start) = [value |-> IF SubSeq(text, start, next - 1) = <<"null">> THEN None
                                       ELSE SubSeq(text, start, next - 1),
                             next |-> next]
  BY <1>1, BareReads
<1> QED BY <1>2, <1>3, <1>4 DEF start

\* What was read has moved on: its place is behind the i-th.
Read(r, i) ==
  \/ r = Raised
  \/ r \in [value : Seq(STRING) \cup {None}, next : Places] /\ i <= r.next

LEMMA QuotedReadsOn ==
  ASSUME NEW text \in Seq(STRING), NEW start \in Places, start <= Len(text) + 1
  PROVE  Read(Quoted(text, start), start)
<1>1. PICK run : QuotedRun(text, run) /\ Quoted(text, start) = run[start]
  BY QuotedIsARun
<1> DEFINE Good(i) == \/ run[i] = Raised
                      \/ run[i] \in [value : Seq(STRING), next : Places] /\ i <= run[i].next
<1> DEFINE T == {i \in Places : Good(i) /\ Good(i + 1)}
<1>2. Len(text) \in Nat /\ start \in 1..(Len(text) + 1)
  BY LenProperties DEF Places
<1>3. \A i \in Places : i > Len(text) => Good(i)
  BY <1>1 DEF QuotedRun, QuotedStep
<1>4. Len(text) + 1 \in T
  <2>1. Len(text) + 1 \in Places /\ (Len(text) + 1) + 1 \in Places
    BY <1>2 DEF Places
  <2>2. Len(text) + 1 > Len(text) /\ (Len(text) + 1) + 1 > Len(text)
    BY <1>2
  <2> HIDE DEF Good
  <2> QED BY <1>3, <2>1, <2>2
<1>5. ASSUME NEW i \in 1..Len(text), i + 1 \in T PROVE i \in T
  <2>1. Good(i + 1) /\ Good(i + 2) /\ i \in Places /\ i + 2 \in Places /\ i + 1 \in Places
    <3>1. (i + 1) + 1 = i + 2
      OBVIOUS
    <3>2. Good(i + 1) /\ Good((i + 1) + 1)
      <4> HIDE DEF Good
      <4> QED BY <1>5
    <3>3. i \in Places /\ i + 2 \in Places /\ i + 1 \in Places
      BY DEF Places
    <3> HIDE DEF Good
    <3> QED BY <3>1, <3>2, <3>3
  <2>2. run[i] = QuotedStep(text, run, i) /\ ~(i > Len(text)) /\ text[i] \in STRING
    BY <1>1, <1>2, <2>1, ElementOfSeq DEF QuotedRun
  <2>3. CASE text[i] = Quote /\ ~(i < Len(text) /\ text[i + 1] = Quote)
    <3>1. run[i] = [value |-> <<>>, next |-> i + 1]
      BY <2>2, <2>3 DEF QuotedStep
    <3>2. <<>> \in Seq(STRING) /\ i <= i + 1
      OBVIOUS
    <3>3. Good(i)
      BY <2>1, <3>1, <3>2
    <3> HIDE DEF Good
    <3> QED BY <2>1, <3>3
  <2>4. CASE ~(text[i] = Quote /\ ~(i < Len(text) /\ text[i + 1] = Quote))
    <3> DEFINE j == IF text[i] = Quote THEN i + 2 ELSE i + 1
    <3>1. Good(j) /\ j \in Nat /\ i <= j
      <4> HIDE DEF Good
      <4>1. i + 2 \in Nat /\ i + 1 \in Nat /\ i <= i + 2 /\ i <= i + 1
        OBVIOUS
      <4> QED BY <2>1, <4>1
    <3>2. run[i] = IF run[j] = Raised THEN Raised
                   ELSE [run[j] EXCEPT !.value = <<text[i]>> \o @]
      BY <2>2, <2>4 DEF QuotedStep
    <3> HIDE DEF j
    <3>3. CASE run[j] = Raised
      <4>1. Good(i)
        BY <3>2, <3>3
      <4> HIDE DEF Good
      <4> QED BY <2>1, <4>1
    <3>4. CASE run[j] # Raised
      <4>1. run[j] \in [value : Seq(STRING), next : Places] /\ j <= run[j].next
        BY <3>1, <3>4
      <4>2. <<text[i]>> \in Seq(STRING) /\ run[j].value \in Seq(STRING)
        BY <2>2, <4>1
      <4>3. <<text[i]>> \o run[j].value \in Seq(STRING)
        BY <4>2, ConcatProperties
      <4>4. run[i] = [value |-> <<text[i]>> \o run[j].value, next |-> run[j].next]
        BY <3>2, <3>4, <4>1
      <4>5. i <= run[j].next /\ run[j].next \in Places
        BY <3>1, <4>1 DEF Places
      <4>6. Good(i)
        BY <4>3, <4>4, <4>5
      <4> HIDE DEF Good
      <4> QED BY <2>1, <4>6
    <3> QED BY <3>3, <3>4
  <2> QED BY <2>3, <2>4
<1>6. \A i \in 1..(Len(text) + 1) : i \in T
  <2> HIDE DEF T
  <2>1. 1 \in Nat /\ Len(text) + 1 \in Nat /\ 1 <= Len(text) + 1 /\ (Len(text) + 1) - 1 = Len(text)
    BY <1>2
  <2> QED BY <1>4, <1>5, <2>1, DownwardInduction
<1>7. Good(start)
  <2> HIDE DEF Good
  <2> QED BY <1>2, <1>6
<1> QED BY <1>1, <1>7 DEF Read

LEMMA ReadValueReadsOn ==
  ASSUME NEW text \in Seq(STRING), NEW i \in Places, i <= Len(text) + 1
  PROVE  Read(ReadValue(text, i), i)
<1>0. Len(text) \in Nat /\ i \in Nat
  BY LenProperties DEF Places
<1>1. CASE i <= Len(text) /\ text[i] = Quote
  <2>1. i + 1 \in Places /\ i + 1 <= Len(text) + 1
    BY <1>0, <1>1 DEF Places
  <2>2. Read(Quoted(text, i + 1), i + 1)
    BY <2>1, QuotedReadsOn
  <2>3. Read(Quoted(text, i + 1), i)
    BY <1>0, <2>2 DEF Read, Places
  <2> QED BY <1>1, <2>3 DEF ReadValue
<1>2. CASE ~(i <= Len(text) /\ text[i] = Quote)
  <2>1. PICK next \in i..(Len(text) + 1) :
          /\ SubSeq(text, i, next - 1) \in Seq(STRING)
          /\ Bare(text, i) =
               [value |-> IF SubSeq(text, i, next - 1) = <<"null">> THEN None
                          ELSE SubSeq(text, i, next - 1),
                next |-> next]
    BY BareReads
  <2>2. next \in Places /\ i <= next
    BY <1>0 DEF Places
  <2>3. Read(Bare(text, i), i)
    BY <2>1, <2>2 DEF Read
  <2> QED BY <1>2, <2>3 DEF ReadValue
<1> QED BY <1>1, <1>2

\* A word reads back, up to the space behind it.
LEMMA BareWhole ==
  ASSUME NEW text \in Seq(STRING), NEW w \in Words, NEW p \in Nat, Stands(w, text, p),
         p + Len(w) < Len(text) => text[p + Len(w) + 1] = Space
  PROVE  ReadValue(text, p + 1) = [value |-> w, next |-> p + Len(w) + 1]
<1> DEFINE end == p + Len(w)
<1>1. /\ w \in Seq(STRING) /\ w # <<>> /\ w # <<"null">>
      /\ \A k \in 1..Len(w) : w[k] # Quote /\ w[k] # Space
  <2>1. w \in Seq(STRING) /\ DOMAIN w = 1..Len(w)
    BY LenProperties DEF Words
  <2> QED BY <2>1 DEF Words
<1>2. Len(w) \in Nat /\ 1 <= Len(w) /\ Len(text) \in Nat
  BY <1>1, LenProperties, EmptySeq
<1>3. end <= Len(text) /\ \A k \in 1..Len(w) : text[p + k] = w[k]
  BY DEF Stands
<1>4. p + 1 \in Places /\ p + 1 <= Len(text) + 1 /\ p + 1 <= Len(text) /\ text[p + 1] # Quote
  <2>1. 1 \in 1..Len(w)
    BY <1>2
  <2>2. text[p + 1] # Quote
    BY <1>1, <1>3, <2>1
  <2> QED BY <1>2, <1>3, <2>2 DEF Places
<1>5. ReadValue(text, p + 1) = Bare(text, p + 1)
  BY <1>4 DEF ReadValue
<1>6. PICK next \in (p + 1)..(Len(text) + 1) :
        /\ next <= Len(text) => text[next] = Space
        /\ \A k \in (p + 1)..(next - 1) : text[k] # Space
        /\ Bare(text, p + 1) =
             [value |-> IF SubSeq(text, p + 1, next - 1) = <<"null">> THEN None
                        ELSE SubSeq(text, p + 1, next - 1),
              next |-> next]
  BY <1>4, BareReads
<1>7. next = end + 1
  <2>1. next \in Nat /\ p + 1 <= next /\ next <= Len(text) + 1 /\ end \in Nat
    BY <1>2
  <2>2. CASE next < end + 1
    <3>1. next - p \in 1..Len(w) /\ p + (next - p) = next /\ next <= Len(text)
      BY <1>2, <1>3, <2>1, <2>2
    <3>2. text[next] = w[next - p]
      BY <1>3, <3>1
    <3> QED BY <1>1, <1>6, <3>1, <3>2
  <2>3. CASE next > end + 1
    <3>1. end < Len(text) /\ end + 1 \in (p + 1)..(next - 1)
      BY <1>2, <2>1, <2>3
    <3> QED BY <1>6, <3>1
  <2> QED BY <2>1, <2>2, <2>3
<1>8. SubSeq(text, p + 1, end) = w
  <2> DEFINE u == SubSeq(text, p + 1, end)
  <2>1. p + 1 \in Int /\ end \in Int /\ p + 1 <= end /\ end - (p + 1) + 1 = Len(w)
    BY <1>2
  <2>2. \A k \in (p + 1)..end : text[k] \in STRING
    <3>1. \A k \in (p + 1)..end : k \in 1..Len(text)
      BY <1>2, <1>3
    <3> QED BY <3>1, ElementOfSeq
  <2>3. u \in Seq(STRING) /\ Len(u) = end - (p + 1) + 1
        /\ \A k \in 1..(end - (p + 1) + 1) : u[k] = text[p + 1 + k - 1]
    BY <2>1, <2>2, SubSeqProperties
  <2> HIDE DEF u
  <2>4. \A k \in 1..Len(w) : u[k] = w[k]
    <3> SUFFICES ASSUME NEW k \in 1..Len(w) PROVE u[k] = w[k]
      OBVIOUS
    <3>1. p + 1 + k - 1 = p + k
      BY <1>2
    <3> QED BY <1>3, <2>1, <2>3, <3>1
  <2>5. Len(u) = Len(w)
    BY <2>1, <2>3
  <2>6. u = w
    BY <1>1, <2>3, <2>4, <2>5, SeqEqual
  <2> QED BY <2>6 DEF u
<1>9. next - 1 = end
  BY <1>2, <1>7
<1> QED BY <1>1, <1>5, <1>6, <1>7, <1>8, <1>9

\* What a column may hold.
Fit(c, v) == IF c \in TextColumns THEN v \in Seq(STRING) ELSE v \in Words

\* A column reads back, with a space or nothing behind it.
LEMMA ColumnWhole ==
  ASSUME NEW text \in Seq(STRING), NEW c, NEW v, Fit(c, v), NEW p \in Nat,
         Stands(Printed(c, v), text, p),
         p + Len(Printed(c, v)) < Len(text) => text[p + Len(Printed(c, v)) + 1] = Space
  PROVE  ReadValue(text, p + 1) = [value |-> v, next |-> p + Len(Printed(c, v)) + 1]
<1>1. CASE c \in TextColumns
  <2>1. v \in Seq(STRING)
    BY <1>1 DEF Fit
  <2>2. Space # Quote
    BY DEF Space, Quote
  <2> QED BY <1>1, <2>1, <2>2, QuotedWhole
<1>2. CASE c \notin TextColumns
  <2>1. v \in Words /\ Printed(c, v) = v
    BY <1>2 DEF Fit, Printed
  <2> QED BY <2>1, BareWhole
<1> QED BY <1>1, <1>2

-----------------------------------------------------------------------------
(* Reading the fields of a fragment.                                        *)

ColumnNames == {ColumnOf[t] : t \in DOMAIN ColumnOf}

FieldImages == UNION {Images(columns) : columns \in SUBSET ColumnNames}

FieldReads == FieldImages \cup {Raised}

\* What the reader makes of a fragment from pos on.
FieldStep(text, run, pos) ==
  IF FieldStarts(text, pos) = {} THEN NoFields
  ELSE LET i == Min(FieldStarts(text, pos))
           read == ReadValue(text, i + 1)
           rest == IF read = Raised THEN Raised ELSE run[read.next]
       IN  IF rest = Raised THEN Raised
           ELSE Joined(rest, [c \in {ColumnOf[text[i]]} |-> read.value])

FieldRun(text, run) == \A pos \in Places : run[pos] = FieldStep(text, run, pos)

LEMMA FirstField ==
  ASSUME NEW text \in Seq(STRING), NEW pos \in Places, FieldStarts(text, pos) # {}
  PROVE  LET i == Min(FieldStarts(text, pos))
         IN  /\ i \in pos..Len(text) /\ i \in Places /\ i + 1 \in Places /\ i + 1 <= Len(text) + 1
             /\ i \in FieldStarts(text, pos) /\ \A k \in FieldStarts(text, pos) : i <= k
             /\ text[i] \in DOMAIN ColumnOf /\ ColumnOf[text[i]] \in ColumnNames
<1>1. FieldStarts(text, pos) \in SUBSET Nat
  BY DEF FieldStarts, Places
<1> DEFINE i == Min(FieldStarts(text, pos))
<1>2. i \in FieldStarts(text, pos) /\ \A k \in FieldStarts(text, pos) : i <= k
  BY <1>1, MinOf
<1>3. i \in pos..Len(text) /\ text[i] \in DOMAIN ColumnOf
  BY <1>2 DEF FieldStarts
<1>4. Len(text) \in Nat /\ pos \in Nat /\ 1 <= pos
  BY LenProperties DEF Places
<1> HIDE DEF i
<1>5. i \in Places /\ i + 1 \in Places /\ i + 1 <= Len(text) + 1
  BY <1>3, <1>4 DEF Places
<1>6. ColumnOf[text[i]] \in ColumnNames
  BY <1>3 DEF ColumnNames
<1> QED BY <1>2, <1>3, <1>5, <1>6 DEF i

\* The images of columns, joined.
LEMMA JoinedImages ==
  ASSUME NEW C \in SUBSET ColumnNames, NEW f \in Images(C), NEW c \in ColumnNames,
         NEW v \in Seq(STRING) \cup {None}
  PROVE  /\ Joined(f, [x \in {c} |-> v]) \in Images(C \cup {c})
         /\ Joined(f, [x \in {c} |-> v]) \in FieldReads
<1>1. Joined(f, [x \in {c} |-> v]) \in Images(C \cup {c})
  BY DEF Joined, Images
<1>2. C \cup {c} \in SUBSET ColumnNames
  OBVIOUS
<1>3. Joined(f, [x \in {c} |-> v]) \in FieldImages
  BY <1>1, <1>2 DEF FieldImages
<1> QED BY <1>1, <1>3 DEF FieldReads

LEMMA FieldStepType ==
  ASSUME NEW text \in Seq(STRING), NEW run \in [Places -> FieldReads], NEW pos \in Places
  PROVE  FieldStep(text, run, pos) \in FieldReads
<1>1. CASE FieldStarts(text, pos) = {}
  <2>1. NoFields \in Images({}) /\ {} \in SUBSET ColumnNames
    BY DEF NoFields, Images
  <2>2. FieldStep(text, run, pos) = NoFields
    BY <1>1 DEF FieldStep
  <2>3. NoFields \in FieldImages
    BY <2>1 DEF FieldImages
  <2> QED BY <2>2, <2>3 DEF FieldReads
<1>2. CASE FieldStarts(text, pos) # {}
  <2> DEFINE i == Min(FieldStarts(text, pos))
  <2> DEFINE read == ReadValue(text, i + 1)
  <2>1. i + 1 \in Places /\ i + 1 <= Len(text) + 1 /\ ColumnOf[text[i]] \in ColumnNames
    BY <1>2, FirstField
  <2>2. Read(read, i + 1)
    BY <2>1, ReadValueReadsOn
  <2>3. FieldStep(text, run, pos) =
          IF (IF read = Raised THEN Raised ELSE run[read.next]) = Raised THEN Raised
          ELSE Joined(IF read = Raised THEN Raised ELSE run[read.next],
                      [c \in {ColumnOf[text[i]]} |-> read.value])
    BY <1>2 DEF FieldStep
  <2> HIDE DEF read, i
  <2>20. Raised \in FieldReads
    BY DEF FieldReads
  <2>4. CASE read = Raised
    BY <2>3, <2>4, <2>20
  <2>5. CASE read # Raised /\ run[read.next] = Raised
    BY <2>3, <2>5, <2>20
  <2>6. CASE read # Raised /\ run[read.next] # Raised
    <3>1. read.value \in Seq(STRING) \cup {None} /\ read.next \in Places
      BY <2>2, <2>6 DEF Read
    <3>2. run[read.next] \in FieldImages
      <4>1. run[read.next] \in FieldReads
        BY <3>1
      <4> QED BY <2>6, <4>1 DEF FieldReads
    <3>3. PICK C \in SUBSET ColumnNames : run[read.next] \in Images(C)
      BY <3>2 DEF FieldImages
    <3>4. Joined(run[read.next], [c \in {ColumnOf[text[i]]} |-> read.value]) \in FieldReads
      BY <2>1, <3>1, <3>3, JoinedImages, ZenonT(60)
    <3> QED BY <2>3, <2>6, <3>4
  <2> QED BY <2>4, <2>5, <2>6
<1> QED BY <1>1, <1>2

\* The reader has a run over every text.
LEMMA FieldRunExists ==
  ASSUME NEW text \in Seq(STRING)
  PROVE  \E run \in [Places -> FieldReads] : FieldRun(text, run)
<1> DEFINE S == FieldReads
<1> DEFINE step == [pos \in Places |-> [run \in [Places -> S] |-> FieldStep(text, run, pos)]]
<1>1. step \in [Places -> [[Places -> S] -> S]]
  BY FieldStepType
<1>2. \A pos \in Places, run \in [Places -> S] : step[pos][run] = FieldStep(text, run, pos)
  OBVIOUS
<1>3. ASSUME NEW pos \in Places, NEW g \in [Places -> S], NEW h \in [Places -> S],
             pos > Len(text) \/ \A j \in Places : j > pos => g[j] = h[j]
      PROVE  FieldStep(text, g, pos) = FieldStep(text, h, pos)
  <2>1. CASE FieldStarts(text, pos) = {}
    BY <2>1 DEF FieldStep
  <2>2. CASE FieldStarts(text, pos) # {}
    <3> DEFINE i == Min(FieldStarts(text, pos))
    <3> DEFINE read == ReadValue(text, i + 1)
    <3>1. i + 1 \in Places /\ i + 1 <= Len(text) + 1 /\ i \in pos..Len(text) /\ i \in Places
      BY <2>2, FirstField
    <3>2. Read(read, i + 1)
      BY <3>1, ReadValueReadsOn
    <3>3. Len(text) \in Nat /\ pos \in Nat
      BY LenProperties DEF Places
    <3>4. FieldStep(text, g, pos) =
            IF (IF read = Raised THEN Raised ELSE g[read.next]) = Raised THEN Raised
            ELSE Joined(IF read = Raised THEN Raised ELSE g[read.next],
                        [c \in {ColumnOf[text[i]]} |-> read.value])
      BY <2>2 DEF FieldStep
    <3>5. FieldStep(text, h, pos) =
            IF (IF read = Raised THEN Raised ELSE h[read.next]) = Raised THEN Raised
            ELSE Joined(IF read = Raised THEN Raised ELSE h[read.next],
                        [c \in {ColumnOf[text[i]]} |-> read.value])
      BY <2>2 DEF FieldStep
    <3> HIDE DEF read, i
    <3>6. read # Raised => g[read.next] = h[read.next]
      <4> SUFFICES ASSUME read # Raised PROVE g[read.next] = h[read.next]
        OBVIOUS
      <4>1. read.next \in Places /\ i + 1 <= read.next
        BY <3>2 DEF Read
      <4>2. read.next > pos /\ ~(pos > Len(text))
        BY <3>1, <3>3, <4>1 DEF Places
      <4> QED BY <1>3, <4>1, <4>2
    <3> QED BY <3>4, <3>5, <3>6
  <2> QED BY <2>1, <2>2
<1>4. S # {} /\ Len(text) \in Nat
  BY LenProperties DEF FieldReads
<1> HIDE DEF step, S
<1>5. PICK run \in [Places -> S] : IsRun(run, step)
  <2>1. LooksAhead(step, S, Len(text))
    BY <1>2, <1>3 DEF LooksAhead
  <2> QED BY <1>1, <1>4, <2>1, RecursionFromTheEnd
<1>6. FieldRun(text, run)
  BY <1>2, <1>5 DEF FieldRun, IsRun
<1> QED BY <1>6 DEF S

\* What Image makes of a fragment is a run's.
LEMMA ImageIsARun ==
  ASSUME NEW text \in Seq(STRING), ~Contains(text, NoTuple)
  PROVE  \E run : FieldRun(text, run) /\ Image(text) = run[1]
<1> DEFINE Right(run) == run = [pos \in Places |-> FieldStep(text, run, pos)]
<1>1. \E run : Right(run)
  <2>1. PICK run \in [Places -> FieldReads] : FieldRun(text, run)
    BY FieldRunExists
  <2>2. Right(run)
    BY <2>1 DEF FieldRun
  <2> HIDE DEF Right
  <2> QED BY <2>2
<1> DEFINE R == CHOOSE run : Right(run)
<1>2. Right(R)
  <2> HIDE DEF Right
  <2> QED BY <1>1
<1>3. text # None
  BY DecodeAssumption DEF DecodeAssumption
<1>4. Image(text) = R[1]
  BY <1>3, Zenon DEF Image, FieldStep
<1> HIDE DEF R
<1>5. FieldRun(text, R)
  BY <1>2 DEF FieldRun
<1> QED BY <1>4, <1>5

\* No field from here on.
LEMMA NoMoreFields ==
  ASSUME NEW text, NEW run, FieldRun(text, run), NEW pos \in Places, FieldStarts(text, pos) = {}
  PROVE  run[pos] = NoFields
BY DEF FieldRun, FieldStep

\* The first field from here on is refused, or what follows it is.
LEMMA FieldRefused ==
  ASSUME NEW text \in Seq(STRING), NEW run, FieldRun(text, run), NEW pos \in Places,
         NEW i \in FieldStarts(text, pos), \A k \in FieldStarts(text, pos) : i <= k,
         \/ ReadValue(text, i + 1) = Raised
         \/ run[ReadValue(text, i + 1).next] = Raised
  PROVE  run[pos] = Raised
<1>1. FieldStarts(text, pos) \in SUBSET Nat
  BY DEF FieldStarts, Places
<1>2. Min(FieldStarts(text, pos)) = i
  BY <1>1, MinIs
<1> QED BY <1>2 DEF FieldRun, FieldStep

\* The first field from here on, with what follows it.
LEMMA FieldTaken ==
  ASSUME NEW text \in Seq(STRING), NEW run, FieldRun(text, run), NEW pos \in Places,
         NEW i \in FieldStarts(text, pos), \A k \in FieldStarts(text, pos) : i <= k,
         ReadValue(text, i + 1) # Raised, run[ReadValue(text, i + 1).next] # Raised
  PROVE  run[pos] = Joined(run[ReadValue(text, i + 1).next],
                           [c \in {ColumnOf[text[i]]} |-> ReadValue(text, i + 1).value])
<1>1. FieldStarts(text, pos) \in SUBSET Nat
  BY DEF FieldStarts, Places
<1>2. Min(FieldStarts(text, pos)) = i
  BY <1>1, MinIs
<1> QED BY <1>2 DEF FieldRun, FieldStep

-----------------------------------------------------------------------------
(* An image reads back.                                                     *)

LEMMA FieldStartNames ==
  ASSUME NEW c \in ColumnNames
  PROVE  FieldStart(c) \in DOMAIN ColumnOf /\ ColumnOf[FieldStart(c)] = c
BY DEF ColumnNames, FieldStart

\* Where the field of the i-th column starts.
StartOf(L, i) == L[i - 1] + (IF i = 1 THEN 1 ELSE 2)

\* Where the fields of a tuple stand: the first i of them fill L[i] places.
LaidOut(x, image, columns, L) ==
  LET n == Len(columns)
      Text(i) == Printed(columns[i], image[columns[i]])
  IN  /\ L \in [0..n -> Nat] /\ L[0] = 0 /\ L[n] = Len(x)
      /\ \A i \in 1..n :
           /\ x[StartOf(L, i)] = FieldStart(columns[i])
           /\ i > 1 => x[L[i - 1] + 1] = Space
           /\ L[i] = StartOf(L, i) + Len(Text(i)) /\ L[i] <= L[n]
           /\ \A k \in 1..Len(Text(i)) : x[StartOf(L, i) + k] = Text(i)[k]

\* A field start and what follows it, with a space before it or none.
PartAt(part, S, s, f, x) ==
  /\ part \in Seq(S) /\ Len(part) = s + Len(x)
  /\ part[s] = f /\ (s > 1 => part[1] = Space)
  /\ \A k \in 1..Len(x) : part[s + k] = x[k]

LEMMA PartBehindLead ==
  ASSUME NEW S, NEW f \in S, NEW x \in Seq(S), NEW lead \in Seq(S), NEW s \in Nat \ {0},
         Len(lead) = s - 1, s > 1 => lead[1] = Space
  PROVE  PartAt(lead \o <<f>> \o x, S, s, f, x)
<1> DEFINE one == <<f>>
<1> DEFINE y == lead \o one
<1> DEFINE m == Len(x)
<1>1. one \in Seq(S) /\ Len(one) = 1 /\ one[1] = f
  OBVIOUS
<1> HIDE DEF one
<1>2. /\ y \in Seq(S) /\ Len(y) = (s - 1) + 1
      /\ \A k \in 1..(s - 1) + 1 : y[k] = IF k <= s - 1 THEN lead[k] ELSE one[k - (s - 1)]
  <2>1. /\ y \in Seq(S) /\ Len(y) = Len(lead) + Len(one)
        /\ \A k \in 1..Len(lead) + Len(one) :
             y[k] = IF k <= Len(lead) THEN lead[k] ELSE one[k - Len(lead)]
    BY <1>1, ConcatProperties, Zenon
  <2> HIDE DEF y
  <2> QED BY <1>1, <2>1
<1>3. y \in Seq(S) /\ Len(y) = s /\ y[s] = f /\ (s > 1 => y[1] = Space)
  <2>1. y[s] = one[s - (s - 1)] /\ (s > 1 => y[1] = lead[1])
    <3> HIDE DEF y
    <3> QED BY <1>2
  <2>2. s - (s - 1) = 1 /\ (s - 1) + 1 = s
    OBVIOUS
  <2> HIDE DEF y
  <2> QED BY <1>1, <1>2, <2>1, <2>2
<1> HIDE DEF y
<1> DEFINE part == y \o x
<1>4. m \in Nat
  BY LenProperties
<1>5. /\ part \in Seq(S) /\ Len(part) = s + m
      /\ \A k \in 1..(s + m) : part[k] = IF k <= s THEN y[k] ELSE x[k - s]
  BY <1>3, ConcatProperties, ZenonT(60)
<1> HIDE DEF part, m
<1>6. part[s] = f /\ (s > 1 => part[1] = Space)
  BY <1>3, <1>4, <1>5
<1>7. ASSUME NEW k \in 1..m PROVE part[s + k] = x[k]
  <2>1. s + k \in 1..(s + m) /\ ~(s + k <= s) /\ (s + k) - s = k
    BY <1>4
  <2> QED BY <1>5, <2>1
<1>8. PartAt(part, S, s, f, x)
  BY <1>5, <1>6, <1>7 DEF PartAt, m
<1> QED BY <1>8 DEF part, y, one

LEMMA PartLaidOut ==
  ASSUME NEW S, Space \in S, NEW f \in S, NEW x \in Seq(S), NEW i \in Nat
  PROVE  PartAt((IF i = 1 THEN <<>> ELSE <<Space>>) \o <<f>> \o x, S, IF i = 1 THEN 1 ELSE 2, f, x)
<1>1. CASE i = 1
  <2> DEFINE lead == <<>>
  <2>1. lead \in Seq(S) /\ Len(lead) = 1 - 1 /\ 1 \in Nat \ {0} /\ (1 > 1 => lead[1] = Space)
    OBVIOUS
  <2> HIDE DEF lead
  <2>2. PartAt(lead \o <<f>> \o x, S, 1, f, x)
    BY <2>1, PartBehindLead, Zenon
  <2> QED BY <1>1, <2>2 DEF lead
<1>2. CASE i # 1
  <2> DEFINE lead == <<Space>>
  <2>1. lead \in Seq(S) /\ Len(lead) = 2 - 1 /\ 2 \in Nat \ {0} /\ (2 > 1 => lead[1] = Space)
    OBVIOUS
  <2> HIDE DEF lead
  <2>2. PartAt(lead \o <<f>> \o x, S, 2, f, x)
    BY <2>1, PartBehindLead, Zenon
  <2> QED BY <1>2, <2>2 DEF lead
<1> QED BY <1>1, <1>2

LEMMA TupleIsLaidOut ==
  ASSUME NEW S, Space \in S, NEW columns \in Seq(ColumnNames), NEW image,
         \A i \in 1..Len(columns) : FieldStart(columns[i]) \in S,
         \A i \in 1..Len(columns) : Printed(columns[i], image[columns[i]]) \in Seq(S)
  PROVE  /\ Tuple(image, columns) \in Seq(S)
         /\ \E L : LaidOut(Tuple(image, columns), image, columns, L)
<1> DEFINE n == Len(columns)
<1> DEFINE Text(i) == Printed(columns[i], image[columns[i]])
<1> DEFINE parts == [i \in 1..n |-> (IF i = 1 THEN <<>> ELSE <<Space>>)
                                    \o <<FieldStart(columns[i])>> \o Text(i)]
<1> DEFINE x == FlattenSeq(parts)
<1>1. n \in Nat /\ DOMAIN columns = 1..n
  BY LenProperties
<1>2. Tuple(image, columns) = x
  BY <1>1 DEF Tuple
<1>3. \A i \in 1..n : parts[i] = (IF i = 1 THEN <<>> ELSE <<Space>>)
                                 \o <<FieldStart(columns[i])>> \o Text(i)
  OBVIOUS
<1>4. ASSUME NEW i \in 1..n
      PROVE  PartAt(parts[i], S, IF i = 1 THEN 1 ELSE 2, FieldStart(columns[i]), Text(i))
  <2>1. Text(i) \in Seq(S) /\ FieldStart(columns[i]) \in S /\ i \in Nat
    BY <1>1
  <2> DEFINE f == FieldStart(columns[i])
  <2> DEFINE y == Text(i)
  <2>2. parts[i] = (IF i = 1 THEN <<>> ELSE <<Space>>) \o <<f>> \o y
    BY <1>3
  <2> HIDE DEF parts, Text, f, y
  <2>3. f \in S /\ y \in Seq(S)
    BY <2>1 DEF f, y
  <2>4. PartAt((IF i = 1 THEN <<>> ELSE <<Space>>) \o <<f>> \o y, S, IF i = 1 THEN 1 ELSE 2, f, y)
    BY <2>1, <2>3, PartLaidOut
  <2> QED BY <2>2, <2>4 DEF f, y
<1>5. parts \in [1..n -> Seq(S)]
  <2>1. parts = [i \in 1..n |-> parts[i]]
    OBVIOUS
  <2>2. \A i \in 1..n : parts[i] \in Seq(S)
    BY <1>4 DEF PartAt
  <2> HIDE DEF parts, n
  <2> QED BY <2>1, <2>2
<1> HIDE DEF parts
<1>6. x \in Seq(S)
  BY <1>1, <1>5, FlattenPieces
<1>7. PICK L : Pieces(x, parts, n, L)
  BY <1>1, <1>5, FlattenPieces
<1> HIDE DEF x, n, Text
<1>8. /\ L \in [0..n -> Nat] /\ L[0] = 0 /\ L[n] = Len(x)
      /\ \A i \in 1..n : /\ L[i] = L[i - 1] + Len(parts[i]) /\ L[i] <= L[n]
                         /\ \A j \in 1..Len(parts[i]) : x[L[i - 1] + j] = parts[i][j]
  BY <1>7 DEF Pieces
<1>9. ASSUME NEW i \in 1..n
      PROVE  /\ x[StartOf(L, i)] = FieldStart(columns[i])
             /\ i > 1 => x[L[i - 1] + 1] = Space
             /\ L[i] = StartOf(L, i) + Len(Text(i)) /\ L[i] <= L[n]
             /\ \A k \in 1..Len(Text(i)) : x[StartOf(L, i) + k] = Text(i)[k]
  <2> DEFINE s == IF i = 1 THEN 1 ELSE 2
  <2>1. /\ Len(parts[i]) = s + Len(Text(i)) /\ parts[i][s] = FieldStart(columns[i])
        /\ (i # 1 => parts[i][1] = Space)
        /\ \A k \in 1..Len(Text(i)) : parts[i][s + k] = Text(i)[k]
    BY <1>4 DEF PartAt
  <2>2. s \in Nat /\ s >= 1 /\ StartOf(L, i) = L[i - 1] + s
    BY DEF StartOf
  <2>3. Len(Text(i)) \in Nat /\ L[i - 1] \in Nat
    <3>1. Text(i) \in Seq(S)
      BY DEF Text, n
    <3> QED BY <1>1, <1>8, <3>1, LenProperties
  <2> DEFINE a == L[i - 1]
  <2> DEFINE m == Len(Text(i))
  <2>4. \A j \in 1..(s + m) : x[a + j] = parts[i][j]
    BY <1>8, <2>1
  <2>5. s \in 1..(s + m) /\ 1 \in 1..(s + m)
    BY <2>2, <2>3
  <2>6. x[a + s] = FieldStart(columns[i]) /\ (i # 1 => x[a + 1] = Space)
    <3> HIDE DEF s, m, a
    <3> QED BY <2>1, <2>4, <2>5
  <2>7. L[i] = (a + s) + m /\ L[i] <= L[n]
    <3>1. L[i] = a + (s + m) /\ L[i] <= L[n]
      BY <1>8, <2>1
    <3>2. a + (s + m) = (a + s) + m
      <4>1. a \in Nat /\ s \in Nat /\ m \in Nat
        BY <2>2, <2>3
      <4> HIDE DEF a, s, m
      <4> QED BY <4>1
    <3> QED BY <3>1, <3>2
  <2>8. ASSUME NEW k \in 1..m PROVE x[(a + s) + k] = Text(i)[k]
    <3>1. a \in Nat /\ s \in Nat /\ m \in Nat
      BY <2>2, <2>3
    <3>2. parts[i][s + k] = Text(i)[k]
      BY <2>1
    <3> HIDE DEF a, s, m
    <3>3. s + k \in 1..(s + m) /\ (a + s) + k = a + (s + k)
      BY <3>1
    <3> QED BY <2>4, <3>2, <3>3
  <2> QED BY <2>2, <2>6, <2>7, <2>8
<1>10. LaidOut(x, image, columns, L)
  BY <1>8, <1>9 DEF LaidOut, n, Text
<1> QED BY <1>2, <1>6, <1>10

\* A printed column has a length.
LEMMA PrintedLength ==
  ASSUME NEW c, NEW v, Fit(c, v)
  PROVE  Len(Printed(c, v)) \in Nat
<1>1. CASE c \in TextColumns
  <2>1. v \in Seq(STRING) /\ Quote \in STRING
    BY <1>1, DecodeAssumption DEF DecodeAssumption, Fit
  <2>2. Printed(c, v) \in Seq(STRING)
    BY <1>1, <2>1, PrintedIsSpelled
  <2> QED BY <2>2, LenProperties
<1>2. CASE c \notin TextColumns
  <2>1. v \in Seq(STRING) /\ Printed(c, v) = v
    BY <1>2 DEF Fit, Words, Printed
  <2> QED BY <2>1, LenProperties
<1> QED BY <1>1, <1>2

\* The columns of an image hold what they may.
Fits(image, columns) == \A i \in 1..Len(columns) : Fit(columns[i], image[columns[i]])

\* Every field start and every part of a bare word is one of these, and so are the
\* texts' parts.
Within(S, image, columns) ==
  /\ Space \in S /\ Quote \in S /\ DOMAIN ColumnOf \subseteq S
  /\ \A i \in 1..Len(columns) : image[columns[i]] \in Seq(S)

LEMMA TupleWithin ==
  ASSUME NEW S, NEW columns \in Seq(ColumnNames), NEW image, Within(S, image, columns)
  PROVE  /\ Tuple(image, columns) \in Seq(S)
         /\ \E L : LaidOut(Tuple(image, columns), image, columns, L)
<1>1. ASSUME NEW i \in 1..Len(columns) PROVE FieldStart(columns[i]) \in S
  <2>1. columns[i] \in ColumnNames
    OBVIOUS
  <2> QED BY <2>1, FieldStartNames DEF Within
<1>2. ASSUME NEW i \in 1..Len(columns) PROVE Printed(columns[i], image[columns[i]]) \in Seq(S)
  <2>1. image[columns[i]] \in Seq(S) /\ Quote \in S
    BY DEF Within
  <2>2. CASE columns[i] \in TextColumns
    BY <2>1, <2>2, PrintedIsSpelled
  <2>3. CASE columns[i] \notin TextColumns
    BY <2>1, <2>3 DEF Printed
  <2> QED BY <2>2, <2>3
<1>3. Space \in S
  BY DEF Within
<1> QED BY <1>1, <1>2, <1>3, TupleIsLaidOut

\* A tuple that fills a text but for a space before it and one behind it.
Framed(text, b, x) ==
  /\ b \in {0, 1} /\ (b = 1 => text[1] = Space)
  /\ Stands(x, text, b)
  /\ \/ Len(text) = b + Len(x)
     \/ Len(text) = b + Len(x) + 1 /\ text[b + Len(x) + 1] = Space

LEMMA SpaceIsNoStart == Space \notin DOMAIN ColumnOf
BY DecodeAssumption DEF DecodeAssumption

\* The place the reader looks for the i-th field from.
From(L, b, i) == IF i = 1 THEN 1 ELSE b + L[i - 1] + 1

\* In a framed tuple the next field the reader finds is the i-th.
LEMMA NextField ==
  ASSUME NEW text \in Seq(STRING), NEW b, NEW x, NEW image, NEW columns \in Seq(ColumnNames), NEW L,
         Fits(image, columns), LaidOut(x, image, columns, L), Framed(text, b, x),
         NEW i \in 1..Len(columns)
  PROVE  LET s == b + StartOf(L, i)
         IN  /\ From(L, b, i) \in Places
             /\ s \in FieldStarts(text, From(L, b, i))
             /\ \A k \in FieldStarts(text, From(L, b, i)) : s <= k
             /\ text[s] = FieldStart(columns[i])
<1> DEFINE n == Len(columns)
<1> DEFINE s == b + StartOf(L, i)
<1> DEFINE a == L[i - 1]
<1> DEFINE m == Len(Printed(columns[i], image[columns[i]]))
<1> DEFINE e == Len(x)
<1> DEFINE N == Len(text)
<1>1. n \in Nat /\ N \in Nat
  BY LenProperties
<1>2. i \in Nat /\ i >= 1 /\ i - 1 \in 0..n
  BY <1>1
<1>3. /\ L \in [0..n -> Nat] /\ L[0] = 0 /\ L[n] = e
      /\ x[StartOf(L, i)] = FieldStart(columns[i]) /\ (i > 1 => x[a + 1] = Space)
      /\ L[i] = StartOf(L, i) + m /\ L[i] <= L[n]
  BY DEF LaidOut
<1>4. a \in Nat /\ e \in Nat
  <2>1. n \in 0..n
    BY <1>1
  <2> QED BY <1>2, <1>3, <2>1
<1>5. m \in Nat /\ (i = 1 => a = 0)
  <2>1. Fit(columns[i], image[columns[i]])
    BY DEF Fits
  <2>3. i = 1 => a = 0
    BY <1>3
  <2> QED BY <1>3, <2>1, <2>3, PrintedLength
<1>6. b \in {0, 1} /\ (b = 1 => text[1] = Space) /\ b + e <= N
      /\ \A k \in 1..e : text[b + k] = x[k]
  BY DEF Framed, Stands
<1>7. StartOf(L, i) = a + (IF i = 1 THEN 1 ELSE 2)
  BY DEF StartOf
<1> DEFINE t == StartOf(L, i)
<1>8. t \in 1..e
  <2> HIDE DEF a, e, m, t
  <2> QED BY <1>2, <1>3, <1>4, <1>5, <1>7 DEF t
<1>9. text[s] = FieldStart(columns[i])
  BY <1>3, <1>6, <1>8
<1>10. text[s] \in DOMAIN ColumnOf
  <2>1. columns[i] \in ColumnNames
    OBVIOUS
  <2> QED BY <1>9, <2>1, FieldStartNames
<1> DEFINE p == From(L, b, i)
<1>11. p = IF i = 1 THEN 1 ELSE b + a + 1
  BY DEF From
<1>12. s = b + t /\ s \in Nat
  BY <1>6, <1>8
<1>13. p \in Places /\ p \in Nat /\ p >= 1 /\ s \in p..N
  <2> HIDE DEF p, a, t, s, e, N, m
  <2> QED BY <1>1, <1>2, <1>4, <1>6, <1>7, <1>8, <1>11, <1>12 DEF Places, t
<1>14. s # p => s = p + 1 /\ text[p] = Space
  <2>1. CASE i = 1
    <3>1. t = 1 /\ p = 1 /\ a = 0
      BY <2>1, <1>5, <1>7, <1>11
    <3> HIDE DEF p, a, t, s, e, N, m
    <3> QED BY <3>1, <1>6, <1>12
  <2>2. CASE i # 1
    <3>1. t = a + 2 /\ p = b + a + 1 /\ x[a + 1] = Space
      BY <2>2, <1>2, <1>3, <1>7, <1>11
    <3>2. a + 1 \in 1..e
      <4> HIDE DEF p, a, t, s, e, N, m
      <4> QED BY <3>1, <1>4, <1>8
    <3>3. text[b + (a + 1)] = Space
      <4> HIDE DEF p, a, t, s, e, N, m
      <4> QED BY <1>6, <3>1, <3>2
    <3> HIDE DEF p, a, t, s, e, N, m
    <3> QED BY <3>1, <3>3, <1>4, <1>6, <1>12
  <2> QED BY <2>1, <2>2
<1>15. s = 1 \/ (s > p /\ text[s - 1] = Space)
  <2>1. CASE s = p
    <3>1. i = 1
      <4> HIDE DEF p, a, t, s, e, N, m
      <4> QED BY <2>1, <1>4, <1>6, <1>7, <1>11, <1>12 DEF t
    <3> QED BY <2>1, <3>1, <1>11
  <2>2. CASE s # p
    <3> HIDE DEF p, a, t, s, e, N, m
    <3>1. s > p /\ s - 1 = p
      BY <2>2, <1>13, <1>14
    <3> QED BY <2>2, <3>1, <1>14
  <2> QED BY <2>1, <2>2
<1>16. s \in FieldStarts(text, p)
  <2> HIDE DEF p, s
  <2> QED BY <1>10, <1>13, <1>15 DEF FieldStarts, N
<1>17. ASSUME NEW k \in FieldStarts(text, p) PROVE s <= k
  <2>1. k \in p..N /\ text[k] \in DOMAIN ColumnOf
    BY DEF FieldStarts
  <2>2. k # p \/ s = p
    BY <2>1, <1>14, SpaceIsNoStart
  <2> HIDE DEF p, a, t, s, e, N, m
  <2> QED BY <2>1, <2>2, <1>13, <1>14
<1> QED BY <1>9, <1>13, <1>16, <1>17

LEMMA NothingRestricted ==
  ASSUME NEW image
  PROVE  Restrict(image, {}) = NoFields
<1>1. Restrict(image, {}) = [c \in {} |-> image[c]]
  BY DEF Restrict
<1>2. NoFields \in Seq({}) /\ Len(NoFields) = 0
  BY DEF NoFields
<1>3. DOMAIN NoFields = {}
  BY <1>2
<1>4. NoFields = [c \in DOMAIN NoFields |-> NoFields[c]]
  BY DEF NoFields
<1> HIDE DEF NoFields
<1> QED BY <1>1, <1>3, <1>4

LEMMA JoinedRestrict ==
  ASSUME NEW image, NEW C, NEW c
  PROVE  Joined(Restrict(image, C), [d \in {c} |-> image[c]]) = Restrict(image, C \cup {c})
BY DEF Joined, Restrict

\* What the reader makes of a framed tuple: the image it was printed of.
LEMMA ImageReadsBack ==
  ASSUME NEW columns \in Seq(ColumnNames), columns # <<>>, NEW image, Fits(image, columns),
         NEW text \in Seq(STRING), ~Contains(text, NoTuple),
         NEW b, Framed(text, b, Tuple(image, columns))
  PROVE  Image(text) = Restrict(image, ToSet(columns))
<1> DEFINE x == Tuple(image, columns)
<1> DEFINE n == Len(columns)
<1> DEFINE N == Len(text)
<1>1. n \in Nat /\ n >= 1 /\ N \in Nat
  BY LenProperties, EmptySeq
<1>2. Within(STRING, image, columns)
  <2>1. ASSUME NEW i \in 1..n PROVE image[columns[i]] \in Seq(STRING)
    BY DEF Fits, Fit, Words
  <2> QED BY <2>1, DecodeAssumption DEF Within, DecodeAssumption
<1>3. PICK L : LaidOut(x, image, columns, L)
  BY <1>2, TupleWithin
<1>4. PICK run : FieldRun(text, run) /\ Image(text) = run[1]
  BY ImageIsARun
<1> DEFINE Rest(i) == Restrict(image, {columns[j] : j \in i..n})
<1> DEFINE T == {i \in 1..(n + 1) : run[From(L, b, i)] = Rest(i)}
<1>a. Framed(text, b, x)
  OBVIOUS
<1> HIDE DEF x
<1>5. /\ L \in [0..n -> Nat] /\ L[n] = Len(x)
      /\ \A i \in 1..n : L[i] = StartOf(L, i) + Len(Printed(columns[i], image[columns[i]]))
  BY <1>3 DEF LaidOut
<1>6. b \in {0, 1} /\ (N = b + Len(x) \/ (N = b + Len(x) + 1 /\ text[b + Len(x) + 1] = Space))
  <2> HIDE DEF N
  <2> QED BY <1>a DEF Framed, N
<1>7. n + 1 \in T
  <2> DEFINE p == b + L[n] + 1
  <2> DEFINE a == L[n]
  <2>1. a \in Nat /\ a = Len(x)
    BY <1>1, <1>5
  <2>2. From(L, b, n + 1) = p
    <3>1. n + 1 # 1 /\ (n + 1) - 1 = n
      BY <1>1
    <3> HIDE DEF n
    <3> QED BY <3>1 DEF From
  <2>3. p \in Places
    <3> HIDE DEF a
    <3> QED BY <1>6, <2>1 DEF Places, a
  <2>4. FieldStarts(text, p) = {}
    <3>1. ASSUME NEW k \in FieldStarts(text, p) PROVE FALSE
      <4>1. k \in p..N /\ text[k] \in DOMAIN ColumnOf
        BY DEF FieldStarts
      <4>2. k = p /\ text[p] = Space
        <5> HIDE DEF a, N
        <5> QED BY <4>1, <1>1, <1>6, <2>1 DEF a
      <4> HIDE DEF p
      <4> QED BY <4>1, <4>2, SpaceIsNoStart
    <3> QED BY <3>1
  <2>5. run[p] = NoFields
    <3> HIDE DEF p
    <3> QED BY <1>4, <2>3, <2>4, NoMoreFields
  <2>6. Rest(n + 1) = NoFields
    <3>1. {columns[j] : j \in (n + 1)..n} = {}
      <4>1. (n + 1)..n = {}
        BY <1>1
      <4> HIDE DEF n
      <4> QED BY <4>1
    <3>2. Rest(n + 1) = Restrict(image, {})
      BY <3>1
    <3> HIDE DEF Rest
    <3> QED BY <3>2, NothingRestricted
  <2>7. n + 1 \in 1..(n + 1)
    BY <1>1
  <2> HIDE DEF p, Rest, n
  <2> QED BY <2>2, <2>5, <2>6, <2>7
<1>8. ASSUME NEW i \in 1..n, i + 1 \in T
      PROVE  i \in T
  <2> DEFINE s == b + StartOf(L, i)
  <2> DEFINE c == columns[i]
  <2> DEFINE y == Printed(c, image[c])
  <2>1. /\ From(L, b, i) \in Places
        /\ s \in FieldStarts(text, From(L, b, i))
        /\ \A k \in FieldStarts(text, From(L, b, i)) : s <= k
        /\ text[s] = FieldStart(c)
    BY <1>3, NextField DEF x
  <2>2. c \in ColumnNames /\ ColumnOf[text[s]] = c /\ Fit(c, image[c])
    <3>1. c \in ColumnNames /\ Fit(c, image[c])
      BY DEF Fits
    <3> QED BY <2>1, <3>1, FieldStartNames
  <2>3. s \in Nat /\ Len(y) \in Nat /\ b \in Nat /\ StartOf(L, i) \in Nat /\ L[i] \in Nat
    <3>1. s \in Nat
      <4> HIDE DEF s
      <4> QED BY <2>1 DEF FieldStarts, Places
    <3>2. L[i - 1] \in Nat /\ L[i] \in Nat
      <4>1. i - 1 \in 0..n /\ i \in 0..n
        BY <1>1
      <4> HIDE DEF n
      <4> QED BY <1>5, <4>1
    <3>3. StartOf(L, i) \in Nat
      BY <3>2 DEF StartOf
    <3> HIDE DEF s, y
    <3> QED BY <1>6, <3>1, <3>2, <3>3, <2>2, PrintedLength DEF y
  <2>4. L[i] = StartOf(L, i) + Len(y) /\ s + Len(y) = b + L[i]
    <3>1. L[i] = StartOf(L, i) + Len(y)
      BY <1>5
    <3> HIDE DEF y
    <3> QED BY <2>3, <3>1
  <2>5. Stands(y, text, s)
    <3>1. /\ L[i] <= Len(x) /\ Len(x) \in Nat
          /\ \A k \in 1..Len(y) : x[StartOf(L, i) + k] = y[k]
      BY <1>1, <1>3, <1>5 DEF LaidOut
    <3>2. b + Len(x) <= N /\ \A k \in 1..Len(x) : text[b + k] = x[k]
      BY <1>a DEF Framed, Stands
    <3> DEFINE m == Len(y)
    <3> DEFINE t == StartOf(L, i)
    <3> DEFINE e == Len(x)
    <3>3. s + m <= N
      <4> HIDE DEF s, y, m, e, t, N
      <4> QED BY <2>3, <2>4, <3>1, <3>2, <1>1, SMTT(30) DEF m, e
    <3>4. ASSUME NEW k \in 1..m PROVE text[s + k] = y[k]
      <4>1. t + k \in 1..e /\ b + (t + k) = s + k
        <5> HIDE DEF y, m, e, N
        <5>1. t \in Nat /\ b \in Nat /\ m \in Nat /\ e \in Nat /\ L[i] <= e /\ L[i] = t + m
          BY <2>3, <2>4, <3>1 DEF m, e
        <5> HIDE DEF t
        <5> QED BY <5>1 DEF t
      <4>2. text[b + (t + k)] = x[t + k] /\ x[t + k] = y[k]
        <5> HIDE DEF t, e
        <5> QED BY <4>1, <3>1, <3>2 DEF e, t
      <4> QED BY <4>1, <4>2
    <3> QED BY <3>3, <3>4 DEF Stands
  <2>6. s + Len(y) < N => text[s + Len(y) + 1] = Space
    <3>1. CASE i = n
      <4> HIDE DEF s, y
      <4> QED BY <1>1, <1>5, <1>6, <2>3, <2>4, <3>1, SMTT(30)
    <3>2. CASE i # n
      <4>1. i + 1 \in 1..n /\ i + 1 > 1 /\ (i + 1) - 1 = i
        BY <1>1, <3>2
      <4>2. x[L[i] + 1] = Space /\ L[i] + 1 \in 1..Len(x)
        <5>1. x[L[i] + 1] = Space /\ StartOf(L, i + 1) = L[i] + 2
          BY <1>3, <4>1 DEF LaidOut, StartOf
        <5>2. L[i + 1] <= Len(x) /\ L[i + 1] = StartOf(L, i + 1) + Len(Printed(columns[i + 1], image[columns[i + 1]]))
          BY <1>3, <4>1 DEF LaidOut
        <5>3. Len(Printed(columns[i + 1], image[columns[i + 1]])) \in Nat
          BY <4>1, PrintedLength DEF Fits
        <5>4. L[i + 1] \in Nat /\ Len(x) \in Nat
          BY <1>1, <1>5, <4>1, SMTT(30)
        <5> DEFINE l == Len(Printed(columns[i + 1], image[columns[i + 1]]))
        <5> DEFINE e == Len(x)
        <5> DEFINE t == L[i]
        <5> HIDE DEF n, l, e, t
        <5>5. t \in Nat /\ e \in Nat /\ l \in Nat /\ t + 2 + l <= e
          BY <2>3, <5>1, <5>2, <5>3, <5>4 DEF l, e, t
        <5>6. t + 1 \in 1..e
          BY <5>5
        <5> QED BY <5>1, <5>6 DEF e, t
      <4>3. text[b + (L[i] + 1)] = Space
        BY <1>a, <4>2 DEF Framed, Stands
      <4>4. b + (L[i] + 1) = s + Len(y) + 1
        <5> DEFINE m == Len(y)
        <5> DEFINE t == L[i]
        <5>1. s \in Nat /\ m \in Nat /\ b \in Nat /\ t \in Nat /\ s + m = b + t
          BY <2>3, <2>4
        <5> HIDE DEF s, m, t
        <5>2. b + (t + 1) = s + m + 1
          BY <5>1
        <5> QED BY <5>2 DEF m, t
      <4> QED BY <4>3, <4>4
    <3> QED BY <3>1, <3>2
  <2>7. ReadValue(text, s + 1) = [value |-> image[c], next |-> s + Len(y) + 1]
    <3> HIDE DEF s, c
    <3> QED BY <2>2, <2>3, <2>5, <2>6, ColumnWhole DEF y
  <2>8. s + Len(y) + 1 = From(L, b, i + 1)
    <3>1. i + 1 # 1 /\ (i + 1) - 1 = i
      OBVIOUS
    <3>2. From(L, b, i + 1) = b + L[i] + 1
      BY <3>1 DEF From
    <3> HIDE DEF s, y
    <3> QED BY <2>3, <2>4, <3>2
  <2>9. run[ReadValue(text, s + 1).next] = Rest(i + 1)
    <3> HIDE DEF Rest, s, y
    <3> QED BY <1>8, <2>7, <2>8
  <2>10. image[c] \in Seq(STRING)
    BY <2>2 DEF Fit, Words
  <2>11. ReadValue(text, s + 1) # Raised
    <3> HIDE DEF s, c
    <3> QED BY <2>3, <2>7, <2>10, RaisedIsNoRead DEF y
  <2>12. Rest(i + 1) # Raised
    <3> DEFINE C == {columns[j] : j \in (i + 1)..n}
    <3>1. \A d \in C : d \in ColumnNames /\ image[d] \in Seq(STRING)
      <4>1. ASSUME NEW j \in (i + 1)..n PROVE columns[j] \in ColumnNames /\ image[columns[j]] \in Seq(STRING)
        <5>1. j \in 1..n
          BY <1>1
        <5> QED BY <5>1 DEF Fits, Fit, Words
      <4> QED BY <4>1
    <3> HIDE DEF C
    <3>2. Restrict(image, C) \in Images(C)
      BY <3>1 DEF Restrict, Images
    <3>3. C \in SUBSET {ColumnOf[t] : t \in DOMAIN ColumnOf}
      BY <3>1 DEF ColumnNames
    <3>4. Restrict(image, C) # Raised
      BY <3>2, <3>3, DecodeAssumption DEF DecodeAssumption
    <3> QED BY <3>4 DEF C
  <2>13. run[From(L, b, i)] = Joined(Rest(i + 1), [d \in {c} |-> image[c]])
    <3>1. run[From(L, b, i)] = Joined(run[ReadValue(text, s + 1).next],
                           [d \in {ColumnOf[text[s]]} |-> ReadValue(text, s + 1).value])
      <4> HIDE DEF Rest, s, c, y
      <4> QED BY <1>4, <2>1, <2>9, <2>11, <2>12, FieldTaken, ZenonT(60)
    <3>2. ReadValue(text, s + 1).value = image[c]
      <4> HIDE DEF s, y, c
      <4> QED BY <2>7
    <3> HIDE DEF Rest, s, c
    <3> QED BY <2>2, <2>9, <3>1, <3>2
  <2>14. Joined(Rest(i + 1), [d \in {c} |-> image[c]]) = Rest(i)
    <3> DEFINE C == {columns[j] : j \in (i + 1)..n}
    <3>1. {columns[j] : j \in i..n} = C \cup {c}
      BY <1>1
    <3> HIDE DEF C, c
    <3>2. Joined(Restrict(image, C), [d \in {c} |-> image[c]]) = Restrict(image, C \cup {c})
      BY JoinedRestrict
    <3> QED BY <3>1, <3>2 DEF C
  <2> HIDE DEF Rest
  <2> QED BY <1>1, <2>13, <2>14
<1>9. 1 \in T
  <2>1. \A i \in 1..((n + 1) - 1) : i + 1 \in T => i \in T
    <3> HIDE DEF T
    <3> QED BY <1>1, <1>8
  <2> HIDE DEF T
  <2>2. \A i \in 1..(n + 1) : i \in T
    <3>1. n + 1 \in Nat /\ 1 <= n + 1
      BY <1>1
    <3> HIDE DEF n
    <3> QED BY <1>7, <2>1, <3>1, DownwardInduction
  <2>3. 1 \in 1..(n + 1)
    BY <1>1
  <2> QED BY <2>2, <2>3
<1>10. run[1] = Rest(1)
  BY <1>9 DEF From
<1>11. {columns[j] : j \in 1..n} = ToSet(columns)
  BY DEF ToSet
<1> QED BY <1>4, <1>10, <1>11

-----------------------------------------------------------------------------
(* A line reads back.                                                       *)

\* Text with no marker in it.
Unmarked == Seq(STRING \ Marks)

LEMMA UnmarkedText ==
  ASSUME NEW x \in Unmarked
  PROVE  /\ x \in Seq(STRING) /\ ToSet(x) \cap Marks = {}
         /\ \A i \in 1..Len(x) : x[i] \notin Marks
<1>1. \A i \in 1..Len(x) : x[i] \in STRING \ Marks
  BY DEF Unmarked
<1>2. x \in Seq(STRING) /\ DOMAIN x = 1..Len(x)
  BY DEF Unmarked
<1> QED BY <1>1, <1>2 DEF ToSet

LEMMA NoNullThere ==
  ASSUME NEW text \in Seq(STRING), \A i \in 1..Len(text) : text[i] # NoTuple
  PROVE  ~Contains(text, NoTuple)
BY DEF Contains

\* An image and the columns it has, with no marker in its values.
Clean(image, columns) ==
  /\ columns \in Seq(ColumnNames) /\ columns # <<>> /\ Fits(image, columns)
  /\ \A i \in 1..Len(columns) : image[columns[i]] \in Unmarked

LEMMA CleanTuple ==
  ASSUME NEW image, NEW columns, Clean(image, columns)
  PROVE  /\ Tuple(image, columns) \in Unmarked
         /\ Tuple(image, columns) # <<>>
<1>1. DOMAIN ColumnOf \subseteq STRING \ Marks /\ Space \in STRING \ Marks /\ Quote \in STRING \ Marks
  <2>1. Space \notin Marks /\ Quote \notin Marks
    BY DEF Space, Quote, Marks, OldMarks, NoTuple
  <2> QED BY <2>1, DecodeAssumption DEF DecodeAssumption
<1>2. Within(STRING \ Marks, image, columns) /\ columns \in Seq(ColumnNames)
  BY <1>1 DEF Within, Clean, Unmarked
<1> DEFINE x == Tuple(image, columns)
<1>3. x \in Unmarked
  BY <1>2, TupleWithin DEF Unmarked
<1>4. PICK L : LaidOut(x, image, columns, L)
  BY <1>2, TupleWithin
<1> HIDE DEF x
<1>5. Len(columns) \in Nat /\ Len(columns) >= 1
  BY LenProperties, EmptySeq DEF Clean
<1>6. L[1] = StartOf(L, 1) + Len(Printed(columns[1], image[columns[1]])) /\ L[1] <= L[Len(columns)]
  BY <1>4, <1>5 DEF LaidOut
<1>7. Len(Printed(columns[1], image[columns[1]])) \in Nat
  BY <1>5, PrintedLength DEF Clean, Fits
<1>8. L[Len(columns)] = Len(x) /\ L[0] = 0 /\ Len(x) \in Nat
  BY <1>3, <1>4, LenProperties DEF LaidOut, Unmarked
<1>9. StartOf(L, 1) = 1
  BY <1>8 DEF StartOf
<1>10. Len(x) >= 1
  BY <1>6, <1>7, <1>8, <1>9
<1> QED BY <1>3, <1>10 DEF x

\* A tuple alone is framed by nothing.
LEMMA AloneIsFramed ==
  ASSUME NEW x \in Seq(STRING)
  PROVE  Framed(x, 0, x)
<1>1. Len(x) \in Nat /\ Len(x) = 0 + Len(x) /\ \A k \in 1..Len(x) : x[0 + k] = x[k]
  BY LenProperties
<1> QED BY <1>1 DEF Framed, Stands

\* Image of a tuple alone, or with spaces about it.
LEMMA CleanReadsBack ==
  ASSUME NEW image, NEW columns, Clean(image, columns), NEW text \in Unmarked, NEW b,
         Framed(text, b, Tuple(image, columns))
  PROVE  Image(text) = Restrict(image, ToSet(columns))
<1>1. text \in Seq(STRING) /\ ~Contains(text, NoTuple)
  BY UnmarkedText, NoNullThere DEF Marks
<1> QED BY <1>1, ImageReadsBack DEF Clean

\* Restricted images of a table's columns are images.
LEMMA CleanImage ==
  ASSUME NEW image, NEW columns, Clean(image, columns)
  PROVE  Restrict(image, ToSet(columns)) \notin {None, Raised}
<1> DEFINE C == ToSet(columns)
<1>1. \A d \in C : d \in ColumnNames /\ image[d] \in Seq(STRING)
  <2>1. ASSUME NEW i \in 1..Len(columns) PROVE columns[i] \in ColumnNames /\ image[columns[i]] \in Seq(STRING)
    BY DEF Clean, Fits, Fit, Words
  <2>2. DOMAIN columns = 1..Len(columns)
    BY DEF Clean
  <2> QED BY <2>1, <2>2 DEF ToSet
<1> HIDE DEF C
<1>2. Restrict(image, C) \in Images(C)
  BY <1>1 DEF Restrict, Images
<1>3. C \in SUBSET {ColumnOf[t] : t \in DOMAIN ColumnOf}
  BY <1>1 DEF ColumnNames
<1>4. Restrict(image, C) \notin {None, Raised}
  BY <1>2, <1>3, DecodeAssumption DEF DecodeAssumption
<1> QED BY <1>4 DEF C

\* An insert, or an update with no old row, has the new image and nothing before.
LEMMA NewReadsBack ==
  ASSUME NEW image, NEW columns, Clean(image, columns), NEW action, action # "DELETE"
  PROVE  parse_row([action |-> action, rest |-> Tuple(image, columns)]) =
           [action |-> action, before |-> None, after |-> Restrict(image, ToSet(columns))]
<1> DEFINE x == Tuple(image, columns)
<1> DEFINE line == [action |-> action, rest |-> x]
<1> DEFINE whole == Restrict(image, ToSet(columns))
<1>1. x \in Unmarked /\ x # <<>>
  BY CleanTuple
<1>2. Image(x) = whole
  BY <1>1, CleanReadsBack, AloneIsFramed, UnmarkedText
<1>3. whole \notin {None, Raised} /\ None # Raised
  BY CleanImage, DecodeAssumption DEF DecodeAssumption
<1> HIDE DEF x, whole
<1>4. ToSet(line.rest) \cap OldMarks = {} /\ line.rest = x /\ line.action = action
  BY <1>1, UnmarkedText DEF Marks
<1> HIDE DEF line
<1>5. Split(line) = [before |-> None, after |-> x]
  BY <1>4, Zenon DEF Split
<1>6. Image(None) = None
  BY Zenon DEF Image
<1>7. Split(line).before = None /\ Split(line).after = x
  BY <1>5
<1>8. parse_row(line) = [action |-> action, before |-> None, after |-> whole]
  BY <1>1, <1>2, <1>3, <1>4, <1>6, <1>7 DEF parse_row
<1> QED BY <1>8 DEF line, x, whole

\* A delete has the old image, all of it or its key.
LEMMA OldReadsBack ==
  ASSUME NEW image, NEW columns, Clean(image, columns)
  PROVE  parse_row([action |-> "DELETE", rest |-> Tuple(image, columns)]) =
           [action |-> "DELETE", before |-> Restrict(image, ToSet(columns)), after |-> None]
<1> DEFINE x == Tuple(image, columns)
<1> DEFINE line == [action |-> "DELETE", rest |-> x]
<1> DEFINE whole == Restrict(image, ToSet(columns))
<1>1. x \in Unmarked /\ x # <<>>
  BY CleanTuple
<1>2. Image(x) = whole
  BY <1>1, CleanReadsBack, AloneIsFramed, UnmarkedText
<1>3. whole \notin {None, Raised} /\ None # Raised
  BY CleanImage, DecodeAssumption DEF DecodeAssumption
<1> HIDE DEF x, whole
<1>4. ToSet(line.rest) \cap OldMarks = {} /\ line.rest = x /\ line.action = "DELETE"
  BY <1>1, UnmarkedText DEF Marks
<1> HIDE DEF line
<1>5. Split(line) = [before |-> x, after |-> None]
  BY <1>4, Zenon DEF Split
<1>6. Image(None) = None
  BY Zenon DEF Image
<1>7. Split(line).before = x /\ Split(line).after = None
  BY <1>5
<1>8. parse_row(line) = [action |-> "DELETE", before |-> whole, after |-> None]
  BY <1>1, <1>2, <1>3, <1>4, <1>6, <1>7 DEF parse_row
<1> QED BY <1>8 DEF line, x, whole

\* The tokens of an update's line that holds the old row x and the new one y.
BothHalves(rest, x, y) ==
  LET m == Len(x)
      k == Len(y)
  IN  /\ rest \in Seq(STRING) /\ Len(rest) = m + k + 5
      /\ rest[1] = "old-key:" /\ rest[2] = Space
      /\ \A j \in 1..m : rest[j + 2] = x[j]
      /\ rest[m + 3] = Space /\ rest[m + 4] = "new-tuple:" /\ rest[m + 5] = Space
      /\ \A j \in 1..k : rest[m + 5 + j] = y[j]

LEMMA HalvesInPlace ==
  ASSUME NEW x \in Seq(STRING), NEW y \in Seq(STRING)
  PROVE  BothHalves(<<"old-key:", Space>> \o x \o <<Space, "new-tuple:", Space>> \o y, x, y)
<1> DEFINE p == <<"old-key:", Space>>
<1> DEFINE q == <<Space, "new-tuple:", Space>>
<1> DEFINE a == p \o x
<1> DEFINE c == a \o q
<1> DEFINE rest == c \o y
<1> DEFINE m == Len(x)
<1> DEFINE k == Len(y)
<1>1. m \in Nat /\ k \in Nat
  BY LenProperties
<1>2. /\ p \in Seq(STRING) /\ Len(p) = 2 /\ p[1] = "old-key:" /\ p[2] = Space
      /\ q \in Seq(STRING) /\ Len(q) = 3 /\ q[1] = Space /\ q[2] = "new-tuple:" /\ q[3] = Space
  BY DecodeAssumption DEF DecodeAssumption, Marks, OldMarks
<1> HIDE DEF p, q
<1>3. /\ a \in Seq(STRING) /\ Len(a) = Len(p) + Len(x)
      /\ \A i \in 1..Len(p) + Len(x) : a[i] = IF i <= Len(p) THEN p[i] ELSE x[i - Len(p)]
  BY <1>2, ConcatProperties, Zenon
<1> HIDE DEF a
<1>4. /\ c \in Seq(STRING) /\ Len(c) = Len(a) + Len(q)
      /\ \A i \in 1..Len(a) + Len(q) : c[i] = IF i <= Len(a) THEN a[i] ELSE q[i - Len(a)]
  <2>1. a \in Seq(STRING) /\ q \in Seq(STRING)
    BY <1>2, <1>3
  <2> QED BY <2>1, ConcatProperties, Zenon
<1> HIDE DEF c
<1>5. /\ rest \in Seq(STRING) /\ Len(rest) = Len(c) + Len(y)
      /\ \A i \in 1..Len(c) + Len(y) : rest[i] = IF i <= Len(c) THEN c[i] ELSE y[i - Len(c)]
  <2>1. c \in Seq(STRING)
    BY <1>4
  <2> QED BY <2>1, ConcatProperties, Zenon
<1> HIDE DEF rest
<1>6. Len(a) = m + 2 /\ Len(c) = m + 5 /\ Len(rest) = m + 5 + k
  <2> HIDE DEF m, k
  <2>1. Len(a) = 2 + m /\ Len(c) = Len(a) + 3 /\ Len(rest) = Len(c) + k
    BY <1>2, <1>3, <1>4, <1>5 DEF m, k
  <2> QED BY <1>1, <2>1
<1>7. \A i \in 1..(m + 2) : a[i] = IF i <= 2 THEN p[i] ELSE x[i - 2]
  <2> HIDE DEF m
  <2> QED BY <1>1, <1>2, <1>3 DEF m
<1>8. \A i \in 1..(m + 5) : c[i] = IF i <= m + 2 THEN a[i] ELSE q[i - (m + 2)]
  <2> HIDE DEF m
  <2> QED BY <1>1, <1>2, <1>4, <1>6
<1>9. \A i \in 1..(m + 5 + k) : rest[i] = IF i <= m + 5 THEN c[i] ELSE y[i - (m + 5)]
  <2> HIDE DEF m, k
  <2> QED BY <1>1, <1>5, <1>6 DEF k
<1> HIDE DEF m, k
<1>10. \A i \in 1..(m + 5) : i \in 1..(m + 5 + k) /\ rest[i] = c[i]
  BY <1>1, <1>9
<1>11. \A i \in 1..(m + 2) : i \in 1..(m + 5) /\ rest[i] = a[i]
  BY <1>1, <1>8, <1>10
<1>12. rest[1] = "old-key:" /\ rest[2] = Space
  BY <1>1, <1>2, <1>7, <1>11
<1>13. ASSUME NEW j \in 1..m PROVE rest[j + 2] = x[j]
  <2>1. j + 2 \in 1..(m + 2) /\ ~(j + 2 <= 2) /\ (j + 2) - 2 = j
    BY <1>1
  <2> QED BY <2>1, <1>7, <1>11
<1>14. ASSUME NEW j \in 1..3 PROVE rest[m + 2 + j] = q[j]
  <2>1. m + 2 + j \in 1..(m + 5) /\ ~(m + 2 + j <= m + 2) /\ (m + 2 + j) - (m + 2) = j
    BY <1>1
  <2> QED BY <2>1, <1>8, <1>10
<1>15. rest[m + 3] = Space /\ rest[m + 4] = "new-tuple:" /\ rest[m + 5] = Space
  <2>1. m + 2 + 1 = m + 3 /\ m + 2 + 2 = m + 4 /\ m + 2 + 3 = m + 5
    BY <1>1
  <2> QED BY <2>1, <1>2, <1>14
<1>16. ASSUME NEW j \in 1..k PROVE rest[m + 5 + j] = y[j]
  <2>1. m + 5 + j \in 1..(m + 5 + k) /\ ~(m + 5 + j <= m + 5) /\ (m + 5 + j) - (m + 5) = j
    BY <1>1
  <2> QED BY <2>1, <1>9
<1>17. m + 5 + k = m + k + 5
  BY <1>1
<1>18. BothHalves(rest, x, y)
  BY <1>5, <1>6, <1>12, <1>13, <1>15, <1>16, <1>17 DEF BothHalves, m, k
<1> QED BY <1>18 DEF rest, c, a, p, q

\* The halves of such a line, when no text holds a marker.
LEMMA SplitBoth ==
  ASSUME NEW x \in Unmarked, NEW y \in Unmarked, NEW line, BothHalves(line.rest, x, y)
  PROVE  /\ Split(line).before = SubSeq(line.rest, 2, Len(x) + 3)
         /\ Split(line).after = SubSeq(line.rest, Len(x) + 5, Len(line.rest))
<1> DEFINE rest == line.rest
<1> DEFINE m == Len(x)
<1> DEFINE k == Len(y)
<1> DEFINE head == SubSeq(rest, 1, m + 3)
<1>1. m \in Nat /\ k \in Nat
  BY LenProperties DEF Unmarked
<1>2. /\ rest \in Seq(STRING) /\ Len(rest) = m + k + 5
      /\ rest[1] = "old-key:" /\ rest[2] = Space
      /\ \A j \in 1..m : rest[j + 2] = x[j]
      /\ rest[m + 3] = Space /\ rest[m + 4] = "new-tuple:"
  BY DEF BothHalves
<1> HIDE DEF m, k
<1>3. ASSUME NEW i \in 1..Len(rest), rest[i] = "new-tuple:" PROVE m + 4 <= i
  <2>1. CASE i = 1
    BY <1>2, <1>3, <2>1
  <2>2. CASE i = 2
    BY <1>2, <1>3, <2>2 DEF Space
  <2>3. CASE i > 2 /\ i < m + 3
    <3>1. i - 2 \in 1..m /\ (i - 2) + 2 = i
      BY <1>1, <2>3
    <3>2. rest[i] = x[i - 2] /\ x[i - 2] \notin Marks
      BY <1>2, <3>1, UnmarkedText DEF m
    <3> QED BY <1>3, <3>2 DEF Marks
  <2>4. CASE i = m + 3
    BY <1>2, <1>3, <2>4 DEF Space
  <2> QED BY <1>1, <2>1, <2>2, <2>3, <2>4
<1>4. m + 4 \in 1..Len(rest)
  BY <1>1, <1>2
<1> DEFINE new == SelectInSeq(rest, LAMBDA t : t = "new-tuple:")
<1>5. new = m + 4
  <2> DEFINE I == {i \in 1..Len(rest) : rest[i] = "new-tuple:"}
  <2>1. new = IF I # {} THEN Min(I) ELSE 0
    BY Zenon DEF SelectInSeq
  <2>2. m + 4 \in I /\ I \in SUBSET Nat /\ \A i \in I : m + 4 <= i
    BY <1>2, <1>3, <1>4
  <2> HIDE DEF I, new
  <2> QED BY <2>1, <2>2, MinIs
<1> HIDE DEF new
<1>6. new # 0 /\ new - 1 = m + 3 /\ new + 1 = m + 5
  BY <1>1, <1>5
<1>7. head \in Seq(STRING) /\ Len(head) = m + 3 /\ head[1] = "old-key:"
  <2>1. m + 3 <= Len(rest)
    BY <1>1, <1>2
  <2> HIDE DEF rest
  <2> QED BY <1>1, <1>2, <2>1, SubSeqProperties
<1> DEFINE colon == SelectInSeq(head, LAMBDA t : t \in Colons)
<1>8. colon = 1
  <2> DEFINE I == {i \in 1..Len(head) : head[i] \in Colons}
  <2>1. colon = IF I # {} THEN Min(I) ELSE 0
    BY Zenon DEF SelectInSeq
  <2>2. 1 \in I /\ I \in SUBSET Nat /\ \A i \in I : 1 <= i
    <3> HIDE DEF head
    <3> QED BY <1>1, <1>7 DEF Colons, OldMarks
  <2> HIDE DEF I, colon
  <2> QED BY <2>1, <2>2, MinIs
<1>9. ToSet(rest) \cap OldMarks # {}
  <2>1. rest[1] \in ToSet(rest) /\ rest[1] \in OldMarks
    BY <1>1, <1>2 DEF ToSet, OldMarks
  <2> HIDE DEF rest
  <2> QED BY <2>1
<1> DEFINE tail == SubSeq(rest, m + 5, Len(rest))
<1>10. Split(line) =
         LET colonOf == SelectInSeq(IF new = 0 THEN rest ELSE SubSeq(rest, 1, new - 1),
                                    LAMBDA t : t \in Colons)
             headOf == IF new = 0 THEN rest ELSE SubSeq(rest, 1, new - 1)
         IN  [before |-> SubSeq(headOf, colonOf + 1, Len(headOf)),
              after |-> IF new = 0 THEN <<>> ELSE SubSeq(rest, new + 1, Len(rest))]
  BY <1>9, Zenon DEF Split, new
<1>11. Split(line) = [before |-> SubSeq(head, colon + 1, Len(head)), after |-> tail]
  BY <1>6, <1>10, Zenon
<1>12. SubSeq(head, colon + 1, Len(head)) = SubSeq(rest, 2, m + 3)
  <2>1. colon + 1 = 2 /\ Len(head) = m + 3
    BY <1>7, <1>8
  <2>2. SubSeq(head, 2, m + 3) = SubSeq(rest, 2, m + 3)
    <3> HIDE DEF rest
    <3> QED BY <1>1, <1>2, SubSeqOfSubSeq
  <2> QED BY <2>1, <2>2
<1> DEFINE inner == SubSeq(head, colon + 1, Len(head))
<1>13. Split(line) = [before |-> inner, after |-> tail]
  BY <1>11
<1> HIDE DEF head, tail, colon, inner
<1>14. Split(line).before = inner /\ Split(line).after = tail
  BY <1>13
<1> QED BY <1>12, <1>14 DEF tail, m, inner

LEMMA PartOf ==
  ASSUME NEW s \in Seq(STRING), NEW from \in Nat, NEW to \in Nat, NEW l \in Nat,
         1 <= from, to <= Len(s), to = from + l - 1
  PROVE  /\ SubSeq(s, from, to) \in Seq(STRING) /\ Len(SubSeq(s, from, to)) = l
         /\ \A j \in 1..l : SubSeq(s, from, to)[j] = s[from + j - 1]
<1>1. Len(s) \in Nat
  BY LenProperties
<1>2. \A i \in from..to : s[i] \in STRING
  BY <1>1
<1> DEFINE part == SubSeq(s, from, to)
<1>3. /\ part \in Seq(STRING) /\ Len(part) = IF from <= to THEN to - from + 1 ELSE 0
      /\ \A i \in 1..to - from + 1 : part[i] = s[from + i - 1]
  BY <1>2, SubSeqProperties
<1> HIDE DEF part
<1>4. to - from + 1 = l /\ (from <= to \/ l = 0)
  BY <1>1
<1> QED BY <1>3, <1>4 DEF part

LEMMA OverSet ==
  ASSUME NEW S, NEW T, NEW s \in Seq(T), \A i \in 1..Len(s) : s[i] \in S
  PROVE  s \in Seq(S)
OBVIOUS

\* Behind the action of an update that has both rows, the old one is read of the first
\* half and the new one of the second.
LEMMA BothReadBack ==
  ASSUME NEW old, NEW new, NEW columns, Clean(old, columns), Clean(new, columns)
  PROVE  parse_row([action |-> "UPDATE",
                    rest |-> <<"old-key:", Space>> \o Tuple(old, columns)
                             \o <<Space, "new-tuple:", Space>> \o Tuple(new, columns)]) =
           [action |-> "UPDATE", before |-> Restrict(old, ToSet(columns)),
            after |-> Restrict(new, ToSet(columns))]
<1> DEFINE x == Tuple(old, columns)
<1> DEFINE y == Tuple(new, columns)
<1> DEFINE rest == <<"old-key:", Space>> \o x \o <<Space, "new-tuple:", Space>> \o y
<1> DEFINE line == [action |-> "UPDATE", rest |-> rest]
<1> DEFINE m == Len(x)
<1> DEFINE k == Len(y)
<1>1. x \in Unmarked /\ y \in Unmarked
  BY CleanTuple
<1> HIDE DEF x, y
<1>2. BothHalves(rest, x, y)
  BY <1>1, HalvesInPlace, UnmarkedText
<1> HIDE DEF rest
<1>3. line.rest = rest /\ line.action = "UPDATE"
  OBVIOUS
<1> HIDE DEF line
<1> DEFINE b == SubSeq(rest, 2, m + 3)
<1> DEFINE a == SubSeq(rest, m + 5, Len(rest))
<1>4. Split(line).before = b /\ Split(line).after = a
  BY <1>1, <1>2, <1>3, SplitBoth
<1>5. m \in Nat /\ k \in Nat
  BY <1>1, LenProperties DEF Unmarked
<1>6. /\ rest \in Seq(STRING) /\ Len(rest) = m + k + 5
      /\ rest[1] = "old-key:" /\ rest[2] = Space
      /\ \A j \in 1..m : rest[j + 2] = x[j]
      /\ rest[m + 3] = Space /\ rest[m + 5] = Space
      /\ \A j \in 1..k : rest[m + 5 + j] = y[j]
  BY <1>2 DEF BothHalves
<1> HIDE DEF m, k
<1>7. /\ b \in Seq(STRING) /\ Len(b) = m + 2
      /\ \A j \in 1..(m + 2) : b[j] = rest[2 + j - 1]
  BY <1>5, <1>6, PartOf
<1>8. /\ a \in Seq(STRING) /\ Len(a) = k + 1
      /\ \A j \in 1..(k + 1) : a[j] = rest[(m + 5) + j - 1]
  BY <1>5, <1>6, PartOf
<1> HIDE DEF a, b
<1>9. b[1] = Space /\ b[m + 2] = Space /\ \A j \in 1..m : b[1 + j] = x[j]
  <2>1. b[1] = Space
    BY <1>5, <1>6, <1>7
  <2>2. b[m + 2] = Space
    <3>1. m + 2 \in 1..(m + 2) /\ 2 + (m + 2) - 1 = m + 3
      BY <1>5
    <3> QED BY <3>1, <1>6, <1>7
  <2>3. ASSUME NEW j \in 1..m PROVE b[1 + j] = x[j]
    <3>1. 1 + j \in 1..(m + 2) /\ 2 + (1 + j) - 1 = j + 2
      BY <1>5
    <3> QED BY <3>1, <1>6, <1>7
  <2> QED BY <2>1, <2>2, <2>3
<1>10. a[1] = Space /\ \A j \in 1..k : a[1 + j] = y[j]
  <2>1. a[1] = Space
    <3>1. 1 \in 1..(k + 1) /\ (m + 5) + 1 - 1 = m + 5
      BY <1>5
    <3> QED BY <3>1, <1>6, <1>8
  <2>2. ASSUME NEW j \in 1..k PROVE a[1 + j] = y[j]
    <3>1. 1 + j \in 1..(k + 1) /\ (m + 5) + (1 + j) - 1 = m + 5 + j
      BY <1>5
    <3> QED BY <3>1, <1>6, <1>8
  <2> QED BY <2>1, <2>2
<1>11. Framed(b, 1, x) /\ Framed(a, 1, y)
  <2>1. Framed(b, 1, x)
    <3>1. 1 + Len(x) <= Len(b) /\ Len(b) = 1 + Len(x) + 1 /\ 1 + Len(x) + 1 = m + 2
      BY <1>5, <1>7 DEF m
    <3> QED BY <3>1, <1>9 DEF Framed, Stands, m
  <2>2. Framed(a, 1, y)
    <3>1. 1 + Len(y) <= Len(a) /\ Len(a) = 1 + Len(y)
      BY <1>5, <1>8 DEF k
    <3> QED BY <3>1, <1>10 DEF Framed, Stands, k
  <2> QED BY <2>1, <2>2
<1>12. a \in Unmarked /\ b \in Unmarked
  <2>1. Space \in STRING \ Marks
    BY DecodeAssumption DEF DecodeAssumption, Space, Marks, OldMarks, NoTuple
  <2>2. ASSUME NEW j \in 1..(m + 2) PROVE b[j] \in STRING \ Marks
    <3>1. j = 1 \/ j = m + 2 \/ (j - 1 \in 1..m /\ 1 + (j - 1) = j)
      BY <1>5
    <3>2. \A i \in 1..m : x[i] \in STRING \ Marks
      BY <1>1 DEF Unmarked, m
    <3> QED BY <3>1, <3>2, <1>9, <2>1
  <2>3. ASSUME NEW j \in 1..(k + 1) PROVE a[j] \in STRING \ Marks
    <3>1. j = 1 \/ (j - 1 \in 1..k /\ 1 + (j - 1) = j)
      BY <1>5
    <3>2. \A i \in 1..k : y[i] \in STRING \ Marks
      BY <1>1 DEF Unmarked, k
    <3> QED BY <3>1, <3>2, <1>10, <2>1
  <2>4. b \in Unmarked
    <3>1. \A j \in 1..Len(b) : b[j] \in STRING \ Marks
      BY <1>7, <2>2
    <3> QED BY <1>7, <3>1, OverSet DEF Unmarked
  <2>5. a \in Unmarked
    <3>1. \A j \in 1..Len(a) : a[j] \in STRING \ Marks
      BY <1>8, <2>3
    <3> QED BY <1>8, <3>1, OverSet DEF Unmarked
  <2> QED BY <2>4, <2>5
<1>13. Image(b) = Restrict(old, ToSet(columns)) /\ Image(a) = Restrict(new, ToSet(columns))
  BY <1>11, <1>12, CleanReadsBack DEF x, y
<1>14. /\ Restrict(old, ToSet(columns)) # Raised /\ Restrict(new, ToSet(columns)) # Raised
  BY CleanImage
<1>15. rest # <<>>
  BY <1>5, <1>6
<1>16. parse_row(line) = [action |-> "UPDATE", before |-> Restrict(old, ToSet(columns)),
                          after |-> Restrict(new, ToSet(columns))]
  BY <1>3, <1>4, <1>13, <1>14, <1>15 DEF parse_row
<1> QED BY <1>16 DEF line, rest, x, y

-----------------------------------------------------------------------------
(* The slot and what is decoded follow the log.                             *)

LEMMA MaxOf ==
  ASSUME NEW T \in SUBSET Nat, T # {}, NEW b \in Nat, \A k \in T : k <= b
  PROVE  Max(T) \in T /\ \A k \in T : k <= Max(T)
<1> DEFINE Greatest(x) == x \in T /\ \A y \in T : x >= y
<1>1. PICK m \in T : \A k \in T : k <= m
  BY GreatestOf
<1>2. Greatest(m)
  BY <1>1
<1>3. Max(T) = CHOOSE x \in T : \A y \in T : x >= y
  BY DEF Max
<1>4. Greatest(Max(T))
  BY <1>2, <1>3
<1> QED BY <1>4

\* A sequence, of whatever it holds.
IsList(s) == s \in Seq(ToSet(s))

LEMMA ListAppend ==
  ASSUME NEW s, IsList(s), NEW e
  PROVE  /\ IsList(Append(s, e)) /\ Len(s) \in Nat /\ Len(Append(s, e)) = Len(s) + 1
         /\ Append(s, e)[Len(s) + 1] = e
         /\ \A i \in 1..Len(s) : Append(s, e)[i] = s[i]
<1> DEFINE S == ToSet(s) \cup {e}
<1> DEFINE t == Append(s, e)
<1>1. s \in Seq(ToSet(s)) /\ e \in S
  BY DEF IsList
<1>2. s \in Seq(S)
  <2> DEFINE R == ToSet(s)
  <2>1. s \in Seq(R) /\ R \subseteq S
    BY <1>1
  <2> HIDE DEF R, S
  <2> QED BY <2>1
<1> HIDE DEF S
<1>3. /\ t \in Seq(S) /\ Len(s) \in Nat /\ Len(t) = Len(s) + 1 /\ t[Len(s) + 1] = e
      /\ \A i \in 1..Len(s) : t[i] = s[i]
  BY <1>1, <1>2, AppendProperties, LenProperties
<1> HIDE DEF t
<1>4. t \in Seq(ToSet(t))
  BY <1>3 DEF ToSet
<1> QED BY <1>3, <1>4 DEF IsList, t

LEMMA EmptyList == IsList(<<>>) /\ Len(<<>>) = 0
BY DEF IsList

\* The value of a row after the first n changes of l.
ValueAt(l, n, r) ==
  LET mine == {i \in 1..n : l[i].row = r}
  IN  IF mine = {} THEN Absent ELSE l[Max(mine)].val

LEMMA AsOfValues ==
  ASSUME NEW n
  PROVE  AsOf(n) = [r \in Rows |-> ValueAt(log, n, r)]
BY DEF AsOf, ValueAt

LEMMA ValueAtStart ==
  ASSUME NEW l, NEW r
  PROVE  ValueAt(l, 0, r) = Absent
BY DEF ValueAt

LEMMA ValueAtKeeps ==
  ASSUME NEW l, NEW m, NEW n \in Nat, \A i \in 1..n : l[i] = m[i], NEW r
  PROVE  ValueAt(l, n, r) = ValueAt(m, n, r)
<1> DEFINE mine == {i \in 1..n : l[i].row = r}
<1>1. mine = {i \in 1..n : m[i].row = r}
  OBVIOUS
<1>2. CASE mine = {}
  BY <1>1, <1>2 DEF ValueAt
<1>3. CASE mine # {}
  <2>1. mine \in SUBSET Nat /\ \A k \in mine : k <= n
    OBVIOUS
  <2>2. Max(mine) \in mine
    <3> HIDE DEF mine
    <3> QED BY <1>3, <2>1, MaxOf
  <2>3. l[Max(mine)] = m[Max(mine)]
    BY <2>2
  <2>4. ValueAt(l, n, r) = l[Max(mine)].val /\ ValueAt(m, n, r) = m[Max(mine)].val
    BY <1>1, <1>3, Zenon DEF ValueAt
  <2> QED BY <2>3, <2>4
<1> QED BY <1>2, <1>3

LEMMA ValueAtNext ==
  ASSUME NEW l, NEW n \in Nat, NEW r
  PROVE  ValueAt(l, n + 1, r) = IF l[n + 1].row = r THEN l[n + 1].val ELSE ValueAt(l, n, r)
<1> DEFINE mine == {i \in 1..n : l[i].row = r}
<1> DEFINE next == {i \in 1..(n + 1) : l[i].row = r}
<1>1. CASE l[n + 1].row = r
  <2>1. n + 1 \in next /\ next \in SUBSET Nat /\ \A k \in next : k <= n + 1
    BY <1>1
  <2>2. Max(next) = n + 1
    <3> HIDE DEF next
    <3>1. Max(next) \in next /\ n + 1 <= Max(next)
      BY <2>1, MaxOf
    <3>2. Max(next) \in Nat /\ Max(next) <= n + 1
      BY <2>1, <3>1
    <3> QED BY <3>1, <3>2
  <2>3. ValueAt(l, n + 1, r) = l[Max(next)].val
    BY <2>1, Zenon DEF ValueAt
  <2> QED BY <1>1, <2>2, <2>3
<1>2. CASE l[n + 1].row # r
  <2>1. next = mine
    BY <1>2
  <2>2. ValueAt(l, n + 1, r) = ValueAt(l, n, r)
    BY <2>1, Zenon DEF ValueAt
  <2> QED BY <1>2, <2>2
<1> QED BY <1>1, <1>2

\* What is on record of the i-th change: the line of it, what was read of the line,
\* and that a change leaves a value where it may and finds one where it must.
Recorded(i) ==
  LET c == log[i]
      found == AsOf(i - 1)[c.row]
  IN  /\ c.op \in {"c", "u"} => c.val \in ValuesOf(c.row)
      /\ c.op = "d" => c.val = Absent /\ TableOf(c.row) = "order_item"
      /\ IF c.op = "c" THEN found = Absent ELSE found \in ValuesOf(c.row)
      /\ identity = "NOTHING" => c.op = "c"
      /\ slot[i] = Written(c.op, TableOf(c.row), OldImage(i), NewImage(i))
      /\ decoded[i] = parse_row(slot[i])

CaptureInv ==
  /\ SourceTypeOK /\ LogInv
  /\ identity \in {"DEFAULT", "FULL", "NOTHING"} /\ refused \in BOOLEAN
  /\ IsList(slot) /\ Len(slot) = Len(log) /\ IsList(decoded) /\ Len(decoded) = Len(log)
  /\ \A r \in Rows : /\ table[r] = ValueAt(log, Len(log), r)
                     /\ table[r] \in ValuesOf(r) \cup {Absent}
  /\ \A i \in DOMAIN log : Recorded(i)

LEMMA CaptureInitInv == CaptureInit => CaptureInv
<1> SUFFICES ASSUME CaptureInit PROVE CaptureInv
  OBVIOUS
<1>1. SourceInit /\ identity \in {"DEFAULT", "FULL", "NOTHING"} /\ refused = FALSE
      /\ slot = <<>> /\ decoded = <<>>
  BY DEF CaptureInit
<1>2. SourceTypeOK /\ LogInv
  BY <1>1, SourceInitInv
<1>3. log = <<>> /\ Len(log) = 0 /\ DOMAIN log = {}
  BY <1>1 DEF SourceInit
<1>4. \A r \in Rows : table[r] = Absent
  BY <1>1 DEF SourceInit
<1> QED BY <1>1, <1>2, <1>3, <1>4, EmptyList, ValueAtStart DEF CaptureInv

\* A change of the workload: one of its row's values, or a delete of an order line.
LEMMA RunCommits ==
  ASSUME CaptureInv, Run
  PROVE  \E r \in Rows, op \in {"c", "u", "d"}, v \in Values \cup {Absent}, n \in NextLsns :
           /\ log' = Append(log, [row |-> r, op |-> op, val |-> v, lsn |-> n])
           /\ table' = [table EXCEPT ![r] = v]
           /\ op \in {"c", "u"} => v \in ValuesOf(r)
           /\ op = "d" => v = Absent /\ TableOf(r) = "order_item"
           /\ IF op = "c" THEN table[r] = Absent ELSE table[r] # Absent
           /\ identity = "NOTHING" => op = "c"
<1>1. \A r \in Rows : ValuesOf(r) \subseteq Values
  BY DEF ValuesOf
<1>2. PICK r \in Rows :
        \/ \E v \in ValuesOf(r) : Insert(r, v)
        \/ identity # "NOTHING" /\ \E v \in ValuesOf(r) : Update(r, v)
        \/ identity # "NOTHING" /\ TableOf(r) = "order_item" /\ Delete(r)
  BY DEF Run
<1>3. CASE \E v \in ValuesOf(r) : Insert(r, v)
  BY <1>1, <1>3 DEF Insert, Commit
<1>4. CASE identity # "NOTHING" /\ \E v \in ValuesOf(r) : Update(r, v)
  BY <1>1, <1>4 DEF Update, Commit
<1>5. CASE identity # "NOTHING" /\ TableOf(r) = "order_item" /\ Delete(r)
  BY <1>5 DEF Delete, Commit
<1> QED BY <1>2, <1>3, <1>4, <1>5

LEMMA RunIsSourceNext == Run => SourceNext
<1>1. \A r \in Rows : ValuesOf(r) \subseteq Values
  BY DEF ValuesOf
<1> QED BY <1>1 DEF Run, SourceNext

\* A run of the workload under any identity is one of the source: what an identity
\* refuses is only missing (run_arm).  So what the other modules prove of every log holds
\* of the log of this one.
THEOREM ARunIsTheSources == CaptureSpec => SourceInit /\ [][SourceNext]_sourceVars
<1>1. CaptureInit => SourceInit
  BY DEF CaptureInit
<1>2. [CaptureNext]_captureVars => [SourceNext]_sourceVars
  <2>1. Refuse => UNCHANGED sourceVars
    BY DEF Refuse
  <2>2. UNCHANGED captureVars => UNCHANGED sourceVars
    BY DEF captureVars
  <2> QED BY <2>1, <2>2, RunIsSourceNext DEF CaptureNext
<1> QED BY <1>1, <1>2, PTL DEF CaptureSpec

\* What is on record stays so as the log grows.
LEMMA RecordKept ==
  ASSUME CaptureInv, NEW i \in DOMAIN log, identity' = identity,
         \A j \in DOMAIN log : log'[j] = log[j],
         slot'[i] = slot[i], decoded'[i] = decoded[i]
  PROVE  Recorded(i)'
<1>1. DOMAIN log = 1..Len(log) /\ Len(log) \in Nat /\ i \in Nat /\ i - 1 \in Nat
  BY DEF CaptureInv, SourceTypeOK
<1>2. \A r \in Rows : ValueAt(log', i - 1, r) = ValueAt(log, i - 1, r)
  <2>1. \A j \in 1..(i - 1) : log'[j] = log[j]
    BY <1>1
  <2> QED BY <1>1, <2>1, ValueAtKeeps, SMTT(30)
<1>3. AsOf(i - 1)' = AsOf(i - 1)
  <2>1. AsOf(i - 1) = [r \in Rows |-> ValueAt(log, i - 1, r)]
    BY AsOfValues
  <2>2. AsOf(i - 1)' = [r \in Rows |-> ValueAt(log', i - 1, r)]
    BY DEF AsOf, ValueAt
  <2> QED BY <1>2, <2>1, <2>2
<1>4. OldImage(i)' = OldImage(i) /\ NewImage(i)' = NewImage(i) /\ log'[i] = log[i]
  BY <1>3 DEF OldImage, NewImage
<1>5. Recorded(i)
  BY DEF CaptureInv
<1> DEFINE c == log[i]
<1>6. Written(c.op, TableOf(c.row), OldImage(i), NewImage(i))'
        = Written(c.op, TableOf(c.row), OldImage(i), NewImage(i))
  BY <1>4 DEF Written
<1> QED BY <1>3, <1>4, <1>5, <1>6 DEF Recorded

LEMMA RunKeepsCapture ==
  ASSUME CaptureInv, Run
  PROVE  CaptureInv'
<1>1. PICK r \in Rows, op \in {"c", "u", "d"}, v \in Values \cup {Absent}, n \in NextLsns :
        /\ log' = Append(log, [row |-> r, op |-> op, val |-> v, lsn |-> n])
        /\ table' = [table EXCEPT ![r] = v]
        /\ op \in {"c", "u"} => v \in ValuesOf(r)
        /\ op = "d" => v = Absent /\ TableOf(r) = "order_item"
        /\ IF op = "c" THEN table[r] = Absent ELSE table[r] # Absent
        /\ identity = "NOTHING" => op = "c"
  BY RunCommits
<1> DEFINE c == [row |-> r, op |-> op, val |-> v, lsn |-> n]
<1> DEFINE N == Len(log)
<1> DEFINE line == Written(op, TableOf(r), Joined(r, table[r]), Joined(r, v))
<1>2. /\ LogInv' /\ SourceTypeOK' /\ \A i \in DOMAIN log : log'[i] = log[i]
      /\ DOMAIN log' = 1..(N + 1) /\ DOMAIN log = 1..N /\ N \in Nat
  BY RunIsSourceNext, LogGrows DEF CaptureInv
<1>3. log'[N + 1] = c /\ Len(log') = N + 1
  <2>1. log \in Seq(Changes)
    BY DEF CaptureInv, SourceTypeOK
  <2>2. Len(log') = N + 1
    BY <1>2 DEF SourceTypeOK
  <2> QED BY <1>1, <2>1, <2>2
<1>4. slot' = Append(slot, line) /\ decoded' = Append(decoded, parse_row(line))
      /\ identity' = identity /\ refused' = refused
  <2>1. /\ slot' = Append(slot, LET d == log'[Len(log')]
                                IN  Written(d.op, TableOf(d.row), Joined(d.row, table[d.row]),
                                            Joined(d.row, d.val)))
        /\ decoded' = Append(decoded, LET d == log'[Len(log')]
                      IN  parse_row(Written(d.op, TableOf(d.row), Joined(d.row, table[d.row]),
                                            Joined(d.row, d.val))))
        /\ identity' = identity /\ refused' = refused
    BY DEF Run
  <2>2. log'[Len(log')] = c
    BY <1>3
  <2> QED BY <2>1, <2>2
<1> HIDE DEF line
<1>5. /\ IsList(slot) /\ Len(slot) = N /\ IsList(decoded) /\ Len(decoded) = N
      /\ identity \in {"DEFAULT", "FULL", "NOTHING"} /\ refused \in BOOLEAN
      /\ \A q \in Rows : table[q] = ValueAt(log, N, q) /\ table[q] \in ValuesOf(q) \cup {Absent}
  BY DEF CaptureInv
<1>6. /\ IsList(slot') /\ Len(slot') = N + 1 /\ slot'[N + 1] = line
      /\ \A i \in 1..N : slot'[i] = slot[i]
  BY <1>4, <1>5, ListAppend
<1>7. /\ IsList(decoded') /\ Len(decoded') = N + 1 /\ decoded'[N + 1] = parse_row(line)
      /\ \A i \in 1..N : decoded'[i] = decoded[i]
  <2> DEFINE read == parse_row(line)
  <2>1. decoded' = Append(decoded, read)
    BY <1>4
  <2> HIDE DEF read
  <2> QED BY <1>5, <2>1, ListAppend DEF read
<1>8. op = "d" \/ v \in ValuesOf(r)
  BY <1>1
<1>9. ASSUME NEW q \in Rows
      PROVE  table'[q] = ValueAt(log', N + 1, q) /\ table'[q] \in ValuesOf(q) \cup {Absent}
  <2>1. table'[q] = IF q = r THEN v ELSE table[q]
    BY <1>1 DEF CaptureInv, SourceTypeOK
  <2>2. ValueAt(log', N + 1, q) = IF c.row = q THEN c.val ELSE ValueAt(log', N, q)
    BY <1>2, <1>3, ValueAtNext, ZenonT(60)
  <2>3. ValueAt(log', N, q) = ValueAt(log, N, q)
    BY <1>2, ValueAtKeeps
  <2>4. v \in ValuesOf(r) \cup {Absent}
    BY <1>1, <1>8
  <2> QED BY <1>5, <2>1, <2>2, <2>3, <2>4
<1>10. ASSUME NEW i \in DOMAIN log' PROVE Recorded(i)'
  <2>1. CASE i \in DOMAIN log
    <3>1. i \in 1..N
      BY <1>2, <2>1
    <3> QED BY <1>2, <1>4, <1>6, <1>7, <2>1, <3>1, RecordKept
  <2>2. CASE i = N + 1
    <3>1. AsOf(i - 1)'[r] = table[r] /\ i - 1 = N
      <4>1. i - 1 = N
        BY <1>2, <2>2
      <4>2. AsOf(i - 1)'[r] = ValueAt(log', N, r)
        BY <4>1 DEF AsOf, ValueAt
      <4>3. ValueAt(log', N, r) = ValueAt(log, N, r)
        BY <1>2, ValueAtKeeps, SMTT(30)
      <4> QED BY <1>5, <4>1, <4>2, <4>3
    <3>2. OldImage(i)' = Joined(r, table[r]) /\ NewImage(i)' = Joined(r, v)
      BY <1>3, <2>2, <3>1 DEF OldImage, NewImage
    <3>3. slot'[i] = Written(op, TableOf(r), OldImage(i), NewImage(i))'
      BY <1>4, <1>6, <2>2, <3>2 DEF Written, line
    <3>4. IF op = "c" THEN AsOf(i - 1)'[r] = Absent ELSE AsOf(i - 1)'[r] \in ValuesOf(r)
      BY <1>1, <1>5, <3>1
    <3>5. decoded'[i] = parse_row(slot'[i])
      BY <1>6, <1>7, <2>2
    <3>6. log'[i] = c
      BY <1>3, <2>2
    <3>7. log'[i].op = op /\ log'[i].row = r /\ log'[i].val = v
      BY <3>6
    <3>8. ValuesOf(r)' = ValuesOf(r) /\ TableOf(r)' = TableOf(r)
      BY DEF ValuesOf, TableOf
    <3> HIDE DEF c, N
    <3> QED BY <1>1, <1>4, <3>3, <3>4, <3>5, <3>7 DEF Recorded
  <2> QED BY <1>2, <2>1, <2>2
<1> QED BY <1>2, <1>3, <1>4, <1>5, <1>6, <1>7, <1>9, <1>10 DEF CaptureInv

\* The invariant holds of every step.
LEMMA CaptureInvStep == CaptureInv /\ [CaptureNext]_captureVars => CaptureInv'
<1> SUFFICES ASSUME CaptureInv, [CaptureNext]_captureVars PROVE CaptureInv'
  OBVIOUS
<1>1. CASE Run
  BY <1>1, RunKeepsCapture
<1>2. CASE Refuse \/ UNCHANGED captureVars
  <2>1. /\ log' = log /\ table' = table /\ identity' = identity /\ slot' = slot /\ decoded' = decoded
        /\ refused' \in BOOLEAN
    BY <1>2 DEF Refuse, captureVars, sourceVars, CaptureInv
  <2>2. ASSUME NEW i \in DOMAIN log' PROVE Recorded(i)'
    BY <2>1, RecordKept
  <2>3. SourceTypeOK' /\ LogInv'
    <3>1. SourceTypeOK /\ LogOrdered /\ DeletesAreEmpty /\ TableIsLastChange
      BY DEF CaptureInv, LogInv
    <3>2. LogOrdered' /\ DeletesAreEmpty'
      BY <2>1, <3>1 DEF LogOrdered, DeletesAreEmpty
    <3>3. TableIsLastChange' = TableIsLastChange
      BY <2>1 DEF TableIsLastChange, ChangesTo
    <3>4. SourceTypeOK'
      BY <2>1, <3>1 DEF SourceTypeOK
    <3> QED BY <3>1, <3>2, <3>3, <3>4 DEF LogInv
  <2> QED BY <2>1, <2>2, <2>3 DEF CaptureInv
<1> QED BY <1>1, <1>2 DEF CaptureNext

LEMMA CaptureInvHolds == CaptureSpec => []CaptureInv
BY CaptureInitInv, CaptureInvStep, PTL DEF CaptureSpec

-----------------------------------------------------------------------------
(* Every change reads back.                                                 *)

\* No text of a row holds a marker of the format.
PlainTexts == \A v \in Values : "full_name" \in DOMAIN v => v.full_name \in Seq(STRING \ Marks)

Tables == {"customer", "order_item"}

ColumnsOf(t) == PrimaryKeys[t] \o OtherColumns[t]

LEMMA TwoColumns ==
  ASSUME NEW a, NEW b
  PROVE  <<a>> \o <<b>> = <<a, b>>
<1> DEFINE p == <<a>>
<1> DEFINE q == <<b>>
<1> DEFINE both == <<a, b>>
<1> DEFINE s == p \o q
<1> DEFINE S == {a, b}
<1>1. /\ p \in Seq(S) /\ Len(p) = 1 /\ p[1] = a /\ q \in Seq(S) /\ Len(q) = 1 /\ q[1] = b
      /\ both \in Seq(S) /\ Len(both) = 2 /\ both[1] = a /\ both[2] = b
  OBVIOUS
<1> HIDE DEF p, q, both, S
<1>2. /\ s \in Seq(S) /\ Len(s) = Len(p) + Len(q)
      /\ \A i \in 1..Len(p) + Len(q) : s[i] = IF i <= Len(p) THEN p[i] ELSE q[i - Len(p)]
  <2>1. p \in Seq(S) /\ q \in Seq(S)
    BY <1>1
  <2> QED BY <2>1, ConcatProperties, Zenon
<1> HIDE DEF s
<1>3. Len(s) = 2 /\ s[1] = a /\ s[2] = b
  BY <1>1, <1>2
<1>4. \A i \in 1..Len(s) : s[i] = both[i]
  BY <1>1, <1>3
<1>5. s = both
  BY <1>1, <1>2, <1>3, <1>4, SeqEqual
<1> QED BY <1>5 DEF s, p, q, both

LEMMA ThreeColumns ==
  ASSUME NEW a, NEW b, NEW c
  PROVE  <<a, b>> \o <<c>> = <<a, b, c>>
<1> DEFINE p == <<a, b>>
<1> DEFINE q == <<c>>
<1> DEFINE all == <<a, b, c>>
<1> DEFINE s == p \o q
<1> DEFINE S == {a, b, c}
<1>1. /\ p \in Seq(S) /\ Len(p) = 2 /\ p[1] = a /\ p[2] = b
      /\ q \in Seq(S) /\ Len(q) = 1 /\ q[1] = c
      /\ all \in Seq(S) /\ Len(all) = 3 /\ all[1] = a /\ all[2] = b /\ all[3] = c
  OBVIOUS
<1> HIDE DEF p, q, all, S
<1>2. /\ s \in Seq(S) /\ Len(s) = Len(p) + Len(q)
      /\ \A i \in 1..Len(p) + Len(q) : s[i] = IF i <= Len(p) THEN p[i] ELSE q[i - Len(p)]
  <2>1. p \in Seq(S) /\ q \in Seq(S)
    BY <1>1
  <2> QED BY <2>1, ConcatProperties, Zenon
<1> HIDE DEF s
<1>3. Len(s) = 3 /\ s[1] = a /\ s[2] = b /\ s[3] = c
  BY <1>1, <1>2
<1>4. \A i \in 1..Len(s) : s[i] = all[i]
  BY <1>1, <1>3
<1>5. s = all
  BY <1>1, <1>2, <1>3, <1>4, SeqEqual
<1> QED BY <1>5 DEF s, p, q, all

LEMMA TableColumns ==
  /\ PrimaryKeys["customer"] = <<"customer_id">>
  /\ OtherColumns["customer"] = <<"full_name">>
  /\ ColumnsOf("customer") = <<"customer_id", "full_name">>
  /\ PrimaryKeys["order_item"] = <<"order_id", "line_no">>
  /\ OtherColumns["order_item"] = <<"qty">>
  /\ ColumnsOf("order_item") = <<"order_id", "line_no", "qty">>
<1>1. /\ PrimaryKeys["customer"] = <<"customer_id">> /\ OtherColumns["customer"] = <<"full_name">>
      /\ PrimaryKeys["order_item"] = <<"order_id", "line_no">>
      /\ OtherColumns["order_item"] = <<"qty">>
  BY DEF PrimaryKeys, OtherColumns
<1>2. <<"customer_id">> \o <<"full_name">> = <<"customer_id", "full_name">>
  BY TwoColumns
<1>3. <<"order_id", "line_no">> \o <<"qty">> = <<"order_id", "line_no", "qty">>
  BY ThreeColumns
<1> QED BY <1>1, <1>2, <1>3 DEF ColumnsOf

LEMMA TableSets ==
  /\ ToSet(PrimaryKeys["customer"]) = {"customer_id"}
  /\ ToSet(OtherColumns["customer"]) = {"full_name"}
  /\ ToSet(ColumnsOf("customer")) = {"customer_id", "full_name"}
  /\ ToSet(PrimaryKeys["order_item"]) = {"order_id", "line_no"}
  /\ ToSet(OtherColumns["order_item"]) = {"qty"}
  /\ ToSet(ColumnsOf("order_item")) = {"order_id", "line_no", "qty"}
<1>1. ASSUME NEW a PROVE ToSet(<<a>>) = {a}
  <2>1. DOMAIN <<a>> = 1..1
    OBVIOUS
  <2> QED BY <2>1 DEF ToSet
<1>2. ASSUME NEW a, NEW b PROVE ToSet(<<a, b>>) = {a, b}
  <2>1. DOMAIN <<a, b>> = 1..2
    OBVIOUS
  <2> QED BY <2>1 DEF ToSet
<1>3. ASSUME NEW a, NEW b, NEW c PROVE ToSet(<<a, b, c>>) = {a, b, c}
  <2>1. DOMAIN <<a, b, c>> = 1..3
    OBVIOUS
  <2> QED BY <2>1 DEF ToSet
<1> QED BY <1>1, <1>2, <1>3, TableColumns

\* The columns of the tables are columns fields can be printed of.
LEMMA TableColumnNames ==
  ASSUME NEW t \in Tables
  PROVE  /\ ColumnsOf(t) \in Seq(ColumnNames) /\ ColumnsOf(t) # <<>>
         /\ PrimaryKeys[t] \in Seq(ColumnNames) /\ PrimaryKeys[t] # <<>>
<1>1. ASSUME NEW c \in ToSet(PrimaryKeys[t]) \cup ToSet(OtherColumns[t]) PROVE c \in ColumnNames
  BY CaptureAssumption DEF CaptureAssumption, ColumnNames, Tables
<1>2. CASE t = "customer"
  <2>1. "customer_id" \in ColumnNames /\ "full_name" \in ColumnNames
    BY <1>1, <1>2, TableSets
  <2> QED BY <1>2, <2>1, TableColumns, SMTT(30)
<1>3. CASE t = "order_item"
  <2>1. "order_id" \in ColumnNames /\ "line_no" \in ColumnNames /\ "qty" \in ColumnNames
    BY <1>1, <1>3, TableSets
  <2>2. /\ <<"order_id", "line_no", "qty">> \in Seq(ColumnNames)
        /\ <<"order_id", "line_no", "qty">> # <<>>
        /\ <<"order_id", "line_no">> \in Seq(ColumnNames) /\ <<"order_id", "line_no">> # <<>>
    <3> DEFINE three == <<"order_id", "line_no", "qty">>
    <3>1. Len(three) = 3 /\ \A i \in 1..3 : three[i] \in {"order_id", "line_no", "qty"}
      OBVIOUS
    <3>2. three \in Seq({"order_id", "line_no", "qty"}) /\ three # <<>>
      OBVIOUS
    <3> HIDE DEF three
    <3>3. three \in Seq(ColumnNames)
      BY <2>1, <3>1, <3>2, OverSet
    <3>4. <<"order_id", "line_no">> \in Seq(ColumnNames) /\ <<"order_id", "line_no">> # <<>>
      BY <2>1
    <3> QED BY <3>2, <3>3, <3>4 DEF three
  <2> QED BY <1>3, <2>2, TableColumns
<1> QED BY <1>2, <1>3 DEF Tables

LEMMA RowShape ==
  ASSUME NEW r \in Rows
  PROVE  TableOf(r) \in Tables /\ r \in [ToSet(PrimaryKeys[TableOf(r)]) -> Words]
<1>1. PICK t \in Tables : r \in [ToSet(PrimaryKeys[t]) -> Words]
  BY CaptureAssumption DEF CaptureAssumption, Tables
<1>2. TableOf(r) = t
  BY <1>1, TableSets DEF TableOf, Tables
<1> QED BY <1>1, <1>2

LEMMA ValueShape ==
  ASSUME NEW r \in Rows, NEW v \in ValuesOf(r)
  PROVE  IF TableOf(r) = "customer" THEN v \in [{"full_name"} -> Seq(STRING)]
         ELSE v \in [{"qty"} -> Words]
<1>1. v \in [{"full_name"} -> Seq(STRING)] \/ v \in [{"qty"} -> Words]
  BY CaptureAssumption DEF CaptureAssumption, ValuesOf
<1>2. DOMAIN v = ToSet(OtherColumns[TableOf(r)]) /\ TableOf(r) \in Tables
  BY RowShape DEF ValuesOf
<1> QED BY <1>1, <1>2, TableSets DEF Tables

LEMMA WordsUnmarked == Words \subseteq Unmarked
<1> SUFFICES ASSUME NEW w \in Words PROVE w \in Unmarked
  OBVIOUS
<1>1. w \in Seq(STRING) /\ \A i \in 1..Len(w) : w[i] \in STRING /\ w[i] \notin Colons \cup {Quote, Space, NoTuple}
  BY DEF Words
<1>2. Marks \subseteq Colons \cup {Quote, Space, NoTuple}
  BY DEF Marks, Colons
<1>3. \A i \in 1..Len(w) : w[i] \in STRING \ Marks
  BY <1>1, <1>2
<1> QED BY <1>1, <1>3, OverSet DEF Unmarked

\* The whole row: its two halves, and every column clean.
RowImage(image, r, v) ==
  LET t == TableOf(r)
  IN  /\ Clean(image, ColumnsOf(t)) /\ Clean(image, PrimaryKeys[t])
      /\ Restrict(image, ToSet(ColumnsOf(t))) = image
      /\ Restrict(image, ToSet(PrimaryKeys[t])) = r
      /\ Restrict(image, ToSet(OtherColumns[t])) = v
      /\ DOMAIN image = ToSet(PrimaryKeys[t]) \cup ToSet(OtherColumns[t])
      /\ \A c \in ToSet(PrimaryKeys[t]) : image[c] = r[c]

LEMMA WholeRow ==
  ASSUME PlainTexts, NEW r \in Rows, NEW v \in ValuesOf(r)
  PROVE  RowImage(Joined(r, v), r, v)
<1> DEFINE image == Joined(r, v)
<1> DEFINE t == TableOf(r)
<1>1. t \in Tables /\ r \in [ToSet(PrimaryKeys[t]) -> Words]
  BY RowShape
<1>2. /\ ColumnsOf(t) \in Seq(ColumnNames) /\ ColumnsOf(t) # <<>>
      /\ PrimaryKeys[t] \in Seq(ColumnNames) /\ PrimaryKeys[t] # <<>>
  BY <1>1, TableColumnNames
<1>3. v \in Values
  BY DEF ValuesOf
<1>4. CASE t = "customer"
  <2>1. r \in [{"customer_id"} -> Words] /\ v \in [{"full_name"} -> Seq(STRING)]
    BY <1>1, <1>4, TableSets, ValueShape
  <2>2. v.full_name \in Unmarked /\ v.full_name \in Seq(STRING)
    BY <1>3, <2>1 DEF PlainTexts, Unmarked
  <2>3. /\ DOMAIN image = {"customer_id", "full_name"}
        /\ image["customer_id"] = r["customer_id"] /\ image["full_name"] = v["full_name"]
        /\ image = [c \in {"customer_id", "full_name"} |-> image[c]]
        /\ r = [c \in {"customer_id"} |-> r[c]] /\ v = [c \in {"full_name"} |-> v[c]]
    BY <2>1 DEF Joined
  <2>4. r["customer_id"] \in Words /\ r["customer_id"] \in Unmarked
    BY <2>1, WordsUnmarked
  <2> HIDE DEF image
  <2>5. Restrict(image, {"customer_id", "full_name"}) = image
    BY <2>3 DEF Restrict
  <2>6. Restrict(image, {"customer_id"}) = r /\ Restrict(image, {"full_name"}) = v
    BY <2>3 DEF Restrict
  <2>7. /\ Fit("customer_id", image["customer_id"]) /\ Fit("full_name", image["full_name"])
        /\ image["customer_id"] \in Unmarked /\ image["full_name"] \in Unmarked
    BY <2>2, <2>3, <2>4 DEF Fit, TextColumns
  <2>8. Clean(image, <<"customer_id", "full_name">>) /\ Clean(image, <<"customer_id">>)
    <3>1. ColumnsOf(t) = <<"customer_id", "full_name">> /\ PrimaryKeys[t] = <<"customer_id">>
      BY <1>4, TableColumns
    <3>2. Len(<<"customer_id", "full_name">>) = 2 /\ Len(<<"customer_id">>) = 1
      OBVIOUS
    <3>3. \A i \in 1..2 : Fit(<<"customer_id", "full_name">>[i], image[<<"customer_id", "full_name">>[i]])
                          /\ image[<<"customer_id", "full_name">>[i]] \in Unmarked
      BY <2>7
    <3>4. \A i \in 1..1 : Fit(<<"customer_id">>[i], image[<<"customer_id">>[i]])
                          /\ image[<<"customer_id">>[i]] \in Unmarked
      BY <2>7
    <3> QED BY <1>2, <3>1, <3>2, <3>3, <3>4 DEF Clean, Fits
  <2> QED BY <1>4, <2>3, <2>5, <2>6, <2>8, TableColumns, TableSets, ZenonT(60) DEF RowImage, image
<1>5. CASE t = "order_item"
  <2>1. r \in [{"order_id", "line_no"} -> Words] /\ v \in [{"qty"} -> Words]
    BY <1>1, <1>5, TableSets, ValueShape
  <2>2. /\ DOMAIN image = {"order_id", "line_no", "qty"}
        /\ image["order_id"] = r["order_id"] /\ image["line_no"] = r["line_no"]
        /\ image["qty"] = v["qty"]
        /\ image = [c \in {"order_id", "line_no", "qty"} |-> image[c]]
        /\ r = [c \in {"order_id", "line_no"} |-> r[c]] /\ v = [c \in {"qty"} |-> v[c]]
    BY <2>1 DEF Joined
  <2>3. \A w \in {r["order_id"], r["line_no"], v["qty"]} : w \in Words /\ w \in Unmarked
    BY <2>1, WordsUnmarked
  <2> HIDE DEF image
  <2>4. Restrict(image, {"order_id", "line_no", "qty"}) = image
    BY <2>2 DEF Restrict
  <2>5. Restrict(image, {"order_id", "line_no"}) = r /\ Restrict(image, {"qty"}) = v
    BY <2>2 DEF Restrict
  <2>6. \A c \in {"order_id", "line_no", "qty"} : Fit(c, image[c]) /\ image[c] \in Unmarked
    BY <2>2, <2>3 DEF Fit, TextColumns
  <2>7. Clean(image, <<"order_id", "line_no", "qty">>) /\ Clean(image, <<"order_id", "line_no">>)
    <3>1. ColumnsOf(t) = <<"order_id", "line_no", "qty">> /\ PrimaryKeys[t] = <<"order_id", "line_no">>
      BY <1>5, TableColumns
    <3>2. Len(<<"order_id", "line_no", "qty">>) = 3 /\ Len(<<"order_id", "line_no">>) = 2
      OBVIOUS
    <3>3. \A i \in 1..3 : <<"order_id", "line_no", "qty">>[i] \in {"order_id", "line_no", "qty"}
      OBVIOUS
    <3>4. \A i \in 1..2 : <<"order_id", "line_no">>[i] \in {"order_id", "line_no", "qty"}
      OBVIOUS
    <3> QED BY <1>2, <2>6, <3>1, <3>2, <3>3, <3>4 DEF Clean, Fits
  <2> QED BY <1>5, <2>2, <2>4, <2>5, <2>7, TableColumns, TableSets DEF RowImage, image
<1> QED BY <1>1, <1>4, <1>5 DEF Tables

ActionOf == [c |-> "INSERT", u |-> "UPDATE", d |-> "DELETE"]

\* What the reader makes of the i-th change.
ReadBack(i) ==
  LET c == log[i]
  IN  decoded[i] =
        [action |-> ActionOf[c.op],
         before |-> IF c.op = "c" THEN None
                    ELSE IF identity = "FULL" THEN OldImage(i)
                    ELSE IF c.op = "d" THEN c.row ELSE None,
         after |-> IF c.op = "d" THEN None ELSE NewImage(i)]

LEMMA OnRecord ==
  ASSUME CaptureInv, NEW i \in DOMAIN log
  PROVE  /\ Recorded(i) /\ log[i] \in Changes /\ log[i].row \in Rows
         /\ log[i].op \in {"c", "u", "d"} /\ i \in 1..Len(log) /\ Len(log) \in Nat
<1>1. log \in Seq(Changes)
  BY DEF CaptureInv, SourceTypeOK
<1>2. log[i] \in Changes /\ i \in 1..Len(log) /\ Len(log) \in Nat
  BY <1>1
<1> QED BY <1>2 DEF CaptureInv, Changes

\* The images a change has are whole rows.
LEMMA ImagesWhole ==
  ASSUME CaptureInv, PlainTexts, NEW i \in DOMAIN log
  PROVE  LET c == log[i]
         IN  /\ c.op \in {"c", "u"} => c.val \in ValuesOf(c.row) /\ RowImage(NewImage(i), c.row, c.val)
             /\ c.op \in {"u", "d"} =>
                  /\ AsOf(i - 1)[c.row] \in ValuesOf(c.row)
                  /\ RowImage(OldImage(i), c.row, AsOf(i - 1)[c.row])
<1> DEFINE r == log[i].row
<1> DEFINE new == log[i].val
<1> DEFINE old == AsOf(i - 1)[log[i].row]
<1>1. Recorded(i) /\ r \in Rows
  BY OnRecord
<1>2. log[i].op \in {"c", "u"} => new \in ValuesOf(r)
  BY <1>1 DEF Recorded
<1>3. log[i].op \in {"u", "d"} => old \in ValuesOf(r)
  BY <1>1 DEF Recorded
<1>4. NewImage(i) = Joined(r, new) /\ OldImage(i) = Joined(r, old)
  BY DEF NewImage, OldImage
<1> HIDE DEF r, new, old
<1>5. \A v \in ValuesOf(r) : RowImage(Joined(r, v), r, v)
  BY <1>1, WholeRow
<1> QED BY <1>2, <1>3, <1>4, <1>5 DEF r, new, old

LEMMA Decodes ==
  ASSUME CaptureInv, PlainTexts, NEW i \in DOMAIN log
  PROVE  ReadBack(i)
<1> DEFINE c == log[i]
<1> DEFINE t == TableOf(c.row)
<1> DEFINE old == OldImage(i)
<1> DEFINE new == NewImage(i)
<1>1. /\ Recorded(i) /\ c.row \in Rows /\ c.op \in {"c", "u", "d"}
      /\ identity \in {"DEFAULT", "FULL", "NOTHING"}
  BY OnRecord DEF CaptureInv
<1>2. slot[i] = Written(c.op, t, old, new) /\ decoded[i] = parse_row(slot[i])
      /\ (identity = "NOTHING" => c.op = "c")
  BY <1>1 DEF Recorded
<1>3. c.op \in {"c", "u"} => Clean(new, ColumnsOf(t)) /\ Restrict(new, ToSet(ColumnsOf(t))) = new
  BY ImagesWhole DEF RowImage
<1>4. c.op \in {"u", "d"} =>
        /\ Clean(old, ColumnsOf(t)) /\ Restrict(old, ToSet(ColumnsOf(t))) = old
        /\ Clean(old, PrimaryKeys[t]) /\ Restrict(old, ToSet(PrimaryKeys[t])) = c.row
  BY ImagesWhole DEF RowImage
<1> HIDE DEF old, new, t
<1>5. CASE c.op = "c"
  <2>1. slot[i] = [action |-> "INSERT", rest |-> Tuple(new, ColumnsOf(t))]
    BY <1>2, <1>5 DEF Written, ColumnsOf
  <2>2. decoded[i] = [action |-> "INSERT", before |-> None, after |-> new]
    BY <1>2, <1>3, <1>5, <2>1, NewReadsBack, ZenonT(60)
  <2> QED BY <1>5, <2>2 DEF ReadBack, ActionOf, new
<1>6. CASE c.op = "u" /\ identity # "FULL"
  <2>1. slot[i] = [action |-> "UPDATE", rest |-> Tuple(new, ColumnsOf(t))]
    BY <1>2, <1>6 DEF Written, ColumnsOf
  <2>2. decoded[i] = [action |-> "UPDATE", before |-> None, after |-> new]
    BY <1>2, <1>3, <1>6, <2>1, NewReadsBack, ZenonT(60)
  <2> QED BY <1>6, <2>2 DEF ReadBack, ActionOf, new
<1>7. CASE c.op = "u" /\ identity = "FULL"
  <2>1. slot[i] = [action |-> "UPDATE",
                   rest |-> <<"old-key:", Space>> \o Tuple(old, ColumnsOf(t))
                            \o <<Space, "new-tuple:", Space>> \o Tuple(new, ColumnsOf(t))]
    BY <1>2, <1>7 DEF Written, ColumnsOf
  <2>2. decoded[i] = [action |-> "UPDATE", before |-> old, after |-> new]
    <3>1. Clean(old, ColumnsOf(t)) /\ Clean(new, ColumnsOf(t)) /\ Restrict(old, ToSet(ColumnsOf(t))) = old
          /\ Restrict(new, ToSet(ColumnsOf(t))) = new
      BY <1>3, <1>4, <1>7
    <3> DEFINE columns == ColumnsOf(t)
    <3> HIDE DEF columns
    <3>2. parse_row([action |-> "UPDATE",
                    rest |-> <<"old-key:", Space>> \o Tuple(old, columns)
                             \o <<Space, "new-tuple:", Space>> \o Tuple(new, columns)]) =
           [action |-> "UPDATE", before |-> Restrict(old, ToSet(columns)),
            after |-> Restrict(new, ToSet(columns))]
      BY <3>1, BothReadBack, Zenon DEF columns
    <3> QED BY <1>2, <2>1, <3>1, <3>2 DEF columns
  <2> QED BY <1>7, <2>2 DEF ReadBack, ActionOf, old, new
<1>8. CASE c.op = "d" /\ identity = "FULL"
  <2>1. slot[i] = [action |-> "DELETE", rest |-> Tuple(old, ColumnsOf(t))]
    BY <1>2, <1>8 DEF Written, ColumnsOf
  <2>2. decoded[i] = [action |-> "DELETE", before |-> old, after |-> None]
    BY <1>2, <1>4, <1>8, <2>1, OldReadsBack, ZenonT(60)
  <2> QED BY <1>8, <2>2 DEF ReadBack, ActionOf, old
<1>9. CASE c.op = "d" /\ identity # "FULL"
  <2>1. slot[i] = [action |-> "DELETE", rest |-> Tuple(old, PrimaryKeys[t])]
    BY <1>2, <1>9 DEF Written
  <2>2. decoded[i] = [action |-> "DELETE", before |-> c.row, after |-> None]
    <3>1. Clean(old, PrimaryKeys[t]) /\ Restrict(old, ToSet(PrimaryKeys[t])) = c.row
      BY <1>4, <1>9
    <3> DEFINE columns == PrimaryKeys[t]
    <3> HIDE DEF columns
    <3>2. parse_row([action |-> "DELETE", rest |-> Tuple(old, columns)]) =
           [action |-> "DELETE", before |-> Restrict(old, ToSet(columns)), after |-> None]
      BY <3>1, OldReadsBack, Zenon DEF columns
    <3> QED BY <1>2, <2>1, <3>1, <3>2 DEF columns
  <2> QED BY <1>9, <2>2 DEF ReadBack, ActionOf
<1> QED BY <1>1, <1>5, <1>6, <1>7, <1>8, <1>9

\* The image that carries the key of a change: it is there, it holds the row, and an
\* image behind the change is whole.
KeyImage(i, image) ==
  LET c == log[i]
      row == decoded[i]
      key == ToSet(PrimaryKeys[TableOf(c.row)])
  IN  /\ image = (IF c.op = "d" THEN row.before ELSE row.after)
      /\ image \notin {None, NoFields} /\ (c.op = "d" => row.after = None)
      /\ row.action = ActionOf[c.op]
      /\ key \subseteq DOMAIN image /\ Restrict(image, key) = c.row
      /\ \A k \in key : image[k] = c.row[k]
      /\ c.op # "d" => Restrict(image, ToSet(OtherColumns[TableOf(c.row)])) = c.val

\* An image that holds columns is not the empty one.
LEMMA NotEmptyImage ==
  ASSUME NEW image, NEW c, c \in DOMAIN image
  PROVE  image # NoFields
BY DEF NoFields

LEMMA KeyImageIs ==
  ASSUME CaptureInv, PlainTexts, NEW i \in DOMAIN log
  PROVE  \E image : KeyImage(i, image)
<1> DEFINE c == log[i]
<1> DEFINE row == decoded[i]
<1> DEFINE t == TableOf(c.row)
<1> DEFINE key == ToSet(PrimaryKeys[t])
<1> DEFINE old == OldImage(i)
<1> DEFINE new == NewImage(i)
<1>1. c.row \in Rows /\ c.op \in {"c", "u", "d"}
  BY OnRecord
<1>2. t \in Tables /\ c.row \in [key -> Words]
  BY <1>1, RowShape
<1>3. PICK k : k \in key
  BY <1>2, TableSets DEF Tables
<1>4. ReadBack(i)
  BY Decodes
<1>5. CASE c.op # "d"
  <2>1. RowImage(new, c.row, c.val)
    BY <1>1, <1>5, ImagesWhole
  <2>2. row.action = ActionOf[c.op] /\ row.after = new
    BY <1>4, <1>5 DEF ReadBack
  <2> HIDE DEF new, row, t
  <2>3. /\ Clean(new, ColumnsOf(t)) /\ Restrict(new, ToSet(ColumnsOf(t))) = new
        /\ Restrict(new, key) = c.row /\ Restrict(new, ToSet(OtherColumns[t])) = c.val
        /\ key \subseteq DOMAIN new /\ \A d \in key : new[d] = c.row[d]
    BY <2>1 DEF RowImage, t
  <2>4. new # None
    BY <2>3, CleanImage
  <2>5. new # NoFields
    BY <1>3, <2>3, NotEmptyImage
  <2>6. KeyImage(i, new)
    BY <1>5, <2>2, <2>3, <2>4, <2>5 DEF KeyImage, t, row
  <2> QED BY <2>6
<1>6. CASE c.op = "d"
  <2>1. RowImage(old, c.row, AsOf(i - 1)[c.row])
    BY <1>1, <1>6, ImagesWhole
  <2>2. row.action = ActionOf[c.op] /\ row.after = None
        /\ row.before = IF identity = "FULL" THEN old ELSE c.row
    BY <1>4, <1>6 DEF ReadBack
  <2> HIDE DEF old, row, t
  <2>3. /\ Clean(old, ColumnsOf(t)) /\ Restrict(old, ToSet(ColumnsOf(t))) = old
        /\ Clean(old, PrimaryKeys[t]) /\ Restrict(old, key) = c.row
        /\ key \subseteq DOMAIN old /\ \A d \in key : old[d] = c.row[d]
    BY <2>1 DEF RowImage, t
  <2>4. old # None /\ c.row # None
    BY <2>3, CleanImage
  <2>5. DOMAIN c.row = key /\ Restrict(c.row, key) = c.row
    BY <1>2 DEF Restrict, t
  <2>6. old # NoFields /\ c.row # NoFields
    BY <1>3, <2>3, <2>5, NotEmptyImage
  <2>7. CASE identity = "FULL"
    <3>1. KeyImage(i, old)
      BY <1>6, <2>2, <2>3, <2>4, <2>6, <2>7 DEF KeyImage, t, row
    <3> QED BY <3>1
  <2>8. CASE identity # "FULL"
    <3>1. KeyImage(i, c.row)
      BY <1>6, <2>2, <2>4, <2>5, <2>6, <2>8 DEF KeyImage, t, row
    <3> QED BY <3>1
  <2> QED BY <2>7, <2>8
<1> QED BY <1>5, <1>6

\* A key is made of the key's columns and no others.
LEMMA SameKey ==
  ASSUME NEW columns, NEW f, NEW g, \A j \in DOMAIN columns : f[columns[j]] = g[columns[j]]
  PROVE  Key(f, columns) = Key(g, columns)
<1> DEFINE Lead(j) == IF j = 1 THEN <<123>> ELSE <<44>>
<1> DEFINE Name(x) == <<34>> \o NameBytes[x] \o <<34, 58>>
<1> DEFINE F == [j \in DOMAIN columns |-> Lead(j) \o (Name(columns[j]) \o Json(f[columns[j]], TRUE))]
<1> DEFINE G == [j \in DOMAIN columns |-> Lead(j) \o (Name(columns[j]) \o Json(g[columns[j]], TRUE))]
<1>1. F = G
  <2> HIDE DEF Lead, Name
  <2> QED OBVIOUS
<1>2. key_json(f, columns, TRUE) = FlattenSeq(F) \o <<125>>
  BY Zenon DEF key_json
<1>3. key_json(g, columns, TRUE) = FlattenSeq(G) \o <<125>>
  BY Zenon DEF key_json
<1> HIDE DEF F, G
<1>4. key_json(f, columns, TRUE) = key_json(g, columns, TRUE)
  BY <1>1, <1>2, <1>3
<1> QED BY <1>4, Zenon DEF Key

\* The key columns, and those of the override, are among the primary key's.
LEMMA KeyColumns ==
  ASSUME NEW t \in Tables, NEW keyColumns \in {PrimaryKeys, Overridden}
  PROVE  /\ ToSet(keyColumns[t]) \subseteq ToSet(PrimaryKeys[t])
         /\ \A j \in DOMAIN keyColumns[t] : keyColumns[t][j] \in ToSet(PrimaryKeys[t])
<1>1. ToSet(keyColumns[t]) \subseteq ToSet(PrimaryKeys[t])
  <2>1. CASE keyColumns = PrimaryKeys
    BY <2>1
  <2>2. CASE keyColumns = Overridden /\ t = "customer"
    BY <2>2 DEF Overridden, PrimaryKeys
  <2>3. CASE keyColumns = Overridden /\ t = "order_item"
    <3>1. keyColumns[t] = <<"order_id">>
      BY <2>3 DEF Overridden, PrimaryKeys
    <3>2. DOMAIN <<"order_id">> = 1..1 /\ <<"order_id">>[1] = "order_id"
      OBVIOUS
    <3>3. ToSet(<<"order_id">>) = {"order_id"}
      BY <3>2 DEF ToSet
    <3> QED BY <2>3, <3>1, <3>3, TableSets
  <2> QED BY <2>1, <2>2, <2>3 DEF Tables
<1>2. \A j \in DOMAIN keyColumns[t] : keyColumns[t][j] \in ToSet(keyColumns[t])
  BY DEF ToSet
<1> QED BY <1>1, <1>2

\* The records of a change, whatever columns key them.
LEMMA PublishedIs ==
  ASSUME CaptureInv, PlainTexts, NEW i \in DOMAIN log,
         NEW keyColumns \in {PrimaryKeys, Overridden}
  PROVE  LET c == log[i]
             e == [at |-> i, key |-> KeysBy(keyColumns)[c.row], row |-> c.row, op |-> c.op,
                   val |-> c.val, lsn |-> c.lsn, tomb |-> FALSE]
         IN  Published(i, keyColumns) =
               {e} \cup (IF c.op = "d"
                         THEN {[e EXCEPT !.tomb = TRUE, !.row = Absent, !.val = Absent]} ELSE {})
<1> DEFINE c == log[i]
<1> DEFINE row == decoded[i]
<1> DEFINE t == TableOf(c.row)
<1> DEFINE columns == keyColumns[t]
<1>1. c.row \in Rows /\ c.op \in {"c", "u", "d"} /\ Recorded(i)
  BY OnRecord
<1>2. t \in Tables
  BY <1>1, RowShape
<1>3. PICK image : KeyImage(i, image)
  BY KeyImageIs
<1> HIDE DEF t
<1>4. /\ image = (IF c.op = "d" THEN row.before ELSE row.after)
      /\ image \notin {None, NoFields} /\ (c.op = "d" => row.after = None)
      /\ row.action = ActionOf[c.op]
      /\ ToSet(PrimaryKeys[t]) \subseteq DOMAIN image /\ Restrict(image, ToSet(PrimaryKeys[t])) = c.row
      /\ \A k \in ToSet(PrimaryKeys[t]) : image[k] = c.row[k]
      /\ c.op # "d" => Restrict(image, ToSet(OtherColumns[t])) = c.val
  BY <1>3 DEF KeyImage, t
<1>5. Holds(image, columns) /\ Holds(image, PrimaryKeys[t])
  BY <1>2, <1>4, KeyColumns DEF Holds
<1>6. Key(image, columns) = Key(c.row, columns)
  <2>1. \A j \in DOMAIN columns : image[columns[j]] = c.row[columns[j]]
    BY <1>2, <1>4, KeyColumns
  <2> HIDE DEF columns
  <2> QED BY <2>1, SameKey
<1>7. KeyBytes(row, columns) = Key(c.row, columns)
  <2>1. (IF row.after \notin {None, NoFields} THEN row.after ELSE row.before) = image
    BY <1>4
  <2> HIDE DEF row, columns, c
  <2> QED BY <1>5, <1>6, <2>1, Zenon DEF KeyBytes
<1>8. KeysBy(keyColumns)[c.row] = Key(c.row, columns)
  BY <1>1 DEF KeysBy, t
<1>9. (row.action = "DELETE" <=> c.op = "d") /\ OpFor[row.action] = c.op
  BY <1>1, <1>4 DEF ActionOf, OpFor
<1>10. c.op = "d" => c.val = Absent
  BY <1>1 DEF Recorded
<1> DEFINE e == [at |-> i, key |-> KeysBy(keyColumns)[c.row], row |-> c.row, op |-> c.op,
                 val |-> c.val, lsn |-> c.lsn, tomb |-> FALSE]
<1> DEFINE change ==
        [at |-> i, lsn |-> c.lsn, op |-> OpFor[row.action], tomb |-> FALSE,
         key |-> KeyBytes(row, columns),
         row |-> IF Holds(image, PrimaryKeys[t])
                 THEN Restrict(image, ToSet(PrimaryKeys[t])) ELSE Absent,
         val |-> IF row.action = "DELETE" THEN Absent
                 ELSE Restrict(image, ToSet(OtherColumns[t]))]
<1>11. Published(i, keyColumns) =
         {change} \cup (IF row.action = "DELETE"
                        THEN {[change EXCEPT !.tomb = TRUE, !.row = Absent, !.val = Absent]} ELSE {})
  <2>1. (IF row.action = "DELETE" THEN row.before ELSE row.after) = image
    BY <1>4, <1>9
  <2> QED BY <2>1 DEF Published, t
<1>12. change = e
  <2>1. (IF Holds(image, PrimaryKeys[t]) THEN Restrict(image, ToSet(PrimaryKeys[t])) ELSE Absent) = c.row
    BY <1>4, <1>5
  <2>2. (IF row.action = "DELETE" THEN Absent ELSE Restrict(image, ToSet(OtherColumns[t]))) = c.val
    BY <1>4, <1>9, <1>10
  <2> HIDE DEF row, columns
  <2> QED BY <1>7, <1>8, <1>9, <2>1, <2>2
<1> HIDE DEF change, e
<1>13. Published(i, keyColumns) =
         {e} \cup (IF c.op = "d"
                   THEN {[e EXCEPT !.tomb = TRUE, !.row = Absent, !.val = Absent]} ELSE {})
  BY <1>9, <1>11, <1>12
<1> QED BY <1>13 DEF e

-----------------------------------------------------------------------------
(* The properties.                                                          *)

\* The record keys of Events are the primary key's, and an old image has at least
\* that much.
KeyedByPrimaryKey == KeyOf = KeysBy(PrimaryKeys) /\ NarrowRows = {}

LEMMA EveryLineDecodes ==
  ASSUME PlainTexts, CaptureInv
  PROVE  CaptureTypeOK
<1>1. ASSUME NEW i \in DOMAIN log,
             NEW image \in {decoded[i].before, decoded[i].after} \ {None}
      PROVE  Holds(image, PrimaryKeys[TableOf(log[i].row)])
  <2> DEFINE c == log[i]
  <2> DEFINE t == TableOf(c.row)
  <2> DEFINE key == ToSet(PrimaryKeys[t])
  <2>1. c.row \in Rows /\ c.op \in {"c", "u", "d"}
    BY OnRecord
  <2>2. c.row \in [key -> Words]
    BY <2>1, RowShape
  <2>3. ReadBack(i)
    BY Decodes
  <2>4. image = c.row \/ (image = OldImage(i) /\ c.op \in {"u", "d"})
        \/ (image = NewImage(i) /\ c.op \in {"c", "u"})
    BY <2>1, <2>3 DEF ReadBack
  <2>5. key \subseteq DOMAIN image
    <3>1. CASE image = c.row
      BY <2>2, <3>1
    <3>2. CASE image = OldImage(i) /\ c.op \in {"u", "d"}
      BY <3>2, ImagesWhole DEF RowImage
    <3>3. CASE image = NewImage(i) /\ c.op \in {"c", "u"}
      BY <3>3, ImagesWhole DEF RowImage
    <3> QED BY <2>4, <3>1, <3>2, <3>3
  <2> QED BY <2>5 DEF Holds
<1>2. ASSUME NEW i \in DOMAIN log PROVE decoded[i].action \in DOMAIN OpFor
  <2>1. log[i].op \in {"c", "u", "d"}
    BY OnRecord
  <2>2. decoded[i].action = ActionOf[log[i].op]
    BY KeyImageIs DEF KeyImage
  <2> QED BY <2>1, <2>2 DEF ActionOf, OpFor
<1> QED BY <1>1, <1>2 DEF CaptureTypeOK, CaptureInv

\* Every line the slot prints decodes, and every image in it carries its row's primary
\* key (parse_row of decode.py), whatever the identity and however long the stream,
\* when no text of a row holds a marker of the format.
THEOREM EveryLineIsRead == PlainTexts /\ CaptureSpec => []CaptureTypeOK
<1> SUFFICES ASSUME PlainTexts PROVE CaptureSpec => []CaptureTypeOK
  OBVIOUS
<1>1. CaptureInv => CaptureTypeOK
  BY EveryLineDecodes
<1> QED BY <1>1, CaptureInvHolds, PTL

\* The record of a change under a key, and its tombstone.
ChangeUnder(i, c, key) ==
  [at |-> i, key |-> key, row |-> c.row, op |-> c.op, val |-> c.val, lsn |-> c.lsn, tomb |-> FALSE]

TombstoneUnder(i, c, key) ==
  [at |-> i, key |-> key, row |-> Absent, op |-> c.op, val |-> Absent, lsn |-> c.lsn, tomb |-> TRUE]

LEMMA OneByOne ==
  ASSUME NEW e, NEW b, NEW r, NEW v
  PROVE  [e EXCEPT !.tomb = b, !.row = r, !.val = v]
         = [[[e EXCEPT !.tomb = b] EXCEPT !.row = r] EXCEPT !.val = v]
OBVIOUS

LEMMA ItsTombstone ==
  ASSUME NEW i, NEW c, NEW key
  PROVE  [ChangeUnder(i, c, key) EXCEPT !.tomb = TRUE, !.row = Absent, !.val = Absent]
         = TombstoneUnder(i, c, key)
<1> DEFINE r == c.row
<1> DEFINE o == c.op
<1> DEFINE v == c.val
<1> DEFINE l == c.lsn
<1> DEFINE no == FALSE
<1> DEFINE yes == TRUE
<1> DEFINE e == ChangeUnder(i, c, key)
<1> DEFINE e1 == [e EXCEPT !.tomb = yes]
<1> DEFINE e2 == [e1 EXCEPT !.row = Absent]
<1> DEFINE e3 == [e2 EXCEPT !.val = Absent]
<1>1. e = [at |-> i, key |-> key, row |-> r, op |-> o, val |-> v, lsn |-> l, tomb |-> no]
  BY Zenon DEF ChangeUnder
<1>2. TombstoneUnder(i, c, key) =
        [at |-> i, key |-> key, row |-> Absent, op |-> o, val |-> Absent, lsn |-> l, tomb |-> yes]
  BY Zenon DEF TombstoneUnder
<1> HIDE DEF r, o, v, l, no, yes, e
<1>3. e1 = [at |-> i, key |-> key, row |-> r, op |-> o, val |-> v, lsn |-> l, tomb |-> yes]
  BY <1>1
<1> HIDE DEF e1
<1>4. e2 = [at |-> i, key |-> key, row |-> Absent, op |-> o, val |-> v, lsn |-> l, tomb |-> yes]
  BY <1>3
<1> HIDE DEF e2
<1>5. e3 = [at |-> i, key |-> key, row |-> Absent, op |-> o, val |-> Absent, lsn |-> l, tomb |-> yes]
  BY <1>4
<1> HIDE DEF e3
<1>6. e3 = [e EXCEPT !.tomb = yes, !.row = Absent, !.val = Absent]
  BY OneByOne, Zenon DEF e3, e2, e1
<1>7. [e EXCEPT !.tomb = yes, !.row = Absent, !.val = Absent] = TombstoneUnder(i, c, key)
  BY <1>2, <1>5, <1>6, Zenon
<1> QED BY <1>7, Zenon DEF e, yes

LEMMA UnderAnotherKey ==
  ASSUME NEW i, NEW c, NEW key, NEW other
  PROVE  [ChangeUnder(i, c, key) EXCEPT !.key = other] = ChangeUnder(i, c, other)
<1> DEFINE r == c.row
<1> DEFINE o == c.op
<1> DEFINE v == c.val
<1> DEFINE l == c.lsn
<1> DEFINE no == FALSE
<1> DEFINE e == ChangeUnder(i, c, key)
<1>1. /\ e = [at |-> i, key |-> key, row |-> r, op |-> o, val |-> v, lsn |-> l, tomb |-> no]
      /\ ChangeUnder(i, c, other) =
           [at |-> i, key |-> other, row |-> r, op |-> o, val |-> v, lsn |-> l, tomb |-> no]
  BY Zenon DEF ChangeUnder
<1> HIDE DEF r, o, v, l, no, e
<1>2. [e EXCEPT !.key = other] = ChangeUnder(i, c, other)
  BY <1>1
<1> QED BY <1>2 DEF e

LEMMA TombstoneUnderAnotherKey ==
  ASSUME NEW i, NEW c, NEW key, NEW other
  PROVE  [TombstoneUnder(i, c, key) EXCEPT !.key = other] = TombstoneUnder(i, c, other)
<1> DEFINE o == c.op
<1> DEFINE l == c.lsn
<1> DEFINE yes == TRUE
<1> DEFINE k == TombstoneUnder(i, c, key)
<1>1. /\ k = [at |-> i, key |-> key, row |-> Absent, op |-> o, val |-> Absent, lsn |-> l,
              tomb |-> yes]
      /\ TombstoneUnder(i, c, other) =
           [at |-> i, key |-> other, row |-> Absent, op |-> o, val |-> Absent, lsn |-> l, tomb |-> yes]
  BY Zenon DEF TombstoneUnder
<1> HIDE DEF o, l, yes, k
<1>2. [k EXCEPT !.key = other] = TombstoneUnder(i, c, other)
  BY <1>1
<1> QED BY <1>2 DEF k

LEMMA EnvelopesFollow ==
  ASSUME PlainTexts, KeyedByPrimaryKey, CaptureInv
  PROVE  EnvelopesAreTheStream
<1> SUFFICES ASSUME NEW i \in DOMAIN log
             PROVE  /\ Published(i, PrimaryKeys) = Envelope(i, log[i])
                    /\ Published(i, Overridden) = KeyedByOrder(i)
  BY DEF EnvelopesAreTheStream
<1> DEFINE c == log[i]
<1>1. ASSUME NEW keyColumns \in {PrimaryKeys, Overridden}
      PROVE  LET key == KeysBy(keyColumns)[c.row]
             IN  Published(i, keyColumns) =
                   {ChangeUnder(i, c, key)} \cup
                   (IF c.op = "d" THEN {TombstoneUnder(i, c, key)} ELSE {})
  <2> DEFINE key == KeysBy(keyColumns)[c.row]
  <2> DEFINE e == ChangeUnder(i, c, key)
  <2>1. [e EXCEPT !.tomb = TRUE, !.row = Absent, !.val = Absent] = TombstoneUnder(i, c, key)
    BY ItsTombstone, Zenon
  <2>2. Published(i, keyColumns) =
          {e} \cup (IF c.op = "d"
                    THEN {[e EXCEPT !.tomb = TRUE, !.row = Absent, !.val = Absent]} ELSE {})
    BY PublishedIs DEF ChangeUnder
  <2> HIDE DEF e
  <2> QED BY <2>1, <2>2 DEF e
<1> DEFINE mine == KeyOf[c.row]
<1> DEFINE other == KeysBy(Overridden)[c.row]
<1>2. Envelope(i, c) = {ChangeUnder(i, c, mine)} \cup
                       (IF c.op = "d" THEN {TombstoneUnder(i, c, mine)} ELSE {})
  <2>1. ChangeRecord(i, c) = ChangeUnder(i, c, mine)
    BY DEF ChangeRecord, ImageRow, KeyedByPrimaryKey, ChangeUnder
  <2>2. c.op = "d" => TombstoneRecord(i, c) = TombstoneUnder(i, c, mine)
    BY DEF TombstoneRecord, TombstoneUnder
  <2> QED BY <2>1, <2>2 DEF Envelope
<1>3. KeyedByOrder(i) = {ChangeUnder(i, c, other)} \cup
                        (IF c.op = "d" THEN {TombstoneUnder(i, c, other)} ELSE {})
  <2> DEFINE e == ChangeUnder(i, c, mine)
  <2> DEFINE k == TombstoneUnder(i, c, mine)
  <2>1. [e EXCEPT !.key = other] = ChangeUnder(i, c, other)
        /\ [k EXCEPT !.key = other] = TombstoneUnder(i, c, other)
    <3> HIDE DEF c, mine, other
    <3>1. [ChangeUnder(i, c, mine) EXCEPT !.key = other] = ChangeUnder(i, c, other)
      BY UnderAnotherKey
    <3>2. [TombstoneUnder(i, c, mine) EXCEPT !.key = other] = TombstoneUnder(i, c, other)
      BY TombstoneUnderAnotherKey
    <3> QED BY <3>1, <3>2 DEF c
  <2>2. KeyedByOrder(i) = {[f EXCEPT !.key = other] : f \in Envelope(i, c)}
    BY DEF KeyedByOrder
  <2> HIDE DEF e, k, other
  <2>3. CASE c.op = "d"
    <3>1. Envelope(i, c) = {e, k}
      BY <1>2, <2>3 DEF e, k
    <3>2. KeyedByOrder(i) = {[e EXCEPT !.key = other], [k EXCEPT !.key = other]}
      BY <2>2, <3>1
    <3> QED BY <2>1, <2>3, <3>2
  <2>4. CASE c.op # "d"
    <3>1. Envelope(i, c) = {e}
      BY <1>2, <2>4 DEF e
    <3>2. KeyedByOrder(i) = {[e EXCEPT !.key = other]}
      BY <2>2, <3>1
    <3> QED BY <2>1, <2>4, <3>2
  <2> QED BY <2>3, <2>4
<1>4. mine = KeysBy(PrimaryKeys)[c.row]
  BY DEF KeyedByPrimaryKey
<1>5. Published(i, PrimaryKeys) = Envelope(i, c)
  BY <1>1, <1>2, <1>4
<1>6. Published(i, Overridden) = KeyedByOrder(i)
  BY <1>1, <1>3
<1> QED BY <1>5, <1>6

\* The records the code reads off the slot (events.py, envelope) are the ones the other
\* modules start from, keys, images and tombstones, under the primary key and under
\* the override of message.key.columns.
THEOREM ReaderPublishesTheStream ==
  PlainTexts /\ KeyedByPrimaryKey /\ CaptureSpec => []EnvelopesAreTheStream
<1> SUFFICES ASSUME PlainTexts, KeyedByPrimaryKey PROVE CaptureSpec => []EnvelopesAreTheStream
  OBVIOUS
<1>1. CaptureInv => EnvelopesAreTheStream
  BY EnvelopesFollow
<1> QED BY <1>1, CaptureInvHolds, PTL

-----------------------------------------------------------------------------
(* What the summary says.                                                   *)

LEMMA LargerSum ==
  ASSUME NEW D, IsFiniteSet(D), D # {}, NEW W, NEW V,
         \A x \in D : W[x] \in Nat /\ V[x] \in Nat /\ W[x] < V[x],
         NEW f, SumsUp(f, W, D), NEW g, SumsUp(g, V, D)
  PROVE  f[D] < g[D]
<1> DEFINE B == {s \in SUBSET D : s # {} /\ ~(f[s] < g[s])}
<1> SUFFICES ASSUME B # {} PROVE FALSE
  OBVIOUS
<1>1. PICK s \in B : \A t \in SUBSET s : t # s => t \notin B
  <2>1. B \in SUBSET (SUBSET D)
    OBVIOUS
  <2> HIDE DEF B
  <2> QED BY <2>1, MinimalSet
<1>2. PICK x \in s : x \in D
  BY <1>1
<1> DEFINE t == s \ {x}
<1>3. /\ f[{}] = 0 /\ f[s] \in Nat /\ f[s] = W[x] + f[t] /\ f[t] \in Nat
      /\ g[{}] = 0 /\ g[s] \in Nat /\ g[s] = V[x] + g[t] /\ g[t] \in Nat
  <2>1. s \in SUBSET D /\ t \in SUBSET D
    BY <1>1
  <2> HIDE DEF t, B
  <2>2. \A y \in D : W[y] \in Nat
    OBVIOUS
  <2>3. \A y \in D : V[y] \in Nat
    OBVIOUS
  <2>4. f[{}] = 0 /\ \A r \in SUBSET D : f[r] \in Nat /\ \A y \in r : f[r] = W[y] + f[r \ {y}]
    BY <2>2, SumTakesAny
  <2>5. g[{}] = 0 /\ \A r \in SUBSET D : g[r] \in Nat /\ \A y \in r : g[r] = V[y] + g[r \ {y}]
    BY <2>3, SumTakesAny
  <2> QED BY <1>2, <2>1, <2>4, <2>5 DEF t
<1>4. W[x] \in Nat /\ V[x] \in Nat /\ W[x] < V[x]
  BY <1>2
<1>5. t = {} \/ f[t] < g[t]
  <2>1. t \in SUBSET s /\ t # s /\ t \in SUBSET D
    BY <1>1, <1>2
  <2> QED BY <1>1, <2>1
<1>6. f[t] <= g[t]
  BY <1>3, <1>5
<1>7. f[s] < g[s]
  <2> HIDE DEF t, B
  <2> QED BY <1>3, <1>4, <1>6
<1> QED BY <1>1, <1>7

\* The sums of the summary and of the property.
WidthsFound(rows, S) == [i \in S |-> Cardinality(DOMAIN rows[i].before)]

LEMMA SumOfFound ==
  ASSUME NEW rows, NEW S, IsFiniteSet(S), NEW b, SumsUp(b, WidthsFound(rows, S), S)
  PROVE  MapThenSumSet(LAMBDA i : Cardinality(DOMAIN rows[i].before), S) = b[S]
<1> DEFINE W == WidthsFound(rows, S)
<1> DEFINE Eq(f) ==
      f = [s \in SUBSET S |->
             IF s = {} THEN 0 ELSE Cardinality(DOMAIN rows[Pick(s)].before) + f[s \ {Pick(s)}]]
<1> DEFINE sum == CHOOSE f : Eq(f)
<1>1. MapThenSumSet(LAMBDA i : Cardinality(DOMAIN rows[i].before), S) = sum[S]
  BY DEF MapThenSumSet, MapThenFoldSet, Pick
<1>2. \A s \in SUBSET S : s # {} => Cardinality(DOMAIN rows[Pick(s)].before) = W[Pick(s)]
  BY PickIn DEF WidthsFound
<1>3. ASSUME NEW f PROVE Eq(f) <=> SumsUp(f, W, S)
  <2>1. [s \in SUBSET S |->
             IF s = {} THEN 0 ELSE Cardinality(DOMAIN rows[Pick(s)].before) + f[s \ {Pick(s)}]]
        = [s \in SUBSET S |-> IF s = {} THEN 0 ELSE W[Pick(s)] + f[s \ {Pick(s)}]]
    BY <1>2
  <2> QED BY <2>1 DEF SumsUp
<1> HIDE DEF Eq
<1>4. Eq(sum)
  BY <1>3
<1>5. SumsUp(sum, W, S)
  BY <1>3, <1>4
<1> HIDE DEF sum, W
<1>6. sum[S] = b[S]
  BY <1>5, SumsAgree DEF W
<1> QED BY <1>1, <1>6

WidthsOld(S) == [i \in S |-> Cardinality(DOMAIN OldImage(i))]

LEMMA SumOfOld ==
  ASSUME NEW S, IsFiniteSet(S), NEW b, SumsUp(b, WidthsOld(S), S)
  PROVE  MapThenSumSet(LAMBDA i : Cardinality(DOMAIN OldImage(i)), S) = b[S]
<1> DEFINE W == WidthsOld(S)
<1> DEFINE Eq(f) ==
      f = [s \in SUBSET S |->
             IF s = {} THEN 0 ELSE Cardinality(DOMAIN OldImage(Pick(s))) + f[s \ {Pick(s)}]]
<1> DEFINE sum == CHOOSE f : Eq(f)
<1>1. MapThenSumSet(LAMBDA i : Cardinality(DOMAIN OldImage(i)), S) = sum[S]
  BY DEF MapThenSumSet, MapThenFoldSet, Pick
<1>2. \A s \in SUBSET S : s # {} => Cardinality(DOMAIN OldImage(Pick(s))) = W[Pick(s)]
  BY PickIn DEF WidthsOld
<1>3. ASSUME NEW f PROVE Eq(f) <=> SumsUp(f, W, S)
  <2>1. [s \in SUBSET S |->
             IF s = {} THEN 0 ELSE Cardinality(DOMAIN OldImage(Pick(s))) + f[s \ {Pick(s)}]]
        = [s \in SUBSET S |-> IF s = {} THEN 0 ELSE W[Pick(s)] + f[s \ {Pick(s)}]]
    BY <1>2
  <2> QED BY <2>1 DEF SumsUp
<1> HIDE DEF Eq
<1>4. Eq(sum)
  BY <1>3
<1>5. SumsUp(sum, W, S)
  BY <1>3, <1>4
<1> HIDE DEF sum, W
<1>6. sum[S] = b[S]
  BY <1>5, SumsAgree DEF W
<1> QED BY <1>1, <1>6

\* The updates and deletes, and those the reader found an old row in.
Changed == {i \in DOMAIN log : log[i].op # "c"}

Found == {i \in Changed : decoded[i].before \notin {None, NoFields}}

LEMMA SummaryIs ==
  ASSUME CaptureInv, PlainTexts
  PROVE  summarise(decoded) =
           [before_present |-> Cardinality(Found), before_absent |-> Cardinality(Changed \ Found),
            before_fields |-> MapThenSumSet(LAMBDA i : Cardinality(DOMAIN decoded[i].before), Found)]
<1> DEFINE Of == {i \in DOMAIN decoded : decoded[i].action \in {"UPDATE", "DELETE"}}
<1> DEFINE With == {i \in Of : decoded[i].before \notin {None, NoFields}}
<1>1. DOMAIN decoded = DOMAIN log
  BY DEF CaptureInv, IsList, SourceTypeOK
<1>2. ASSUME NEW i \in DOMAIN log
      PROVE  decoded[i].action \in {"UPDATE", "DELETE"} <=> log[i].op # "c"
  <2>1. log[i].op \in {"c", "u", "d"}
    BY OnRecord
  <2>2. decoded[i].action = ActionOf[log[i].op]
    BY KeyImageIs DEF KeyImage
  <2> QED BY <2>1, <2>2 DEF ActionOf
<1>3. Of = Changed
  BY <1>1, <1>2 DEF Changed
<1> HIDE DEF Of
<1>4. With = Found
  BY <1>3 DEF Found
<1> HIDE DEF With
<1>5. summarise(decoded) =
        [before_present |-> Cardinality(With), before_absent |-> Cardinality(Of \ With),
         before_fields |-> MapThenSumSet(LAMBDA i : Cardinality(DOMAIN decoded[i].before), With)]
  BY Zenon DEF summarise, With, Of
<1> QED BY <1>3, <1>4, <1>5, Zenon

\* The old row the reader finds of a change: the whole of it, its key, or none.
LEMMA BeforeIs ==
  ASSUME CaptureInv, PlainTexts, NEW i \in Changed
  PROVE  /\ identity = "FULL" =>
              decoded[i].before = OldImage(i) /\ OldImage(i) \notin {None, NoFields}
         /\ identity # "FULL" /\ log[i].op = "d" =>
              decoded[i].before = log[i].row /\ log[i].row \notin {None, NoFields}
         /\ identity # "FULL" /\ log[i].op # "d" => decoded[i].before = None
<1> DEFINE c == log[i]
<1> DEFINE t == TableOf(c.row)
<1> DEFINE key == ToSet(PrimaryKeys[t])
<1> DEFINE old == OldImage(i)
<1>1. i \in DOMAIN log /\ c.op \in {"u", "d"} /\ c.row \in Rows
  <2>1. i \in DOMAIN log /\ c.op # "c"
    BY DEF Changed
  <2> QED BY <2>1, OnRecord
<1>2. t \in Tables /\ c.row \in [key -> Words]
  BY <1>1, RowShape
<1>3. PICK k : k \in key
  BY <1>2, TableSets DEF Tables
<1>4. /\ Clean(old, ColumnsOf(t)) /\ Restrict(old, ToSet(ColumnsOf(t))) = old
      /\ Clean(old, PrimaryKeys[t]) /\ Restrict(old, key) = c.row
      /\ key \subseteq DOMAIN old
  <2>1. RowImage(old, c.row, AsOf(i - 1)[c.row])
    BY <1>1, ImagesWhole
  <2> HIDE DEF old
  <2> QED BY <2>1 DEF RowImage
<1>5. decoded[i].before = IF identity = "FULL" THEN old ELSE IF c.op = "d" THEN c.row ELSE None
  <2>1. ReadBack(i)
    BY <1>1, Decodes
  <2> QED BY <1>1, <2>1 DEF ReadBack
<1> HIDE DEF old
<1>6. old \notin {None, NoFields}
  <2>1. old # None
    BY <1>4, CleanImage
  <2> QED BY <1>3, <1>4, <2>1, NotEmptyImage
<1>7. c.row \notin {None, NoFields}
  <2>1. c.row # None
    BY <1>4, CleanImage
  <2>2. k \in DOMAIN c.row
    BY <1>2, <1>3
  <2> QED BY <2>1, <2>2, NotEmptyImage
<1> QED BY <1>5, <1>6, <1>7 DEF old

LEMMA ChangedFinite ==
  ASSUME CaptureInv
  PROVE  /\ IsFiniteSet(Changed) /\ Cardinality(Changed) \in Nat
         /\ Found \subseteq Changed /\ Changed \subseteq DOMAIN log
         /\ IsFiniteSet(Changed \ Found) /\ IsFiniteSet(Found)
<1>1. log \in Seq(Changes)
  BY DEF CaptureInv, SourceTypeOK
<1>2. DOMAIN log = 1..Len(log) /\ Len(log) \in Nat
  BY <1>1
<1>3. IsFiniteSet(DOMAIN log)
  BY <1>2, FS_Interval
<1>4. Found \subseteq Changed /\ Changed \subseteq DOMAIN log
  BY DEF Found, Changed
<1>5. IsFiniteSet(Changed)
  BY <1>3, <1>4, FS_Subset
<1>6. IsFiniteSet(Changed \ Found) /\ IsFiniteSet(Found)
  <2>1. Changed \ Found \subseteq Changed
    OBVIOUS
  <2> QED BY <1>4, <1>5, <2>1, FS_Subset
<1> QED BY <1>4, <1>5, <1>6, FS_CardinalityType

LEMMA TwoAndThree ==
  ASSUME NEW a, NEW b, NEW c, a # b, c \notin {a, b}
  PROVE  Cardinality({a, b}) = 2 /\ Cardinality({a, b, c}) = 3
<1>1. IsFiniteSet({a}) /\ Cardinality({a}) = 1
  BY FS_Singleton
<1>2. IsFiniteSet({a} \cup {b}) /\ Cardinality({a} \cup {b}) = 2
  <2>1. b \notin {a}
    OBVIOUS
  <2> QED BY <1>1, <2>1, FS_AddElement
<1>3. {a} \cup {b} = {a, b} /\ {a, b} \cup {c} = {a, b, c}
  OBVIOUS
<1>4. IsFiniteSet({a, b}) /\ Cardinality({a, b}) = 2
  BY <1>2, <1>3
<1>5. Cardinality({a, b} \cup {c}) = 3
  BY <1>4, FS_AddElement
<1> QED BY <1>3, <1>4, <1>5

\* The widths of the rows found, and of the rows there were.
WidthFound == MapThenSumSet(LAMBDA i : Cardinality(DOMAIN decoded[i].before), Found)

WidthThere == MapThenSumSet(LAMBDA i : Cardinality(DOMAIN OldImage(i)), Changed)

\* Under FULL every old row is found, whole.
LEMMA FullFindsAll ==
  ASSUME CaptureInv, PlainTexts, identity = "FULL"
  PROVE  Found = Changed /\ WidthFound = WidthThere
<1>1. \A i \in Changed : decoded[i].before = OldImage(i) /\ decoded[i].before \notin {None, NoFields}
  BY BeforeIs
<1>2. Found = Changed
  BY <1>1 DEF Found
<1>3. WidthsFound(decoded, Changed) = WidthsOld(Changed)
  BY <1>1 DEF WidthsFound, WidthsOld
<1>4. IsFiniteSet(Changed)
  BY ChangedFinite
<1>5. PICK b : SumsUp(b, WidthsOld(Changed), Changed)
  BY <1>4, SumExists
<1>6. MapThenSumSet(LAMBDA i : Cardinality(DOMAIN OldImage(i)), Changed) = b[Changed]
  BY <1>4, <1>5, SumOfOld
<1>7. SumsUp(b, WidthsFound(decoded, Changed), Changed)
  BY <1>3, <1>5
<1>8. MapThenSumSet(LAMBDA i : Cardinality(DOMAIN decoded[i].before), Changed) = b[Changed]
  BY <1>4, <1>7, SumOfFound
<1>9. WidthThere = b[Changed]
  BY <1>6, Zenon DEF WidthThere
<1>10. WidthFound = b[Changed]
  BY <1>2, <1>8, Zenon DEF WidthFound
<1> QED BY <1>2, <1>9, <1>10

\* Under another identity only deletes, and of them the key, which is narrower.
LEMMA OthersFindKeys ==
  ASSUME CaptureInv, PlainTexts, identity # "FULL"
  PROVE  /\ Found = {i \in DOMAIN log : log[i].op = "d"}
         /\ Found = Changed /\ WidthFound = WidthThere => Changed = {}
<1>1. Found = {i \in DOMAIN log : log[i].op = "d"}
  <2>1. \A i \in Changed : IF log[i].op = "d" THEN i \in Found ELSE i \notin Found
    BY BeforeIs DEF Found
  <2>2. \A i \in DOMAIN log : log[i].op = "d" => i \in Changed
    BY DEF Changed
  <2> QED BY <2>1, <2>2, ChangedFinite
<1>2. ASSUME Found = Changed, Changed # {}
      PROVE  WidthFound # WidthThere
  <2>1. ASSUME NEW i \in Changed
        PROVE  Cardinality(DOMAIN decoded[i].before) = 2 /\ Cardinality(DOMAIN OldImage(i)) = 3
    <3> DEFINE c == log[i]
    <3>1. i \in DOMAIN log /\ c.op = "d"
      BY <1>1, <1>2
    <3>2. c.row \in Rows /\ TableOf(c.row) = "order_item"
      BY <3>1, OnRecord DEF Recorded
    <3>3. c.row \in [{"order_id", "line_no"} -> Words]
      BY <3>2, RowShape, TableSets
    <3>4. decoded[i].before = c.row
      BY <3>1, BeforeIs
    <3>5. DOMAIN decoded[i].before = {"order_id", "line_no"}
      BY <3>3, <3>4
    <3>6. RowImage(OldImage(i), c.row, AsOf(i - 1)[c.row])
      BY <3>1, ImagesWhole
    <3>7. DOMAIN OldImage(i) = {"order_id", "line_no", "qty"}
      <4>1. DOMAIN OldImage(i) = ToSet(PrimaryKeys["order_item"]) \cup ToSet(OtherColumns["order_item"])
        BY <3>2, <3>6 DEF RowImage
      <4> QED BY <4>1, TableSets
    <3>8. Cardinality({"order_id", "line_no"}) = 2 /\ Cardinality({"order_id", "line_no", "qty"}) = 3
      <4>1. "order_id" # "line_no" /\ "qty" \notin {"order_id", "line_no"}
        OBVIOUS
      <4> QED BY <4>1, TwoAndThree
    <3> QED BY <3>5, <3>7, <3>8
  <2> DEFINE W == WidthsFound(decoded, Changed)
  <2> DEFINE V == WidthsOld(Changed)
  <2>2. \A i \in Changed : W[i] \in Nat /\ V[i] \in Nat /\ W[i] < V[i]
    BY <2>1 DEF WidthsFound, WidthsOld
  <2>3. IsFiniteSet(Changed)
    BY ChangedFinite
  <2>4. PICK f : SumsUp(f, W, Changed)
    BY <2>3, SumExists
  <2>5. PICK g : SumsUp(g, V, Changed)
    BY <2>3, SumExists
  <2>6. MapThenSumSet(LAMBDA i : Cardinality(DOMAIN decoded[i].before), Changed) = f[Changed]
    BY <2>3, <2>4, SumOfFound
  <2>7. MapThenSumSet(LAMBDA i : Cardinality(DOMAIN OldImage(i)), Changed) = g[Changed]
    BY <2>3, <2>5, SumOfOld
  <2>8. WidthFound = f[Changed]
    BY <1>2, <2>6, Zenon DEF WidthFound
  <2>9. WidthThere = g[Changed]
    BY <2>7, Zenon DEF WidthThere
  <2> HIDE DEF W, V
  <2>10. f[Changed] < g[Changed]
    BY <1>2, <2>2, <2>3, <2>4, <2>5, LargerSum
  <2>11. f[Changed] # g[Changed]
    <3>1. f[Changed] \in Nat /\ g[Changed] \in Nat
      <4>1. \A i \in Changed : W[i] \in Nat
        BY <2>2
      <4>2. \A i \in Changed : V[i] \in Nat
        BY <2>2
      <4>3. f[Changed] \in Nat
        BY <2>3, <2>4, <4>1, SumTakesAny
      <4>4. g[Changed] \in Nat
        BY <2>3, <2>5, <4>2, SumTakesAny
      <4> QED BY <4>3, <4>4
    <3> QED BY <2>10, <3>1
  <2> QED BY <2>8, <2>9, <2>11
<1> QED BY <1>1, <1>2

-----------------------------------------------------------------------------
(* Walking back.                                                            *)

\* The table before the i-th change, from the one behind it.
Undo(i, behind) ==
  LET row == decoded[i]
      r == log[i].row
      other == ToSet(OtherColumns[TableOf(r)])
  IN  [behind EXCEPT ![r] =
         IF row.action = "INSERT" THEN Absent
         ELSE IF Holds(row.before, OtherColumns[TableOf(r)])
         THEN Restrict(row.before, other)
         ELSE @]

\* A change whose old row was found whole can be undone.
LEMMA UndoIsRight ==
  ASSUME CaptureInv, PlainTexts, NEW i \in DOMAIN log,
         log[i].op # "c" => decoded[i].before = OldImage(i)
  PROVE  Undo(i, AsOf(i)) = AsOf(i - 1)
<1> DEFINE c == log[i]
<1> DEFINE r == c.row
<1> DEFINE t == TableOf(r)
<1> DEFINE other == ToSet(OtherColumns[t])
<1> DEFINE before == decoded[i].before
<1> DEFINE v == AsOf(i - 1)[r]
<1>1. r \in Rows /\ c.op \in {"c", "u", "d"} /\ Recorded(i) /\ i \in Nat /\ i - 1 \in Nat
  BY OnRecord
<1>2. decoded[i].action = ActionOf[c.op]
  <2>1. ReadBack(i)
    BY Decodes
  <2> QED BY <2>1 DEF ReadBack
<1>3. AsOf(i) = [q \in Rows |-> ValueAt(log, i, q)]
      /\ AsOf(i - 1) = [q \in Rows |-> ValueAt(log, i - 1, q)]
  BY AsOfValues
<1>4. \A q \in Rows : q # r => ValueAt(log, i, q) = ValueAt(log, i - 1, q)
  <2>1. \A q : ValueAt(log, (i - 1) + 1, q) =
                 IF log[(i - 1) + 1].row = q THEN log[(i - 1) + 1].val ELSE ValueAt(log, i - 1, q)
    BY <1>1, ValueAtNext
  <2>2. (i - 1) + 1 = i
    BY <1>1
  <2> QED BY <2>1, <2>2
<1>5. CASE c.op = "c"
  <2>1. decoded[i].action = "INSERT"
    BY <1>2, <1>5 DEF ActionOf
  <2>2. v = Absent
    BY <1>1, <1>5 DEF Recorded
  <2>3. Undo(i, AsOf(i)) = [AsOf(i) EXCEPT ![r] = v]
    <3> HIDE DEF v
    <3> QED BY <2>1, <2>2 DEF Undo
  <2> QED BY <1>1, <1>3, <1>4, <2>3
<1>6. CASE c.op # "c"
  <2>1. decoded[i].action # "INSERT"
    BY <1>1, <1>2, <1>6 DEF ActionOf
  <2>2. before = OldImage(i) /\ before # None
    <3>1. i \in Changed
      BY <1>6 DEF Changed
    <3>2. before = OldImage(i)
      BY <1>6
    <3>3. before # None
      <4>1. RowImage(OldImage(i), r, v)
        BY <1>1, <1>6, ImagesWhole
      <4>2. Clean(OldImage(i), ColumnsOf(t)) /\ Restrict(OldImage(i), ToSet(ColumnsOf(t))) = OldImage(i)
        BY <4>1 DEF RowImage
      <4>3. OldImage(i) # None
        BY <4>2, CleanImage
      <4> QED BY <3>2, <4>3
    <3> QED BY <3>2, <3>3
  <2>3. Restrict(before, other) = v /\ other \subseteq DOMAIN before
    <3>1. RowImage(before, r, v)
      BY <1>1, <1>6, <2>2, ImagesWhole
    <3> HIDE DEF before, v
    <3> QED BY <3>1 DEF RowImage
  <2>4. Holds(before, OtherColumns[t])
    BY <2>2, <2>3 DEF Holds
  <2>5. Undo(i, AsOf(i)) = [AsOf(i) EXCEPT ![r] = v]
    <3> HIDE DEF v
    <3> QED BY <2>1, <2>3, <2>4 DEF Undo
  <2> QED BY <1>1, <1>3, <1>4, <2>5
<1> QED BY <1>5, <1>6

\* Down from a number to a smaller one.
LEMMA DownFrom ==
  ASSUME NEW n \in Nat, NEW m \in Nat, NEW S, m \in S,
         \A i \in Nat : n <= i /\ i < m /\ i + 1 \in S => i \in S
  PROVE  \A i \in n..m : i \in S
<1> DEFINE T == {d \in Nat : m - d < n \/ m - d \in S}
<1>1. 0 \in T
  OBVIOUS
<1>2. ASSUME NEW d \in Nat, d \in T PROVE d + 1 \in T
  <2>1. CASE m - (d + 1) < n
    BY <2>1
  <2>2. CASE ~(m - (d + 1) < n)
    <3> DEFINE i == m - (d + 1)
    <3>1. i \in Nat /\ n <= i /\ i < m /\ i + 1 = m - d
      BY <2>2
    <3>2. m - d \in S
      BY <1>2, <2>2
    <3> HIDE DEF i
    <3>3. i \in S
      BY <3>1, <3>2
    <3> QED BY <3>3 DEF i
  <2> QED BY <2>1, <2>2
<1> HIDE DEF T
<1>3. Nat \subseteq T
  BY <1>1, <1>2, NatSetInduction
<1>4. ASSUME NEW i \in n..m PROVE i \in S
  <2>1. m - i \in Nat /\ m - (m - i) = i /\ ~(i < n)
    OBVIOUS
  <2>2. m - i \in T
    BY <1>3, <2>1
  <2> QED BY <2>1, <2>2 DEF T
<1> QED BY <1>4

\* Where every old row was found whole, walking back meets every earlier table.
LEMMA WalksBack ==
  ASSUME CaptureInv, PlainTexts,
         \A i \in Changed : decoded[i].before = OldImage(i),
         NEW n \in 0..Len(log)
  PROVE  WalkedBack(n) = AsOf(n)
<1> DEFINE last == Len(log)
<1>1. log \in Seq(Changes) /\ last \in Nat /\ DOMAIN log = 1..last /\ n \in Nat /\ n <= last
  <2>1. log \in Seq(Changes)
    BY DEF CaptureInv, SourceTypeOK
  <2>2. last \in Nat /\ DOMAIN log = 1..last
    BY <2>1
  <2> QED BY <2>1, <2>2
<1> DEFINE Eq(f) == f = [i \in n..last |-> IF i = last THEN table ELSE Undo(i + 1, f[i + 1])]
<1> DEFINE back == CHOOSE f : Eq(f)
<1>2. WalkedBack(n) = back[n]
  BY Zenon DEF WalkedBack, Undo
<1>3. AsOf(last) = table
  <2>1. AsOf(last) = [q \in Rows |-> ValueAt(log, last, q)]
    BY AsOfValues
  <2>2. \A q \in Rows : table[q] = ValueAt(log, last, q)
    BY DEF CaptureInv
  <2>3. table = [q \in Rows |-> table[q]]
    BY DEF CaptureInv, SourceTypeOK
  <2> HIDE DEF last
  <2> QED BY <2>1, <2>2, <2>3
<1>4. ASSUME NEW i \in n..last, i # last
      PROVE  Undo(i + 1, AsOf(i + 1)) = AsOf(i)
  <2>1. i + 1 \in DOMAIN log /\ (i + 1) - 1 = i
    <3>1. i \in Nat /\ i < last
      <4> HIDE DEF last
      <4> QED BY <1>1, <1>4
    <3>2. i + 1 \in 1..last /\ (i + 1) - 1 = i
      <4>1. last \in Nat
        BY <1>1
      <4> HIDE DEF last
      <4> QED BY <3>1, <4>1
    <3> QED BY <1>1, <3>2
  <2>2. log[i + 1].op # "c" => decoded[i + 1].before = OldImage(i + 1)
    BY <2>1 DEF Changed
  <2>3. Undo(i + 1, AsOf(i + 1)) = AsOf((i + 1) - 1)
    <3> DEFINE j == i + 1
    <3>1. j \in DOMAIN log /\ (log[j].op # "c" => decoded[j].before = OldImage(j))
      BY <2>1, <2>2
    <3> HIDE DEF j
    <3>2. Undo(j, AsOf(j)) = AsOf(j - 1)
      BY <3>1, UndoIsRight
    <3> QED BY <3>2 DEF j
  <2> QED BY <2>1, <2>3
<1> HIDE DEF last
<1>5. Eq([i \in n..last |-> AsOf(i)])
  <2> DEFINE f == [i \in n..last |-> AsOf(i)]
  <2>1. ASSUME NEW i \in n..last
        PROVE  f[i] = IF i = last THEN table ELSE Undo(i + 1, f[i + 1])
    <3>1. CASE i = last
      BY <1>3, <3>1
    <3>2. CASE i # last
      <4>1. i + 1 \in n..last
        BY <1>1, <3>2
      <4>2. f[i + 1] = AsOf(i + 1) /\ f[i] = AsOf(i)
        BY <4>1
      <4> HIDE DEF f
      <4> QED BY <1>4, <3>2, <4>2
    <3> QED BY <3>1, <3>2
  <2>2. f = [i \in n..last |-> f[i]]
    OBVIOUS
  <2> HIDE DEF f
  <2>3. f = [i \in n..last |-> IF i = last THEN table ELSE Undo(i + 1, f[i + 1])]
    BY <2>1, <2>2
  <2> QED BY <2>3 DEF f
<1>6. Eq(back)
  <2> HIDE DEF Eq
  <2> QED BY <1>5
<1> HIDE DEF back
<1>7. \A i \in n..last : back[i] = IF i = last THEN table ELSE Undo(i + 1, back[i + 1])
  BY <1>6
<1> HIDE DEF Eq
<1> DEFINE S == {i \in n..last : back[i] = AsOf(i)}
<1>8. last \in S
  <2>1. last \in n..last
    BY <1>1
  <2>2. back[last] = table
    BY <1>7, <2>1
  <2> QED BY <1>3, <2>1, <2>2
<1>9. ASSUME NEW i \in Nat, n <= i, i < last, i + 1 \in S PROVE i \in S
  <2>1. i \in n..last /\ i # last
    BY <1>1, <1>9
  <2>2. back[i] = Undo(i + 1, back[i + 1])
    BY <1>7, <2>1
  <2>3. back[i + 1] = AsOf(i + 1)
    BY <1>9
  <2>4. back[i] = AsOf(i)
    BY <1>4, <2>1, <2>2, <2>3
  <2> QED BY <2>1, <2>4
<1> HIDE DEF S
<1>10. \A i \in n..last : i \in S
  BY <1>1, <1>8, <1>9, DownFrom
<1>11. n \in S
  BY <1>1, <1>10
<1> QED BY <1>2, <1>11 DEF S

LEMMA SummaryFollows ==
  ASSUME CaptureInv, PlainTexts
  PROVE  SummarySaysWhatIsRecoverable
<1> DEFINE summary == summarise(decoded)
<1> DEFINE recoverable == summary.before_absent = 0 /\ summary.before_fields = WidthThere
<1>1. /\ summary.before_present = Cardinality(Found)
      /\ summary.before_absent = Cardinality(Changed \ Found)
      /\ summary.before_fields = WidthFound
  <2>1. summarise(decoded) =
           [before_present |-> Cardinality(Found), before_absent |-> Cardinality(Changed \ Found),
            before_fields |-> WidthFound]
    BY SummaryIs, Zenon DEF WidthFound
  <2> HIDE DEF summary
  <2> QED BY <2>1 DEF summary
<1> HIDE DEF summary
<1>2. summary.before_absent = 0 <=> Found = Changed
  <2>1. Cardinality(Changed \ Found) = 0 <=> Changed \ Found = {}
    BY ChangedFinite, FS_EmptySet
  <2> QED BY <1>1, <2>1, ChangedFinite
<1>3. identity = "FULL" => recoverable
  <2>1. identity = "FULL" => Found = Changed /\ WidthFound = WidthThere
    BY FullFindsAll
  <2> QED BY <1>1, <1>2, <2>1
<1>4. identity = "DEFAULT" =>
        summary.before_present = Cardinality({i \in DOMAIN log : log[i].op = "d"})
  <2>1. identity # "FULL" => Found = {i \in DOMAIN log : log[i].op = "d"}
    BY OthersFindKeys
  <2> QED BY <1>1, <2>1
<1>5. ASSUME recoverable, NEW n \in 0..Len(log) PROVE WalkedBack(n) = AsOf(n)
  <2>1. ASSUME NEW i \in Changed PROVE decoded[i].before = OldImage(i)
    <3>1. CASE identity = "FULL"
      BY <3>1, BeforeIs
    <3>2. CASE identity # "FULL"
      <4>1. Found = Changed /\ WidthFound = WidthThere
        BY <1>1, <1>2, <1>5
      <4>2. Changed = {}
        BY <3>2, <4>1, OthersFindKeys
      <4> QED BY <4>2
    <3> QED BY <3>1, <3>2
  <2> QED BY <2>1, WalksBack
<1> QED
  <2>1. WidthThere = MapThenSumSet(LAMBDA i : Cardinality(DOMAIN OldImage(i)),
                                   {i \in DOMAIN log : log[i].op # "c"})
    BY Zenon DEF WidthThere, Changed
  <2> HIDE DEF recoverable
  <2>2. /\ recoverable => \A n \in 0..Len(log) : WalkedBack(n) = AsOf(n)
        /\ identity = "FULL" => recoverable
        /\ identity = "DEFAULT" =>
             summary.before_present = Cardinality({i \in DOMAIN log : log[i].op = "d"})
    BY <1>3, <1>4, <1>5
  <2> QED BY <2>1, <2>2, Zenon DEF SummarySaysWhatIsRecoverable, recoverable, summary

\* Where summarise (decode.py) finds every old row, as wide as its table, the decoded
\* changes lead back from the table of now to any earlier one; under REPLICA IDENTITY
\* FULL it always does, and under DEFAULT only the deletes have an old row.
THEOREM SummaryIsRight == PlainTexts /\ CaptureSpec => []SummarySaysWhatIsRecoverable
<1> SUFFICES ASSUME PlainTexts PROVE CaptureSpec => []SummarySaysWhatIsRecoverable
  OBVIOUS
<1>1. CaptureInv => SummarySaysWhatIsRecoverable
  BY SummaryFollows
<1> QED BY <1>1, CaptureInvHolds, PTL

-----------------------------------------------------------------------------
(* A text is read whole or not at all.                                      *)

\* The start of a field that holds a text.
StartsText(token) == token \in DOMAIN ColumnOf /\ ColumnOf[token] \in TextColumns

\* The only text an image has is v.
Says(image, v) == \A c \in TextColumns : c \in DOMAIN image => image[c] = v

LEMMA NothingSays ==
  ASSUME NEW v
  PROVE  Says(NoFields, v)
BY DEF Says, NoFields

\* Another column adds no text.
LEMMA StillSays ==
  ASSUME NEW image, NEW v, Says(image, v), NEW c, c \notin TextColumns, NEW w
  PROVE  Says(Joined(image, [d \in {c} |-> w]), v)
BY DEF Says, Joined

\* A column with the text adds no other.
LEMMA SaysIt ==
  ASSUME NEW image, NEW v, Says(image, v), NEW c
  PROVE  Says(Joined(image, [d \in {c} |-> v]), v)
BY DEF Says, Joined

\* The first field from a place on is the i-th place's: what follows it is read first.
Takes(text, run, pos, i) ==
  LET read == ReadValue(text, i + 1)
  IN  \/ run[pos] = Raised
      \/ /\ read # Raised /\ read.next \in Places /\ i + 1 <= read.next /\ run[read.next] # Raised
         /\ run[pos] = Joined(run[read.next], [c \in {ColumnOf[text[i]]} |-> read.value])

LEMMA FirstRead ==
  ASSUME NEW text \in Seq(STRING), NEW run, FieldRun(text, run), NEW pos \in Places,
         NEW i \in FieldStarts(text, pos), \A k \in FieldStarts(text, pos) : i <= k
  PROVE  Takes(text, run, pos, i)
<1>1. i \in pos..Len(text) /\ pos \in Nat /\ 1 <= pos /\ Len(text) \in Nat
  BY LenProperties DEF FieldStarts, Places
<1>2. i + 1 \in Places /\ i + 1 <= Len(text) + 1
  BY <1>1 DEF Places
<1> DEFINE read == ReadValue(text, i + 1)
<1>3. Read(read, i + 1)
  BY <1>2, ReadValueReadsOn
<1>4. read = Raised \/ (read.next \in Places /\ i + 1 <= read.next)
  <2> HIDE DEF read
  <2> QED BY <1>3 DEF Read
<1>5. CASE read = Raised \/ run[read.next] = Raised
  BY <1>5, FieldRefused DEF Takes
<1>6. CASE read # Raised /\ run[read.next] # Raised
  <2>1. run[pos] = Joined(run[read.next], [c \in {ColumnOf[text[i]]} |-> read.value])
    BY <1>6, FieldTaken
  <2> HIDE DEF read
  <2>2. /\ read # Raised /\ read.next \in Places /\ i + 1 <= read.next /\ run[read.next] # Raised
        /\ run[pos] = Joined(run[read.next], [c \in {ColumnOf[text[i]]} |-> read.value])
    BY <1>4, <1>6, <2>1
  <2> QED BY <2>2 DEF read, Takes
<1> QED BY <1>5, <1>6

\* Where no text starts there is none.
LEMMA NoTextThere ==
  ASSUME NEW text \in Seq(STRING), NEW run, FieldRun(text, run), NEW v, NEW pos \in Places,
         \A i \in pos..Len(text) : ~StartsText(text[i])
  PROVE  run[pos] = Raised \/ Says(run[pos], v)
<1> DEFINE N == Len(text)
<1> DEFINE Good(q) == (\A i \in q..N : ~StartsText(text[i])) => run[q] = Raised \/ Says(run[q], v)
<1> DEFINE T == {p \in 1..(N + 1) : \A q \in Places : p <= q => Good(q)}
<1>1. N \in Nat
  BY LenProperties
<1>2. ASSUME NEW q \in Places, FieldStarts(text, q) = {} PROVE Good(q)
  BY <1>2, NoMoreFields, NothingSays
<1>3. N + 1 \in T
  <2>1. ASSUME NEW q \in Places, N + 1 <= q PROVE Good(q)
    <3>1. FieldStarts(text, q) = {}
      <4>1. q..N = {}
        BY <1>1, <2>1 DEF Places
      <4> QED BY <4>1 DEF FieldStarts
    <3> HIDE DEF Good
    <3> QED BY <1>2, <3>1
  <2>2. N + 1 \in 1..(N + 1)
    BY <1>1
  <2> HIDE DEF Good, N
  <2> QED BY <2>1, <2>2
<1>4. ASSUME NEW p \in 1..((N + 1) - 1), p + 1 \in T
      PROVE  p \in T
  <2>1. p \in Places /\ p \in 1..(N + 1) /\ p \in Nat
    BY <1>1 DEF Places
  <2>2. \A q \in Places : p + 1 <= q => Good(q)
    BY <1>4
  <2>3. Good(p)
    <3> SUFFICES ASSUME \A i \in p..N : ~StartsText(text[i]), FieldStarts(text, p) # {}
                 PROVE  run[p] = Raised \/ Says(run[p], v)
      BY <1>2, <2>1
    <3> DEFINE i == Min(FieldStarts(text, p))
    <3> DEFINE read == ReadValue(text, i + 1)
    <3>1. /\ i \in p..N /\ i \in FieldStarts(text, p) /\ \A k \in FieldStarts(text, p) : i <= k
          /\ text[i] \in DOMAIN ColumnOf
      BY <2>1, FirstField
    <3> HIDE DEF i
    <3>2. \/ run[p] = Raised
          \/ /\ read.next \in Places /\ i + 1 <= read.next /\ run[read.next] # Raised
             /\ run[p] = Joined(run[read.next], [c \in {ColumnOf[text[i]]} |-> read.value])
      <4>1. Takes(text, run, p, i)
        BY <2>1, <3>1, FirstRead
      <4> QED BY <4>1 DEF Takes
    <3> HIDE DEF read
    <3> SUFFICES ASSUME run[p] # Raised PROVE Says(run[p], v)
      OBVIOUS
    <3>3. read.next \in Places /\ p + 1 <= read.next
      <4>1. i \in Nat /\ p <= i
        BY <1>1, <2>1, <3>1
      <4> QED BY <2>1, <3>2, <4>1 DEF Places
    <3>4. Says(run[read.next], v)
      <4>1. \A k \in read.next..N : k \in p..N
        BY <1>1, <2>1, <3>3 DEF Places
      <4>2. Good(read.next)
        BY <2>2, <3>3
      <4> QED BY <3>2, <4>1, <4>2
    <3>5. ColumnOf[text[i]] \notin TextColumns
      BY <3>1 DEF StartsText
    <3>6. Says(Joined(run[read.next], [c \in {ColumnOf[text[i]]} |-> read.value]), v)
      BY <3>4, <3>5, StillSays, ZenonT(60)
    <3> QED BY <3>2, <3>6
  <2>4. ASSUME NEW q \in Places, p <= q PROVE Good(q)
    <3>1. q = p \/ p + 1 <= q
      BY <2>1, <2>4 DEF Places
    <3> HIDE DEF Good
    <3> QED BY <2>2, <2>3, <3>1
  <2> HIDE DEF Good, N
  <2> QED BY <2>1, <2>4
<1>5. 1 \in T
  <2>1. 1 \in Nat /\ N + 1 \in Nat /\ 1 <= N + 1 /\ 1 \in 1..(N + 1)
    BY <1>1
  <2> HIDE DEF T
  <2>2. \A p \in 1..(N + 1) : p \in T
    <3> HIDE DEF N
    <3> QED BY <1>3, <1>4, <2>1, DownwardInduction
  <2> QED BY <2>1, <2>2
<1>6. Good(pos)
  <2>1. 1 <= pos
    BY DEF Places
  <2> HIDE DEF Good
  <2> QED BY <1>5, <2>1
<1> QED BY <1>6

\* Ahead of a place no text starts and nothing is quoted.
Ahead(text, s) == \A i \in 1..Len(text) : i < s => text[i] # Quote /\ ~StartsText(text[i])

\* The field at a place holds a text: the whole of v, with no other behind it, or none
\* that can be read.
OneText(text, s, v) ==
  LET read == ReadValue(text, s + 1)
  IN  /\ text[s - 1] = Space /\ StartsText(text[s])
      /\ \/ read = Raised
         \/ /\ read.value = v /\ read.next \in Places
            /\ \A i \in read.next..Len(text) : ~StartsText(text[i])

\* A reader on its way to that field makes of it what it should.
LEMMA ReadsUpTo ==
  ASSUME NEW text \in Seq(STRING), NEW run, FieldRun(text, run), NEW v, NEW s \in Nat, 2 <= s,
         s <= Len(text), Ahead(text, s), OneText(text, s, v), NEW pos \in 1..(s - 1)
  PROVE  run[pos] = Raised \/ (ReadValue(text, s + 1) # Raised /\ Says(run[pos], v))
<1> DEFINE N == Len(text)
<1> DEFINE Good(q) == run[q] = Raised \/ (ReadValue(text, s + 1) # Raised /\ Says(run[q], v))
<1>1. N \in Nat /\ s <= N
  BY LenProperties
<1>2. ASSUME NEW q \in 1..(s - 1), \A r \in 1..(s - 1) : q < r => Good(r)
      PROVE  Good(q)
  <2> SUFFICES ASSUME run[q] # Raised PROVE Good(q)
    OBVIOUS
  <2>1. q \in Places /\ q \in Nat /\ q < s
    BY DEF Places
  <2>2. s \in FieldStarts(text, q)
    <3>1. s \in q..N /\ s > q
      BY <1>1, <2>1
    <3>2. text[s] \in DOMAIN ColumnOf /\ text[s - 1] = Space
      BY DEF OneText, StartsText
    <3> QED BY <3>1, <3>2 DEF FieldStarts
  <2> DEFINE i == Min(FieldStarts(text, q))
  <2>3. /\ i \in q..N /\ i \in FieldStarts(text, q) /\ \A k \in FieldStarts(text, q) : i <= k
        /\ text[i] \in DOMAIN ColumnOf
    BY <2>1, <2>2, FirstField
  <2> HIDE DEF i
  <2>4. Takes(text, run, q, i)
    BY <2>1, <2>3, FirstRead
  <2>5. i \in Nat /\ i <= s /\ q <= i
    BY <1>1, <2>1, <2>2, <2>3
  <2>6. CASE i = s
    <3> DEFINE read == ReadValue(text, s + 1)
    <3>1. /\ read # Raised /\ read.next \in Places
          /\ run[q] = Joined(run[read.next], [c \in {ColumnOf[text[i]]} |-> read.value])
          /\ run[read.next] # Raised
      BY <2>4, <2>6 DEF Takes
    <3>2. read.value = v /\ \A k \in read.next..N : ~StartsText(text[k])
      BY <3>1 DEF OneText
    <3> HIDE DEF read
    <3>3. Says(run[read.next], v)
      BY <3>1, <3>2, NoTextThere
    <3>4. Says(Joined(run[read.next], [c \in {ColumnOf[text[i]]} |-> v]), v)
      BY <3>3, SaysIt
    <3>5. read # Raised /\ Says(run[q], v)
      BY <3>1, <3>2, <3>4
    <3> QED BY <3>5 DEF read
  <2>7. CASE i # s
    <3> DEFINE read == ReadValue(text, i + 1)
    <3>1. i < s /\ i \in 1..N
      BY <1>1, <2>1, <2>3, <2>5, <2>7
    <3>2. i + 1 <= s - 1
      <4>1. i # s - 1
        BY <2>3, SpaceIsNoStart DEF OneText
      <4> QED BY <2>5, <3>1, <4>1
    <3>3. i + 1 \in 1..N /\ i + 1 \in Places /\ i + 1 <= N + 1
      BY <1>1, <2>5, <3>2 DEF Places
    <3>4. text[i + 1] # Quote /\ ~StartsText(text[i])
      <4>1. i + 1 < s
        BY <2>5, <3>2
      <4> QED BY <3>1, <3>3, <4>1 DEF Ahead
    <3>5. read = Bare(text, i + 1)
      BY <3>4 DEF ReadValue
    <3>6. PICK next \in (i + 1)..(N + 1) :
            /\ \A k \in (i + 1)..(next - 1) : text[k] # Space
            /\ Bare(text, i + 1) = [value |-> IF SubSeq(text, i + 1, next - 1) = <<"null">> THEN None
                                              ELSE SubSeq(text, i + 1, next - 1),
                                    next |-> next]
      BY <3>3, BareReads
    <3>7. read.next = next
      BY <3>5, <3>6
    <3>8. next \in Nat /\ i + 1 <= next /\ next <= s - 1
      <4>1. next \in Nat /\ i + 1 <= next
        BY <2>5, <3>6, <1>1
      <4>2. ~(s - 1 \in (i + 1)..(next - 1))
        BY <3>6 DEF OneText
      <4> QED BY <2>5, <3>2, <4>1, <4>2
    <3> HIDE DEF read
    <3>9. run[read.next] # Raised
          /\ run[q] = Joined(run[read.next], [c \in {ColumnOf[text[i]]} |-> read.value])
      BY <2>4 DEF Takes, read
    <3>10. Good(next)
      <4>1. next \in 1..(s - 1) /\ q < next
        BY <2>1, <2>5, <3>8
      <4> HIDE DEF Good
      <4> QED BY <1>2, <4>1
    <3>11. ReadValue(text, s + 1) # Raised /\ Says(run[next], v)
      BY <3>7, <3>9, <3>10
    <3>12. ColumnOf[text[i]] \notin TextColumns
      BY <2>3, <3>4 DEF StartsText
    <3>13. Says(Joined(run[next], [c \in {ColumnOf[text[i]]} |-> read.value]), v)
      BY <3>11, <3>12, StillSays, ZenonT(60)
    <3> QED BY <3>7, <3>9, <3>11, <3>13
  <2> QED BY <2>6, <2>7
<1> HIDE DEF Good
<1> DEFINE T == {p \in 1..s : \A q \in 1..(s - 1) : p <= q => Good(q)}
<1>3. s \in T
  OBVIOUS
<1>4. ASSUME NEW p \in 1..(s - 1), p + 1 \in T PROVE p \in T
  <2>1. \A q \in 1..(s - 1) : p < q => Good(q)
    BY <1>4
  <2>2. Good(p)
    BY <1>2, <2>1
  <2>3. \A q \in 1..(s - 1) : p <= q => Good(q)
    BY <2>1, <2>2
  <2> QED BY <2>3
<1> HIDE DEF T
<1>5. 1 \in T
  <2>1. 1 \in Nat /\ 1 <= s /\ 1 \in 1..s
    OBVIOUS
  <2>2. \A p \in 1..s : p \in T
    BY <1>3, <1>4, <2>1, DownwardInduction
  <2> QED BY <2>1, <2>2
<1>6. Good(pos)
  BY <1>5 DEF T
<1> QED BY <1>6 DEF Good

\* A fragment says nothing but the text of the field at a place, and is refused when
\* that is.
LEMMA FragmentRead ==
  ASSUME NEW text \in Seq(STRING), NEW v, NEW s \in Nat, 2 <= s, Ahead(text, s),
         s <= Len(text) => OneText(text, s, v)
  PROVE  /\ Image(text) = Raised \/ Says(Image(text), v)
         /\ s <= Len(text) /\ ReadValue(text, s + 1) = Raised /\ ~Contains(text, NoTuple) =>
              Image(text) = Raised
<1>1. CASE Contains(text, NoTuple)
  <2>1. text # None
    BY DecodeAssumption DEF DecodeAssumption
  <2>2. Image(text) = NoFields
    BY <1>1, <2>1, Zenon DEF Image
  <2> QED BY <1>1, <2>2, NothingSays
<1>2. CASE ~Contains(text, NoTuple)
  <2>1. PICK run : FieldRun(text, run) /\ Image(text) = run[1]
    BY <1>2, ImageIsARun
  <2>2. CASE s <= Len(text)
    <3>1. 1 \in 1..(s - 1)
      OBVIOUS
    <3>2. OneText(text, s, v)
      BY <2>2
    <3>3. run[1] = Raised \/ (ReadValue(text, s + 1) # Raised /\ Says(run[1], v))
      BY <2>1, <2>2, <3>1, <3>2, ReadsUpTo
    <3> QED BY <2>1, <3>3
  <2>3. CASE ~(s <= Len(text))
    <3>1. \A i \in 1..Len(text) : ~StartsText(text[i])
      <4>1. Len(text) \in Nat
        BY LenProperties
      <4> QED BY <2>3, <4>1 DEF Ahead
    <3>2. 1 \in Places
      BY DEF Places
    <3>3. run[1] = Raised \/ Says(run[1], v)
      BY <2>1, <3>1, <3>2, NoTextThere
    <3> QED BY <2>1, <2>3, <3>3
  <2> QED BY <2>2, <2>3
<1> QED BY <1>1, <1>2

\* A customer's tuple, whose text v is quoted behind the place h.
Named(x, h, v) ==
  LET q == Printed("full_name", v)
  IN  /\ x \in Seq(STRING) /\ h \in Nat /\ 3 <= h /\ Len(x) = h + Len(q)
      /\ x[1] \in DOMAIN ColumnOf /\ x[h - 1] = Space /\ StartsText(x[h])
      /\ \A i \in 1..(h - 1) : x[i] # Quote /\ ~StartsText(x[i])
      /\ \A i \in 1..h : x[i] \notin Marks
      /\ \A k \in 1..Len(q) : x[h + k] = q[k]

LEMMA QuotedText ==
  ASSUME NEW v \in Seq(STRING)
  PROVE  LET q == Printed("full_name", v)
         IN  /\ q \in Seq(STRING) /\ Len(q) \in Nat /\ 2 <= Len(q) /\ q[1] = Quote
             /\ \A k \in 1..Len(q) : q[k] = Quote \/ q[k] \in ToSet(v)
<1> DEFINE S == ToSet(v) \cup {Quote}
<1> DEFINE q == Printed("full_name", v)
<1>1. "full_name" \in TextColumns /\ Quote \in STRING
  BY DecodeAssumption DEF DecodeAssumption, TextColumns
<1>2. v \in Seq(S) /\ Quote \in S
  <2>1. \A i \in 1..Len(v) : v[i] \in S
    BY DEF ToSet
  <2> HIDE DEF S
  <2>2. v \in Seq(S)
    BY <2>1, OverSet
  <2> QED BY <2>2 DEF S
<1>3. q \in Seq(S)
  <2> HIDE DEF S
  <2> QED BY <1>1, <1>2, PrintedIsSpelled
<1>4. q \in Seq(STRING) /\ \E P : Spelled(q, v, P)
  BY <1>1, PrintedIsSpelled
<1>5. PICK P : Spelled(q, v, P)
  BY <1>4
<1> HIDE DEF q
<1>6. Len(v) \in Nat /\ P[Len(v)] \in Nat /\ Len(q) = P[Len(v)] + 2 /\ q[1] = Quote
  <2>1. Len(v) \in Nat
    BY LenProperties
  <2> QED BY <1>5, <2>1 DEF Spelled
<1>7. \A k \in 1..Len(q) : q[k] \in S
  <2> HIDE DEF S
  <2> QED BY <1>3
<1> QED BY <1>4, <1>6, <1>7 DEF q

LEMMA CustomerNamed ==
  ASSUME NEW image, image["customer_id"] \in Words, image["full_name"] \in Seq(STRING)
  PROVE  \E h : Named(Tuple(image, ColumnsOf("customer")), h, image["full_name"])
<1> DEFINE columns == <<"customer_id", "full_name">>
<1> DEFINE x == Tuple(image, ColumnsOf("customer"))
<1> DEFINE w == image["customer_id"]
<1> DEFINE v == image["full_name"]
<1> DEFINE q == Printed("full_name", v)
<1>1. ColumnsOf("customer") = columns /\ columns \in Seq(ColumnNames)
  BY TableColumns, TableColumnNames DEF Tables
<1>2. Len(columns) = 2 /\ columns[1] = "customer_id" /\ columns[2] = "full_name"
  OBVIOUS
<1>3. "customer_id" \notin TextColumns /\ "full_name" \in TextColumns
  BY DEF TextColumns
<1>4. "customer_id" \in ColumnNames /\ "full_name" \in ColumnNames
  BY <1>1, <1>2
<1>5. w \in Seq(STRING) /\ \A k \in 1..Len(w) : w[k] \notin Colons \cup {Quote, Space, NoTuple}
  BY DEF Words
<1>6. q \in Seq(STRING) /\ Len(q) \in Nat
  BY QuotedText
<1>7. Within(STRING, image, columns)
  <2>1. \A i \in 1..Len(columns) : image[columns[i]] \in Seq(STRING)
    BY <1>2, <1>5
  <2> HIDE DEF columns
  <2> QED BY <2>1, DecodeAssumption DEF Within, DecodeAssumption
<1>8. x \in Seq(STRING) /\ \E L : LaidOut(x, image, columns, L)
  <2> HIDE DEF columns
  <2> QED BY <1>1, <1>7, TupleWithin
<1>9. PICK L : LaidOut(x, image, columns, L)
  BY <1>8
<1> HIDE DEF x
<1> DEFINE m == Len(w)
<1>10. Printed("customer_id", w) = w /\ m \in Nat
  BY <1>3, <1>5, LenProperties DEF Printed
<1>11. /\ L \in [0..2 -> Nat] /\ L[0] = 0 /\ L[2] = Len(x)
       /\ \A i \in 1..2 :
            /\ x[StartOf(L, i)] = FieldStart(columns[i])
            /\ i > 1 => x[L[i - 1] + 1] = Space
            /\ L[i] = StartOf(L, i) + Len(Printed(columns[i], image[columns[i]]))
            /\ \A k \in 1..Len(Printed(columns[i], image[columns[i]])) :
                 x[StartOf(L, i) + k] = Printed(columns[i], image[columns[i]])[k]
  <2> HIDE DEF columns
  <2> QED BY <1>2, <1>9 DEF LaidOut
<1>12. /\ x[1] = FieldStart("customer_id") /\ L[1] = 1 + m
       /\ \A k \in 1..m : x[1 + k] = w[k]
  <2>1. StartOf(L, 1) = 1
    BY <1>11 DEF StartOf
  <2>2. columns[1] = "customer_id" /\ image[columns[1]] = w /\ 1 \in 1..2
    BY <1>2
  <2> DEFINE p == Printed(columns[1], image[columns[1]])
  <2>3. /\ x[StartOf(L, 1)] = FieldStart(columns[1]) /\ L[1] = StartOf(L, 1) + Len(p)
        /\ \A k \in 1..Len(p) : x[StartOf(L, 1) + k] = p[k]
    <3> HIDE DEF columns
    <3> QED BY <1>11, <2>2
  <2>4. p = w
    <3> HIDE DEF columns, w
    <3> QED BY <1>10, <2>2
  <2> HIDE DEF columns, w, p
  <2> QED BY <2>1, <2>2, <2>3, <2>4
<1> DEFINE h == m + 3
<1>13. /\ x[h] = FieldStart("full_name") /\ x[h - 1] = Space /\ Len(x) = h + Len(q)
       /\ \A k \in 1..Len(q) : x[h + k] = q[k]
  <2>1. StartOf(L, 2) = h /\ L[2 - 1] + 1 = h - 1
    <3> HIDE DEF w
    <3> QED BY <1>10, <1>12 DEF StartOf
  <2>2. columns[2] = "full_name" /\ image[columns[2]] = v /\ 2 \in 1..2 /\ 2 > 1
    BY <1>2
  <2>3. /\ x[StartOf(L, 2)] = FieldStart("full_name") /\ x[L[2 - 1] + 1] = Space
        /\ L[2] = StartOf(L, 2) + Len(q)
        /\ \A k \in 1..Len(q) : x[StartOf(L, 2) + k] = q[k]
    <3> HIDE DEF columns, v
    <3> QED BY <1>11, <2>2
  <2> HIDE DEF h, q
  <2> QED BY <1>11, <2>1, <2>3
<1>14. FieldStart("customer_id") \in DOMAIN ColumnOf /\ ColumnOf[FieldStart("customer_id")] = "customer_id"
       /\ FieldStart("full_name") \in DOMAIN ColumnOf /\ ColumnOf[FieldStart("full_name")] = "full_name"
  BY <1>4, FieldStartNames
<1>15. StartsText(x[h]) /\ ~StartsText(x[1]) /\ x[1] # Quote /\ x[1] \notin Marks /\ x[h] \notin Marks
  <2>1. StartsText(x[h])
    <3> HIDE DEF h
    <3> QED BY <1>3, <1>13, <1>14 DEF StartsText
  <2>2. ~StartsText(x[1])
    BY <1>3, <1>12, <1>14 DEF StartsText
  <2>3. x[1] # Quote /\ x[1] \notin Marks /\ x[h] \notin Marks
    <3>1. x[1] \in DOMAIN ColumnOf /\ x[h] \in DOMAIN ColumnOf
      <4> HIDE DEF h
      <4> QED BY <1>12, <1>13, <1>14
    <3> HIDE DEF h
    <3> QED BY <3>1, DecodeAssumption DEF DecodeAssumption
  <2> QED BY <2>1, <2>2, <2>3
<1>16. Space # Quote /\ ~StartsText(Space) /\ Space \notin Marks
  BY SpaceIsNoStart DEF Space, Quote, Marks, OldMarks, NoTuple, StartsText
<1>17. \A k \in 1..m : x[1 + k] # Quote /\ ~StartsText(x[1 + k]) /\ x[1 + k] \notin Marks
  <2> HIDE DEF w
  <2> QED BY <1>5, <1>12 DEF StartsText, Colons, Marks
<1>18. ASSUME NEW i \in 1..(h - 1)
       PROVE  x[i] # Quote /\ ~StartsText(x[i]) /\ x[i] \notin Marks
  <2> HIDE DEF w
  <2>1. CASE i = 1
    BY <1>15, <2>1
  <2>2. CASE i = h - 1
    BY <1>13, <1>16, <2>2
  <2>3. CASE i # 1 /\ i # h - 1
    <3>1. i - 1 \in 1..m /\ 1 + (i - 1) = i
      <4> HIDE DEF m
      <4> QED BY <1>10, <2>3
    <3> QED BY <1>17, <3>1
  <2> QED BY <2>1, <2>2, <2>3
<1>19. h \in Nat /\ 3 <= h /\ (\A i \in 1..h : i \in 1..(h - 1) \/ i = h)
  <2> HIDE DEF m
  <2> QED BY <1>10
<1>20. x[1] \in DOMAIN ColumnOf
  BY <1>12, <1>14
<1> HIDE DEF h
<1>21. Named(x, h, v)
  <2> HIDE DEF q, v
  <2> QED BY <1>8, <1>13, <1>15, <1>18, <1>19, <1>20 DEF Named, q
<1> QED BY <1>21 DEF x

\* What may be read of a value v of which the line ends inside, or of the whole of it:
\* one of its halves where a quote comes next.
Readable(v, beforeAQuote) == IF beforeAQuote THEN Halves(v) ELSE {v}

\* Part of a line, from the space before a customer's tuple or from its first or second
\* token: no text but the tuple's, none if it ends inside it and not before a quote, and
\* one of its halves if it ends inside it before a quote.
LEMMA LineFragment ==
  ASSUME NEW rest \in Seq(STRING), NEW x, NEW h, NEW v \in Seq(STRING), Named(x, h, v),
         NEW p \in Nat, Stands(x, rest, p),
         NEW from \in {p, p + 1, p + 2}, 1 <= from, from = p => rest[p] = Space,
         NEW to \in Nat, from <= to + 1, to <= Len(rest), to <= p + Len(x) + 1,
         to = p + Len(x) + 1 => rest[to] = Space
  PROVE  LET text == SubSeq(rest, from, to)
             beforeAQuote == p <= to /\ to < p + Len(x) /\ rest[to + 1] = Quote
         IN  /\ \E t \in Readable(v, beforeAQuote) : Image(text) = Raised \/ Says(Image(text), t)
             /\ p + h <= to /\ to < p + Len(x) /\ rest[to + 1] # Quote
                /\ (\A i \in from..to : rest[i] # NoTuple) =>
                  Image(text) = Raised
<1> DEFINE q == Printed("full_name", v)
<1> DEFINE e == Len(q)
<1> DEFINE l == to - from + 1
<1> DEFINE s == p + h - from + 1
<1> DEFINE text == SubSeq(rest, from, to)
<1> DEFINE beforeAQuote == p <= to /\ to < p + Len(x) /\ rest[to + 1] = Quote
<1>1. /\ h \in Nat /\ 3 <= h /\ Len(x) = h + e
      /\ x[h - 1] = Space /\ StartsText(x[h])
      /\ \A i \in 1..(h - 1) : x[i] # Quote /\ ~StartsText(x[i])
      /\ \A k \in 1..e : x[h + k] = q[k]
  BY DEF Named
<1>2. e \in Nat /\ 2 <= e /\ q[1] = Quote /\ q \in Seq(STRING)
  BY QuotedText
<1>3. from \in Nat /\ l \in Nat /\ to = from + l - 1 /\ s \in Nat /\ 2 <= s /\ from + s - 1 = p + h
  BY <1>1
<1>4. /\ text \in Seq(STRING) /\ Len(text) = l
      /\ \A j \in 1..l : text[j] = rest[from + j - 1]
  <2> HIDE DEF l
  <2> QED BY <1>3, PartOf, SMTT(30)
<1>5. \A k \in 1..(h + e) : rest[p + k] = x[k]
  BY <1>1 DEF Stands
<1>6. /\ to <= p + h + e + 1 /\ (to = p + h + e + 1 => rest[to] = Space)
      /\ beforeAQuote <=> p <= to /\ to < p + h + e /\ rest[to + 1] = Quote
  <2> HIDE DEF e
  <2> QED BY <1>1, <1>2
<1> HIDE DEF text, q, e, l, beforeAQuote
<1>7. Space # Quote /\ ~StartsText(Space)
  BY SpaceIsNoStart DEF Space, Quote, StartsText
<1>8. l = to - from + 1
  BY DEF l
<1>a. /\ h \in Nat /\ 3 <= h /\ e \in Nat /\ 2 <= e /\ from \in Nat /\ l \in Nat /\ s \in Nat
      /\ l = to - from + 1 /\ s = p + h - from + 1
  BY <1>1, <1>2, <1>3, <1>8
<1>9. Ahead(text, s)
  <2>1. ASSUME NEW j \in 1..l, j < s PROVE text[j] # Quote /\ ~StartsText(text[j])
    <3> DEFINE r == from + j - 1
    <3>1. r \in Nat /\ r < p + h /\ p <= r /\ (r = p => from = p)
      BY <1>a, <2>1, SMTT(30)
    <3>2. text[j] = rest[r]
      BY <1>4
    <3> HIDE DEF r, s
    <3>3. CASE r = p
      BY <1>7, <3>1, <3>2, <3>3
    <3>4. CASE r # p
      <4>1. r - p \in 1..(h - 1) /\ r - p \in 1..(h + e) /\ p + (r - p) = r
        BY <1>1, <1>2, <3>1, <3>4
      <4>2. rest[r] = x[r - p]
        BY <1>5, <4>1
      <4> QED BY <1>1, <3>2, <4>1, <4>2
    <3> QED BY <3>3, <3>4
  <2> HIDE DEF s
  <2> QED BY <1>4, <2>1 DEF Ahead
<1>10. ASSUME NEW k \in 0..(h + e), 1 <= p + k - from + 1, p + k <= to, 1 <= k
       PROVE  text[p + k - from + 1] = x[k]
  <2>1. p + k - from + 1 \in 1..l /\ from + (p + k - from + 1) - 1 = p + k /\ k \in 1..(h + e)
    BY <1>3, <1>8, <1>10
  <2>2. text[p + k - from + 1] = rest[p + k]
    BY <1>4, <2>1
  <2> QED BY <1>5, <2>1, <2>2
<1>11. s <= l => p + h <= to
  BY <1>3, <1>8
<1>12. ASSUME s <= l
       PROVE  text[s - 1] = Space /\ StartsText(text[s])
  <2>1. p + (h - 1) - from + 1 = s - 1 /\ p + h - from + 1 = s
    BY <1>1, <1>3
  <2>2. text[p + (h - 1) - from + 1] = x[h - 1]
    <3>1. h - 1 \in 0..(h + e) /\ 1 <= p + (h - 1) - from + 1 /\ p + (h - 1) <= to /\ 1 <= h - 1
      BY <1>a, <1>12
    <3> HIDE DEF s
    <3> QED BY <1>10, <3>1
  <2>3. text[p + h - from + 1] = x[h]
    <3>1. h \in 0..(h + e) /\ 1 <= p + h - from + 1 /\ p + h <= to /\ 1 <= h
      BY <1>a, <1>12
    <3> HIDE DEF s
    <3> QED BY <1>10, <3>1
  <2> HIDE DEF s
  <2> QED BY <1>1, <2>1, <2>2, <2>3
<1>13. ASSUME NEW k \in 1..e, p + h + k <= to
       PROVE  text[s + k] = q[k]
  <2>1. h + k \in 0..(h + e) /\ 1 <= p + (h + k) - from + 1 /\ p + (h + k) <= to /\ 1 <= h + k
        /\ p + (h + k) - from + 1 = s + k
    BY <1>a, <1>13
  <2>2. text[p + (h + k) - from + 1] = x[h + k]
    <3> HIDE DEF s
    <3> QED BY <1>10, <2>1
  <2> HIDE DEF s
  <2> QED BY <1>1, <2>1, <2>2
<1>14. "full_name" \in TextColumns
  BY DEF TextColumns
<1>15. ASSUME s <= l, p + h + e <= to
       PROVE  LET read == ReadValue(text, s + 1)
              IN  /\ read # Raised /\ read.value = v /\ read.next \in Places
                  /\ \A i \in read.next..l : ~StartsText(text[i])
  <2>1. s + e <= l
    BY <1>a, <1>15
  <2>2. Stands(q, text, s)
    <3>1. ASSUME NEW k \in 1..e PROVE text[s + k] = q[k]
      <4>1. p + h + k <= to
        BY <1>a, <1>15
      <4> HIDE DEF s
      <4> QED BY <1>13, <4>1
    <3> HIDE DEF s
    <3> QED BY <1>4, <2>1, <3>1 DEF Stands, e
  <2>3. ASSUME NEW i \in (s + e + 1)..l PROVE text[i] = Space
    <3>1. i \in 1..l /\ from + i - 1 = p + h + e + 1 /\ to = p + h + e + 1
      BY <1>1, <1>2, <1>3, <1>6, <1>8, <2>3
    <3>2. text[i] = rest[from + i - 1]
      <4> HIDE DEF s
      <4> QED BY <1>4, <3>1
    <3> HIDE DEF s
    <3> QED BY <1>6, <3>1, <3>2
  <2>4. s + e < Len(text) => text[s + e + 1] # Quote
    <3>1. s + e < l => s + e + 1 \in (s + e + 1)..l
      <4> HIDE DEF s
      <4> QED BY <1>a
    <3> HIDE DEF s
    <3> QED BY <1>4, <1>7, <2>3, <3>1
  <2>5. ReadValue(text, s + 1) = [value |-> v, next |-> s + e + 1]
    <3>1. s \in Nat
      BY <1>3
    <3> HIDE DEF s
    <3> QED BY <1>4, <1>14, <2>2, <2>4, <3>1, QuotedWhole DEF q, e
  <2>6. s + e + 1 \in Places /\ s + e + 1 \in Nat
    <3> HIDE DEF s
    <3> QED BY <1>a DEF Places
  <2> HIDE DEF s
  <2>7. [value |-> v, next |-> s + e + 1] # Raised
    BY <2>6, RaisedIsNoRead
  <2> QED BY <1>7, <2>3, <2>5, <2>6, <2>7
<1>16. ASSUME s <= l, to < p + h + e
       PROVE  LET read == ReadValue(text, s + 1)
              IN  \/ read = Raised
                  \/ /\ beforeAQuote
                     /\ read.value \in Halves(v) /\ read.next = l + 1
  <2> DEFINE k == to - p - h
  <2>1. k \in Nat /\ k < e /\ l = s + k /\ p <= to
    BY <1>a, <1>16, SMTT(30)
  <2>2. q[k + 1] = Quote => beforeAQuote
    <3>1. h + (k + 1) \in 1..(h + e) /\ p + (h + (k + 1)) = to + 1 /\ k + 1 \in 1..e
      BY <1>a, <2>1
    <3>2. rest[to + 1] = x[h + (k + 1)] /\ x[h + (k + 1)] = q[k + 1]
      <4> HIDE DEF s, k
      <4> QED BY <1>1, <1>5, <3>1
    <3> HIDE DEF s, k
    <3> QED BY <1>6, <1>16, <2>1, <3>2
  <2>3. CASE 1 <= k
    <3>1. ASSUME NEW j \in 1..k PROVE text[s + j] = q[j]
      <4>1. j \in 1..e /\ p + h + j <= to
        BY <1>a, <2>1, SMTT(30)
      <4> QED BY <1>13, <4>1
    <3> HIDE DEF k
    <3>2. EndsInside(q, text, s, k)
      <4> HIDE DEF s
      <4> QED BY <1>4, <2>1, <2>3, <3>1 DEF EndsInside, e
    <3>3. s \in Nat
      BY <1>3
    <3> HIDE DEF s
    <3> DEFINE read == ReadValue(text, s + 1)
    <3>4. read = Raised \/ (q[k + 1] = Quote /\ read.value \in Halves(v) /\ read.next = Len(text) + 1)
      BY <1>4, <1>14, <3>2, <3>3, QuotedCut DEF q
    <3> HIDE DEF read
    <3> QED BY <1>4, <2>2, <3>4 DEF read
  <2>4. CASE k = 0
    <3>1. s = l /\ s + 1 \in Places /\ s + 1 <= Len(text) + 1 /\ ~(s + 1 <= Len(text))
      <4>1. l \in Nat /\ s \in Nat /\ Len(text) = l /\ l = s + k /\ k = 0
        BY <1>3, <1>4, <2>1, <2>4
      <4> HIDE DEF s, k
      <4> QED BY <4>1, SMTT(30) DEF Places
    <3>2. q[k + 1] = Quote
      BY <1>2, <2>4
    <3> HIDE DEF s, k
    <3>3. ReadValue(text, s + 1) = [value |-> <<>>, next |-> l + 1]
      <4>1. ReadValue(text, s + 1) = Bare(text, s + 1)
        BY <3>1, Zenon DEF ReadValue
      <4>2. s + 1 = Len(text) + 1 /\ s + 1 = l + 1
        BY <1>4, <3>1
      <4> QED BY <1>4, <4>1, <4>2, BareAtTheEnd
    <3>4. <<>> \in Halves(v)
      BY DEF Halves
    <3> QED BY <2>2, <3>2, <3>3, <3>4
  <2> HIDE DEF k
  <2> QED BY <2>1, <2>3, <2>4, OneMoreThanNone
<1>17. \E t \in Readable(v, beforeAQuote) : s <= Len(text) => OneText(text, s, t)
  <2> DEFINE read == ReadValue(text, s + 1)
  <2>1. p + h + e <= to \/ to < p + h + e
    BY <1>a, SMTT(30)
  <2>2. beforeAQuote => to < p + h + e /\ ~(p + h + e <= to)
    <3>1. beforeAQuote => to < p + h + e
      <4> HIDE DEF s
      <4> QED BY <1>6, ZenonT(60)
    <3> QED BY <1>a, <3>1, SMTT(30)
  <2>3. l \in Nat /\ l + 1 \in Places /\ (l + 1)..Len(text) = {}
    <3>1. l \in Nat
      BY <1>3
    <3> HIDE DEF s
    <3> QED BY <1>4, <3>1 DEF Places
  <2> HIDE DEF s, read
  <2>4. CASE beforeAQuote
    <3>1. <<>> \in Halves(v)
      BY DEF Halves
    <3>2. CASE ~(s <= Len(text))
      BY <2>4, <3>1, <3>2 DEF Readable
    <3>3. CASE s <= Len(text) /\ read = Raised
      BY <1>4, <1>12, <2>4, <3>1, <3>3 DEF Readable, OneText, read
    <3>4. CASE s <= Len(text) /\ read # Raised
      <4>1. read.value \in Halves(v) /\ read.next = l + 1
        BY <1>4, <1>16, <2>2, <2>4, <3>4 DEF read
      <4>2. OneText(text, s, read.value)
        BY <1>4, <1>12, <2>3, <3>4, <4>1 DEF OneText, read
      <4> QED BY <2>4, <4>1, <4>2 DEF Readable
    <3> QED BY <3>2, <3>3, <3>4
  <2>5. CASE ~beforeAQuote
    <3>1. s <= l /\ read # Raised => /\ read.value = v /\ read.next \in Places
                                     /\ \A i \in read.next..l : ~StartsText(text[i])
      <4>1. l \in Nat /\ Len(text) = l
        BY <1>3, <1>4
      <4>2. s <= l /\ read # Raised => p + h + e <= to
        BY <1>16, <2>1, <2>5 DEF read
      <4> QED BY <1>15, <4>2 DEF read
    <3>2. s <= Len(text) => OneText(text, s, v)
      BY <1>4, <1>12, <3>1 DEF OneText, read
    <3> QED BY <2>5, <3>2 DEF Readable
  <2> QED BY <2>4, <2>5
<1>18. s \in Nat /\ 2 <= s
  BY <1>3
<1>19. p + h <= to => s <= l
  BY <1>1, <1>3, <1>8
<1> HIDE DEF s
<1>20. PICK t \in Readable(v, beforeAQuote) : s <= Len(text) => OneText(text, s, t)
  BY <1>17
<1>21. /\ Image(text) = Raised \/ Says(Image(text), t)
       /\ s <= Len(text) /\ ReadValue(text, s + 1) = Raised /\ ~Contains(text, NoTuple) =>
            Image(text) = Raised
  BY <1>4, <1>9, <1>18, <1>20, FragmentRead
<1>22. ASSUME p + h <= to, to < p + Len(x), rest[to + 1] # Quote, \A i \in from..to : rest[i] # NoTuple
       PROVE  Image(text) = Raised
  <2>1. ~Contains(text, NoTuple)
    <3>1. ASSUME NEW j \in 1..Len(text) PROVE text[j] # NoTuple
      <4>1. from + j - 1 \in from..to
        BY <1>3, <1>4, <1>8
      <4> QED BY <1>4, <1>22, <4>1
    <3> QED BY <1>4, <3>1, NoNullThere
  <2>2. ReadValue(text, s + 1) = Raised
    <3>1. Len(x) = h + e /\ p + (h + e) = p + h + e
      BY <1>1, <1>2
    <3>2. ~beforeAQuote
      BY <1>6, <1>22
    <3> QED BY <1>16, <1>19, <1>22, <3>1, <3>2
  <2> QED BY <1>4, <1>19, <1>21, <1>22, <2>1, <2>2
<1>23. \E u \in Readable(v, beforeAQuote) : Image(text) = Raised \/ Says(Image(text), u)
  BY <1>20, <1>21
<1> QED BY <1>22, <1>23 DEF text, beforeAQuote

\* A fragment whose only text is one of these, or that is refused.
SaysOne(fragment, texts) ==
  Image(fragment) \in {None, Raised} \/ \E v \in texts : Says(Image(fragment), v)

LEMMA WholeOf ==
  ASSUME NEW line, NEW texts, SaysOne(Split(line).before, texts), SaysOne(Split(line).after, texts)
  PROVE  Whole(parse_row(line), texts)
<1> DEFINE before == Image(Split(line).before)
<1> DEFINE after == Image(Split(line).after)
<1> DEFINE row == [action |-> line.action, before |-> before, after |-> after]
<1>1. parse_row(line) \in {None, Raised} \/ (parse_row(line) = row /\ Raised \notin {before, after})
  BY DEF parse_row
<1>2. ASSUME NEW image \in {before, after} \ {None}, Raised \notin {before, after},
             NEW c \in TextColumns \cap DOMAIN image
      PROVE  image[c] \in texts
  <2>1. PICK v \in texts : Says(image, v)
    BY <1>2 DEF SaysOne
  <2> QED BY <2>1 DEF Says
<1>3. row.before = before /\ row.after = after
  OBVIOUS
<1> HIDE DEF row, before, after
<1>4. CASE parse_row(line) = row /\ Raised \notin {before, after}
  <2>1. TextsRead(row) \subseteq texts
    BY <1>2, <1>3, <1>4 DEF TextsRead
  <2> QED BY <1>4, <2>1 DEF Whole
<1>5. CASE parse_row(line) \in {None, Raised}
  BY <1>5 DEF Whole
<1> QED BY <1>1, <1>4, <1>5

LEMMA RefusedIsWhole ==
  ASSUME NEW line, NEW texts, Image(Split(line).before) = Raised
  PROVE  Whole(parse_row(line), texts)
<1>1. parse_row(line) \in {None, Raised}
  BY DEF parse_row
<1> QED BY <1>1 DEF Whole

LEMMA NothingSaysOne ==
  ASSUME NEW texts, texts # {}
  PROVE  SaysOne(None, texts) /\ SaysOne(<<>>, texts)
<1>1. Image(None) = None
  BY Zenon DEF Image
<1>2. <<>> \in Seq(STRING) /\ Len(<<>>) = 0
  OBVIOUS
<1> DEFINE text == <<>>
<1>3. text \in Seq(STRING) /\ \A i \in 1..Len(text) : ~StartsText(text[i]) /\ text[i] # NoTuple
  BY <1>2
<1> HIDE DEF text
<1>4. PICK v \in texts : TRUE
  OBVIOUS
<1>5. PICK run : FieldRun(text, run) /\ Image(text) = run[1]
  BY <1>3, NoNullThere, ImageIsARun
<1>6. Image(text) = Raised \/ Says(Image(text), v)
  <2>1. 1 \in Places
    BY DEF Places
  <2> QED BY <1>3, <1>5, <2>1, NoTextThere
<1> QED BY <1>1, <1>4, <1>6 DEF SaysOne, text

\* A line without an old row, which no delete is.
LEMMA SplitPlain ==
  ASSUME NEW line, ToSet(line.rest) \cap OldMarks = {}, line.action # "DELETE"
  PROVE  Split(line).before = None /\ Split(line).after = line.rest
<1>1. Split(line) = [before |-> None, after |-> line.rest]
  BY Zenon DEF Split
<1> QED BY <1>1

\* A line in which a marker says it has one, wherever it stands: what is behind its
\* first token, up to the first marker of a new row if there is one.
LEMMA SplitMarked ==
  ASSUME NEW line, line.rest \in Seq(STRING), line.rest # <<>>,
         line.rest[1] \in Colons, line.rest[1] # "new-tuple:",
         ToSet(line.rest) \cap OldMarks # {}
  PROVE  /\ (\A i \in 1..Len(line.rest) : line.rest[i] # "new-tuple:") =>
              /\ Split(line).before = SubSeq(line.rest, 2, Len(line.rest))
              /\ Split(line).after = <<>>
         /\ \A z \in 1..Len(line.rest) :
              line.rest[z] = "new-tuple:" /\ (\A i \in 1..(z - 1) : line.rest[i] # "new-tuple:") =>
                /\ Split(line).before = SubSeq(line.rest, 2, z - 1)
                /\ Split(line).after = SubSeq(line.rest, z + 1, Len(line.rest))
<1> DEFINE rest == line.rest
<1> DEFINE new == SelectInSeq(rest, LAMBDA t : t = "new-tuple:")
<1> DEFINE I == {i \in 1..Len(rest) : rest[i] = "new-tuple:"}
<1>1. Len(rest) \in Nat /\ 1 <= Len(rest) /\ rest \in Seq(STRING)
  BY LenProperties, EmptySeq
<1>2. new = IF I # {} THEN Min(I) ELSE 0
  BY Zenon DEF SelectInSeq
<1> DEFINE ColonOf(head) == SelectInSeq(head, LAMBDA t : t \in Colons)
<1>3. ASSUME NEW head \in Seq(STRING), head # <<>>, head[1] \in Colons
      PROVE  ColonOf(head) = 1
  <2> DEFINE J == {i \in 1..Len(head) : head[i] \in Colons}
  <2>1. ColonOf(head) = IF J # {} THEN Min(J) ELSE 0
    BY Zenon DEF SelectInSeq
  <2>2. Len(head) \in Nat /\ 1 <= Len(head)
    BY <1>3, LenProperties, EmptySeq
  <2>3. 1 \in J /\ J \in SUBSET Nat /\ \A i \in J : 1 <= i
    BY <1>3, <2>2
  <2> HIDE DEF J, ColonOf
  <2> QED BY <2>1, <2>3, MinIs
<1>4. Split(line) =
        LET head == IF new = 0 THEN rest ELSE SubSeq(rest, 1, new - 1)
            tail == IF new = 0 THEN <<>> ELSE SubSeq(rest, new + 1, Len(rest))
        IN  [before |-> SubSeq(head, ColonOf(head) + 1, Len(head)), after |-> tail]
  BY Zenon DEF Split
<1>5. rest # <<>> /\ rest[1] \in Colons /\ rest[1] # "new-tuple:"
  OBVIOUS
<1> HIDE DEF ColonOf, new
<1>6. ASSUME \A i \in 1..Len(rest) : rest[i] # "new-tuple:"
      PROVE  /\ Split(line).before = SubSeq(rest, 2, Len(rest))
             /\ Split(line).after = <<>>
  <2>1. new = 0
    BY <1>2, <1>6
  <2> HIDE DEF I, rest
  <2>2. Split(line) = [before |-> SubSeq(rest, ColonOf(rest) + 1, Len(rest)), after |-> <<>>]
    BY <1>4, <2>1
  <2>3. ColonOf(rest) = 1
    BY <1>1, <1>3, <1>5
  <2> QED BY <2>2, <2>3
<1>7. ASSUME NEW z \in 1..Len(rest), rest[z] = "new-tuple:",
             \A i \in 1..(z - 1) : rest[i] # "new-tuple:"
      PROVE  /\ Split(line).before = SubSeq(rest, 2, z - 1)
             /\ Split(line).after = SubSeq(rest, z + 1, Len(rest))
  <2>1. new = z
    <3>1. z \in I /\ I \in SUBSET Nat
      BY <1>7
    <3>2. ASSUME NEW i \in I PROVE z <= i
      <4>1. ~(i \in 1..(z - 1)) /\ i \in 1..Len(rest)
        BY <1>7
      <4> HIDE DEF rest
      <4> QED BY <1>1, <4>1
    <3> HIDE DEF I, rest
    <3> QED BY <1>2, <3>1, <3>2, MinIs
  <2> DEFINE head == SubSeq(rest, 1, z - 1)
  <2> HIDE DEF I, rest
  <2>2. z \in Nat /\ 2 <= z /\ z # 0
    <3>1. z # 1
      BY <1>5, <1>7
    <3> QED BY <1>1, <3>1
  <2>3. head \in Seq(STRING) /\ Len(head) = z - 1 /\ head[1] = rest[1]
    <3>1. /\ head \in Seq(STRING) /\ Len(head) = z - 1
          /\ \A j \in 1..(z - 1) : head[j] = rest[1 + j - 1]
      <4>1. z - 1 \in Nat /\ z - 1 <= Len(rest) /\ z - 1 = 1 + (z - 1) - 1
        BY <1>1, <2>2
      <4> QED BY <1>1, <4>1, PartOf
    <3>2. 1 \in 1..(z - 1) /\ 1 + 1 - 1 = 1
      BY <2>2
    <3> HIDE DEF head
    <3> QED BY <3>1, <3>2
  <2>4. ColonOf(head) = 1
    <3> HIDE DEF head
    <3>1. head # <<>>
      BY <2>2, <2>3
    <3> QED BY <1>3, <1>5, <2>3, <3>1
  <2>5. Split(line) = [before |-> SubSeq(head, ColonOf(head) + 1, Len(head)),
                       after |-> SubSeq(rest, z + 1, Len(rest))]
    BY <1>4, <2>1, <2>2
  <2>6. SubSeq(head, 2, z - 1) = SubSeq(rest, 2, z - 1)
    BY <1>1, <2>2, SubSeqOfSubSeq
  <2> HIDE DEF head
  <2>7. ColonOf(head) + 1 = 2
    BY <2>4
  <2> QED BY <2>3, <2>5, <2>6, <2>7, SMTT(30)
<1> QED BY <1>6, <1>7

\* What stands in a customer's tuple: no marker ahead of the quoted text, and in it a
\* quote or what the text holds.
LEMMA TupleTokens ==
  ASSUME NEW x, NEW h, NEW v \in Seq(STRING), Named(x, h, v)
  PROVE  /\ \A i \in 1..Len(x) : i <= h => x[i] \notin Marks
         /\ \A i \in 1..Len(x) : h < i => x[i] = Quote \/ x[i] \in ToSet(v)
         /\ x \in Seq(STRING) /\ Len(x) \in Nat /\ h \in Nat /\ 3 <= h /\ h + 2 <= Len(x)
<1> DEFINE q == Printed("full_name", v)
<1> DEFINE e == Len(q)
<1>1. /\ x \in Seq(STRING) /\ h \in Nat /\ 3 <= h /\ Len(x) = h + e
      /\ (\A i \in 1..h : x[i] \notin Marks) /\ \A k \in 1..e : x[h + k] = q[k]
  BY DEF Named
<1>2. e \in Nat /\ 2 <= e /\ \A k \in 1..e : q[k] = Quote \/ q[k] \in ToSet(v)
  BY QuotedText
<1> HIDE DEF q, e
<1>3. ASSUME NEW i \in 1..Len(x), h < i PROVE x[i] = Quote \/ x[i] \in ToSet(v)
  <2>1. i - h \in 1..e /\ h + (i - h) = i
    BY <1>1, <1>2, <1>3
  <2> QED BY <1>1, <1>2, <2>1
<1>4. h + 2 <= Len(x) /\ Len(x) \in Nat
  BY <1>1, <1>2
<1> QED BY <1>1, <1>3, <1>4

LEMMA CutOfPart ==
  ASSUME NEW s \in Seq(STRING), NEW l \in 0..Len(s), NEW a \in Nat, 1 <= a, NEW b \in Nat, b <= l
  PROVE  SubSeq(SubSeq(s, 1, l), a, b) = SubSeq(s, a, b)
<1>1. Len(s) \in Nat
  BY LenProperties
<1> QED BY <1>1, SubSeqOfSubSeq

\* The line of one row, cut short.
LEMMA AloneCut ==
  ASSUME NEW x \in Unmarked, NEW h, NEW v \in Seq(STRING), Named(x, h, v),
         NEW l \in 0..Len(x), NEW action, action # "DELETE", NEW texts, v \in texts,
         l < Len(x) /\ x[l + 1] = Quote => Halves(v) \subseteq texts
  PROVE  Whole(parse_row([action |-> action, rest |-> SubSeq(x, 1, l)]), texts)
<1> DEFINE cut == SubSeq(x, 1, l)
<1> DEFINE line == [action |-> action, rest |-> cut]
<1>1. x \in Seq(STRING) /\ Len(x) \in Nat /\ l \in Nat /\ l <= Len(x)
      /\ \A i \in 1..Len(x) : x[i] \notin Marks
  BY UnmarkedText, LenProperties
<1>2. /\ cut \in Seq(STRING) /\ Len(cut) = l
      /\ \A j \in 1..l : cut[j] = x[1 + j - 1]
  BY <1>1, PartOf
<1>3. \E t \in texts : Image(cut) = Raised \/ Says(Image(cut), t)
  <2>1. Stands(x, x, 0)
    <3>1. 0 + Len(x) <= Len(x) /\ \A k \in 1..Len(x) : x[0 + k] = x[k]
      BY <1>1
    <3> QED BY <3>1 DEF Stands
  <2>2. /\ 1 \in {0, 0 + 1, 0 + 2} /\ 1 <= 1 /\ ~(1 = 0) /\ 1 <= l + 1
        /\ l <= 0 + Len(x) + 1 /\ ~(l = 0 + Len(x) + 1)
        /\ 0 \in Nat /\ 0 + Len(x) = Len(x)
    BY <1>1
  <2> DEFINE beforeAQuote == 0 <= l /\ l < 0 + Len(x) /\ x[l + 1] = Quote
  <2>3. \E t \in Readable(v, beforeAQuote) : Image(cut) = Raised \/ Says(Image(cut), t)
    BY <1>1, <2>1, <2>2, LineFragment, SMTT(30)
  <2>4. Readable(v, beforeAQuote) \subseteq texts
    BY <2>2 DEF Readable
  <2> HIDE DEF cut, beforeAQuote
  <2> QED BY <2>3, <2>4
<1> HIDE DEF cut
<1>4. line.rest = cut /\ line.action = action
  OBVIOUS
<1> HIDE DEF line
<1>5. ToSet(line.rest) \cap OldMarks = {}
  <2>1. ASSUME NEW j \in 1..l PROVE cut[j] \notin Marks
    <3>1. 1 + j - 1 = j /\ j \in 1..Len(x)
      BY <1>1
    <3> QED BY <1>1, <1>2, <3>1
  <2>2. DOMAIN cut = 1..l
    BY <1>2
  <2> QED BY <1>4, <2>1, <2>2 DEF ToSet, Marks
<1>6. Split(line).before = None /\ Split(line).after = cut
  BY <1>4, <1>5, SplitPlain
<1>7. SaysOne(cut, texts) /\ SaysOne(None, texts)
  BY <1>3, NothingSaysOne DEF SaysOne
<1>8. Whole(parse_row(line), texts)
  BY <1>6, <1>7, WholeOf
<1> QED BY <1>8 DEF line, cut

\* The line of one row, whole, whatever markers its text holds.
LEMMA AloneWhole ==
  ASSUME NEW x, NEW h, NEW v \in Seq(STRING), Named(x, h, v), Separable(v),
         NEW action, action # "DELETE", NEW texts, v \in texts
  PROVE  Whole(parse_row([action |-> action, rest |-> x]), texts)
<1> DEFINE line == [action |-> action, rest |-> x]
<1> DEFINE N == Len(x)
<1>1. /\ x \in Seq(STRING) /\ N \in Nat /\ h \in Nat /\ 3 <= h /\ h + 2 <= N
      /\ \A i \in 1..N : i <= h => x[i] \notin Marks
      /\ \A i \in 1..N : h < i => x[i] = Quote \/ x[i] \in ToSet(v)
  BY TupleTokens
<1>2. Stands(x, x, 0)
  <2>1. 0 + Len(x) <= Len(x) /\ \A k \in 1..Len(x) : x[0 + k] = x[k]
    BY <1>1
  <2> QED BY <2>1 DEF Stands
<1>3. ASSUME NEW from \in {1, 2}, NEW to \in 1..N, to < N => x[to + 1] # Quote
      PROVE  /\ Image(SubSeq(x, from, to)) = Raised \/ Says(Image(SubSeq(x, from, to)), v)
             /\ h <= to /\ to < N /\ (\A i \in from..to : x[i] # NoTuple) =>
                  Image(SubSeq(x, from, to)) = Raised
  <2>1. /\ from \in {0, 0 + 1, 0 + 2} /\ 1 <= from /\ ~(from = 0) /\ from <= to + 1 /\ to \in Nat
        /\ to <= Len(x) /\ to <= 0 + Len(x) + 1 /\ ~(to = 0 + Len(x) + 1) /\ 0 \in Nat
    BY <1>1, <1>3
  <2> DEFINE text == SubSeq(x, from, to)
  <2> DEFINE beforeAQuote == 0 <= to /\ to < 0 + Len(x) /\ x[to + 1] = Quote
  <2>2. /\ \E t \in Readable(v, beforeAQuote) : Image(text) = Raised \/ Says(Image(text), t)
        /\ 0 + h <= to /\ to < 0 + Len(x) /\ x[to + 1] # Quote
           /\ (\A i \in from..to : x[i] # NoTuple) =>
             Image(text) = Raised
    BY <1>1, <1>2, <2>1, LineFragment, SMTT(30)
  <2>3. 0 + h = h /\ 0 + Len(x) = N
    BY <1>1
  <2>4. Readable(v, beforeAQuote) = {v}
    BY <1>3, <2>3 DEF Readable
  <2> HIDE DEF text, N, beforeAQuote
  <2> QED BY <1>3, <2>2, <2>3, <2>4 DEF text
<1>4. line.rest = x /\ line.action = action
  OBVIOUS
<1> HIDE DEF line
<1>5. SaysOne(None, texts) /\ SaysOne(<<>>, texts)
  BY NothingSaysOne
<1>6. CASE ToSet(x) \cap OldMarks = {}
  <2>1. Split(line).before = None /\ Split(line).after = x
    BY <1>4, <1>6, SplitPlain
  <2>2. SubSeq(x, 1, N) = x
    BY <1>1, SubSeqFull
  <2>3. Image(x) = Raised \/ Says(Image(x), v)
    <3>1. N \in 1..N /\ ~(N < N)
      BY <1>1
    <3> HIDE DEF N
    <3> QED BY <1>3, <2>2, <3>1
  <2>4. SaysOne(x, texts)
    BY <2>3 DEF SaysOne
  <2>5. Whole(parse_row(line), texts)
    BY <1>5, <2>1, <2>4, WholeOf
  <2> QED BY <2>5 DEF line
<1>7. CASE ToSet(x) \cap OldMarks # {}
  <2>1. line.rest \in Seq(STRING) /\ line.rest # <<>> /\ line.rest[1] \in Colons
        /\ line.rest[1] # "new-tuple:" /\ ToSet(line.rest) \cap OldMarks # {}
    <3>1. x[1] \in DOMAIN ColumnOf
      BY DEF Named
    <3>2. x[1] \notin Marks /\ x # <<>>
      BY <1>1
    <3> QED BY <1>1, <1>4, <1>7, <3>1, <3>2 DEF Colons, Marks
  <2>2. CASE \A i \in 1..N : x[i] # "new-tuple:"
    <3>1. Split(line).before = SubSeq(x, 2, N) /\ Split(line).after = <<>>
      BY <1>4, <2>1, <2>2, SplitMarked
    <3>2. SaysOne(SubSeq(x, 2, N), texts)
      <4>1. N \in 1..N /\ ~(N < N)
        BY <1>1
      <4> HIDE DEF N
      <4>2. Image(SubSeq(x, 2, N)) = Raised \/ Says(Image(SubSeq(x, 2, N)), v)
        BY <1>3, <4>1
      <4> QED BY <4>2 DEF SaysOne
    <3>3. Whole(parse_row(line), texts)
      BY <1>5, <3>1, <3>2, WholeOf
    <3> QED BY <3>3 DEF line
  <2>3. CASE ~(\A i \in 1..N : x[i] # "new-tuple:")
    <3> DEFINE I == {i \in 1..N : x[i] = "new-tuple:"}
    <3>1. PICK z \in I : \A i \in I : z <= i
      <4>1. I \in SUBSET Nat /\ I # {}
        BY <2>3
      <4> HIDE DEF I
      <4> QED BY <4>1, LeastOf
    <3>2. z \in 1..N /\ x[z] = "new-tuple:" /\ z \in Nat
      BY <3>1
    <3>3. ASSUME NEW i \in 1..(z - 1) PROVE x[i] # "new-tuple:"
      <4>1. i \in 1..N /\ ~(z <= i)
        BY <1>1, <3>2
      <4> QED BY <3>1, <4>1
    <3>4. Split(line).before = SubSeq(x, 2, z - 1)
      BY <1>4, <2>1, <3>2, <3>3, SplitMarked
    <3>5. h < z /\ "new-tuple:" \in ToSet(v)
      <4>1. "new-tuple:" \in Marks /\ "new-tuple:" # Quote
        BY DEF Marks, Quote
      <4>2. h < z
        BY <1>1, <3>2, <4>1
      <4> QED BY <1>1, <3>2, <4>1, <4>2
    <3>6. NoTuple \notin ToSet(v) /\ NoTuple \in Marks /\ NoTuple # Quote /\ "new-tuple:" # Quote
      BY <3>5 DEF Separable, Marks, NoTuple, Quote
    <3>7. \A i \in 2..(z - 1) : x[i] # NoTuple
      <4>1. ASSUME NEW i \in 2..(z - 1) PROVE x[i] # NoTuple
        <5>1. i \in 1..N /\ (i <= h \/ h < i)
          BY <1>1, <3>2
        <5> QED BY <1>1, <3>6, <5>1
      <4> QED BY <4>1
    <3>8. Image(SubSeq(x, 2, z - 1)) = Raised
      <4> DEFINE to == z - 1
      <4>1. to \in 1..N /\ h <= to /\ to < N /\ to + 1 = z
        BY <1>1, <3>2, <3>5
      <4>2. \A i \in 2..to : x[i] # NoTuple
        BY <3>7
      <4> HIDE DEF to, N
      <4>3. Image(SubSeq(x, 2, to)) = Raised
        BY <1>3, <3>2, <3>6, <4>1, <4>2
      <4> QED BY <4>3 DEF to
    <3>9. Whole(parse_row(line), texts)
      BY <3>4, <3>8, RefusedIsWhole
    <3> QED BY <3>9 DEF line
  <2> QED BY <2>2, <2>3
<1> QED BY <1>6, <1>7

\* Where the two rows stand in the line of an update that has both.
LEMMA HalvesStand ==
  ASSUME NEW x \in Seq(STRING), NEW y \in Seq(STRING), NEW rest, BothHalves(rest, x, y)
  PROVE  /\ Stands(x, rest, 2) /\ Stands(y, rest, Len(x) + 5)
         /\ Len(x) \in Nat /\ Len(y) \in Nat /\ rest \in Seq(STRING)
         /\ Len(rest) = Len(x) + Len(y) + 5
         /\ rest[1] = "old-key:" /\ rest[2] = Space /\ rest[Len(x) + 3] = Space
         /\ rest[Len(x) + 4] = "new-tuple:" /\ rest[Len(x) + 5] = Space
<1> DEFINE m == Len(x)
<1> DEFINE k == Len(y)
<1>1. m \in Nat /\ k \in Nat
  BY LenProperties
<1>2. /\ rest \in Seq(STRING) /\ Len(rest) = m + k + 5
      /\ rest[1] = "old-key:" /\ rest[2] = Space
      /\ \A j \in 1..m : rest[j + 2] = x[j]
      /\ rest[m + 3] = Space /\ rest[m + 4] = "new-tuple:" /\ rest[m + 5] = Space
      /\ \A j \in 1..k : rest[m + 5 + j] = y[j]
  BY DEF BothHalves
<1>3. Stands(x, rest, 2)
  <2>1. \A j \in 1..m : rest[2 + j] = x[j]
    <3>1. \A j \in 1..m : 2 + j = j + 2
      BY <1>1
    <3> HIDE DEF m
    <3> QED BY <1>2, <3>1
  <2>2. 2 + m <= Len(rest)
    <3> HIDE DEF m, k
    <3> QED BY <1>1, <1>2
  <2> QED BY <2>1, <2>2 DEF Stands
<1>4. Stands(y, rest, m + 5)
  <2>1. (m + 5) + k <= Len(rest)
    <3> HIDE DEF m, k
    <3> QED BY <1>1, <1>2
  <2> HIDE DEF m
  <2> QED BY <1>2, <2>1 DEF Stands
<1> QED BY <1>1, <1>2, <1>3, <1>4

\* A part of a line that ends inside the text quoted behind the place h of x, which
\* stands behind p, with no null marker ahead of that, is refused.
RefusedInside(rest, p, to, x, h) ==
  p + h <= to /\ to < p + Len(x) /\ (\A i \in p..to : rest[i] # NoTuple) =>
    Image(SubSeq(rest, p, to)) = Raised

\* A half of such a line.
LEMMA HalfSays ==
  ASSUME NEW rest \in Seq(STRING), NEW x, NEW h, NEW v \in Seq(STRING), Named(x, h, v),
         NEW p \in Nat, 1 <= p, Stands(x, rest, p), rest[p] = Space,
         NEW to \in Nat, p <= to + 1, to <= Len(rest), to <= p + Len(x) + 1,
         to = p + Len(x) + 1 => rest[to] = Space
  PROVE  /\ \A texts :
              /\ v \in texts
              /\ p <= to /\ to < p + Len(x) /\ rest[to + 1] = Quote => Halves(v) \subseteq texts
              => SaysOne(SubSeq(rest, p, to), texts)
         /\ rest[to + 1] # Quote => RefusedInside(rest, p, to, x, h)
<1> DEFINE text == SubSeq(rest, p, to)
<1>1. p \in {p, p + 1, p + 2}
  OBVIOUS
<1> DEFINE beforeAQuote == p <= to /\ to < p + Len(x) /\ rest[to + 1] = Quote
<1>2. /\ \E t \in Readable(v, beforeAQuote) : Image(text) = Raised \/ Says(Image(text), t)
      /\ p + h <= to /\ to < p + Len(x) /\ rest[to + 1] # Quote
         /\ (\A i \in p..to : rest[i] # NoTuple) =>
           Image(text) = Raised
  BY <1>1, LineFragment
<1>3. rest[to + 1] # Quote => RefusedInside(rest, p, to, x, h)
  BY <1>2 DEF RefusedInside
<1> HIDE DEF text, beforeAQuote
<1>4. ASSUME NEW texts, v \in texts, beforeAQuote => Halves(v) \subseteq texts
      PROVE  SaysOne(text, texts)
  <2>1. Readable(v, beforeAQuote) \subseteq texts
    BY <1>4 DEF Readable
  <2> QED BY <1>2, <2>1 DEF SaysOne
<1> QED BY <1>3, <1>4 DEF text, beforeAQuote

\* The line of two rows, cut short.
LEMMA BothCut ==
  ASSUME NEW x \in Unmarked, NEW h, NEW v \in Seq(STRING), Named(x, h, v),
         NEW y \in Unmarked, NEW g, NEW w \in Seq(STRING), Named(y, g, w),
         NEW rest, BothHalves(rest, x, y),
         NEW l \in 1..Len(rest), NEW action, NEW texts, v \in texts, w \in texts,
         l < Len(rest) /\ rest[l + 1] = Quote => Halves(v) \cup Halves(w) \subseteq texts
  PROVE  Whole(parse_row([action |-> action, rest |-> SubSeq(rest, 1, l)]), texts)
<1> DEFINE m == Len(x)
<1> DEFINE k == Len(y)
<1> DEFINE cut == SubSeq(rest, 1, l)
<1> DEFINE line == [action |-> action, rest |-> cut]
<1>0. x \in Seq(STRING) /\ y \in Seq(STRING) /\ \A i \in 1..m : x[i] \notin Marks
  BY UnmarkedText
<1>1. /\ Stands(x, rest, 2) /\ Stands(y, rest, m + 5)
      /\ m \in Nat /\ k \in Nat /\ rest \in Seq(STRING) /\ Len(rest) = m + k + 5
      /\ rest[1] = "old-key:" /\ rest[2] = Space /\ rest[m + 3] = Space
      /\ rest[m + 4] = "new-tuple:" /\ rest[m + 5] = Space
  BY <1>0, HalvesStand
<1>2. l \in Nat /\ 1 <= l /\ l <= m + k + 5
  BY <1>1
<1>3. /\ cut \in Seq(STRING) /\ Len(cut) = l
      /\ \A j \in 1..l : cut[j] = rest[j]
  <2>1. /\ cut \in Seq(STRING) /\ Len(cut) = l
        /\ \A j \in 1..l : cut[j] = rest[1 + j - 1]
    BY <1>1, <1>2, PartOf
  <2>2. \A j \in 1..l : 1 + j - 1 = j
    OBVIOUS
  <2> HIDE DEF cut
  <2> QED BY <2>1, <2>2
<1>4. line.rest = cut
  OBVIOUS
<1>5. \A a, b \in Nat : 1 <= a /\ b <= l => SubSeq(cut, a, b) = SubSeq(rest, a, b)
  <2>1. l \in 0..Len(rest)
    BY <1>1, <1>2
  <2> QED BY <1>1, <2>1, CutOfPart
<1> HIDE DEF m, k, line, cut
<1>6. \A i \in 1..Len(rest) : i < m + 4 => rest[i] # "new-tuple:"
  <2>1. ASSUME NEW i \in 1..Len(rest), i < m + 4, i # 1, i # 2, i # m + 3
        PROVE  rest[i] \notin Marks
    <3>1. i - 2 \in 1..m /\ 2 + (i - 2) = i
      BY <1>1, <2>1
    <3>2. rest[2 + (i - 2)] = x[i - 2]
      BY <1>1, <3>1 DEF Stands, m
    <3> QED BY <1>0, <3>1, <3>2
  <2> QED BY <1>1, <2>1 DEF Marks, Space
<1>7. line.rest \in Seq(STRING) /\ line.rest # <<>> /\ line.rest[1] \in Colons
      /\ line.rest[1] # "new-tuple:" /\ ToSet(line.rest) \cap OldMarks # {}
  <2>1. cut[1] = "old-key:" /\ 1 \in DOMAIN cut /\ cut # <<>>
    BY <1>1, <1>2, <1>3
  <2> QED BY <1>3, <1>4, <2>1 DEF Colons, OldMarks, ToSet
<1>8. ASSUME NEW to \in 1..(m + 3), to < m + 3 /\ rest[to + 1] = Quote => Halves(v) \subseteq texts
      PROVE  SaysOne(SubSeq(rest, 2, to), texts)
  <2>1. /\ to \in Nat /\ 2 <= to + 1 /\ to <= Len(rest) /\ to <= 2 + m + 1
        /\ (to = 2 + m + 1 => rest[to] = Space) /\ 2 \in Nat /\ 1 <= 2
        /\ (2 <= to /\ to < 2 + m /\ rest[to + 1] = Quote => Halves(v) \subseteq texts)
    BY <1>1, <1>8
  <2>2. \A T : v \in T /\ (2 <= to /\ to < 2 + m /\ rest[to + 1] = Quote => Halves(v) \subseteq T)
                => SaysOne(SubSeq(rest, 2, to), T)
    BY <1>1, <2>1, HalfSays DEF m
  <2> QED BY <2>1, <2>2
<1>9. CASE l < m + 4
  <2>1. \A i \in 1..Len(line.rest) : line.rest[i] # "new-tuple:"
    <3>1. \A i \in 1..l : i \in 1..Len(rest) /\ i < m + 4
      BY <1>1, <1>2, <1>9
    <3> QED BY <1>3, <1>4, <1>6, <3>1
  <2>2. Split(line).before = SubSeq(cut, 2, l) /\ Split(line).after = <<>>
    BY <1>3, <1>4, <1>7, <2>1, SplitMarked
  <2>3. SubSeq(cut, 2, l) = SubSeq(rest, 2, l)
    <3>1. 2 \in Nat /\ 1 <= 2 /\ l <= l
      BY <1>2
    <3> QED BY <1>2, <1>5, <3>1
  <2>4. SaysOne(SubSeq(rest, 2, l), texts)
    <3>1. l \in 1..(m + 3) /\ (l < m + 3 /\ rest[l + 1] = Quote => Halves(v) \subseteq texts)
      BY <1>1, <1>2, <1>9
    <3> QED BY <1>8, <3>1
  <2>5. Whole(parse_row(line), texts)
    BY <2>2, <2>3, <2>4, NothingSaysOne, WholeOf
  <2> QED BY <2>5 DEF line, cut
<1>10. CASE ~(l < m + 4)
  <2> DEFINE z == m + 4
  <2>1. z \in 1..Len(line.rest) /\ line.rest[z] = "new-tuple:"
        /\ \A i \in 1..(z - 1) : line.rest[i] # "new-tuple:"
    <3>1. z \in 1..l
      BY <1>1, <1>2, <1>10
    <3>2. \A i \in 1..(z - 1) : i \in 1..Len(rest) /\ i \in 1..l /\ i < m + 4
      BY <1>1, <1>2, <1>10
    <3> QED BY <1>1, <1>3, <1>4, <1>6, <3>1, <3>2
  <2>2. z - 1 = m + 3 /\ z + 1 = m + 5
    BY <1>1
  <2>3. Split(line).before = SubSeq(cut, 2, m + 3) /\ Split(line).after = SubSeq(cut, m + 5, l)
    <3> HIDE DEF z
    <3>1. Split(line).before = SubSeq(cut, 2, z - 1) /\ Split(line).after = SubSeq(cut, z + 1, l)
      BY <1>3, <1>4, <1>7, <2>1, SplitMarked
    <3> QED BY <2>2, <3>1
  <2>4. SubSeq(cut, 2, m + 3) = SubSeq(rest, 2, m + 3) /\ SubSeq(cut, m + 5, l) = SubSeq(rest, m + 5, l)
    <3>1. 2 \in Nat /\ 1 <= 2 /\ m + 3 \in Nat /\ m + 3 <= l /\ m + 5 \in Nat /\ 1 <= m + 5 /\ l <= l
      BY <1>1, <1>2, <1>10
    <3> QED BY <1>2, <1>5, <3>1
  <2>5. SaysOne(SubSeq(rest, 2, m + 3), texts)
    <3>1. m + 3 \in 1..(m + 3) /\ ~(m + 3 < m + 3)
      BY <1>1
    <3> QED BY <1>8, <3>1
  <2>6. SaysOne(SubSeq(rest, m + 5, l), texts)
    <3>1. /\ m + 5 \in Nat /\ 1 <= m + 5 /\ m + 5 <= l + 1 /\ l <= Len(rest)
          /\ l <= (m + 5) + k + 1 /\ ~(l = (m + 5) + k + 1)
          /\ (l < (m + 5) + k /\ rest[l + 1] = Quote => Halves(w) \subseteq texts)
      BY <1>1, <1>2, <1>10
    <3>2. \A T : /\ w \in T
                 /\ m + 5 <= l /\ l < (m + 5) + k /\ rest[l + 1] = Quote => Halves(w) \subseteq T
                 => SaysOne(SubSeq(rest, m + 5, l), T)
      BY <1>1, <1>2, <3>1, HalfSays DEF k
    <3> QED BY <3>1, <3>2
  <2>7. Whole(parse_row(line), texts)
    BY <2>3, <2>4, <2>5, <2>6, WholeOf
  <2> QED BY <2>7 DEF line, cut
<1> QED BY <1>9, <1>10

\* The line of two rows, whole, whatever markers the text holds.
LEMMA BothWhole ==
  ASSUME NEW v \in Seq(STRING), Separable(v), NEW x, NEW h, Named(x, h, v),
         NEW y, NEW g, Named(y, g, v), NEW rest, BothHalves(rest, x, y),
         NEW action, NEW texts, v \in texts
  PROVE  Whole(parse_row([action |-> action, rest |-> rest]), texts)
<1> DEFINE m == Len(x)
<1> DEFINE k == Len(y)
<1> DEFINE line == [action |-> action, rest |-> rest]
<1>1. /\ x \in Seq(STRING) /\ y \in Seq(STRING) /\ h \in Nat /\ 3 <= h /\ h + 2 <= m
      /\ \A i \in 1..m : i <= h => x[i] \notin Marks
      /\ \A i \in 1..m : h < i => x[i] = Quote \/ x[i] \in ToSet(v)
  BY TupleTokens
<1>2. /\ Stands(x, rest, 2) /\ Stands(y, rest, m + 5)
      /\ m \in Nat /\ k \in Nat /\ rest \in Seq(STRING) /\ Len(rest) = m + k + 5
      /\ rest[1] = "old-key:" /\ rest[2] = Space /\ rest[m + 3] = Space
      /\ rest[m + 4] = "new-tuple:" /\ rest[m + 5] = Space
  BY <1>1, HalvesStand
<1>3. line.rest = rest
  OBVIOUS
<1> HIDE DEF m, k, line
<1>4. line.rest \in Seq(STRING) /\ line.rest # <<>> /\ line.rest[1] \in Colons
      /\ line.rest[1] # "new-tuple:" /\ ToSet(line.rest) \cap OldMarks # {}
  <2>1. 1 \in DOMAIN rest /\ rest # <<>>
    BY <1>2
  <2> QED BY <1>2, <1>3, <2>1 DEF Colons, OldMarks, ToSet
<1> DEFINE I == {i \in 1..Len(rest) : rest[i] = "new-tuple:"}
<1>5. PICK z \in I : \A i \in I : z <= i
  <2>1. I \in SUBSET Nat /\ m + 4 \in I
    BY <1>2
  <2> HIDE DEF I
  <2> QED BY <2>1, LeastOf
<1>6. z \in 1..Len(rest) /\ rest[z] = "new-tuple:" /\ z \in Nat /\ z <= m + 4
  BY <1>2, <1>5
<1>7. \A i \in 1..(z - 1) : rest[i] # "new-tuple:"
  <2>1. ASSUME NEW i \in 1..(z - 1) PROVE rest[i] # "new-tuple:"
    <3>1. i \in 1..Len(rest) /\ ~(z <= i)
      BY <1>2, <1>6
    <3> QED BY <1>5, <3>1
  <2> QED BY <2>1
<1>8. Split(line).before = SubSeq(rest, 2, z - 1)
      /\ Split(line).after = SubSeq(rest, z + 1, Len(rest))
  BY <1>3, <1>4, <1>6, <1>7, SplitMarked
<1>9. CASE z = m + 4
  <2>1. z - 1 = m + 3 /\ z + 1 = m + 5
    BY <1>2, <1>9
  <2>2. SaysOne(SubSeq(rest, 2, m + 3), texts)
    <3>1. /\ m + 3 \in Nat /\ 2 <= (m + 3) + 1 /\ m + 3 <= Len(rest) /\ m + 3 <= 2 + m + 1
          /\ (m + 3 = 2 + m + 1 => rest[m + 3] = Space)
          /\ ~(2 <= m + 3 /\ m + 3 < 2 + m) /\ 2 \in Nat /\ 1 <= 2
      BY <1>2
    <3>2. \A T : /\ v \in T
                 /\ 2 <= m + 3 /\ m + 3 < 2 + m /\ rest[(m + 3) + 1] = Quote => Halves(v) \subseteq T
                 => SaysOne(SubSeq(rest, 2, m + 3), T)
      BY <1>2, <3>1, HalfSays DEF m
    <3> QED BY <3>1, <3>2
  <2>3. SaysOne(SubSeq(rest, m + 5, Len(rest)), texts)
    <3> DEFINE l == Len(rest)
    <3>1. /\ m + 5 \in Nat /\ 1 <= m + 5 /\ m + 5 <= l + 1 /\ l <= Len(rest) /\ l \in Nat
          /\ l <= (m + 5) + k + 1 /\ ~(l = (m + 5) + k + 1) /\ ~(l < (m + 5) + k)
      BY <1>2
    <3> HIDE DEF l
    <3>2. \A T : /\ v \in T
                 /\ m + 5 <= l /\ l < (m + 5) + k /\ rest[l + 1] = Quote => Halves(v) \subseteq T
                 => SaysOne(SubSeq(rest, m + 5, l), T)
      BY <1>2, <3>1, HalfSays DEF k
    <3> QED BY <3>1, <3>2 DEF l
  <2>4. Whole(parse_row(line), texts)
    BY <1>8, <2>1, <2>2, <2>3, WholeOf
  <2> QED BY <2>4 DEF line
<1>10. CASE z # m + 4
  <2>1. \A i \in 1..m : rest[2 + i] = x[i]
    BY <1>2 DEF Stands, m
  <2>2. z - 2 \in 1..m /\ 2 + (z - 2) = z
    <3>1. z # 1 /\ z # 2 /\ z # m + 3
      BY <1>2, <1>6 DEF Space
    <3> QED BY <1>2, <1>6, <1>10, <3>1
  <2>3. x[z - 2] = "new-tuple:"
    BY <1>6, <2>1, <2>2
  <2>4. h < z - 2 /\ "new-tuple:" \in ToSet(v)
    <3>1. "new-tuple:" \in Marks /\ "new-tuple:" # Quote
      BY DEF Marks, Quote
    <3>2. h < z - 2
      BY <1>1, <1>6, <2>2, <2>3, <3>1
    <3> QED BY <1>1, <2>2, <2>3, <3>1, <3>2
  <2>5. NoTuple \notin ToSet(v) /\ NoTuple \in Marks /\ NoTuple # Quote /\ "new-tuple:" # Quote
        /\ NoTuple # Space
    BY <2>4 DEF Separable, Marks, NoTuple, Quote, Space
  <2>6. ASSUME NEW i \in 2..(z - 1) PROVE rest[i] # NoTuple
    <3>1. CASE i = 2
      BY <1>2, <2>5, <3>1
    <3>2. CASE i # 2
      <4>1. i - 2 \in 1..m /\ 2 + (i - 2) = i /\ (i - 2 <= h \/ h < i - 2)
        BY <1>1, <1>2, <1>6, <2>2, <3>2
      <4>2. x[i - 2] # NoTuple
        BY <1>1, <2>5, <4>1
      <4> QED BY <2>1, <4>1, <4>2
    <3> QED BY <3>1, <3>2
  <2>7. Image(SubSeq(rest, 2, z - 1)) = Raised
    <3> DEFINE to == z - 1
    <3>1. /\ to \in Nat /\ 2 <= to + 1 /\ to <= Len(rest) /\ to <= 2 + m + 1
          /\ ~(to = 2 + m + 1) /\ 2 \in Nat /\ 1 <= 2 /\ to + 1 = z
          /\ 2 + h <= to /\ to < 2 + m
      BY <1>1, <1>2, <1>6, <2>2, <2>4
    <3>2. rest[to + 1] # Quote /\ \A i \in 2..to : rest[i] # NoTuple
      BY <1>6, <2>5, <2>6, <3>1
    <3> HIDE DEF to
    <3>3. RefusedInside(rest, 2, to, x, h)
      BY <1>2, <3>1, <3>2, HalfSays DEF m
    <3>4. Image(SubSeq(rest, 2, to)) = Raised
      BY <3>1, <3>2, <3>3 DEF m, RefusedInside
    <3> QED BY <3>4 DEF to
  <2>8. Whole(parse_row(line), texts)
    BY <1>8, <2>7, RefusedIsWhole
  <2> QED BY <2>8 DEF line
<1> QED BY <1>9, <1>10


\* Where a cut leaves a line: no further, and right before a quote only where the cut was.
LEMMA CutStops ==
  ASSUME NEW s \in Seq(STRING), NEW n \in 1..Len(s)
  PROVE  LET last == SelectLastInSubSeq(s, 1, n, LAMBDA t : t # Space)
         IN  last \in 0..Len(s) /\ (last < Len(s) /\ s[last + 1] = Quote => last = n)
<1> DEFINE T == {i \in 1..n : s[i] # Space}
<1> DEFINE last == SelectLastInSubSeq(s, 1, n, LAMBDA t : t # Space)
<1>1. last = IF T # {} THEN Max(T) ELSE 0
  BY DEF SelectLastInSubSeq
<1> HIDE DEF last
<1>2. Space # Quote
  BY DEF Space, Quote
<1>3. Len(s) \in Nat /\ n \in Nat /\ 1 <= n /\ n <= Len(s)
  BY LenProperties
<1>4. ASSUME T = {} PROVE last \in 0..Len(s) /\ (last < Len(s) /\ s[last + 1] = Quote => last = n)
  <2>1. last = 0 /\ s[1] = Space
    BY <1>1, <1>3, <1>4
  <2>2. last \in 0..Len(s) /\ s[last + 1] # Quote
    BY <1>2, <1>3, <2>1
  <2> QED BY <2>2
<1>5. ASSUME T # {} PROVE last \in 0..Len(s) /\ (last < Len(s) /\ s[last + 1] = Quote => last = n)
  <2>1. T \in SUBSET Nat /\ \A k \in T : k <= n
    OBVIOUS
  <2>2. last = Max(T)
    BY <1>1, <1>5
  <2>3. last \in T /\ \A k \in T : k <= last
    <3> HIDE DEF T
    <3> QED BY <1>3, <1>5, <2>1, <2>2, MaxOf
  <2>4. last \in Nat /\ 1 <= last /\ last <= n
    BY <2>3
  <2>5. CASE last = n
    <3>1. last \in 0..Len(s)
      BY <1>3, <2>4
    <3> QED BY <2>5, <3>1
  <2>6. CASE last # n
    <3>1. last + 1 \in 1..n /\ ~(last + 1 <= last)
      BY <1>3, <2>4, <2>6
    <3>2. last + 1 \notin T
      BY <2>3, <3>1
    <3>3. s[last + 1] = Space
      BY <3>1, <3>2
    <3>4. last \in 0..Len(s)
      BY <1>3, <2>4
    <3>5. s[last + 1] # Quote
      BY <1>2, <3>3
    <3> QED BY <3>4, <3>5
  <2> QED BY <2>5, <2>6
<1>6. last \in 0..Len(s) /\ (last < Len(s) /\ s[last + 1] = Quote => last = n)
  BY <1>4, <1>5
<1> QED BY <1>6 DEF last

\* The texts a row had before and behind its i-th change.
TextsAbout(i) ==
  {AsOf(n)[log[i].row].full_name :
     n \in {n \in {i - 1, i} : AsOf(n)[log[i].row] # Absent}}

\* The image of a customer, with a text of the row.
CustomerImage(image, texts) ==
  /\ Tuple(image, ColumnsOf("customer")) \in Unmarked
  /\ DOMAIN image = {"customer_id", "full_name"}
  /\ image["customer_id"] \in Words /\ image["full_name"] \in Seq(STRING)
  /\ image["full_name"] \in texts

LEMMA CustomerWhole ==
  ASSUME PlainTexts, NEW r \in Rows, TableOf(r) = "customer", NEW v \in ValuesOf(r),
         NEW texts, v.full_name \in texts
  PROVE  CustomerImage(Joined(r, v), texts)
<1> DEFINE image == Joined(r, v)
<1>1. r \in [{"customer_id"} -> Words] /\ v \in [{"full_name"} -> Seq(STRING)]
  BY RowShape, ValueShape, TableSets
<1>2. /\ DOMAIN image = {"customer_id", "full_name"}
      /\ image["customer_id"] = r["customer_id"] /\ image["full_name"] = v["full_name"]
  BY <1>1 DEF Joined
<1>3. Clean(image, ColumnsOf("customer"))
  BY WholeRow DEF RowImage
<1>4. Tuple(image, ColumnsOf("customer")) \in Unmarked
  <2> HIDE DEF image
  <2> QED BY <1>3, CleanTuple
<1> QED BY <1>1, <1>2, <1>4 DEF CustomerImage

LEMMA CustomerChange ==
  ASSUME CaptureInv, PlainTexts, NEW i \in DOMAIN log, TableOf(log[i].row) = "customer"
  PROVE  /\ log[i].op \in {"c", "u"}
         /\ CustomerImage(NewImage(i), TextsAbout(i))
         /\ log[i].op = "u" => CustomerImage(OldImage(i), TextsAbout(i))
<1> DEFINE r == log[i].row
<1>1. /\ Recorded(i) /\ r \in Rows /\ log[i].op \in {"c", "u", "d"} /\ i \in 1..Len(log)
      /\ Len(log) \in Nat
  BY OnRecord
<1>2. log[i].op \in {"c", "u"} /\ log[i].val \in ValuesOf(r)
  BY <1>1 DEF Recorded
<1>3. AsOf(i)[r] = log[i].val
  <2>1. i - 1 \in Nat /\ (i - 1) + 1 = i
    BY <1>1
  <2>2. ValueAt(log, (i - 1) + 1, r) = log[i].val
    BY <2>1, ValueAtNext
  <2>3. AsOf(i)[r] = ValueAt(log, i, r)
    BY <1>1, AsOfValues
  <2> QED BY <2>1, <2>2, <2>3
<1>4. Absent \notin Values
  BY ValueNotAbsent
<1>5. log[i].val.full_name \in TextsAbout(i)
  <2>1. log[i].val # Absent
    BY <1>2, <1>4 DEF ValuesOf
  <2> QED BY <1>3, <2>1 DEF TextsAbout
<1>6. CustomerImage(NewImage(i), TextsAbout(i))
  <2> DEFINE new == log[i].val
  <2>1. NewImage(i) = Joined(r, new)
    BY DEF NewImage
  <2> HIDE DEF new, r
  <2> QED BY <1>1, <1>2, <1>5, <2>1, CustomerWhole DEF r, new
<1>7. ASSUME log[i].op = "u" PROVE CustomerImage(OldImage(i), TextsAbout(i))
  <2> DEFINE old == AsOf(i - 1)[r]
  <2>1. old \in ValuesOf(r)
    BY <1>1, <1>7 DEF Recorded
  <2>2. old # Absent
    BY <1>4, <2>1 DEF ValuesOf
  <2>3. old.full_name \in TextsAbout(i)
    BY <2>2 DEF TextsAbout
  <2>4. OldImage(i) = Joined(r, old)
    BY DEF OldImage
  <2> HIDE DEF old
  <2> QED BY <1>1, <2>1, <2>3, <2>4, CustomerWhole
<1> QED BY <1>2, <1>6, <1>7

\* The line of a customer's change, of the rows it found and left.
LEMMA CustomerLine ==
  ASSUME NEW op \in {"c", "u"}, NEW old, NEW new, NEW line,
         line = Written(op, "customer", old, new)
  PROVE  LET x == Tuple(old, ColumnsOf("customer"))
             y == Tuple(new, ColumnsOf("customer"))
         IN  \/ /\ op = "u"
                /\ line = [action |-> "UPDATE",
                           rest |-> <<"old-key:", Space>> \o x \o <<Space, "new-tuple:", Space>> \o y]
             \/ \E action \in {"INSERT", "UPDATE"} : line = [action |-> action, rest |-> y]
<1>1. CASE op = "c"
  BY <1>1 DEF Written, ColumnsOf
<1>2. CASE op = "u" /\ identity = "FULL"
  BY <1>2 DEF Written, ColumnsOf
<1>3. CASE op = "u" /\ identity # "FULL"
  BY <1>3 DEF Written, ColumnsOf
<1> QED BY <1>1, <1>2, <1>3

LEMMA CutLineIs ==
  ASSUME NEW action, NEW rest \in Seq(STRING), NEW n \in 1..Len(rest)
  PROVE  \E l \in 0..Len(rest) :
           /\ l < Len(rest) /\ rest[l + 1] = Quote => l = n
           /\ CutLine([action |-> action, rest |-> rest], n) =
                [action |-> action, rest |-> SubSeq(rest, 1, l)]
<1> DEFINE last == SelectLastInSubSeq(rest, 1, n, LAMBDA t : t # Space)
<1>1. last \in 0..Len(rest) /\ (last < Len(rest) /\ rest[last + 1] = Quote => last = n)
  BY CutStops
<1>2. CutLine([action |-> action, rest |-> rest], n) =
        [action |-> action, rest |-> SubSeq(rest, 1, last)]
  <2> DEFINE line == [action |-> action, rest |-> rest]
  <2>1. line.rest = rest
    OBVIOUS
  <2>2. last = SelectLastInSubSeq(line.rest, 1, n, LAMBDA t : t # Space)
    BY <2>1 DEF SelectLastInSubSeq
  <2> HIDE DEF last
  <2>3. CutLine(line, n) = [line EXCEPT !.rest = SubSeq(rest, 1, last)]
    <3> HIDE DEF line
    <3> QED BY <2>1, <2>2, Zenon DEF CutLine
  <2> QED BY <2>3
<1> HIDE DEF last
<1> QED BY <1>1, <1>2

\* The texts that may be read of the line of a change cut behind its n-th token.
TextsOfACut(i, n) ==
  IF n < Len(slot[i].rest) /\ slot[i].rest[n + 1] = Quote
  THEN TextsAbout(i) \cup UNION {Halves(t) : t \in TextsAbout(i)} ELSE TextsAbout(i)

LEMMA CutIsWhole ==
  ASSUME CaptureInv, PlainTexts, NEW i \in DOMAIN log, TableOf(log[i].row) = "customer",
         NEW n \in DOMAIN slot[i].rest
  PROVE  Whole(parse_row(CutLine(slot[i], n)), TextsOfACut(i, n))
<1> DEFINE op == log[i].op
<1> DEFINE old == OldImage(i)
<1> DEFINE new == NewImage(i)
<1> DEFINE x == Tuple(old, ColumnsOf("customer"))
<1> DEFINE y == Tuple(new, ColumnsOf("customer"))
<1> DEFINE texts == TextsOfACut(i, n)
<1> DEFINE rest == slot[i].rest
<1> DEFINE beforeAQuote == n < Len(rest) /\ rest[n + 1] = Quote
<1> DEFINE Told(image) ==
      /\ CustomerImage(image, texts)
      /\ beforeAQuote => Halves(image["full_name"]) \subseteq texts
<1>9. ASSUME NEW image, CustomerImage(image, TextsAbout(i)) PROVE Told(image)
  <2>1. TextsAbout(i) \subseteq texts
    BY DEF TextsOfACut
  <2>2. beforeAQuote => Halves(image["full_name"]) \subseteq texts
    BY <1>9 DEF TextsOfACut, CustomerImage
  <2> HIDE DEF texts, beforeAQuote
  <2> QED BY <1>9, <2>1, <2>2 DEF CustomerImage
<1>1. op \in {"c", "u"} /\ Told(new) /\ (op = "u" => Told(old))
  <2>1. /\ op \in {"c", "u"} /\ CustomerImage(new, TextsAbout(i))
        /\ op = "u" => CustomerImage(old, TextsAbout(i))
    BY CustomerChange
  <2> HIDE DEF op, old, new, Told
  <2> QED BY <1>9, <2>1
<1>2. slot[i] = Written(op, "customer", old, new)
  BY OnRecord DEF Recorded
<1> HIDE DEF op, old, new, texts, beforeAQuote
<1>3. y \in Unmarked /\ new["full_name"] \in Seq(STRING) /\ new["full_name"] \in texts
  BY <1>1 DEF CustomerImage
<1>4. PICK g : Named(y, g, new["full_name"])
  BY <1>1, CustomerNamed DEF CustomerImage
<1>5. ASSUME NEW action, slot[i] = [action |-> action, rest |-> rest], rest \in Seq(STRING)
      PROVE  \E l \in 0..Len(rest) :
               /\ l < Len(rest) /\ rest[l + 1] = Quote => beforeAQuote
               /\ CutLine(slot[i], n) = [action |-> action, rest |-> SubSeq(rest, 1, l)]
  <2> DEFINE s == slot[i].rest
  <2>1. n \in 1..Len(s) /\ s \in Seq(STRING)
    BY <1>5
  <2>2. slot[i] = [action |-> action, rest |-> s]
    BY <1>5
  <2> HIDE DEF s
  <2>3. \E l \in 0..Len(s) :
           /\ l < Len(s) /\ s[l + 1] = Quote => l = n
           /\ CutLine([action |-> action, rest |-> s], n) = [action |-> action, rest |-> SubSeq(s, 1, l)]
    BY <2>1, CutLineIs
  <2> QED BY <2>2, <2>3 DEF s, beforeAQuote
<1>6. ASSUME op = "u",
             slot[i] = [action |-> "UPDATE",
                        rest |-> <<"old-key:", Space>> \o x \o <<Space, "new-tuple:", Space>> \o y]
      PROVE  Whole(parse_row(CutLine(slot[i], n)), texts)
  <2>1. x \in Unmarked /\ old["full_name"] \in Seq(STRING) /\ old["full_name"] \in texts
    BY <1>1, <1>6 DEF CustomerImage
  <2>2. PICK h : Named(x, h, old["full_name"])
    BY <1>1, <1>6, CustomerNamed DEF CustomerImage
  <2>3. BothHalves(rest, x, y)
    <3>1. x \in Seq(STRING) /\ y \in Seq(STRING)
      BY <1>3, <2>1, UnmarkedText
    <3>2. rest = <<"old-key:", Space>> \o x \o <<Space, "new-tuple:", Space>> \o y
      BY <1>6, SMTT(30)
    <3> HIDE DEF x, y, rest
    <3> QED BY <3>1, <3>2, HalvesInPlace
  <2>4. rest \in Seq(STRING) /\ slot[i] = [action |-> "UPDATE", rest |-> rest]
    BY <1>6, <2>3 DEF BothHalves
  <2>5. PICK l \in 0..Len(rest) :
          /\ l < Len(rest) /\ rest[l + 1] = Quote => beforeAQuote
          /\ CutLine(slot[i], n) = [action |-> "UPDATE", rest |-> SubSeq(rest, 1, l)]
    BY <1>5, <2>4
  <2> DEFINE v == old["full_name"]
  <2> DEFINE w == new["full_name"]
  <2> HIDE DEF x, y, rest, v, w
  <2>6. CASE l = 0
    <3>1. SubSeq(rest, 1, l) = <<>>
      BY <2>4, <2>6
    <3>2. parse_row(CutLine(slot[i], n)) = None
      BY <2>5, <3>1 DEF parse_row
    <3> QED BY <3>2 DEF Whole
  <2>7. CASE l # 0
    <3>1. l \in 1..Len(rest)
      BY <2>7
    <3>2. /\ v \in Seq(STRING) /\ v \in texts /\ Named(x, h, v)
          /\ w \in Seq(STRING) /\ w \in texts /\ Named(y, g, w)
          /\ beforeAQuote => Halves(v) \cup Halves(w) \subseteq texts
      BY <1>1, <1>3, <1>4, <1>6, <2>1, <2>2 DEF v, w
    <3>3. l < Len(rest) /\ rest[l + 1] = Quote => Halves(v) \cup Halves(w) \subseteq texts
      BY <2>5, <3>2
    <3>4. x \in Unmarked /\ y \in Unmarked
      BY <1>3, <2>1
    <3>5. Whole(parse_row([action |-> "UPDATE", rest |-> SubSeq(rest, 1, l)]), texts)
      BY <2>3, <3>1, <3>2, <3>3, <3>4, BothCut, ZenonT(60)
    <3> QED BY <2>5, <3>5
  <2> QED BY <2>6, <2>7
<1>7. ASSUME NEW action \in {"INSERT", "UPDATE"}, slot[i] = [action |-> action, rest |-> y]
      PROVE  Whole(parse_row(CutLine(slot[i], n)), texts)
  <2>1. rest = y /\ rest \in Seq(STRING) /\ slot[i] = [action |-> action, rest |-> rest]
    BY <1>3, <1>7, UnmarkedText
  <2>2. PICK l \in 0..Len(rest) :
          /\ l < Len(rest) /\ rest[l + 1] = Quote => beforeAQuote
          /\ CutLine(slot[i], n) = [action |-> action, rest |-> SubSeq(rest, 1, l)]
    BY <1>5, <2>1
  <2> DEFINE w == new["full_name"]
  <2>3. /\ w \in Seq(STRING) /\ w \in texts /\ Named(y, g, w)
        /\ beforeAQuote => Halves(w) \subseteq texts
    BY <1>1, <1>3, <1>4
  <2>4. action # "DELETE"
    OBVIOUS
  <2> HIDE DEF y, rest, w
  <2>5. Whole(parse_row([action |-> action, rest |-> SubSeq(y, 1, l)]), texts)
    BY <1>3, <2>1, <2>2, <2>3, <2>4, AloneCut
  <2> QED BY <2>1, <2>2, <2>5
<1>8. Whole(parse_row(CutLine(slot[i], n)), texts)
  <2>1. \/ /\ op = "u"
           /\ slot[i] = [action |-> "UPDATE",
                         rest |-> <<"old-key:", Space>> \o x \o <<Space, "new-tuple:", Space>> \o y]
        \/ \E action \in {"INSERT", "UPDATE"} : slot[i] = [action |-> action, rest |-> y]
    BY <1>1, <1>2, CustomerLine, SMTT(30)
  <2> HIDE DEF x, y
  <2> QED BY <1>6, <1>7, <2>1
<1> QED BY <1>8 DEF texts

\* A row whose text is t instead.
Renamed(image, t) == [image EXCEPT !.full_name = t]

LEMMA RenamedNamed ==
  ASSUME NEW image, NEW texts, CustomerImage(image, texts), NEW t \in Seq(STRING)
  PROVE  \E h : Named(Tuple(Renamed(image, t), ColumnsOf("customer")), h, t)
<1>1. "full_name" \in DOMAIN image /\ image["customer_id"] \in Words
  BY DEF CustomerImage
<1> DEFINE other == Renamed(image, t)
<1>2. other["full_name"] = t /\ other["customer_id"] = image["customer_id"]
  BY <1>1 DEF Renamed
<1> HIDE DEF other
<1>3. \E h : Named(Tuple(other, ColumnsOf("customer")), h, other["full_name"])
  BY <1>1, <1>2, CustomerNamed
<1> QED BY <1>2, <1>3 DEF other

LEMMA RenamedIsWhole ==
  ASSUME CaptureInv, PlainTexts, log # <<>>, TableOf(log[Len(log)].row) = "customer",
         NEW t \in Seq(STRING), Separable(t)
  PROVE  Whole(parse_row(LineWith(t)), {t})
<1> DEFINE i == Len(log)
<1> DEFINE op == log[i].op
<1> DEFINE old == Renamed(OldImage(i), t)
<1> DEFINE new == Renamed(NewImage(i), t)
<1> DEFINE x == Tuple(old, ColumnsOf("customer"))
<1> DEFINE y == Tuple(new, ColumnsOf("customer"))
<1>1. i \in DOMAIN log
  BY EmptySeq DEF CaptureInv, SourceTypeOK
<1>2. /\ op \in {"c", "u"} /\ CustomerImage(NewImage(i), TextsAbout(i))
      /\ op = "u" => CustomerImage(OldImage(i), TextsAbout(i))
  BY <1>1, CustomerChange
<1> DEFINE line == LineWith(t)
<1>3. line = Written(op, "customer", old, new)
  BY DEF LineWith, Renamed
<1>4. PICK g : Named(y, g, t)
  BY <1>2, RenamedNamed
<1> HIDE DEF i, op, old, new, line
<1>5. y \in Seq(STRING)
  BY <1>4 DEF Named
<1>6. ASSUME op = "u",
             line = [action |-> "UPDATE",
                     rest |-> <<"old-key:", Space>> \o x \o <<Space, "new-tuple:", Space>> \o y]
      PROVE  Whole(parse_row(line), {t})
  <2>1. PICK h : Named(x, h, t)
    BY <1>2, <1>6, RenamedNamed DEF old
  <2>2. x \in Seq(STRING)
    BY <2>1 DEF Named
  <2> DEFINE rest == <<"old-key:", Space>> \o x \o <<Space, "new-tuple:", Space>> \o y
  <2>3. BothHalves(rest, x, y)
    <3> HIDE DEF x, y
    <3> QED BY <1>5, <2>2, HalvesInPlace
  <2>4. line = [action |-> "UPDATE", rest |-> rest]
    BY <1>6
  <2> HIDE DEF x, y, rest
  <2>5. Whole(parse_row([action |-> "UPDATE", rest |-> rest]), {t})
    BY <1>4, <2>1, <2>3, BothWhole
  <2> QED BY <2>4, <2>5
<1>7. ASSUME NEW action \in {"INSERT", "UPDATE"}, line = [action |-> action, rest |-> y]
      PROVE  Whole(parse_row(line), {t})
  <2> HIDE DEF y
  <2>1. action # "DELETE"
    OBVIOUS
  <2>2. Whole(parse_row([action |-> action, rest |-> y]), {t})
    BY <1>4, <2>1, AloneWhole
  <2> QED BY <1>7, <2>2
<1>8. Whole(parse_row(line), {t})
  <2>1. \/ /\ op = "u"
           /\ line = [action |-> "UPDATE",
                      rest |-> <<"old-key:", Space>> \o x \o <<Space, "new-tuple:", Space>> \o y]
        \/ \E action \in {"INSERT", "UPDATE"} : line = [action |-> action, rest |-> y]
    BY <1>2, <1>3, CustomerLine, SMTT(30)
  <2> HIDE DEF x, y
  <2> QED BY <1>6, <1>7, <2>1
<1> QED BY <1>8 DEF line

LEMMA TextsFollow ==
  ASSUME CaptureInv, PlainTexts
  PROVE  TextsAreWholeOrMissing
<1> SUFFICES ASSUME log # <<>>, TableOf(log[Len(log)].row) = "customer"
    PROVE  /\ \A n \in DOMAIN slot[Len(log)].rest :
                Whole(parse_row(CutLine(slot[Len(log)], n)), TextsOfACut(Len(log), n))
           /\ \A t \in Odd : Separable(t) => Whole(parse_row(LineWith(t)), {t})
  BY Zenon DEF TextsAreWholeOrMissing, TextsOfACut, TextsAbout
<1> DEFINE i == Len(log)
<1>1. i \in DOMAIN log
  BY EmptySeq DEF CaptureInv, SourceTypeOK
<1>2. ASSUME NEW n \in DOMAIN slot[i].rest
      PROVE  Whole(parse_row(CutLine(slot[i], n)), TextsOfACut(i, n))
  BY <1>1, CutIsWhole
<1>3. ASSUME NEW t \in Odd, Separable(t) PROVE Whole(parse_row(LineWith(t)), {t})
  <2>1. t \in Seq(STRING)
    BY CaptureAssumption DEF CaptureAssumption
  <2> QED BY <1>3, <2>1, RenamedIsWhole
<1> QED BY <1>2, <1>3, Zenon

\* A customer's name is read whole or not at all (_pairs of decode.py, which gives a
\* fragment up where its text ends inside a value), of a line cut behind any of its
\* tokens and of a line whose name holds markers of the format, but for what the
\* property names: the halves of the name where a quote comes behind the cut, and a
\* name with both of the markers a fragment is given up and parted by.
THEOREM TextsAreReadWhole ==
  PlainTexts /\ CaptureSpec => []TextsAreWholeOrMissing
<1> SUFFICES ASSUME PlainTexts PROVE CaptureSpec => []TextsAreWholeOrMissing
  OBVIOUS
<1>1. CaptureInv => TextsAreWholeOrMissing
  BY TextsFollow
<1> QED BY <1>1, CaptureInvHolds, PTL

=============================================================================
