--------------------------- MODULE RepliesProofs ----------------------------
(***************************************************************************)
(* What the client gets for a message, for streams of every length: the    *)
(* parser, line by line, computes the blocks that its reference defines    *)
(* over the whole stream.  No induction over the stream is needed: the     *)
(* invariant relates the parser's variables to the lines read so far, and  *)
(* the lemmas say what one line more changes in the reference.             *)
(***************************************************************************)
EXTENDS Replies, FiniteSetTheorems, FunctionTheorems, SequenceTheorems, TLAPS

---------------------------------------------------------------------------
(* The k-th position of a set. *)

\* The positions up to j and those up to a later one.
LEMMA RankProperties ==
    ASSUME NEW S \in SUBSET Nat, IsFiniteSet(S)
    PROVE  /\ Cardinality(S) \in Nat
           /\ \A j \in S : Rank(S, j) \in 1..Cardinality(S)
           /\ \A i, j \in S : Rank(S, i) = Rank(S, j) => i = j
<1> DEFINE Upto(j) == {x \in S : x <= j}
<1>1. Cardinality(S) \in Nat
  BY FS_CardinalityType
<1>2. ASSUME NEW j \in S
      PROVE  /\ Upto(j) \in SUBSET S
             /\ IsFiniteSet(Upto(j))
             /\ Cardinality(Upto(j)) \in Nat
             /\ Cardinality(Upto(j)) <= Cardinality(S)
             /\ Cardinality(Upto(j)) # 0
  <2>1. Upto(j) \in SUBSET S /\ j \in Upto(j)
    OBVIOUS
  <2>2. IsFiniteSet(Upto(j)) /\ Cardinality(Upto(j)) <= Cardinality(S)
    BY <2>1, FS_Subset
  <2>3. Cardinality(Upto(j)) \in Nat
    BY <2>2, FS_CardinalityType
  <2>4. Cardinality(Upto(j)) # 0
    BY <2>1, <2>2, FS_EmptySet, Zenon
  <2> QED
    BY <2>1, <2>2, <2>3, <2>4
<1>3. ASSUME NEW i \in S, NEW j \in S, i < j
      PROVE  Cardinality(Upto(i)) # Cardinality(Upto(j))
  <2>1. Upto(i) \in SUBSET Upto(j)
    <3>1. \A x \in S : x <= i => x <= j
      BY <1>3
    <3> QED
      BY <3>1
  <2>2. j \in Upto(j) /\ j \notin Upto(i)
    BY <1>3
  <2>3. IsFiniteSet(Upto(j))
    BY <1>2
  <2> QED
    BY <2>1, <2>2, <2>3, FS_Subset, Zenon
<1>4. ASSUME NEW i \in S, NEW j \in S, Rank(S, i) = Rank(S, j)
      PROVE  i = j
  <2>1. Cardinality(Upto(i)) = Cardinality(Upto(j))
    BY <1>4 DEF Rank
  <2>2. i < j \/ i = j \/ j < i
    OBVIOUS
  <2> HIDE DEF Upto
  <2> QED
    BY <2>1, <2>2, <1>3
<1>5. ASSUME NEW j \in S PROVE Rank(S, j) \in 1..Cardinality(S)
  <2>1. Rank(S, j) = Cardinality(Upto(j))
    BY DEF Rank
  <2> HIDE DEF Upto
  <2> QED
    BY <2>1, <1>1, <1>2
<1> QED
  BY <1>1, <1>4, <1>5

\* Every number up to the set's size is the rank of one position.
LEMMA NthOfRank ==
    ASSUME NEW S \in SUBSET Nat, IsFiniteSet(S), NEW k \in 1..Cardinality(S)
    PROVE  /\ Nth(S, k) \in S
           /\ Rank(S, Nth(S, k)) = k
<1> DEFINE T == 1..Cardinality(S)
           f == [j \in S |-> Rank(S, j)]
<1>1. Cardinality(S) \in Nat
  BY RankProperties
<1>2. IsFiniteSet(T) /\ Cardinality(T) = Cardinality(S)
  <2>1. IsFiniteSet(T) /\ Cardinality(T) = IF 1 > Cardinality(S) THEN 0 ELSE Cardinality(S) - 1 + 1
    BY <1>1, FS_Interval
  <2> QED
    BY <2>1, <1>1
<1>3. f \in Injection(S, T)
  BY RankProperties DEF Injection, IsInjective
<1>4. f \in Surjection(S, T)
  BY <1>2, <1>3, FS_Injection
<1>5. \E j \in S : f[j] = k
  BY <1>4 DEF Surjection
<1>6. \E j \in S : Rank(S, j) = k
  BY <1>5
<1> QED
  BY <1>6 DEF Nth

LEMMA NthIsUnique ==
    ASSUME NEW S \in SUBSET Nat, IsFiniteSet(S), NEW j \in S
    PROVE  Nth(S, Rank(S, j)) = j
<1>1. Rank(S, j) \in 1..Cardinality(S)
  BY RankProperties
<1> DEFINE k == Rank(S, j)
<1>2. Nth(S, k) \in S /\ Rank(S, Nth(S, k)) = k
  BY <1>1, NthOfRank
<1>3. \A h, i \in S : Rank(S, h) = Rank(S, i) => h = i
  BY RankProperties
<1>4. Nth(S, k) = j
  BY <1>2, <1>3
<1> QED
  BY <1>4

\* A position after all others becomes the last one.
LEMMA NthAfterAdding ==
    ASSUME NEW S \in SUBSET Nat, IsFiniteSet(S), NEW n \in Nat, \A x \in S : x < n
    PROVE  /\ IsFiniteSet(S \cup {n})
           /\ Cardinality(S \cup {n}) = Cardinality(S) + 1
           /\ \A k \in 1..Cardinality(S) : Nth(S \cup {n}, k) = Nth(S, k)
           /\ Nth(S \cup {n}, Cardinality(S) + 1) = n
<1> DEFINE T == S \cup {n}
<1>1. IsFiniteSet(T) /\ Cardinality(T) = Cardinality(S) + 1
  BY FS_AddElement
<1>2. T \in SUBSET Nat
  OBVIOUS
<1>3. ASSUME NEW j \in S PROVE Rank(T, j) = Rank(S, j)
  <2>1. ~(n <= j)
    OBVIOUS
  <2>2. {x \in T : x <= j} = {x \in S : x <= j}
    BY <2>1
  <2> QED
    BY <2>2 DEF Rank
<1>4. Rank(T, n) = Cardinality(S) + 1
  <2>1. \A x \in T : x <= n
    OBVIOUS
  <2>2. {x \in T : x <= n} = T
    BY <2>1
  <2> QED
    BY <2>2, <1>1 DEF Rank
<1>5. ASSUME NEW k \in 1..Cardinality(S) PROVE Nth(T, k) = Nth(S, k)
  <2>1. Nth(S, k) \in S /\ Rank(S, Nth(S, k)) = k
    BY NthOfRank
  <2>2. Nth(S, k) \in T /\ Rank(T, Nth(S, k)) = k
    BY <2>1, <1>3
  <2> HIDE DEF T
  <2> QED
    BY <2>2, <1>1, <1>2, NthIsUnique
<1>6. Nth(T, Cardinality(S) + 1) = n
  <2>1. n \in T
    OBVIOUS
  <2> HIDE DEF T
  <2> QED
    BY <2>1, <1>1, <1>2, <1>4, NthIsUnique
<1> QED
  BY <1>1, <1>5, <1>6

---------------------------------------------------------------------------
(* The items at some positions. *)

\* Only the items at these positions matter.
LEMMA AtAgree ==
    ASSUME NEW S \in SUBSET Nat, IsFiniteSet(S), NEW s, NEW t,
           \A i \in S : s[i] = t[i]
    PROVE  At(s, S) = At(t, S)
BY NthOfRank DEF At

LEMMA AtNothing == \A s : At(s, {}) = <<>>
BY FS_EmptySet, SMT DEF At

\* One position more, after all others, appends its item.
LEMMA AtAdding ==
    ASSUME NEW S \in SUBSET Nat, IsFiniteSet(S), NEW n \in Nat, \A x \in S : x < n,
           NEW s
    PROVE  At(s, S \cup {n}) = Append(At(s, S), s[n])
<1> DEFINE c == Cardinality(S)
           T == S \cup {n}
<1>1. c \in Nat
  BY FS_CardinalityType
<1>2. /\ Cardinality(T) = c + 1
      /\ \A k \in 1..c : Nth(T, k) = Nth(S, k)
      /\ Nth(T, c + 1) = n
  BY NthAfterAdding
<1>3. At(s, T) = [k \in 1..(c + 1) |-> s[Nth(T, k)]]
  BY <1>2 DEF At
<1>4. At(s, S) = [k \in 1..c |-> s[Nth(S, k)]]
  BY DEF At
<1> HIDE DEF c, T
<1>5. Append(At(s, S), s[n]) = [k \in 1..(c + 1) |-> IF k = c + 1 THEN s[n] ELSE s[Nth(S, k)]]
  BY <1>1, <1>4
<1>6. \A k \in 1..(c + 1) : s[Nth(T, k)] = IF k = c + 1 THEN s[n] ELSE s[Nth(S, k)]
  BY <1>1, <1>2
<1>7. At(s, T) = Append(At(s, S), s[n])
  BY <1>3, <1>5, <1>6
<1> QED
  BY <1>7 DEF T

LEMMA AtIsSeq ==
    ASSUME NEW S \in SUBSET Nat, IsFiniteSet(S), NEW X, NEW s, \A i \in S : s[i] \in X
    PROVE  At(s, S) \in Seq(X) /\ Len(At(s, S)) = Cardinality(S)
<1>1. Cardinality(S) \in Nat
  BY FS_CardinalityType
<1>2. \A k \in 1..Cardinality(S) : s[Nth(S, k)] \in X
  BY NthOfRank
<1> QED
  BY <1>1, <1>2 DEF At

---------------------------------------------------------------------------
(* The blocks of a stream that is one line longer. *)

Texts == Values \cup {Empty}

LEMMA LineProperties ==
    ASSUME NEW x \in Lines
    PROVE  x.kind \in {"event", "data", "blank", "other"} /\ x.value \in Texts
BY DEF Lines, Texts

LEMMA FieldsFinite ==
    ASSUME NEW ls, NEW i \in Nat, NEW kind
    PROVE  /\ Fields(ls, i, kind) \in SUBSET Nat
           /\ Fields(ls, i, kind) \in SUBSET (1..(i - 1))
           /\ IsFiniteSet(Fields(ls, i, kind))
<1>1. Fields(ls, i, kind) \in SUBSET (1..(i - 1))
  BY DEF Fields
<1>2. IsFiniteSet(1..(i - 1))
  BY FS_Interval
<1>3. 1..(i - 1) \in SUBSET Nat
  OBVIOUS
<1> QED
  BY <1>1, <1>2, <1>3, FS_Subset

\* The blocks that had ended stay what they are.
LEMMA FieldsKept ==
    ASSUME NEW ls \in Seq(Lines), NEW x \in Lines, NEW i \in 1..(Len(ls) + 1), NEW kind
    PROVE  Fields(Append(ls, x), i, kind) = Fields(ls, i, kind)
<1>1. \A j \in 1..(i - 1) : Append(ls, x)[j] = ls[j]
  OBVIOUS
<1>2. \A j \in 1..(i - 1) : j..(i - 1) \subseteq 1..(i - 1)
  OBVIOUS
<1> QED
  BY <1>1, <1>2 DEF Fields

LEMMA BlockKept ==
    ASSUME NEW ls \in Seq(Lines), NEW x \in Lines, NEW i \in 1..(Len(ls) + 1)
    PROVE  Block(Append(ls, x), i) = Block(ls, i)
<1>1. \A kind : Fields(Append(ls, x), i, kind) = Fields(ls, i, kind)
  BY FieldsKept
<1>2. [j \in 1..(i - 1) |-> Append(ls, x)[j].value] = [j \in 1..(i - 1) |-> ls[j].value]
  OBVIOUS
<1>3. \A kind : FieldValues(Append(ls, x), i, kind) = FieldValues(ls, i, kind)
  BY <1>1, <1>2, Zenon DEF FieldValues
<1>4. /\ FieldValues(Append(ls, x), i, "event") = FieldValues(ls, i, "event")
      /\ FieldValues(Append(ls, x), i, "data") = FieldValues(ls, i, "data")
  BY <1>3, Zenon
<1> QED
  BY <1>4 DEF Block

\* The last block grows by a field, or a blank line ends it.
LEMMA FieldsGrow ==
    ASSUME NEW ls \in Seq(Lines), NEW x \in Lines, NEW kind, kind # "blank"
    PROVE  Fields(Append(ls, x), Len(ls) + 2, kind) =
               IF x.kind = "blank" THEN {}
               ELSE IF x.kind = kind THEN Fields(ls, Len(ls) + 1, kind) \cup {Len(ls) + 1}
               ELSE Fields(ls, Len(ls) + 1, kind)
<1> DEFINE n == Len(ls)
           more == Append(ls, x)
<1>1. n \in Nat /\ more[n + 1] = x /\ \A j \in 1..n : more[j] = ls[j]
  OBVIOUS
<1>2. /\ n + 2 - 1 = n + 1
      /\ n + 1 - 1 = n
      /\ 1..(n + 1) = 1..n \cup {n + 1}
      /\ \A j \in 1..n : j..(n + 1) = j..n \cup {n + 1} /\ j..n \subseteq 1..n
      /\ (n + 1)..(n + 1) = {n + 1}
  BY <1>1
<1> HIDE DEF n, more
<1>3. CASE x.kind = "blank"
  BY <1>1, <1>2, <1>3 DEF Fields, n, more
<1>4. CASE x.kind # "blank"
  <2>1. \A j \in 1..n : /\ more[j].kind = ls[j].kind
                        /\ (\A h \in j..(n + 1) : more[h].kind # "blank")
                               <=> \A h \in j..n : ls[h].kind # "blank"
    BY <1>1, <1>2, <1>4
  <2>2. /\ Fields(more, n + 2, kind) =
           {j \in 1..(n + 1) : /\ more[j].kind = kind
                               /\ \A h \in j..(n + 1) : more[h].kind # "blank"}
        /\ Fields(ls, n + 1, kind) =
           {j \in 1..n : /\ ls[j].kind = kind
                         /\ \A h \in j..n : ls[h].kind # "blank"}
    BY <1>1, <1>2 DEF Fields
  <2>3. \A h \in (n + 1)..(n + 1) : more[h].kind # "blank"
    BY <1>1, <1>2, <1>4
  <2>4. Fields(more, n + 2, kind) =
           IF x.kind = kind THEN Fields(ls, n + 1, kind) \cup {n + 1} ELSE Fields(ls, n + 1, kind)
    BY <1>1, <1>2, <2>1, <2>2, <2>3
  <2> QED
    BY <2>4, <1>4 DEF n, more
<1> QED
  BY <1>3, <1>4

LEMMA ConsumeCases ==
    ASSUME NEW p, NEW x
    PROVE  /\ x.kind = "event" => Consume(p, x) = [p EXCEPT !.type = x.value]
           /\ x.kind = "data" => Consume(p, x) = [p EXCEPT !.data = Append(@, x.value)]
           /\ x.kind = "blank" => Consume(p, x) = IF Begun(p) THEN Fresh ELSE p
           /\ x.kind = "other" => Consume(p, x) = p
<1>1. CASE x.kind = "event"
  BY <1>1, Zenon DEF Consume
<1>2. CASE x.kind = "data"
  BY <1>2, Zenon DEF Consume
<1>3. CASE x.kind = "blank" /\ Begun(p)
  BY <1>3, Zenon DEF Consume
<1>4. CASE x.kind = "blank" /\ ~Begun(p)
  BY <1>4, Zenon DEF Consume
<1>5. CASE x.kind = "other"
  BY <1>5, Zenon DEF Consume
<1> QED
  BY <1>1, <1>2, <1>3, <1>4, <1>5

LEMMA FieldValuesGrow ==
    ASSUME NEW ls \in Seq(Lines), NEW x \in Lines, NEW kind, kind # "blank"
    PROVE  /\ FieldValues(ls, Len(ls) + 1, kind) \in Seq(Texts)
           /\ FieldValues(Append(ls, x), Len(ls) + 2, kind) =
                  IF x.kind = "blank" THEN <<>>
                  ELSE IF x.kind = kind THEN Append(FieldValues(ls, Len(ls) + 1, kind), x.value)
                  ELSE FieldValues(ls, Len(ls) + 1, kind)
<1> DEFINE n == Len(ls)
           more == Append(ls, x)
           before == [j \in 1..n |-> ls[j].value]
           after == [j \in 1..(n + 1) |-> more[j].value]
           F == Fields(ls, n + 1, kind)
           G == Fields(more, n + 2, kind)
<1>0. /\ n \in Nat
      /\ n + 1 - 1 = n
      /\ n + 2 - 1 = n + 1
  OBVIOUS
<1>1. \A j \in 1..n : after[j] = before[j] /\ before[j] \in Texts
  BY LineProperties
<1>2. after[n + 1] = x.value
  OBVIOUS
<1>3. G = IF x.kind = "blank" THEN {} ELSE IF x.kind = kind THEN F \cup {n + 1} ELSE F
  BY FieldsGrow
<1>4. /\ FieldValues(ls, n + 1, kind) = At(before, F)
      /\ FieldValues(more, n + 2, kind) = At(after, G)
  <2>1. /\ [j \in 1..(n + 1 - 1) |-> ls[j].value] = before
        /\ [j \in 1..(n + 2 - 1) |-> more[j].value] = after
    BY <1>0
  <2>2. /\ FieldValues(ls, n + 1, kind) = At([j \in 1..(n + 1 - 1) |-> ls[j].value], F)
        /\ FieldValues(more, n + 2, kind) = At([j \in 1..(n + 2 - 1) |-> more[j].value], G)
    BY DEF FieldValues
  <2> HIDE DEF n, more, before, after, F, G
  <2> QED
    BY <2>1, <2>2, Zenon
<1>5. F \in SUBSET Nat /\ F \in SUBSET (1..n) /\ IsFiniteSet(F)
  <2> HIDE DEF n
  <2> QED
    BY <1>0, FieldsFinite
<1>6. n + 1 \in Nat /\ \A j \in F : j < n + 1
  BY <1>0, <1>5
<1> HIDE DEF n, more, before, after, F, G
<1>7. At(before, F) \in Seq(Texts)
  BY <1>1, <1>5, AtIsSeq
<1>8. At(after, F) = At(before, F)
  BY <1>1, <1>5, AtAgree
<1>9. At(after, F \cup {n + 1}) = Append(At(after, F), after[n + 1])
  BY <1>5, <1>6, AtAdding
<1>10. At(after, G) = IF x.kind = "blank" THEN <<>>
                      ELSE IF x.kind = kind THEN Append(At(before, F), x.value)
                      ELSE At(before, F)
  BY <1>2, <1>3, <1>8, <1>9, AtNothing
<1> QED
  BY <1>4, <1>7, <1>10 DEF n, more

\* One step of the parser is one line more of the block.
LEMMA BlockGrows ==
    ASSUME NEW ls \in Seq(Lines), NEW x \in Lines
    PROVE  Block(Append(ls, x), Len(ls) + 2) = Consume(Block(ls, Len(ls) + 1), x)
<1> DEFINE n == Len(ls)
           more == Append(ls, x)
           T == FieldValues(ls, n + 1, "event")
           D == FieldValues(ls, n + 1, "data")
           V == FieldValues(more, n + 2, "event")
           E == FieldValues(more, n + 2, "data")
           p == Block(ls, n + 1)
           q == Block(more, n + 2)
<1>1. p = [type |-> IF T = <<>> THEN Empty ELSE T[Len(T)], data |-> D]
  BY Zenon DEF Block
<1>2. q = [type |-> IF V = <<>> THEN Empty ELSE V[Len(V)], data |-> E]
  BY Zenon DEF Block
<1>3. /\ V = IF x.kind = "blank" THEN <<>> ELSE IF x.kind = "event" THEN Append(T, x.value) ELSE T
      /\ E = IF x.kind = "blank" THEN <<>> ELSE IF x.kind = "data" THEN Append(D, x.value) ELSE D
      /\ T \in Seq(Texts)
  BY FieldValuesGrow
<1>4. x.kind \in {"event", "data", "blank", "other"}
  BY LineProperties
<1> HIDE DEF n, more, T, D, V, E, p, q
<1>5. ASSUME x.kind = "event" PROVE q = Consume(p, x)
  <2>1. V = Append(T, x.value) /\ E = D
    BY <1>3, <1>5
  <2>2. V # <<>> /\ V[Len(V)] = x.value
    <3>1. x.value \in Texts /\ T \in Seq(Texts)
      BY <1>3, LineProperties
    <3>2. /\ V # <<>>
          /\ Len(V) = Len(T) + 1
          /\ V[Len(T) + 1] = x.value
      BY <2>1, <3>1, AppendProperties
    <3> QED
      BY <3>2
  <2>3. q = [type |-> x.value, data |-> D]
    BY <1>2, <2>1, <2>2
  <2>4. q = [p EXCEPT !.type = x.value]
    BY <1>1, <2>3
  <2> QED
    BY <1>5, <2>4, ConsumeCases
<1>6. ASSUME x.kind = "data" PROVE q = Consume(p, x)
  <2>1. V = T /\ E = Append(D, x.value)
    BY <1>3, <1>6
  <2>2. q = [p EXCEPT !.data = Append(@, x.value)]
    <3> DEFINE t == IF T = <<>> THEN Empty ELSE T[Len(T)]
               a == Append(D, x.value)
    <3>1. p = [type |-> t, data |-> D] /\ q = [type |-> t, data |-> a] /\ p.data = D
      BY <1>1, <1>2, <2>1
    <3>2. a = Append(p.data, x.value)
      BY <3>1
    <3> HIDE DEF t, a
    <3>3. q = [p EXCEPT !.data = a]
      BY <3>1
    <3> QED
      BY <3>2, <3>3
  <2> QED
    BY <1>6, <2>2, ConsumeCases
<1>7. ASSUME x.kind = "other" PROVE q = Consume(p, x)
  BY <1>1, <1>2, <1>3, <1>7, ConsumeCases
<1>8. ASSUME x.kind = "blank" PROVE q = Consume(p, x)
  <2>1. q = Fresh
    BY <1>2, <1>3, <1>8 DEF Fresh
  <2>2. ~Begun(p) => p = Fresh
    BY <1>1 DEF Begun, Fresh
  <2> QED
    BY <1>8, <2>1, <2>2, ConsumeCases
<1>9. q = Consume(p, x)
  BY <1>4, <1>5, <1>6, <1>7, <1>8
<1> QED
  BY <1>9 DEF n, more, p, q

---------------------------------------------------------------------------
(* The events of a stream that is one line longer. *)

\* A blank line after a block with fields yields its event, another line none.
LEMMA CompleteEventsGrow ==
    ASSUME NEW ls \in Seq(Lines), NEW x \in Lines
    PROVE  CompleteEvents(Append(ls, x)) =
               CompleteEvents(ls) \o Yielded(Block(ls, Len(ls) + 1), x)
<1> DEFINE n == Len(ls)
           more == Append(ls, x)
           p == Block(ls, n + 1)
           S == {i \in DOMAIN ls : ls[i].kind = "blank" /\ Begun(Block(ls, i))}
           R == {i \in DOMAIN more : more[i].kind = "blank" /\ Begun(Block(more, i))}
           before == [i \in DOMAIN ls |-> Event(Block(ls, i))]
           after == [i \in DOMAIN more |-> Event(Block(more, i))]
           X == {before[i] : i \in S}
<1>0. /\ n \in Nat
      /\ DOMAIN ls = 1..n
      /\ DOMAIN more = 1..(n + 1)
      /\ 1..(n + 1) = 1..n \cup {n + 1}
      /\ more[n + 1] = x
      /\ \A i \in 1..n : more[i] = ls[i]
  OBVIOUS
<1>1. /\ \A i \in 1..n : Block(more, i) = Block(ls, i)
      /\ Block(more, n + 1) = p
  <2>1. \A i \in 1..(n + 1) : Block(more, i) = Block(ls, i)
    BY BlockKept
  <2> QED
    BY <1>0, <2>1
<1>2. /\ S \in SUBSET Nat /\ S \in SUBSET (1..n) /\ IsFiniteSet(S)
      /\ n + 1 \in Nat /\ \A i \in S : i < n + 1
  <2>1. IsFiniteSet(1..n)
    BY <1>0, FS_Interval
  <2>2. S \in SUBSET (1..n)
    BY <1>0
  <2> QED
    BY <1>0, <2>1, <2>2, FS_Subset
<1>3. R = IF x.kind = "blank" /\ Begun(p) THEN S \cup {n + 1} ELSE S
  <2> HIDE DEF n, more, p
  <2> QED
    BY <1>0, <1>1
<1>4. \A i \in S : after[i] = before[i]
  <2> HIDE DEF n, more, p
  <2> QED
    BY <1>0, <1>1
<1>5. after[n + 1] = Event(p)
  <2> HIDE DEF n, more, p
  <2> QED
    BY <1>0, <1>1
<1>6. CompleteEvents(ls) = At(before, S) /\ CompleteEvents(more) = At(after, R)
  BY DEF CompleteEvents
<1>7. \A i \in S : before[i] \in X
  OBVIOUS
<1> HIDE DEF n, more, p, S, R, before, after, X
<1>8. At(after, S) = At(before, S)
  BY <1>2, <1>4, AtAgree
<1>9. At(after, S \cup {n + 1}) = Append(At(after, S), after[n + 1])
  BY <1>2, AtAdding
<1>10. At(before, S) \in Seq(X)
  BY <1>2, <1>7, AtIsSeq
<1>11. At(after, R) = At(before, S) \o Yielded(p, x)
  <2>1. CASE x.kind = "blank" /\ Begun(p)
    <3>1. At(after, R) = Append(At(before, S), Event(p))
      BY <2>1, <1>3, <1>5, <1>8, <1>9
    <3>2. Yielded(p, x) = <<Event(p)>>
      BY <2>1 DEF Yielded
    <3>3. At(before, S) \o <<Event(p)>> = Append(At(before, S), Event(p))
      BY <1>10
    <3> QED
      BY <3>1, <3>2, <3>3
  <2>2. CASE ~(x.kind = "blank" /\ Begun(p))
    <3>1. At(after, R) = At(before, S)
      BY <2>2, <1>3, <1>8
    <3>2. Yielded(p, x) = <<>>
      BY <2>2 DEF Yielded
    <3>3. At(before, S) \o <<>> = At(before, S)
      BY <1>10
    <3> QED
      BY <3>1, <3>2, <3>3
  <2> QED
    BY <2>1, <2>2
<1> QED
  BY <1>6, <1>11 DEF n, more, p

\* The block at the end counts as complete when the stream has ended.
LEMMA AllEventsFlush ==
    ASSUME NEW ls \in Seq(Lines)
    PROVE  AllEvents(ls) = CompleteEvents(ls) \o Flushed(Block(ls, Len(ls) + 1))
<1> DEFINE x == [kind |-> "blank", value |-> Empty]
<1>1. x \in Lines /\ x.kind = "blank"
  BY DEF Lines
<1> HIDE DEF x
<1>2. CompleteEvents(Append(ls, x)) = CompleteEvents(ls) \o Yielded(Block(ls, Len(ls) + 1), x)
  BY <1>1, CompleteEventsGrow
<1>3. Yielded(Block(ls, Len(ls) + 1), x) = Flushed(Block(ls, Len(ls) + 1))
  BY <1>1 DEF Yielded, Flushed
<1> QED
  BY <1>2, <1>3 DEF AllEvents, x

LEMMA NoEventsYet == CompleteEvents(<<>>) = <<>> /\ Block(<<>>, 1) = Fresh
<1>1. CompleteEvents(<<>>) = <<>>
  <2>1. {i \in DOMAIN <<>> : <<>>[i].kind = "blank" /\ Begun(Block(<<>>, i))} = {}
    OBVIOUS
  <2> QED
    BY <2>1, AtNothing, Zenon DEF CompleteEvents
<1>2. \A kind : Fields(<<>>, 1, kind) = {}
  BY DEF Fields
<1>3. \A kind : FieldValues(<<>>, 1, kind) = <<>>
  BY <1>2, AtNothing, Zenon DEF FieldValues
<1>4. FieldValues(<<>>, 1, "event") = <<>> /\ FieldValues(<<>>, 1, "data") = <<>>
  BY <1>3
<1> QED
  BY <1>1, <1>4 DEF Block, Fresh

Yields == [type : Texts \cup {Default}, data : Seq(Texts)]
Parsers == [type : Texts, data : Seq(Texts)]

LEMMA EventType == ASSUME NEW p \in Parsers PROVE Event(p) \in Yields
<1> DEFINE t == IF p.type = Empty THEN Default ELSE p.type
           d == IF p.data = <<>> THEN <<Empty>> ELSE p.data
<1>1. Event(p) = [type |-> t, data |-> d]
  BY DEF Event
<1>2. <<Empty>> \in Seq(Texts)
  BY DEF Texts
<1>3. t \in Texts \cup {Default} /\ d \in Seq(Texts)
  BY <1>2 DEF Parsers
<1> HIDE DEF t, d
<1> QED
  BY <1>1, <1>3 DEF Yields

\* The parser yields nothing or one event.
LEMMA YieldTypes ==
    ASSUME NEW p \in Parsers, NEW x \in Lines
    PROVE  Yielded(p, x) \in Seq(Yields) /\ Flushed(p) \in Seq(Yields)
BY EventType DEF Yielded, Flushed

LEMMA ConsumeType == ASSUME NEW p \in Parsers, NEW x \in Lines PROVE Consume(p, x) \in Parsers
<1>1. x.kind \in {"event", "data", "blank", "other"} /\ x.value \in Texts
  BY LineProperties
<1>2. Fresh \in Parsers
  BY DEF Fresh, Texts, Parsers
<1>3. [p EXCEPT !.type = x.value] \in Parsers
  BY <1>1 DEF Parsers
<1>4. [p EXCEPT !.data = Append(@, x.value)] \in Parsers
  <2> DEFINE d == Append(p.data, x.value)
  <2>1. d \in Seq(Texts)
    BY <1>1 DEF Parsers
  <2> HIDE DEF d
  <2>2. [p EXCEPT !.data = d] \in Parsers
    BY <2>1 DEF Parsers
  <2> QED
    BY <2>2 DEF d
<1>5. \/ Consume(p, x) = [p EXCEPT !.type = x.value]
      \/ Consume(p, x) = [p EXCEPT !.data = Append(@, x.value)]
      \/ Consume(p, x) = Fresh
      \/ Consume(p, x) = p
  BY <1>1, ConsumeCases
<1> QED
  BY <1>2, <1>3, <1>4, <1>5, Zenon

---------------------------------------------------------------------------
(* The invariant. *)

\* The parser holds the block that is not yet complete.
ParserInv ==
    /\ lines \in Seq(Lines)
    /\ parser \in Parsers
    /\ parser = Block(lines, Len(lines) + 1)
    /\ CompleteEvents(lines) \in Seq(Yields)

\* Where the coroutine stands, and what the client has while the worker was not asked.
PlaceInv ==
    /\ at \in {"connected", "queued", "opening", "reading", "over"}
    /\ at = "connected" => ended = "unasked"
    /\ at = "queued" => ended = "unasked" /\ events = <<Queued>>
    /\ at \in {"opening", "reading"} => ended = "open"
    /\ at = "opening" => lines = <<>>
    /\ ended = "unasked" => /\ lines = <<>>
                            /\ events \in {<<>>, <<Queued>>, <<Queued, Error>>}

RepliesInv == ParserInv /\ PlaceInv /\ ForwardsBlocks

LEMMA InitEstablishes == RepliesInit => RepliesInv
<1> SUFFICES ASSUME RepliesInit PROVE RepliesInv
  OBVIOUS
<1> USE DEF RepliesInit
<1>1. ParserInv
  <2>1. Len(lines) + 1 = 1
    OBVIOUS
  <2>2. CompleteEvents(lines) = <<>> /\ Block(lines, 1) = Fresh
    BY NoEventsYet
  <2>3. parser = Block(lines, Len(lines) + 1)
    BY <2>1, <2>2, Zenon
  <2>4. <<>> \in Seq(Yields) /\ lines \in Seq(Lines)
    OBVIOUS
  <2>5. parser \in Parsers
    BY DEF Fresh, Texts, Parsers
  <2> QED
    BY <2>2, <2>3, <2>4, <2>5, Zenon DEF ParserInv
<1>2. PlaceInv
  BY DEF PlaceInv
<1>3. ForwardsBlocks
  BY DEF ForwardsBlocks
<1> QED
  BY <1>1, <1>2, <1>3 DEF RepliesInv

---------------------------------------------------------------------------
(* The steps. *)

\* What the client should have read, while the stream is open or after it broke.
LEMMA AnswerCases ==
    /\ ended \notin {"clean", "refused"} => Answer = CompleteEvents(lines)
    /\ ended = "clean" => Answer = Append(AllEvents(lines), Done)
    /\ ended = "refused" => Answer = <<Error, Done>>
<1>1. CASE ended = "clean"
  BY <1>1, Zenon DEF Answer
<1>2. CASE ended = "refused"
  BY <1>2, Zenon DEF Answer
<1>3. CASE ended \notin {"clean", "refused"}
  BY <1>3, Zenon DEF Answer
<1> QED
  BY <1>1, <1>2, <1>3

\* Nothing is read or sent.
LEMMA SilentStepKeeps ==
    ASSUME RepliesInv, UNCHANGED <<lines, parser, events>>,
           at' \in {"connected", "queued", "opening", "reading", "over"},
           \/ ended' = ended
           \/ ended = "open" /\ ended' = "broken" /\ at' = "over",
           at' = at \/ at' = "over" \/ (at = "opening" /\ at' = "reading")
    PROVE  RepliesInv'
<1>1. ParserInv'
  BY DEF RepliesInv, ParserInv
<1>2. PlaceInv'
  BY DEF RepliesInv, PlaceInv
<1>3. ForwardsBlocks'
  <2>1. CASE ended' = ended
    <3>1. Answer' = Answer
      BY <2>1, Zenon DEF Answer
    <3> QED
      BY <2>1, <3>1 DEF RepliesInv, ForwardsBlocks
  <2>2. CASE ended = "open" /\ ended' = "broken"
    <3>1. Answer = CompleteEvents(lines)
      BY <2>2, AnswerCases
    <3>2. Answer' = CompleteEvents(lines)'
      BY <2>2, Zenon DEF Answer
    <3>3. CompleteEvents(lines)' = CompleteEvents(lines)
      OBVIOUS
    <3> QED
      BY <2>2, <3>1, <3>2, <3>3 DEF RepliesInv, ForwardsBlocks
  <2> QED
    BY <2>1, <2>2
<1> QED
  BY <1>1, <1>2, <1>3 DEF RepliesInv

LEMMA PairOfTwo == ASSUME NEW a, NEW b PROVE Append(<<a>>, b) = <<a, b>>
<1> DEFINE X == {a, b}
           s == Append(<<a>>, b)
           t == <<a, b>>
<1>1. s \in Seq(X) /\ t \in Seq(X)
  OBVIOUS
<1>2. Len(s) = 2 /\ s[1] = a /\ s[2] = b
  OBVIOUS
<1>3. Len(t) = 2 /\ t[1] = a /\ t[2] = b
  OBVIOUS
<1> HIDE DEF s, t, X
<1>4. s = t
  BY <1>1, <1>2, <1>3, SeqEqual
<1> QED
  BY <1>4 DEF s, t

LEMMA TwoPairs ==
    ASSUME NEW a, NEW b, NEW c, NEW d
    PROVE  <<a, b>> \o <<c, d>> = <<a, b, c, d>>
<1> DEFINE X == {a, b, c, d}
           s == <<a, b>> \o <<c, d>>
           t == <<a, b, c, d>>
<1>1. s \in Seq(X) /\ t \in Seq(X)
  OBVIOUS
<1>2. Len(s) = 4 /\ s[1] = a /\ s[2] = b /\ s[3] = c /\ s[4] = d
  OBVIOUS
<1>3. Len(t) = 4 /\ t[1] = a /\ t[2] = b /\ t[3] = c /\ t[4] = d
  OBVIOUS
<1> HIDE DEF s, t, X
<1>4. s = t
  BY <1>1, <1>2, <1>3, SeqEqual
<1> QED
  BY <1>4 DEF s, t

\* The broker sends an event of its own before the worker is asked, or gives up.
LEMMA WaitingKeeps == RepliesInv /\ (Registers \/ HandoffTimesOut) => RepliesInv'
<1> SUFFICES ASSUME RepliesInv, Registers \/ HandoffTimesOut PROVE RepliesInv'
  OBVIOUS
<1>0. /\ ended = "unasked" /\ UNCHANGED <<lines, ended, parser>> /\ lines = <<>>
      /\ at' \in {"queued", "over"}
      /\ events' \in {<<Queued>>, <<Queued, Error>>}
      /\ at' = "queued" => events' = <<Queued>>
  <2>1. Append(<<Queued>>, Error) = <<Queued, Error>>
    BY PairOfTwo
  <2>2. CASE Registers
    BY <2>2 DEF RepliesInv, PlaceInv, Registers
  <2>3. CASE HandoffTimesOut
    BY <2>1, <2>3 DEF RepliesInv, PlaceInv, HandoffTimesOut
  <2> QED
    BY <2>2, <2>3
<1>1. ParserInv'
  BY <1>0 DEF RepliesInv, ParserInv
<1>2. PlaceInv'
  BY <1>0 DEF PlaceInv
<1>3. ForwardsBlocks'
  BY <1>0 DEF ForwardsBlocks
<1> QED
  BY <1>1, <1>2, <1>3 DEF RepliesInv

\* The worker is asked: it has sent nothing, and "processing" is the last event.
LEMMA HandoffKeeps == RepliesInv /\ HandedOff => RepliesInv'
<1> SUFFICES ASSUME RepliesInv, HandedOff PROVE RepliesInv'
  OBVIOUS
<1>0. /\ UNCHANGED <<lines, parser>> /\ lines = <<>> /\ at' = "opening" /\ ended' = "open"
      /\ events' = Append(events, Processing) /\ events = <<Queued>>
  BY DEF RepliesInv, PlaceInv, HandedOff
<1>1. ParserInv'
  BY <1>0 DEF RepliesInv, ParserInv
<1>2. PlaceInv'
  BY <1>0 DEF PlaceInv
<1>3. Answer' = <<>>
  <2>1. Answer' = CompleteEvents(lines)'
    BY <1>0, Zenon DEF Answer
  <2>2. CompleteEvents(lines)' = CompleteEvents(<<>>)
    BY <1>0
  <2> QED
    BY <2>1, <2>2, NoEventsYet
<1>4. events' = <<Queued, Processing>> \o <<>>
  <2>1. Append(<<Queued>>, Processing) = <<Queued, Processing>>
    BY PairOfTwo
  <2>2. <<Queued, Processing>> \o <<>> = <<Queued, Processing>>
    OBVIOUS
  <2> QED
    BY <1>0, <2>1, <2>2, Zenon
<1>5. ForwardsBlocks'
  BY <1>3, <1>4 DEF ForwardsBlocks
<1> QED
  BY <1>1, <1>2, <1>5 DEF RepliesInv

\* A refusal: "error" and "done" are all the client gets.
LEMMA RefusalKeeps == RepliesInv /\ WorkerRefuses => RepliesInv'
<1> SUFFICES ASSUME RepliesInv, WorkerRefuses PROVE RepliesInv'
  OBVIOUS
<1>0. /\ UNCHANGED <<lines, parser>> /\ lines = <<>> /\ ended = "open"
      /\ at' = "over" /\ ended' = "refused"
      /\ events' = events \o <<Error, Done>>
  BY DEF RepliesInv, PlaceInv, WorkerRefuses
<1>1. ParserInv'
  BY <1>0 DEF RepliesInv, ParserInv
<1>2. PlaceInv'
  BY <1>0 DEF PlaceInv
<1>3. events = <<Queued, Processing>>
  <2>1. Answer = <<>>
    BY <1>0, AnswerCases, NoEventsYet
  <2>2. <<Queued, Processing>> \o <<>> = <<Queued, Processing>>
    OBVIOUS
  <2> QED
    BY <1>0, <2>1, <2>2 DEF RepliesInv, ForwardsBlocks
<1>4. Answer' = <<Error, Done>>
  BY <1>0, Zenon DEF Answer
<1>5. ForwardsBlocks'
  BY <1>0, <1>3, <1>4 DEF ForwardsBlocks
<1> QED
  BY <1>1, <1>2, <1>5 DEF RepliesInv

\* A sequence before two others.
LEMMA PairBefore ==
    ASSUME NEW X, NEW a, NEW b, NEW y \in Seq(X), NEW z \in Seq(X)
    PROVE  (<<a, b>> \o y) \o z = <<a, b>> \o (y \o z)
<1> DEFINE s == <<a, b>>
           U == X \cup {a, b}
<1>1. s \in Seq(U)
  OBVIOUS
<1>2. y \in Seq(U) /\ z \in Seq(U)
  OBVIOUS
<1> HIDE DEF s, U
<1>3. (s \o y) \o z = s \o (y \o z)
  BY <1>1, <1>2, ConcatAssociative
<1> QED
  BY <1>3 DEF s

\* The parser consumes a line, and what it yields is forwarded.
LEMMA ReadLineKeeps ==
    ASSUME RepliesInv, NEW line \in Lines, ReadLine(line)
    PROVE  RepliesInv'
<1> DEFINE z == Yielded(parser, line)
           y == CompleteEvents(lines)
<1>0. /\ lines \in Seq(Lines) /\ lines' = Append(lines, line)
      /\ parser \in Parsers /\ parser = Block(lines, Len(lines) + 1)
      /\ parser' = Consume(parser, line)
      /\ y \in Seq(Yields)
      /\ at = "reading" /\ at' = "reading" /\ ended = "open" /\ ended' = "open"
      /\ events' = events \o z
  BY DEF RepliesInv, ParserInv, PlaceInv, ReadLine
<1>1. z \in Seq(Yields)
  BY <1>0, YieldTypes
<1>2. CompleteEvents(lines') = y \o z
  BY <1>0, CompleteEventsGrow
<1>3. parser' = Block(lines', Len(lines') + 1)
  <2>1. Len(lines') + 1 = Len(lines) + 2
    BY <1>0
  <2>2. Block(lines', Len(lines) + 2) = parser'
    BY <1>0, BlockGrows
  <2> QED
    BY <2>1, <2>2, Zenon
<1>4. parser' \in Parsers
  BY <1>0, ConsumeType
<1>5. events = <<Queued, Processing>> \o y
  <2>1. Answer = y
    BY <1>0, AnswerCases
  <2> QED
    BY <1>0, <2>1 DEF RepliesInv, ForwardsBlocks
<1>6. Answer' = CompleteEvents(lines')
  BY <1>0, Zenon DEF Answer
<1> HIDE DEF y, z
<1>7. ParserInv'
  <2>1. lines' \in Seq(Lines) /\ y \o z \in Seq(Yields)
    BY <1>0, <1>1
  <2> QED
    BY <1>2, <1>3, <1>4, <2>1 DEF ParserInv
<1>8. PlaceInv'
  BY <1>0 DEF PlaceInv
<1>9. ForwardsBlocks'
  <2>1. (<<Queued, Processing>> \o y) \o z = <<Queued, Processing>> \o (y \o z)
    BY <1>0, <1>1, PairBefore
  <2> QED
    BY <1>0, <1>2, <1>5, <1>6, <2>1, Zenon DEF ForwardsBlocks
<1> QED
  BY <1>7, <1>8, <1>9 DEF RepliesInv

\* The end of the stream completes its last block; then comes "done".
LEMMA CleanEndKeeps == RepliesInv /\ StreamEndsClean => RepliesInv'
<1> SUFFICES ASSUME RepliesInv, StreamEndsClean PROVE RepliesInv'
  OBVIOUS
<1> DEFINE z == Flushed(parser)
           y == CompleteEvents(lines)
<1>0. /\ lines \in Seq(Lines)
      /\ parser \in Parsers /\ parser = Block(lines, Len(lines) + 1)
      /\ y \in Seq(Yields)
      /\ ended = "open" /\ at' = "over" /\ ended' = "clean" /\ UNCHANGED <<lines, parser>>
      /\ events' = Append(events \o z, Done)
  BY DEF RepliesInv, ParserInv, PlaceInv, StreamEndsClean
<1>1. z \in Seq(Yields)
  BY <1>0, EventType DEF Flushed
<1>2. AllEvents(lines) = y \o z
  BY <1>0, AllEventsFlush
<1>3. events = <<Queued, Processing>> \o y
  <2>1. Answer = y
    BY <1>0, AnswerCases
  <2> QED
    BY <1>0, <2>1 DEF RepliesInv, ForwardsBlocks
<1>4. Answer' = Append(y \o z, Done)
  <2>1. Answer' = Append(AllEvents(lines'), Done)
    BY <1>0, Zenon DEF Answer
  <2> QED
    BY <1>0, <1>2, <2>1
<1> HIDE DEF y, z
<1>5. ParserInv'
  BY <1>0 DEF RepliesInv, ParserInv
<1>6. PlaceInv'
  BY <1>0 DEF PlaceInv
<1>7. ForwardsBlocks'
  <2> DEFINE s == y \o z
             q == <<Queued, Processing>>
  <2>1. events \o z = q \o s
    <3>1. (<<Queued, Processing>> \o y) \o z = <<Queued, Processing>> \o (y \o z)
      BY <1>0, <1>1, PairBefore
    <3>2. events \o z = (<<Queued, Processing>> \o y) \o z
      BY <1>3, Zenon
    <3> QED
      BY <3>1, <3>2, Zenon
  <2>2. s \in Seq(Yields)
    BY <1>0, <1>1
  <2> HIDE DEF s
  <2>3. Append(q \o s, Done) = q \o Append(s, Done)
    BY <2>2
  <2> QED
    BY <1>0, <1>4, <2>1, <2>3 DEF ForwardsBlocks, s
<1> QED
  BY <1>5, <1>6, <1>7 DEF RepliesInv

LEMMA InvariantHolds == RepliesSpec => []RepliesInv
<1>1. ASSUME RepliesInv, [RepliesNext]_replyVars PROVE RepliesInv'
  <2>1. CASE Registers
    BY <1>1, <2>1, WaitingKeeps
  <2>2. CASE HandedOff
    BY <1>1, <2>2, HandoffKeeps
  <2>3. CASE HandoffTimesOut
    BY <1>1, <2>3, WaitingKeeps
  <2>4. CASE WorkerAccepts
    BY <1>1, <2>4, SilentStepKeeps DEF WorkerAccepts
  <2>5. CASE WorkerRefuses
    BY <1>1, <2>5, RefusalKeeps
  <2>6. ASSUME NEW line \in Lines, ReadLine(line) PROVE RepliesInv'
    BY <1>1, <2>6, ReadLineKeeps
  <2>7. CASE StreamEndsClean
    BY <1>1, <2>7, CleanEndKeeps
  <2>8. CASE StreamBreaks
    BY <1>1, <2>8, SilentStepKeeps DEF StreamBreaks, RepliesInv, PlaceInv
  <2>9. CASE ClientLeaves
    BY <1>1, <2>9, SilentStepKeeps DEF ClientLeaves
  <2>10. CASE UNCHANGED replyVars
    BY <1>1, <2>10, SilentStepKeeps DEF replyVars, RepliesInv, PlaceInv
  <2> QED
    BY <1>1, <2>1, <2>2, <2>3, <2>4, <2>5, <2>6, <2>7, <2>8, <2>9, <2>10 DEF RepliesNext
<1> QED
  BY <1>1, InitEstablishes, PTL DEF RepliesSpec

---------------------------------------------------------------------------
(* The theorems. *)

\* The client gets the worker's blocks as events, in order, whole and at once,
\* however long the stream is (_parse_sse_stream, stream_proxy.py:257-285).
THEOREM BlocksForwarded == RepliesSpec => []ForwardsBlocks
<1>1. RepliesInv => ForwardsBlocks
  BY DEF RepliesInv
<1> QED
  BY <1>1, InvariantHolds, PTL

\* No event of the worker is taken for the broker's "done": the worker does not
\* know the message_id.
LEMMA DoneIsTheBrokers ==
    /\ Done \notin Yields
    /\ Done # Queued /\ Done # Processing /\ Done # Error
<1>1. Done.data[1] = MessageId
  BY DEF Done
<1>2. \A e \in Yields : e.data # <<MessageId>>
  <2>1. MessageId \notin Texts
    BY RepliesAssumption DEF Texts
  <2> QED
    BY <2>1 DEF Yields
<1>3. Done \notin Yields
  BY <1>2, Zenon DEF Done
<1>4. Done.type = "done" /\ Queued.type = "queued" /\ Processing.type = "processing"
      /\ Error.type = "error"
  BY DEF Done, Queued, Processing, Error
<1> QED
  BY <1>3, <1>4

\* The broker's "done" is the last event, and the worker's whole answer or an
\* "error" comes before it (proxy_stream, stream_proxy.py:221-236).
THEOREM DoneIsTheEnd == RepliesSpec => []DoneMeansComplete
<1>1. ASSUME RepliesInv PROVE DoneMeansComplete
  <2> DEFINE y == CompleteEvents(lines)
             w == AllEvents(lines)
  <2>1. y \in Seq(Yields) /\ w \in Seq(Yields)
    <3>1. y \in Seq(Yields) /\ Flushed(parser) \in Seq(Yields)
      BY <1>1, EventType DEF RepliesInv, ParserInv, Flushed
    <3>2. w = y \o Flushed(parser)
      BY <1>1, AllEventsFlush DEF RepliesInv, ParserInv
    <3> HIDE DEF y, w
    <3> QED
      BY <3>1, <3>2
  <2>2. CASE ended = "unasked"
    <3>1. events \in {<<>>, <<Queued>>, <<Queued, Error>>}
      BY <1>1, <2>2 DEF RepliesInv, PlaceInv
    <3>2. \A i \in DOMAIN events : events[i] # Done
      BY <3>1, DoneIsTheBrokers
    <3> QED
      BY <3>2 DEF DoneMeansComplete
  <2>3. ended # "unasked" => events = <<Queued, Processing>> \o Answer
    BY <1>1 DEF RepliesInv, ForwardsBlocks
  <2> HIDE DEF y, w
  <2>4. ASSUME NEW s \in Seq(Yields), NEW i \in DOMAIN (<<Queued, Processing>> \o s)
        PROVE  (<<Queued, Processing>> \o s)[i] # Done
    <3>1. (<<Queued, Processing>> \o s)[i] \in {Queued, Processing} \cup Yields
      OBVIOUS
    <3> QED
      BY <3>1, DoneIsTheBrokers
  <2>5. CASE ended = "clean"
    <3>1. events = <<Queued, Processing>> \o Append(w, Done)
      BY <2>3, <2>5, AnswerCases DEF w
    <3>2. /\ Len(events) = Len(w) + 3 /\ DOMAIN events = 1..(Len(w) + 3)
          /\ Len(w) \in Nat
          /\ \A i \in 1..(Len(w) + 2) : /\ events[i] = (<<Queued, Processing>> \o w)[i]
                                        /\ i \in DOMAIN (<<Queued, Processing>> \o w)
      BY <2>1, <3>1
    <3>3. \A i \in 1..(Len(w) + 2) : events[i] # Done
      BY <2>1, <2>4, <3>2
    <3>4. \A i \in DOMAIN events : events[i] = Done => i = Len(events)
      BY <3>2, <3>3
    <3> QED
      BY <2>5, <3>4 DEF DoneMeansComplete
  <2>6. CASE ended = "refused"
    <3>1. events = <<Queued, Processing>> \o <<Error, Done>>
      BY <2>3, <2>6, AnswerCases
    <3>2. events = <<Queued, Processing, Error, Done>>
      BY <3>1, TwoPairs
    <3>3. Error.type = "error"
      BY DEF Error
    <3> QED
      BY <3>2, <3>3, DoneIsTheBrokers DEF DoneMeansComplete
  <2>7. CASE ended \notin {"unasked", "clean", "refused"}
    <3>1. events = <<Queued, Processing>> \o y
      BY <2>3, <2>7, AnswerCases DEF y
    <3>2. \A i \in DOMAIN events : events[i] # Done
      BY <2>1, <2>4, <3>1
    <3> QED
      BY <3>2 DEF DoneMeansComplete
  <2> QED
    BY <2>2, <2>5, <2>6, <2>7
<1> QED
  BY <1>1, InvariantHolds, PTL

===========================================================================
