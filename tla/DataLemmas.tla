----------------------------- MODULE DataLemmas -----------------------------
(***************************************************************************)
(* Lemmas about data, for the proofs of the components: induction over the *)
(* natural numbers for a set in place of a predicate, what a selection of  *)
(* an empty and of an appended sequence is, parts of sequences, free lists,*)
(* rings, and loops along links.                                           *)
(***************************************************************************)
EXTENDS Selections, SequenceTheorems, FiniteSetTheorems, WellFoundedInduction, TLAPS

-----------------------------------------------------------------------------
(* Induction, and selections *)

LessThan == {ss \in Nat \X Nat : ss[1] < ss[2]}

\* The natural numbers are well founded.
LEMMA NatWF == IsWellFoundedOn(LessThan, Nat)
  BY NatLessThanWellFounded DEF OpToRel, LessThan

\* Induction over the natural numbers, for a set in place of a predicate.
LEMMA Induction ==
  ASSUME NEW S, 0 \in S, \A n \in Nat : n \in S => n + 1 \in S
  PROVE  Nat \subseteq S
<1> DEFINE T == Nat \ S
<1> SUFFICES ASSUME T # {} PROVE FALSE
  OBVIOUS
<1>1. T \subseteq Nat
  OBVIOUS
<1> HIDE DEF T
<1>2. PICK x \in T : \A y \in T : ~ (<<y, x>> \in LessThan)
  BY <1>1, NatWF, WFMin
<1>3. x \in Nat /\ x \notin S
  BY DEF T
<1>4. x # 0
  BY <1>3
<1>5. x - 1 \in Nat /\ <<x - 1, x>> \in LessThan
  BY <1>3, <1>4 DEF LessThan
<1>6. x - 1 \in S
  BY <1>2, <1>5 DEF T
<1> QED
  BY <1>3, <1>5, <1>6

\* f is the table of the selections of the first n elements of s.
IsTable(f, n, s, S) ==
  f = [i \in 0..n |-> IF i = 0 THEN <<>> ELSE IF s[i] \in S THEN Append(f[i - 1], s[i]) ELSE f[i - 1]]

\* There is such a table for every length.
LEMMA TableExists ==
  ASSUME NEW s, NEW S, NEW n \in Nat
  PROVE  \E f : IsTable(f, n, s, S)
<1> DEFINE Good == {k \in Nat : \E f : IsTable(f, k, s, S)}
<1>1. 0 \in Good
  <2> DEFINE f == [i \in 0..0 |-> <<>>]
  <2>1. IsTable(f, 0, s, S)
    BY DEF IsTable
  <2> QED
    BY <2>1
<1>2. ASSUME NEW k \in Nat, k \in Good PROVE k + 1 \in Good
  <2>1. PICK f : IsTable(f, k, s, S)
    BY <1>2
  <2> DEFINE x == IF s[k + 1] \in S THEN Append(f[k], s[k + 1]) ELSE f[k]
             g == [i \in 0..(k + 1) |-> IF i = k + 1 THEN x ELSE f[i]]
  <2>2. \A i \in 0..k : g[i] = f[i]
    OBVIOUS
  <2>3. \A i \in 0..(k + 1) : g[i] = IF i = 0 THEN <<>> ELSE IF s[i] \in S THEN Append(g[i - 1], s[i]) ELSE g[i - 1]
    <3> SUFFICES ASSUME NEW i \in 0..(k + 1)
                 PROVE  g[i] = IF i = 0 THEN <<>> ELSE IF s[i] \in S THEN Append(g[i - 1], s[i]) ELSE g[i - 1]
      OBVIOUS
    <3>1. CASE i = k + 1
      BY <3>1, <2>2
    <3>2. CASE i # k + 1
      <4>1. i \in 0..k /\ (i # 0 => i - 1 \in 0..k)
        BY <3>2
      <4>2. f[i] = IF i = 0 THEN <<>> ELSE IF s[i] \in S THEN Append(f[i - 1], s[i]) ELSE f[i - 1]
        BY <2>1, <4>1, Zenon DEF IsTable
      <4> HIDE DEF g
      <4> QED
        BY <4>1, <4>2, <2>2, Zenon
    <3> QED
      BY <3>1, <3>2
  <2>4. g = [i \in 0..(k + 1) |-> g[i]]
    OBVIOUS
  <2> HIDE DEF g
  <2>5. IsTable(g, k + 1, s, S)
    BY <2>3, <2>4 DEF IsTable
  <2> QED
    BY <2>5
<1> HIDE DEF Good
<1>3. Nat \subseteq Good
  BY <1>1, <1>2, Induction
<1> QED
  BY <1>3 DEF Good

\* Two sequences have their first n elements in common.
Agree(s, t, n) == \A i \in 1..n : s[i] = t[i]

\* Tables of two sequences agree as far as the sequences do.
LEMMA TablesAgree ==
  ASSUME NEW s, NEW t, NEW S, NEW m \in Nat, NEW n \in Nat, NEW f, NEW g,
         IsTable(f, m, s, S), IsTable(g, n, t, S), m <= n,
         Agree(s, t, m)
  PROVE  f[m] = g[m]
<1> DEFINE Good == {k \in Nat : k <= m => f[k] = g[k]}
<1>1. 0 \in Good
  BY DEF IsTable
<1>2. ASSUME NEW k \in Nat, k \in Good PROVE k + 1 \in Good
  <2> SUFFICES ASSUME k + 1 <= m PROVE f[k + 1] = g[k + 1]
    OBVIOUS
  <2>1. f[k] = g[k]
    BY <1>2
  <2>2. k + 1 \in 0..m /\ k + 1 \in 0..n /\ k + 1 # 0 /\ (k + 1) - 1 = k /\ k + 1 \in 1..m
    OBVIOUS
  <2>3. f[k + 1] = IF s[k + 1] \in S THEN Append(f[k], s[k + 1]) ELSE f[k]
    BY <2>2 DEF IsTable
  <2>4. g[k + 1] = IF t[k + 1] \in S THEN Append(g[k], t[k + 1]) ELSE g[k]
    BY <2>2 DEF IsTable
  <2>5. s[k + 1] = t[k + 1]
    BY <2>2 DEF Agree
  <2> QED
    BY <2>1, <2>3, <2>4, <2>5
<1> HIDE DEF Good
<1>3. Nat \subseteq Good
  BY <1>1, <1>2, Induction
<1> QED
  BY <1>3 DEF Good

\* What Selection unfolds to.
LEMMA SelectionTable ==
  ASSUME NEW s, NEW S, Len(s) \in Nat
  PROVE  \E f : IsTable(f, Len(s), s, S) /\ Selection(s, S) = f[Len(s)]
<1> DEFINE Tab(f) == f = [n \in 0..Len(s) |-> IF n = 0 THEN <<>> ELSE IF s[n] \in S THEN Append(f[n - 1], s[n]) ELSE f[n - 1]]
           c == CHOOSE f : Tab(f)
<1>1. PICK g : IsTable(g, Len(s), s, S)
  BY TableExists
<1>2. Tab(g)
  BY <1>1, Zenon DEF IsTable
<1>5. Tab(c)
  <2> HIDE DEF Tab
  <2> QED
    BY <1>2
<1>3. Selection(s, S) = c[Len(s)]
  BY DEF Selection
<1> HIDE DEF c
<1> QED
  BY <1>5, <1>3, Zenon DEF IsTable

\* Nothing is selected from nothing.
LEMMA SelectionEmpty ==
  ASSUME NEW S
  PROVE  Selection(<<>>, S) = <<>>
<1>1. Len(<<>>) = 0
  OBVIOUS
<1> QED
  BY <1>1, SelectionTable DEF IsTable

\* An element more, at the end.
LEMMA SelectionAppend ==
  ASSUME NEW T, NEW s \in Seq(T), NEW e \in T, NEW S
  PROVE  Selection(Append(s, e), S) = IF e \in S THEN Append(Selection(s, S), e) ELSE Selection(s, S)
<1> DEFINE t == Append(s, e)
           n == Len(s)
<1>1. t \in Seq(T) /\ n \in Nat /\ Len(t) = n + 1 /\ t[n + 1] = e /\ \A i \in 1..n : s[i] = t[i]
  OBVIOUS
<1> HIDE DEF t
<1>2. PICK f : IsTable(f, n, s, S) /\ Selection(s, S) = f[n]
  BY <1>1, SelectionTable
<1>3. PICK g : IsTable(g, n + 1, t, S) /\ Selection(t, S) = g[n + 1]
  BY <1>1, SelectionTable
<1> HIDE DEF n
<1>4. f[n] = g[n]
  <2>1. n \in Nat /\ n + 1 \in Nat /\ n <= n + 1 /\ n \in 0..n
    BY <1>1
  <2>2. IsTable(f, n, s, S) /\ IsTable(g, n + 1, t, S) /\ Agree(s, t, n)
    BY <1>1, <1>2, <1>3 DEF Agree
  <2> QED
    BY <2>1, <2>2, TablesAgree
<1>5. n + 1 \in 0..(n + 1) /\ n + 1 # 0 /\ (n + 1) - 1 = n
  BY <1>1
<1>6. g[n + 1] = IF t[n + 1] \in S THEN Append(g[n], t[n + 1]) ELSE g[n]
  BY <1>3, <1>5 DEF IsTable
<1> QED
  BY <1>1, <1>2, <1>3, <1>4, <1>6 DEF t

\* The selection of a sequence is a sequence, not longer, of elements that it has.
LEMMA SelectionType ==
  ASSUME NEW T, NEW s \in Seq(T), NEW S
  PROVE  Selection(s, S) \in Seq(T \cap S) /\ Len(Selection(s, S)) <= Len(s)
<1> DEFINE n == Len(s)
<1>1. n \in Nat /\ \A i \in 1..n : s[i] \in T
  OBVIOUS
<1>2. PICK f : IsTable(f, n, s, S) /\ Selection(s, S) = f[n]
  BY <1>1, SelectionTable
<1> DEFINE Good == {k \in Nat : k <= n => f[k] \in Seq(T \cap S) /\ Len(f[k]) <= k}
<1>3. 0 \in Good
  <2>1. f[0] = <<>>
    BY <1>1, <1>2 DEF IsTable
  <2>2. <<>> \in Seq(T \cap S) /\ Len(<<>>) <= 0
    OBVIOUS
  <2> QED
    BY <2>1, <2>2
<1>4. ASSUME NEW k \in Nat, k \in Good PROVE k + 1 \in Good
  <2> SUFFICES ASSUME k + 1 <= n PROVE f[k + 1] \in Seq(T \cap S) /\ Len(f[k + 1]) <= k + 1
    OBVIOUS
  <2> HIDE DEF n
  <2>1. f[k] \in Seq(T \cap S) /\ Len(f[k]) <= k
    BY <1>4, <1>1
  <2>2. k + 1 \in 0..n /\ k + 1 # 0 /\ (k + 1) - 1 = k /\ k + 1 \in 1..n
    BY <1>1
  <2>3. f[k + 1] = IF s[k + 1] \in S THEN Append(f[k], s[k + 1]) ELSE f[k]
    BY <1>2, <2>2 DEF IsTable
  <2>4. s[k + 1] \in T
    BY <1>1, <2>2
  <2> QED
    BY <2>1, <2>3, <2>4
<1> HIDE DEF Good, n
<1>5. Nat \subseteq Good
  BY <1>3, <1>4, Induction
<1> QED
  BY <1>1, <1>2, <1>5 DEF Good, n

\* A beginning that is longer by one element.
LEMMA SubSeqNext ==
  ASSUME NEW T, NEW s \in Seq(T), NEW k \in Nat, k < Len(s)
  PROVE  /\ SubSeq(s, 1, k) \in Seq(T) /\ s[k + 1] \in T
         /\ SubSeq(s, 1, k + 1) = Append(SubSeq(s, 1, k), s[k + 1])
<1>1. Len(s) \in Nat /\ \A i \in 1..Len(s) : s[i] \in T
  BY LenProperties, ElementOfSeq
<1>2. k + 1 \in 1..Len(s) /\ s[k + 1] \in T
  BY <1>1
<1> DEFINE x == SubSeq(s, 1, k)
           y == SubSeq(s, 1, k + 1)
<1>3. x \in Seq(T) /\ Len(x) = k /\ \A i \in 1..k : x[i] = s[i]
  <2>1. \A i \in 1..k : s[i] \in T
    BY <1>1
  <2> QED
    BY <2>1, SubSeqProperties
<1>4. y \in Seq(T) /\ Len(y) = k + 1 /\ \A i \in 1..(k + 1) : y[i] = s[i]
  <2>1. \A i \in 1..(k + 1) : s[i] \in T
    BY <1>1
  <2> QED
    BY <2>1, SubSeqProperties
<1> HIDE DEF x, y
<1>5. y = Append(x, s[k + 1])
  <2> DEFINE z == Append(x, s[k + 1])
  <2>1. z \in Seq(T) /\ Len(z) = k + 1 /\ z[k + 1] = s[k + 1] /\ \A i \in 1..k : z[i] = x[i]
    BY <1>2, <1>3, AppendProperties
  <2>2. \A i \in 1..(k + 1) : i \in 1..k \/ i = k + 1
    OBVIOUS
  <2> HIDE DEF z
  <2>3. \A i \in 1..(k + 1) : y[i] = z[i]
    BY <1>3, <1>4, <2>1, <2>2
  <2>4. y = z
    BY <1>4, <2>1, <2>3, SeqEqual
  <2> QED
    BY <2>4 DEF z
<1> QED
  BY <1>2, <1>3, <1>5 DEF x, y

\* A selection from one element more.
LEMMA SelectionNext ==
  ASSUME NEW T, NEW s \in Seq(T), NEW k \in Nat, k < Len(s), NEW S
  PROVE  Selection(SubSeq(s, 1, k + 1), S) =
           IF s[k + 1] \in S THEN Append(Selection(SubSeq(s, 1, k), S), s[k + 1])
                             ELSE Selection(SubSeq(s, 1, k), S)
<1> DEFINE x == SubSeq(s, 1, k)
           a == s[k + 1]
<1>1. x \in Seq(T) /\ a \in T /\ SubSeq(s, 1, k + 1) = Append(x, a)
  BY SubSeqNext
<1> HIDE DEF x, a
<1>2. Selection(Append(x, a), S) = IF a \in S THEN Append(Selection(x, S), a) ELSE Selection(x, S)
  BY <1>1, SelectionAppend
<1> QED
  BY <1>1, <1>2, Zenon DEF x, a

-----------------------------------------------------------------------------
(* Parts of sequences *)

\* Two parts that follow one another, the first of which may be empty.
LEMMA PartsJoined ==
  ASSUME NEW S, NEW s \in Seq(S), NEW a \in Nat, NEW b \in Nat, NEW c \in Nat, a <= b, b <= c, c <= Len(s)
  PROVE  SubSeq(s, a + 1, b) \o SubSeq(s, b + 1, c) = SubSeq(s, a + 1, c)
<1>1. Len(s) \in Nat
  BY LenProperties
<1> DEFINE m == a + 1
<1>2. m \in 1..(Len(s) + 1) /\ b \in (m - 1)..Len(s) /\ c \in b..Len(s)
  BY <1>1
<1> HIDE DEF m
<1>3. SubSeq(s, m, b) \o SubSeq(s, b + 1, c) = SubSeq(s, m, c)
  BY <1>2, ConcatAdjacentSubSeq
<1> QED
  BY <1>3 DEF m

\* A part of what a sequence begins with.
LEMMA PartOfStart ==
  ASSUME NEW S, NEW s \in Seq(S), NEW a \in Nat, NEW b \in Nat, NEW c \in Nat, a <= b, b <= c, c <= Len(s)
  PROVE  SubSeq(SubSeq(s, 1, c), a + 1, b) = SubSeq(s, a + 1, b)
<1>1. Len(s) \in Nat /\ \A i \in 1..Len(s) : s[i] \in S
  BY LenProperties, ElementOfSeq
<1> DEFINE x == SubSeq(s, 1, c)
           y == SubSeq(x, a + 1, b)
           z == SubSeq(s, a + 1, b)
<1>2. \A i \in 1..c : s[i] \in S
  BY <1>1
<1>3. x \in Seq(S) /\ Len(x) = c /\ \A i \in 1..c : x[i] = s[i]
  BY <1>2, SubSeqProperties
<1> HIDE DEF x
<1> DEFINE m == a + 1
           n == b - m + 1
<1>4. m \in Int /\ b \in Int /\ n = b - a /\ n \in Nat /\ \A i \in m..b : i \in 1..c /\ x[i] \in S /\ s[i] \in S
  BY <1>2, <1>3
<1>5. y = SubSeq(x, m, b) /\ z = SubSeq(s, m, b)
  OBVIOUS
<1> HIDE DEF y, z, m
<1>6. y \in Seq(S) /\ Len(y) = (IF m <= b THEN b - m + 1 ELSE 0) /\ \A i \in 1..n : y[i] = x[m + i - 1]
  BY <1>4, <1>5, SubSeqProperties
<1>7. z \in Seq(S) /\ Len(z) = (IF m <= b THEN b - m + 1 ELSE 0) /\ \A i \in 1..n : z[i] = s[m + i - 1]
  BY <1>4, <1>5, SubSeqProperties
<1>8. Len(y) = n /\ Len(z) = n /\ \A i \in 1..n : m + i - 1 \in m..b
  BY <1>4, <1>6, <1>7
<1> HIDE DEF n
<1>9. \A i \in 1..n : y[i] = z[i]
  BY <1>3, <1>4, <1>6, <1>7, <1>8
<1>10. y = z
  BY <1>6, <1>7, <1>8, <1>9, SeqEqual
<1> QED
  BY <1>10 DEF y, z, m

\* A sequence without its last element.
LEMMA CutLast ==
  ASSUME NEW S, NEW s \in Seq(S), s # <<>>
  PROVE  SubSeq(s, 1, Len(s) - 1) \in Seq(S) /\ Len(SubSeq(s, 1, Len(s) - 1)) = Len(s) - 1 /\ Len(s) \in Nat
<1> DEFINE m == Len(s)
           n == m - 1
<1>1. m \in Nat \ {0} /\ \A i \in 1..m : s[i] \in S
  BY EmptySeq
<1> HIDE DEF m
<1>2. n \in Nat /\ (1 <= n => n - 1 + 1 = n) /\ (~(1 <= n) => n = 0)
  BY <1>1
<1>3. \A i \in 1..n : s[i] \in S
  <2> TAKE i \in 1..n
  <2>1. i \in 1..m
    BY <1>1
  <2> QED
    BY <1>1, <2>1
<1> HIDE DEF n
<1>4. SubSeq(s, 1, n) \in Seq(S) /\ Len(SubSeq(s, 1, n)) = IF 1 <= n THEN n - 1 + 1 ELSE 0
  BY <1>2, <1>3, SubSeqProperties
<1> QED
  BY <1>1, <1>2, <1>4 DEF m, n

-----------------------------------------------------------------------------
(* Free lists: the chunks of S, each once, from head through nxt to end *)

Chain(f, n, head, nxt, end, S) ==
  /\ n \in Nat /\ f \in [1..n -> S]
  /\ \A i, j \in 1..n : f[i] = f[j] => i = j
  /\ \A c \in S : \E i \in 1..n : f[i] = c
  /\ head = IF n = 0 THEN end ELSE f[1]
  /\ \A i \in 1..n : nxt[f[i]] = IF i = n THEN end ELSE f[i + 1]

IsFreeList(head, nxt, end, S) == \E f, n : Chain(f, n, head, nxt, end, S)

\* Every chunk, in the order of their numbers
LEMMA FreeListNew ==
  ASSUME NEW n \in Nat \ {0}, NEW end, NEW nxt,
         \A i \in 0..(n - 1) : nxt[i] = IF i = n - 1 THEN end ELSE i + 1
  PROVE  IsFreeList(0, nxt, end, 0..(n - 1))
<1> DEFINE f == [i \in 1..n |-> i - 1]
<1>1. f \in [1..n -> 0..(n - 1)]
  OBVIOUS
<1>2. \A i, j \in 1..n : f[i] = f[j] => i = j
  OBVIOUS
<1>3. \A c \in 0..(n - 1) : \E i \in 1..n : f[i] = c
  <2> TAKE c \in 0..(n - 1)
  <2>1. c + 1 \in 1..n /\ f[c + 1] = c
    OBVIOUS
  <2> QED
    BY <2>1
<1>4. \A i \in 1..n : nxt[f[i]] = IF i = n THEN end ELSE f[i + 1]
  OBVIOUS
<1>5. 0 = f[1] /\ n # 0 /\ n \in Nat
  OBVIOUS
<1> HIDE DEF f
<1>6. Chain(f, n, 0, nxt, end, 0..(n - 1))
  BY <1>1, <1>2, <1>3, <1>4, <1>5 DEF Chain
<1> QED
  BY <1>6 DEF IsFreeList

\* The first chunk is taken out.
LEMMA FreeListPop ==
  ASSUME NEW head, NEW nxt, NEW end, NEW S, end \notin S,
         IsFreeList(head, nxt, end, S), head # end
  PROVE  head \in S /\ IsFreeList(nxt[head], nxt, end, S \ {head})
<1>1. PICK f, n : Chain(f, n, head, nxt, end, S)
  BY DEF IsFreeList
<1>2. n \in Nat \ {0} /\ head = f[1] /\ head \in S
  BY <1>1 DEF Chain
<1> DEFINE m == n - 1
           g == [i \in 1..m |-> f[i + 1]]
<1>3. m \in Nat /\ \A i \in 1..m : i + 1 \in 1..n /\ i + 1 # 1
  BY <1>2
<1>4. g \in [1..m -> S \ {head}] /\ \A i \in 1..m : g[i] = f[i + 1]
  <2>1. \A i \in 1..m : f[i + 1] \in S /\ f[i + 1] # f[1]
    BY <1>1, <1>2, <1>3 DEF Chain
  <2> HIDE DEF m
  <2> QED
    BY <1>2, <2>1
<1>5. \A i, j \in 1..m : g[i] = g[j] => i = j
  <2> TAKE i, j \in 1..m
  <2>1. f[i + 1] = f[j + 1] => i + 1 = j + 1
    BY <1>1, <1>3 DEF Chain
  <2> QED
    BY <1>4, <2>1, <1>3
<1>6. \A c \in S \ {head} : \E i \in 1..m : g[i] = c
  <2> TAKE c \in S \ {head}
  <2>1. PICK k \in 1..n : f[k] = c
    BY <1>1 DEF Chain
  <2>2. k # 1
    BY <1>2, <2>1
  <2>3. k - 1 \in 1..m /\ (k - 1) + 1 = k
    BY <1>2, <2>2
  <2> QED
    BY <1>4, <2>1, <2>3
<1>7. nxt[head] = IF m = 0 THEN end ELSE g[1]
  <2>1. nxt[f[1]] = IF 1 = n THEN end ELSE f[1 + 1]
    BY <1>1, <1>2 DEF Chain
  <2>2. (1 = n <=> m = 0) /\ (m # 0 => 1 \in 1..m)
    BY <1>2
  <2> QED
    BY <1>2, <1>4, <2>1, <2>2
<1>8. \A i \in 1..m : nxt[g[i]] = IF i = m THEN end ELSE g[i + 1]
  <2> TAKE i \in 1..m
  <2>1. nxt[f[i + 1]] = IF i + 1 = n THEN end ELSE f[i + 1 + 1]
    BY <1>1, <1>3 DEF Chain
  <2>2. (i + 1 = n <=> i = m) /\ (i # m => i + 1 \in 1..m)
    BY <1>2, <1>3
  <2>3. i # m => g[i + 1] = f[i + 1 + 1]
    BY <1>4, <2>2
  <2> QED
    BY <1>4, <2>1, <2>2, <2>3
<1> HIDE DEF m, g
<1>9. Chain(g, m, nxt[head], nxt, end, S \ {head})
  BY <1>3, <1>4, <1>5, <1>6, <1>7, <1>8 DEF Chain
<1> QED
  BY <1>2, <1>9 DEF IsFreeList

\* A chunk is put in front.
LEMMA FreeListPush ==
  ASSUME NEW head, NEW nxt, NEW end, NEW S, NEW c, c \notin S, NEW nxt1,
         IsFreeList(head, nxt, end, S),
         nxt1[c] = head, \A x \in S : nxt1[x] = nxt[x]
  PROVE  IsFreeList(c, nxt1, end, S \cup {c})
<1>1. PICK f, n : Chain(f, n, head, nxt, end, S)
  BY DEF IsFreeList
<1>2. n \in Nat
  BY <1>1 DEF Chain
<1> DEFINE m == n + 1
           g == [i \in 1..m |-> IF i = 1 THEN c ELSE f[i - 1]]
<1>3. m \in Nat \ {0} /\ 1 \in 1..m /\ \A i \in 1..m : i # 1 => i - 1 \in 1..n
  BY <1>2
<1>4. g[1] = c /\ (\A i \in 1..m : i # 1 => g[i] = f[i - 1] /\ f[i - 1] \in S) /\ g \in [1..m -> S \cup {c}]
  <2>1. \A i \in 1..m : i # 1 => f[i - 1] \in S
    BY <1>1, <1>3 DEF Chain
  <2> HIDE DEF m
  <2> QED
    BY <1>3, <2>1
<1>5. \A i, j \in 1..m : g[i] = g[j] => i = j
  <2> TAKE i, j \in 1..m
  <2>1. i # 1 /\ j # 1 /\ f[i - 1] = f[j - 1] => i - 1 = j - 1
    BY <1>1, <1>3 DEF Chain
  <2>2. i # 1 /\ j # 1 /\ g[i] = g[j] => i = j
    BY <1>3, <1>4, <2>1
  <2> QED
    BY <1>4, <2>2
<1>6. \A x \in S \cup {c} : \E i \in 1..m : g[i] = x
  <2> TAKE x \in S \cup {c}
  <2>1. CASE x = c
    BY <1>3, <1>4, <2>1
  <2>2. CASE x \in S
    <3>1. PICK k \in 1..n : f[k] = x
      BY <1>1, <2>2 DEF Chain
    <3>2. k + 1 \in 1..m /\ k + 1 # 1 /\ (k + 1) - 1 = k
      BY <1>2
    <3> QED
      BY <1>4, <3>1, <3>2
  <2> QED
    BY <2>1, <2>2
<1>7. \A i \in 1..m : nxt1[g[i]] = IF i = m THEN end ELSE g[i + 1]
  <2> TAKE i \in 1..m
  <2>1. CASE i = 1
    <3>1. nxt1[g[i]] = head
      BY <1>4, <2>1
    <3>2. (1 = m <=> n = 0) /\ (n # 0 => 1 + 1 \in 1..m /\ (1 + 1) - 1 = 1 /\ 1 + 1 # 1)
      BY <1>2
    <3>3. n # 0 => g[1 + 1] = f[1]
      BY <1>4, <3>2
    <3> QED
      BY <1>1, <2>1, <3>1, <3>2, <3>3 DEF Chain
  <2>2. CASE i # 1
    <3>1. nxt1[g[i]] = nxt[f[i - 1]]
      BY <1>4, <2>2
    <3>2. nxt[f[i - 1]] = IF i - 1 = n THEN end ELSE f[(i - 1) + 1]
      BY <1>1, <1>3, <2>2 DEF Chain
    <3>3. (i - 1 = n <=> i = m) /\ (i # m => i + 1 \in 1..m /\ (i - 1) + 1 = (i + 1) - 1 /\ i + 1 # 1)
      BY <1>2
    <3>4. i # m => g[i + 1] = f[(i - 1) + 1]
      BY <1>4, <3>3
    <3> QED
      BY <3>1, <3>2, <3>3, <3>4
  <2> QED
    BY <2>1, <2>2
<1> HIDE DEF m, g
<1>8. Chain(g, m, c, nxt1, end, S \cup {c})
  BY <1>3, <1>4, <1>5, <1>6, <1>7 DEF Chain
<1> QED
  BY <1>8 DEF IsFreeList

\* A free list is as long as there are chunks in it.
LEMMA FreeListLength ==
  ASSUME NEW head, NEW nxt, NEW end, NEW S, NEW f, NEW n, Chain(f, n, head, nxt, end, S)
  PROVE  IsFiniteSet(S) /\ Cardinality(S) = n
<1>1. n \in Nat /\ f \in Bijection(1..n, S)
  <2>1. n \in Nat /\ f \in [1..n -> S] /\ (\A i, j \in 1..n : f[i] = f[j] => i = j)
        /\ \A c \in S : \E i \in 1..n : f[i] = c
    BY DEF Chain
  <2> QED
    BY <2>1 DEF Bijection, Injection, Surjection, IsInjective
<1>2. ExistsBijection(1..n, S)
  BY <1>1 DEF ExistsBijection
<1>3. IsFiniteSet(1..n) /\ Cardinality(1..n) = n
  <2>1. 1 \in Int /\ n \in Int /\ (1 <= n => n - 1 + 1 = n) /\ (1 > n => n = 0)
    BY <1>1
  <2> QED
    BY <2>1, FS_Interval
<1> QED
  BY <1>2, <1>3, FS_Bijection

\* at is what a loop along nxt from head meets, and then end for ever, k + 1 times.
IsLoop(at, head, nxt, end, k) ==
  at = [i \in 1..k + 1 |-> IF i = 1 THEN head
                           ELSE IF at[i - 1] = end THEN end ELSE nxt[at[i - 1]]]

\* A loop along a free list meets its chunks.
LEMMA FreeListMeets ==
  ASSUME NEW head, NEW nxt, NEW end, NEW S, end \notin S, NEW k \in Nat,
         IsFreeList(head, nxt, end, S), Cardinality(S) <= k
  PROVE  /\ \E at : IsLoop(at, head, nxt, end, k)
         /\ \A at : IsLoop(at, head, nxt, end, k) => {at[i] : i \in 1..k + 1} \ {end} = S
<1>1. PICK f, n : Chain(f, n, head, nxt, end, S)
  BY DEF IsFreeList
<1>2. n \in Nat /\ n <= k /\ f \in [1..n -> S]
  <2>1. Cardinality(S) = n
    BY <1>1, FreeListLength
  <2>2. n \in Nat /\ f \in [1..n -> S]
    BY <1>1 DEF Chain
  <2> QED
    BY <2>1, <2>2
<1> DEFINE m == k + 1
           met == [i \in 1..m |-> IF i <= n THEN f[i] ELSE end]
<1>3. m \in Nat /\ n < m /\ 1 \in 1..m
  BY <1>2
<1>4. met[1] = head
  BY <1>1, <1>2, <1>3 DEF Chain
<1>5. \A i \in 1..m : i # 1 => met[i] = IF met[i - 1] = end THEN end ELSE nxt[met[i - 1]]
  <2> TAKE i \in 1..m
  <2> SUFFICES ASSUME i # 1 PROVE met[i] = IF met[i - 1] = end THEN end ELSE nxt[met[i - 1]]
    OBVIOUS
  <2>1. i - 1 \in 1..m /\ (i - 1) + 1 = i
    OBVIOUS
  <2>2. CASE i - 1 <= n
    <3>1. i - 1 \in 1..n
      BY <2>1, <2>2, <1>2
    <3>2. met[i - 1] = f[i - 1] /\ f[i - 1] # end
      BY <1>2, <2>1, <2>2, <3>1
    <3>3. nxt[f[i - 1]] = IF i - 1 = n THEN end ELSE f[(i - 1) + 1]
      BY <1>1, <3>1 DEF Chain
    <3>4. (i - 1 = n <=> ~(i <= n))
      BY <1>2, <2>2
    <3> QED
      BY <2>1, <3>2, <3>3, <3>4
  <2>3. CASE ~(i - 1 <= n)
    <3>1. ~(i <= n)
      BY <1>2, <2>3
    <3> QED
      BY <2>1, <2>3, <3>1
  <2> QED
    BY <2>2, <2>3
<1>6. {met[i] : i \in 1..m} \ {end} = S
  <2>1. \A i \in 1..m : met[i] # end => met[i] \in S
    BY <1>2
  <2>2. \A c \in S : \E i \in 1..m : met[i] = c /\ c # end
    <3> TAKE c \in S
    <3>1. PICK i \in 1..n : f[i] = c
      BY <1>1 DEF Chain
    <3>2. i \in 1..m /\ i <= n
      BY <1>2, <1>3
    <3>3. met[i] = f[i]
      BY <3>2
    <3> QED
      BY <3>1, <3>2, <3>3
  <2> HIDE DEF met
  <2> QED
    BY <2>1, <2>2
<1>7. met = [i \in 1..m |-> met[i]]
  OBVIOUS
<1> HIDE DEF met
<1>8. met = [i \in 1..m |-> IF i = 1 THEN head
                            ELSE IF met[i - 1] = end THEN end ELSE nxt[met[i - 1]]]
  BY <1>4, <1>5, <1>7
<1>9. ASSUME NEW at, IsLoop(at, head, nxt, end, k) PROVE at = met
  <2>1. \A i \in 1..m : at[i] = IF i = 1 THEN head ELSE IF at[i - 1] = end THEN end ELSE nxt[at[i - 1]]
    BY <1>9 DEF IsLoop
  <2> HIDE DEF m
  <2> DEFINE Good == {j \in Nat : j + 1 \in 1..m => at[j + 1] = met[j + 1]}
  <2>2. 0 \in Good
    BY <1>3, <1>4, <2>1
  <2>3. ASSUME NEW j \in Nat, j \in Good PROVE j + 1 \in Good
    <3> SUFFICES ASSUME (j + 1) + 1 \in 1..m PROVE at[(j + 1) + 1] = met[(j + 1) + 1]
      OBVIOUS
    <3> DEFINE i == (j + 1) + 1
    <3>1. i \in 1..m /\ i # 1 /\ i - 1 = j + 1 /\ j + 1 \in 1..m
      BY <1>3
    <3>2. at[i - 1] = met[i - 1]
      BY <2>3, <3>1
    <3> HIDE DEF i
    <3>3. at[i] = met[i]
      BY <1>5, <2>1, <3>1, <3>2
    <3> QED
      BY <3>3 DEF i
  <2> HIDE DEF Good
  <2>4. Nat \subseteq Good
    BY <2>2, <2>3, Induction
  <2>5. \A i \in 1..m : at[i] = met[i]
    <3> TAKE i \in 1..m
    <3>1. i - 1 \in Good /\ (i - 1) + 1 = i
      BY <1>3, <2>4
    <3> QED
      BY <3>1 DEF Good
  <2>6. at = [i \in 1..m |-> at[i]]
    <3>1. at = [i \in 1..m |-> IF i = 1 THEN head ELSE IF at[i - 1] = end THEN end ELSE nxt[at[i - 1]]]
      BY <1>9 DEF IsLoop, m
    <3> QED
      BY <2>1, <3>1
  <2> QED
    BY <1>7, <2>5, <2>6
<1>10. IsLoop(met, head, nxt, end, k)
  BY <1>8 DEF IsLoop
<1> HIDE DEF m
<1> QED
  BY <1>6, <1>9, <1>10 DEF m

-----------------------------------------------------------------------------
(* Rings: lists linked both ways *)

\* On K, p and q are inverse to one another.
RingOn(K, p, q) ==
  \A n \in K : q[n] \in K /\ p[n] \in K /\ p[q[n]] = n /\ q[p[n]] = n

\* A node linked to itself is put between r and q[r].
LEMMA RingAdd ==
  ASSUME NEW D, NEW K \in SUBSET D, NEW p, NEW q, DOMAIN p = D, DOMAIN q = D, RingOn(K, p, q),
         NEW r \in K, NEW n \in K, r # n, q[n] = n
  PROVE  RingOn(K, [p EXCEPT ![n] = r, ![q[r]] = n], [q EXCEPT ![n] = q[r], ![r] = n])
<1> DEFINE s  == q[r]
           p1 == [p EXCEPT ![n] = r, ![q[r]] = n]
           q1 == [q EXCEPT ![n] = q[r], ![r] = n]
<1>1. s \in K /\ p[s] = r /\ s # n /\ p[n] = n
  BY DEF RingOn
<1>2. \A x \in K : /\ p1[x] = IF x = s THEN n ELSE IF x = n THEN r ELSE p[x]
                   /\ q1[x] = IF x = r THEN n ELSE IF x = n THEN s ELSE q[x]
  BY <1>1
<1>3. \A x \in K : /\ x # r /\ x # n => q[x] # s /\ q[x] # n
                   /\ x # s /\ x # n => p[x] # r /\ p[x] # n
  BY <1>1 DEF RingOn
<1> HIDE DEF s, p1, q1
<1>4. RingOn(K, p1, q1)
  BY <1>1, <1>2, <1>3 DEF RingOn
<1> QED
  BY <1>4 DEF p1, q1

\* A node is taken out and linked to itself.
LEMMA RingUnlink ==
  ASSUME NEW D, NEW K \in SUBSET D, NEW p, NEW q, DOMAIN p = D, DOMAIN q = D, RingOn(K, p, q),
         NEW n \in K, NEW p1, NEW q1,
         q1 = [q EXCEPT ![p[n]] = q[n], ![n] = n], p1 = [p EXCEPT ![q[n]] = p[n], ![n] = n]
  PROVE  RingOn(K, p1, q1)
<1> DEFINE s == q[n]
           r == p[n]
<1>1. s \in K /\ r \in K /\ p[s] = n /\ q[r] = n /\ (s = n <=> r = n)
  BY DEF RingOn
<1>2. \A x \in K : /\ p1[x] = IF x = n THEN n ELSE IF x = s THEN r ELSE p[x]
                   /\ q1[x] = IF x = n THEN n ELSE IF x = r THEN s ELSE q[x]
  BY <1>1
<1>3. \A x \in K : /\ x # r /\ x # n => q[x] # s /\ q[x] # n
                   /\ x # s /\ x # n => p[x] # r /\ p[x] # n
  BY <1>1 DEF RingOn
<1> HIDE DEF s, r
<1> QED
  BY <1>1, <1>2, <1>3 DEF RingOn

\* A node that was in no ring is linked to itself.
LEMMA RingNew ==
  ASSUME NEW D, NEW K \in SUBSET D, NEW p, NEW q, DOMAIN p = D, DOMAIN q = D, RingOn(K, p, q),
         NEW c \in D, c \notin K
  PROVE  RingOn(K \cup {c}, [p EXCEPT ![c] = c], [q EXCEPT ![c] = c])
BY DEF RingOn

\* A node linked to itself is in nobody's way.
LEMMA RingGone ==
  ASSUME NEW D, NEW K \in SUBSET D, NEW p, NEW q, DOMAIN p = D, DOMAIN q = D, RingOn(K, p, q),
         NEW c \in K, q[c] = c
  PROVE  /\ RingOn(K \ {c}, p, q)
         /\ \A x : RingOn(K \ {c}, [p EXCEPT ![c] = x], [q EXCEPT ![c] = x])
BY DEF RingOn

-----------------------------------------------------------------------------
(* Loops along links, and sequences that change in one place *)

\* Where a loop along nxt from first stands after each of n steps.
IsTour(at, n, first, nxt) == at = [i \in 0..n |-> IF i = 0 THEN first ELSE nxt[at[i - 1]]]

\* A loop can take any number of steps.
LEMMA TourExists ==
  ASSUME NEW n \in Nat, NEW first, NEW nxt
  PROVE  \E at : IsTour(at, n, first, nxt)
<1> DEFINE Good == {k \in Nat : \E at : IsTour(at, k, first, nxt)}
<1>1. 0 \in Good
  <2> DEFINE f == [i \in 0..0 |-> first]
  <2>1. IsTour(f, 0, first, nxt)
    BY DEF IsTour
  <2> QED
    BY <2>1
<1>2. ASSUME NEW k \in Nat, k \in Good PROVE k + 1 \in Good
  <2>1. PICK f : IsTour(f, k, first, nxt)
    BY <1>2
  <2> DEFINE g == [i \in 0..(k + 1) |-> IF i = k + 1 THEN nxt[f[k]] ELSE f[i]]
  <2>2. \A i \in 0..k : g[i] = f[i]
    OBVIOUS
  <2>3. g[k + 1] = nxt[f[k]]
    OBVIOUS
  <2>4. g = [i \in 0..(k + 1) |-> g[i]]
    OBVIOUS
  <2> HIDE DEF g
  <2>5. \A i \in 0..k : f[i] = IF i = 0 THEN first ELSE nxt[f[i - 1]]
    BY <2>1, Zenon DEF IsTour
  <2>6. ASSUME NEW i \in 0..(k + 1) PROVE g[i] = IF i = 0 THEN first ELSE nxt[g[i - 1]]
    <3>1. CASE i = k + 1
      <4>1. i # 0 /\ i - 1 = k /\ k \in 0..k
        BY <3>1
      <4> QED
        BY <2>2, <2>3, <3>1, <4>1
    <3>2. CASE i # k + 1
      <4>1. i \in 0..k /\ (i # 0 => i - 1 \in 0..k)
        BY <3>2
      <4> QED
        BY <2>2, <2>5, <4>1
    <3> QED
      BY <3>1, <3>2
  <2>7. IsTour(g, k + 1, first, nxt)
    BY <2>4, <2>6 DEF IsTour
  <2> QED
    BY <2>7
<1> HIDE DEF Good
<1>3. Nat \subseteq Good
  BY <1>1, <1>2, Induction
<1> QED
  BY <1>3 DEF Good

\* The first m steps along nxt lead through f.
Along(f, m, first, nxt) == f[0] = first /\ \A i \in Nat : i < m => f[i + 1] = nxt[f[i]]

\* A loop meets what the links lead to.
LEMMA TourMeets ==
  ASSUME NEW n \in Nat, NEW first, NEW nxt, NEW at, IsTour(at, n, first, nxt),
         NEW m \in Nat, m <= n, NEW f, Along(f, m, first, nxt)
  PROVE  \A i \in 0..m : at[i] = f[i]
<1> DEFINE Good == {k \in Nat : k <= m => at[k] = f[k]}
<1>1. \A i \in 0..n : at[i] = IF i = 0 THEN first ELSE nxt[at[i - 1]]
  BY Zenon DEF IsTour
<1>2. 0 \in Good
  BY <1>1 DEF Along
<1>3. ASSUME NEW k \in Nat, k \in Good PROVE k + 1 \in Good
  <2> SUFFICES ASSUME k + 1 <= m PROVE at[k + 1] = f[k + 1]
    OBVIOUS
  <2>1. k < m /\ k + 1 \in 0..n /\ k + 1 # 0 /\ (k + 1) - 1 = k
    OBVIOUS
  <2>2. at[k] = f[k]
    BY <1>3, <2>1
  <2>3. f[k + 1] = nxt[f[k]]
    BY <2>1 DEF Along
  <2> QED
    BY <1>1, <2>1, <2>2, <2>3
<1> HIDE DEF Good
<1>4. Nat \subseteq Good
  BY <1>2, <1>3, Induction
<1> QED
  BY <1>4 DEF Good

\* s with e behind place k.
With(s, k, e) == SubSeq(s, 1, (k + 1) - 1) \o <<e>> \o SubSeq(s, k + 1, Len(s))

IsWith(r, s, k, e) ==
  Len(r) = Len(s) + 1 /\ \A i \in 1..Len(r) : r[i] = IF i <= k THEN s[i] ELSE IF i = k + 1 THEN e ELSE s[i - 1]

\* A sequence with an element put behind place k.
LEMMA SeqPut ==
  ASSUME NEW S, NEW s \in Seq(S), NEW k \in Nat, k <= Len(s), NEW e \in S
  PROVE  With(s, k, e) \in Seq(S) /\ IsWith(With(s, k, e), s, k, e)
<1> DEFINE r == With(s, k, e)
<1> DEFINE n == Len(s)
           x == SubSeq(s, 1, k)
           m == k + 1
           z == SubSeq(s, m, n)
           y == x \o <<e>>
           t == y \o z
<1>1. n \in Nat /\ k <= n /\ \A i \in 1..n : s[i] \in S
  BY LenProperties, ElementOfSeq
<1> HIDE DEF n
<1>2. x \in Seq(S) /\ Len(x) = k /\ \A i \in 1..k : x[i] = s[i]
  <2>1. \A i \in 1..k : s[i] \in S
    BY <1>1
  <2> QED
    BY <2>1, SubSeqProperties
<1>3. m \in Int /\ n \in Int /\ m = k + 1
  BY <1>1
<1>4. \A i \in m..n : i \in 1..n /\ s[i] \in S
  BY <1>1
<1> HIDE DEF m
<1>5. z \in Seq(S) /\ Len(z) = n - k /\ \A i \in 1..(n - k) : z[i] = s[k + i]
  <2>1. z \in Seq(S) /\ Len(z) = (IF m <= n THEN n - m + 1 ELSE 0) /\ \A i \in 1..(n - m + 1) : z[i] = s[m + i - 1]
    BY <1>3, <1>4, SubSeqProperties
  <2>2. (IF m <= n THEN n - m + 1 ELSE 0) = n - k /\ n - m + 1 = n - k
    BY <1>1, <1>3
  <2>3. \A i \in 1..(n - k) : m + i - 1 = k + i
    BY <1>1, <1>3
  <2> HIDE DEF z
  <2> QED
    BY <2>1, <2>2, <2>3
<1> HIDE DEF x, z
<1>6. <<e>> \in Seq(S) /\ Len(<<e>>) = 1 /\ <<e>>[1] = e
  OBVIOUS
<1>7. y \in Seq(S) /\ Len(y) = k + 1 /\ \A i \in 1..(k + 1) : y[i] = IF i <= k THEN s[i] ELSE e
  <2>1. y \in Seq(S) /\ Len(y) = k + 1 /\ \A i \in 1..(k + 1) : y[i] = IF i <= k THEN x[i] ELSE <<e>>[i - k]
    BY <1>2, <1>6, ConcatProperties
  <2> HIDE DEF y
  <2>2. \A i \in 1..(k + 1) : IF i <= k THEN i \in 1..k ELSE i - k = 1
    OBVIOUS
  <2> QED
    BY <1>2, <1>6, <2>1, <2>2
<1> HIDE DEF y
<1>8. t \in Seq(S) /\ Len(t) = (k + 1) + (n - k)
      /\ \A i \in 1..((k + 1) + (n - k)) : t[i] = IF i <= k + 1 THEN y[i] ELSE z[i - (k + 1)]
  <2>1. /\ t \in Seq(S) /\ Len(t) = Len(y) + Len(z)
        /\ \A i \in 1..(Len(y) + Len(z)) : t[i] = IF i <= Len(y) THEN y[i] ELSE z[i - Len(y)]
    BY <1>5, <1>7, ConcatProperties
  <2> HIDE DEF t
  <2> QED
    BY <1>5, <1>7, <2>1
<1>9. (k + 1) + (n - k) = n + 1
  BY <1>1
<1> HIDE DEF t
<1>10. ASSUME NEW i \in 1..(n + 1) PROVE t[i] = IF i <= k THEN s[i] ELSE IF i = k + 1 THEN e ELSE s[i - 1]
  <2>1. CASE i <= k + 1
    <3>1. i \in 1..(k + 1) /\ (i <= k \/ i = k + 1)
      BY <2>1
    <3> QED
      BY <1>7, <1>8, <1>9, <3>1
  <2>2. CASE ~(i <= k + 1)
    <3>1. i - (k + 1) \in 1..(n - k) /\ k + (i - (k + 1)) = i - 1 /\ ~(i <= k) /\ i # k + 1
      BY <1>1, <2>2
    <3>2. z[i - (k + 1)] = s[i - 1]
      BY <1>5, <3>1
    <3> QED
      BY <1>8, <1>9, <2>2, <3>1, <3>2
  <2> QED
    BY <2>1, <2>2
<1>11. (k + 1) - 1 = k
  OBVIOUS
<1>12. r = t
  BY <1>11 DEF t, y, x, z, n, m, With
<1> HIDE DEF r
<1>13. r \in Seq(S) /\ Len(r) = n + 1
  BY <1>8, <1>9, <1>12, Zenon
<1>14. ASSUME NEW i \in 1..(n + 1) PROVE r[i] = IF i <= k THEN s[i] ELSE IF i = k + 1 THEN e ELSE s[i - 1]
  BY <1>10, <1>12, Zenon
<1> QED
  BY <1>13, <1>14, Zenon DEF n, r, IsWith

\* s without its element k.
Without(s, k) == SubSeq(s, 1, k - 1) \o SubSeq(s, k + 1, Len(s))

IsWithout(r, s, k) ==
  Len(r) = Len(s) - 1 /\ \A i \in 1..Len(r) : r[i] = IF i < k THEN s[i] ELSE s[i + 1]

\* A sequence without its element k.
LEMMA SeqTaken ==
  ASSUME NEW S, NEW s \in Seq(S), NEW k \in 1..Len(s)
  PROVE  Without(s, k) \in Seq(S) /\ IsWithout(Without(s, k), s, k)
<1> DEFINE r == Without(s, k)
<1> DEFINE n == Len(s)
           j == k - 1
           m == k + 1
           x == SubSeq(s, 1, j)
           z == SubSeq(s, m, n)
           t == x \o z
<1>1. n \in Nat /\ \A i \in 1..n : s[i] \in S
  BY LenProperties, ElementOfSeq
<1>2. j \in Nat /\ j + 1 = k /\ j < n /\ m = j + 2 /\ m \in Int
  BY <1>1
<1> HIDE DEF n, j, m
<1>3. x \in Seq(S) /\ Len(x) = j /\ \A i \in 1..j : x[i] = s[i]
  <2>1. \A i \in 1..j : s[i] \in S
    BY <1>1, <1>2
  <2>2. j \in Int /\ j - 1 + 1 = j /\ (IF 1 <= j THEN j - 1 + 1 ELSE 0) = j /\ \A i \in 1..j : 1 + i - 1 = i
    BY <1>2
  <2> QED
    BY <2>1, <2>2, SubSeqProperties
<1>4. \A i \in m..n : i \in 1..n /\ s[i] \in S
  BY <1>1, <1>2
<1>5. z \in Seq(S) /\ Len(z) = n - k /\ \A i \in 1..(n - k) : z[i] = s[k + i]
  <2>1. z \in Seq(S) /\ Len(z) = (IF m <= n THEN n - m + 1 ELSE 0) /\ \A i \in 1..(n - m + 1) : z[i] = s[m + i - 1]
    BY <1>1, <1>2, <1>4, SubSeqProperties
  <2>2. (IF m <= n THEN n - m + 1 ELSE 0) = n - k /\ n - m + 1 = n - k
    BY <1>1, <1>2
  <2>3. \A i \in 1..(n - k) : m + i - 1 = k + i
    BY <1>1, <1>2
  <2> HIDE DEF z
  <2> QED
    BY <2>1, <2>2, <2>3
<1> HIDE DEF x, z
<1>6. t \in Seq(S) /\ Len(t) = j + (n - k) /\ \A i \in 1..(j + (n - k)) : t[i] = IF i <= j THEN x[i] ELSE z[i - j]
  <2>1. /\ t \in Seq(S) /\ Len(t) = Len(x) + Len(z)
        /\ \A i \in 1..(Len(x) + Len(z)) : t[i] = IF i <= Len(x) THEN x[i] ELSE z[i - Len(x)]
    BY <1>3, <1>5, ConcatProperties
  <2> HIDE DEF t
  <2> QED
    BY <1>3, <1>5, <2>1
<1>7. j + (n - k) = n - 1
  BY <1>1, <1>2
<1> HIDE DEF t
<1>8. ASSUME NEW i \in 1..(n - 1) PROVE t[i] = IF i < k THEN s[i] ELSE s[i + 1]
  <2>1. CASE i < k
    <3>1. i \in 1..j /\ i <= j
      BY <1>2, <2>1
    <3> QED
      BY <1>3, <1>6, <1>7, <2>1, <3>1
  <2>2. CASE ~(i < k)
    <3>1. i - j \in 1..(n - k) /\ k + (i - j) = i + 1 /\ ~(i <= j)
      BY <1>1, <1>2, <2>2
    <3>2. z[i - j] = s[i + 1]
      BY <1>5, <3>1
    <3> QED
      BY <1>6, <1>7, <2>2, <3>1, <3>2
  <2> QED
    BY <2>1, <2>2
<1>9. r = t
  BY DEF t, x, z, n, m, j, Without
<1> HIDE DEF r
<1>10. Len(t) = n - 1 /\ t \in Seq(S)
  BY <1>6, <1>7
<1> QED
  BY <1>8, <1>9, <1>10 DEF n, r, IsWithout

\* Where a loop over s, which has the root before and behind it, stands after i steps.
Stop(s, root, i) == IF i \in 1..Len(s) THEN s[i] ELSE root

\* nxt leads from the root through the elements of s, which are distinct, to the root.
IsRound(nxt, root, s) ==
  /\ \A i \in 0..Len(s) : nxt[Stop(s, root, i)] = Stop(s, root, i + 1)
  /\ \A i \in 1..Len(s) : s[i] # root
  /\ \A i, j \in 1..Len(s) : s[i] = s[j] => i = j

\* A loop is at no place twice before it is at the root again.
LEMMA StopsDiffer ==
  ASSUME NEW S, NEW s \in Seq(S), NEW nxt, NEW root, IsRound(nxt, root, s)
  PROVE  /\ Len(s) \in Nat
         /\ \A i, j \in 0..Len(s) : Stop(s, root, i) = Stop(s, root, j) => i = j
<1>1. Len(s) \in Nat
  BY LenProperties
<1>2. \A i \in 0..Len(s) : i \in 1..Len(s) \/ i = 0
  BY <1>1
<1> QED
  BY <1>1, <1>2 DEF Stop, IsRound

\* Links that are the same where a round goes
LEMMA RoundSame ==
  ASSUME NEW S, NEW s \in Seq(S), NEW nxt, NEW root, IsRound(nxt, root, s),
         NEW q, q[root] = nxt[root], \A i \in 1..Len(s) : q[s[i]] = nxt[s[i]]
  PROVE  IsRound(q, root, s)
<1>1. \A i \in 0..Len(s) : q[Stop(s, root, i)] = nxt[Stop(s, root, i)]
  BY DEF Stop
<1> QED
  BY <1>1 DEF IsRound

\* An element is linked in behind place k.
LEMMA RoundPut ==
  ASSUME NEW D, NEW nxt, DOMAIN nxt = D, NEW root \in D, NEW s \in Seq(D), IsRound(nxt, root, s),
         NEW k \in Nat, k <= Len(s), NEW e \in D, e # root, \A i \in 1..Len(s) : s[i] # e,
         NEW r, Len(r) = Len(s) + 1,
         \A i \in 1..Len(r) : r[i] = IF i <= k THEN s[i] ELSE IF i = k + 1 THEN e ELSE s[i - 1],
         NEW p, p = Stop(s, root, k), NEW q, q = [nxt EXCEPT ![e] = nxt[p], ![p] = e]
  PROVE  IsRound(q, root, r)
<1> DEFINE n == Len(s)
           A(i) == Stop(s, root, i)
           B(i) == Stop(r, root, i)
<1>1. n \in Nat /\ k <= n /\ Len(r) = n + 1 /\ k \in 0..n
      /\ \A i, j \in 0..n : A(i) = A(j) => i = j
  BY StopsDiffer
<1>2. \A i \in 0..(n + 1) : A(i) \in D /\ A(i) # e
  <2>1. \A i \in 1..n : s[i] \in D
    BY ElementOfSeq
  <2> QED
    BY <2>1 DEF Stop
<1>3. \A i \in 0..(n + 2) : B(i) = IF i <= k THEN A(i) ELSE IF i = k + 1 THEN e ELSE A(i - 1)
  <2> TAKE i \in 0..(n + 2)
  <2> HIDE DEF n
  <2>1. CASE i = 0
    BY <1>1, <2>1 DEF Stop, n
  <2>2. CASE i = n + 2
    <3>1. i \notin 1..(n + 1) /\ ~(i <= k) /\ i # k + 1 /\ i - 1 \notin 1..n
      BY <1>1, <2>2
    <3> QED
      BY <1>1, <3>1 DEF Stop, n
  <2>3. CASE i # 0 /\ i # n + 2
    <3>1. i \in 1..(n + 1)
      BY <1>1, <2>3
    <3>2. B(i) = IF i <= k THEN s[i] ELSE IF i = k + 1 THEN e ELSE s[i - 1]
      BY <1>1, <3>1 DEF Stop
    <3>3. (i <= k => i \in 1..n) /\ (~(i <= k) /\ i # k + 1 => i - 1 \in 1..n)
      BY <1>1, <3>1
    <3> QED
      BY <3>2, <3>3 DEF Stop, n
  <2> QED
    BY <2>1, <2>2, <2>3
<1>4. \A i \in 0..n : nxt[A(i)] = A(i + 1)
  BY DEF IsRound
<1>5. p = A(k)
  OBVIOUS
<1> HIDE DEF n, A, B
<1>6. p \in D /\ p # e
  BY <1>1, <1>2, <1>5
<1>7. \A x \in D : q[x] = IF x = p THEN e ELSE IF x = e THEN nxt[p] ELSE nxt[x]
  BY <1>6
<1>8. ASSUME NEW i \in 0..(n + 1) PROVE q[B(i)] = B(i + 1)
  <2>1. CASE i < k
    <3>1. i \in 0..n /\ i # k /\ i <= k /\ i + 1 <= k /\ i \in 0..(n + 2) /\ i + 1 \in 0..(n + 2) /\ i \in 0..(n + 1)
      BY <1>1, <2>1
    <3>2. B(i) = A(i) /\ B(i + 1) = A(i + 1) /\ A(i) # p /\ A(i) # e /\ A(i) \in D
      BY <1>1, <1>2, <1>3, <1>5, <3>1
    <3> QED
      BY <1>4, <1>7, <3>1, <3>2
  <2>2. CASE i = k
    <3>1. i <= k /\ ~(i + 1 <= k) /\ i + 1 = k + 1 /\ i \in 0..(n + 2) /\ i + 1 \in 0..(n + 2)
      BY <1>1, <2>2
    <3>2. B(i) = p /\ B(i + 1) = e
      BY <1>3, <1>5, <2>2, <3>1
    <3> QED
      BY <1>6, <1>7, <3>2
  <2>3. CASE i = k + 1
    <3>1. ~(i <= k) /\ ~(i + 1 <= k) /\ i + 1 # k + 1 /\ (i + 1) - 1 = k + 1 /\ i \in 0..(n + 2) /\ i + 1 \in 0..(n + 2)
      BY <1>1, <2>3
    <3>2. B(i) = e /\ B(i + 1) = A(k + 1)
      BY <1>3, <2>3, <3>1
    <3> QED
      BY <1>1, <1>4, <1>5, <1>6, <1>7, <3>2
  <2>4. CASE i > k + 1
    <3> DEFINE j == i - 1
    <3>1. /\ ~(i <= k) /\ i # k + 1 /\ ~(i + 1 <= k) /\ i + 1 # k + 1 /\ (i + 1) - 1 = j + 1
          /\ i \in 0..(n + 2) /\ i + 1 \in 0..(n + 2) /\ j \in 0..n /\ j # k /\ j \in 0..(n + 1)
      BY <1>1, <2>4
    <3>2. B(i) = A(j) /\ B(i + 1) = A(j + 1)
      BY <1>3, <3>1
    <3> HIDE DEF j
    <3>3. A(j) # p /\ A(j) # e /\ A(j) \in D
      BY <1>1, <1>2, <1>5, <3>1
    <3> QED
      BY <1>4, <1>7, <3>1, <3>2, <3>3
  <2> QED
    BY <1>1, <2>1, <2>2, <2>3, <2>4
<1>9. \A i \in 1..(n + 1) : r[i] # root
  <2> TAKE i \in 1..(n + 1)
  <2>1. r[i] = IF i <= k THEN s[i] ELSE IF i = k + 1 THEN e ELSE s[i - 1]
    BY <1>1
  <2>2. (i <= k => i \in 1..n) /\ (~(i <= k) /\ i # k + 1 => i - 1 \in 1..n)
    BY <1>1
  <2> QED
    BY <2>1, <2>2 DEF IsRound, n
<1>10. ASSUME NEW i \in 1..(n + 1), NEW j \in 1..(n + 1), r[i] = r[j] PROVE i = j
  <2>1. /\ r[i] = IF i <= k THEN s[i] ELSE IF i = k + 1 THEN e ELSE s[i - 1]
        /\ r[j] = IF j <= k THEN s[j] ELSE IF j = k + 1 THEN e ELSE s[j - 1]
    BY <1>1
  <2>2. /\ (i <= k => i \in 1..n) /\ (~(i <= k) /\ i # k + 1 => i - 1 \in 1..n /\ i - 1 > k)
        /\ (j <= k => j \in 1..n) /\ (~(j <= k) /\ j # k + 1 => j - 1 \in 1..n /\ j - 1 > k)
    BY <1>1
  <2>3. \A x, y \in 1..n : s[x] = s[y] => x = y
    BY DEF IsRound, n
  <2>4. \A x \in 1..n : s[x] # e
    BY DEF n
  <2>5. CASE i = k + 1 \/ j = k + 1
    <3>1. \A x \in {i, j} : IF x = k + 1 THEN r[x] = e ELSE r[x] # e
      <4>1. i # k + 1 => r[i] # e
        BY <2>1, <2>2, <2>4
      <4>2. j # k + 1 => r[j] # e
        BY <2>1, <2>2, <2>4
      <4>3. (i = k + 1 => r[i] = e) /\ (j = k + 1 => r[j] = e)
        BY <2>1
      <4> QED
        BY <4>1, <4>2, <4>3
    <3> QED
      BY <1>10, <2>5, <3>1
  <2>6. CASE i # k + 1 /\ j # k + 1
    <3> DEFINE u == IF i <= k THEN i ELSE i - 1
               v == IF j <= k THEN j ELSE j - 1
    <3>1. r[i] = s[u] /\ r[j] = s[v]
      BY <2>1, <2>6
    <3>2. u \in 1..n /\ v \in 1..n /\ (u = v => i = j)
      BY <1>1, <2>2, <2>6
    <3> HIDE DEF u, v
    <3> QED
      BY <1>10, <2>3, <3>1, <3>2
  <2> QED
    BY <2>5, <2>6
<1> QED
  BY <1>1, <1>8, <1>9, <1>10 DEF IsRound, B

\* The element at place k is unlinked.
LEMMA RoundTake ==
  ASSUME NEW D, NEW nxt, DOMAIN nxt = D, NEW root \in D, NEW s \in Seq(D), IsRound(nxt, root, s),
         NEW k \in 1..Len(s), NEW r, Len(r) = Len(s) - 1,
         \A i \in 1..Len(r) : r[i] = IF i < k THEN s[i] ELSE s[i + 1],
         NEW p, p = Stop(s, root, k - 1), NEW e, e = s[k],
         NEW q, q = [nxt EXCEPT ![p] = nxt[e], ![e] = e]
  PROVE  IsRound(q, root, r)
<1> DEFINE n == Len(s)
           A(i) == Stop(s, root, i)
           B(i) == Stop(r, root, i)
<1>1. n \in Nat /\ k \in 1..n /\ Len(r) = n - 1 /\ \A i, j \in 0..n : A(i) = A(j) => i = j
  BY StopsDiffer
<1>2. \A i \in 0..(n + 1) : A(i) \in D
  <2>1. \A i \in 1..n : s[i] \in D
    BY ElementOfSeq
  <2> QED
    BY <2>1 DEF Stop
<1>3. \A i \in 0..n : B(i) = IF i < k THEN A(i) ELSE A(i + 1)
  <2> TAKE i \in 0..n
  <2> HIDE DEF n
  <2>1. CASE i = 0
    BY <1>1, <2>1 DEF Stop, n
  <2>2. CASE i = n
    <3>1. i \notin 1..(n - 1) /\ ~(i < k) /\ i + 1 \notin 1..n
      BY <1>1, <2>2
    <3> QED
      BY <1>1, <3>1 DEF Stop, n
  <2>3. CASE i # 0 /\ i # n
    <3>1. i \in 1..(n - 1) /\ i \in 1..n /\ i + 1 \in 1..n
      BY <1>1, <2>3
    <3>2. B(i) = IF i < k THEN s[i] ELSE s[i + 1]
      BY <1>1, <3>1 DEF Stop
    <3> QED
      BY <3>1, <3>2 DEF Stop, n
  <2> QED
    BY <2>1, <2>2, <2>3
<1>4. \A i \in 0..n : nxt[A(i)] = A(i + 1)
  BY DEF IsRound
<1>5. p = A(k - 1) /\ e = A(k)
  BY <1>1 DEF Stop
<1> HIDE DEF n, A, B
<1>6. p \in D /\ e \in D /\ p # e /\ k - 1 \in 0..n /\ k \in 0..n
  <2>1. k - 1 \in 0..n /\ k \in 0..n /\ k - 1 # k /\ k - 1 \in 0..(n + 1) /\ k \in 0..(n + 1)
    BY <1>1
  <2> QED
    BY <1>1, <1>2, <1>5, <2>1
<1>7. \A x \in D : q[x] = IF x = e THEN e ELSE IF x = p THEN nxt[e] ELSE nxt[x]
  BY <1>6
<1>8. ASSUME NEW i \in 0..(n - 1) PROVE q[B(i)] = B(i + 1)
  <2>1. CASE i < k - 1
    <3>1. i \in 0..n /\ i # k /\ i # k - 1 /\ i < k /\ i + 1 < k /\ i + 1 \in 0..n /\ i \in 0..(n + 1)
      BY <1>1, <2>1
    <3>2. B(i) = A(i) /\ B(i + 1) = A(i + 1) /\ A(i) # p /\ A(i) # e /\ A(i) \in D
      BY <1>1, <1>2, <1>3, <1>5, <1>6, <3>1
    <3> QED
      BY <1>4, <1>7, <3>1, <3>2
  <2>2. CASE i = k - 1
    <3>1. i < k /\ ~(i + 1 < k) /\ i + 1 = k /\ i \in 0..n /\ k \in 0..n
      BY <1>1, <2>2
    <3>2. B(i) = p /\ B(i + 1) = A(k + 1)
      BY <1>3, <1>5, <2>2, <3>1
    <3> QED
      BY <1>4, <1>5, <1>6, <1>7, <3>2
  <2>3. CASE i > k - 1
    <3> DEFINE j == i + 1
    <3>1. /\ ~(i < k) /\ ~(i + 1 < k) /\ (i + 1) + 1 = j + 1 /\ i \in 0..n /\ i + 1 \in 0..n
          /\ j \in 0..n /\ j # k /\ j # k - 1 /\ j \in 0..(n + 1)
      BY <1>1, <2>3
    <3>2. B(i) = A(j) /\ B(i + 1) = A(j + 1)
      BY <1>3, <3>1
    <3> HIDE DEF j
    <3>3. A(j) # p /\ A(j) # e /\ A(j) \in D
      BY <1>1, <1>2, <1>5, <1>6, <3>1
    <3> QED
      BY <1>4, <1>7, <3>1, <3>2, <3>3
  <2> QED
    BY <1>1, <2>1, <2>2, <2>3
<1>9. \A i \in 1..(n - 1) : r[i] # root
  <2> TAKE i \in 1..(n - 1)
  <2>1. r[i] = IF i < k THEN s[i] ELSE s[i + 1]
    BY <1>1
  <2>2. i \in 1..n /\ i + 1 \in 1..n
    BY <1>1
  <2> QED
    BY <2>1, <2>2 DEF IsRound, n
<1>10. ASSUME NEW i \in 1..(n - 1), NEW j \in 1..(n - 1), r[i] = r[j] PROVE i = j
  <2>1. /\ r[i] = IF i < k THEN s[i] ELSE s[i + 1]
        /\ r[j] = IF j < k THEN s[j] ELSE s[j + 1]
    BY <1>1
  <2>2. i \in 1..n /\ i + 1 \in 1..n /\ j \in 1..n /\ j + 1 \in 1..n
    BY <1>1
  <2>3. \A x, y \in 1..n : s[x] = s[y] => x = y
    BY DEF IsRound, n
  <2> DEFINE u == IF i < k THEN i ELSE i + 1
             v == IF j < k THEN j ELSE j + 1
  <2>4. r[i] = s[u] /\ r[j] = s[v]
    BY <2>1
  <2>5. u \in 1..n /\ v \in 1..n /\ (u = v => i = j)
    BY <1>1, <2>2
  <2> HIDE DEF u, v
  <2> QED
    BY <1>10, <2>3, <2>4, <2>5
<1> QED
  BY <1>1, <1>8, <1>9, <1>10 DEF IsRound, B

\* A loop along the links meets the elements of the round, and then the root for the first time.
LEMMA RoundMet ==
  ASSUME NEW S, NEW s \in Seq(S), NEW nxt, NEW root, IsRound(nxt, root, s),
         NEW n \in Nat, Len(s) <= n, NEW at, IsTour(at, n + 1, root, nxt)
  PROVE  /\ \A i \in 1..Len(s) : at[i] = s[i]
         /\ \A i \in 0..n : at[i + 1] = root /\ (\A j \in 1..i : at[j] # root) <=> i = Len(s)
<1> DEFINE m == Len(s)
           f == [i \in 0..(m + 1) |-> Stop(s, root, i)]
<1>1. m \in Nat /\ m <= n
  BY LenProperties
<1>2. f[0] = root /\ f[m + 1] = root /\ \A i \in 1..m : f[i] = s[i] /\ s[i] # root
  BY <1>1 DEF Stop, IsRound
<1>3. \A i \in Nat : i < m + 1 => f[i + 1] = nxt[f[i]]
  <2> TAKE i \in Nat
  <2> HAVE i < m + 1
  <2>1. i \in 0..m /\ i \in 0..(m + 1) /\ i + 1 \in 0..(m + 1)
    BY <1>1
  <2> QED
    BY <2>1 DEF IsRound
<1> HIDE DEF f, m
<1>4. \A i \in 0..(m + 1) : at[i] = f[i]
  <2> DEFINE k == m + 1
             l == n + 1
  <2>1. k \in Nat /\ l \in Nat /\ k <= l
    BY <1>1
  <2>2. IsTour(at, l, root, nxt) /\ Along(f, k, root, nxt)
    BY <1>2, <1>3 DEF Along
  <2> HIDE DEF k, l
  <2>3. \A i \in 0..k : at[i] = f[i]
    BY <2>1, <2>2, TourMeets
  <2> QED
    BY <2>3 DEF k
<1>5. at[m + 1] = root /\ \A i \in 1..m : at[i] = s[i] /\ at[i] # root
  <2>1. m + 1 \in 0..(m + 1) /\ \A i \in 1..m : i \in 0..(m + 1)
    BY <1>1
  <2> QED
    BY <1>2, <1>4, <2>1
<1>6. ASSUME NEW i \in 0..n, at[i + 1] = root, \A j \in 1..i : at[j] # root PROVE i = m
  <2>1. ~(i < m)
    <3> SUFFICES ASSUME i < m PROVE FALSE
      OBVIOUS
    <3>1. i + 1 \in 1..m
      BY <1>1
    <3> QED
      BY <1>5, <1>6, <3>1
  <2>2. ~(i > m)
    <3> SUFFICES ASSUME i > m PROVE FALSE
      OBVIOUS
    <3>1. m + 1 \in 1..i
      BY <1>1
    <3> QED
      BY <1>5, <1>6, <3>1
  <2> QED
    BY <1>1, <2>1, <2>2
<1> QED
  BY <1>1, <1>5, <1>6 DEF m

\* A sequence without repetitions is as long as its elements are many.
LEMMA RoundLength ==
  ASSUME NEW S, NEW s \in Seq(S), IsFiniteSet(S), \A i, j \in 1..Len(s) : s[i] = s[j] => i = j
  PROVE  Len(s) <= Cardinality(S)
<1> DEFINE n == Len(s)
<1>1. n \in Nat /\ s \in [1..n -> S]
  BY LenProperties
<1>2. s \in Injection(1..n, S)
  BY <1>1 DEF Injection, IsInjective
<1>3. Cardinality(1..n) <= Cardinality(S)
  BY <1>2, FS_Injection
<1>4. Cardinality(1..n) = n
  <2>1. 1 \in Int /\ n \in Int /\ (1 <= n => n - 1 + 1 = n) /\ (1 > n => n = 0)
    BY <1>1
  <2> QED
    BY <2>1, FS_Interval
<1> QED
  BY <1>3, <1>4

\* A function on the numbers from 1 to n
IsArray(w, n) == w = [i \in 1..n |-> w[i]]

\* It is a sequence.
LEMMA ArrayInSeq ==
  ASSUME NEW n \in Nat, NEW w, IsArray(w, n), NEW S, \A i \in 1..n : w[i] \in S
  PROVE  w \in Seq(S) /\ Len(w) = n /\ DOMAIN w = 1..n
<1>1. w \in [1..n -> S]
  BY DEF IsArray
<1>2. w \in Seq(S)
  BY <1>1
<1> QED
  BY <1>1, <1>2, LenProperties

\* A sequence of what is in it.
LEMMA ArraySeq ==
  ASSUME NEW n \in Nat, NEW w, IsArray(w, n)
  PROVE  w \in Seq({w[i] : i \in 1..n}) /\ Len(w) = n /\ DOMAIN w = 1..n
<1> DEFINE S == {w[i] : i \in 1..n}
<1>1. \A i \in 1..n : w[i] \in S
  OBVIOUS
<1> HIDE DEF S
<1>2. w \in Seq(S) /\ Len(w) = n /\ DOMAIN w = 1..n
  BY <1>1, ArrayInSeq
<1> QED
  BY <1>2 DEF S

\* What has one element more at the end is what Append makes.
LEMMA ArrayAppend ==
  ASSUME NEW n \in Nat, NEW w, IsArray(w, n), NEW m, m = n + 1, NEW x, IsArray(x, m),
         \A i \in 1..n : x[i] = w[i], NEW e, x[m] = e
  PROVE  x = Append(w, e)
<1> DEFINE T == {x[i] : i \in 1..m}
           y == Append(w, e)
<1>1. m \in Nat /\ m \in 1..m /\ (\A i \in 1..n : i \in 1..m) /\ (\A i \in 1..m : i = m \/ i \in 1..n)
  BY m = n + 1, n \in Nat
<1>2. \A i \in 1..m : x[i] \in T
  OBVIOUS
<1> HIDE DEF T
<1>3. x \in Seq(T) /\ Len(x) = m
  BY <1>1, <1>2, ArrayInSeq
<1>4. e \in T /\ \A i \in 1..n : w[i] \in T
  BY <1>1, <1>2
<1>5. w \in Seq(T) /\ Len(w) = n
  BY <1>4, ArrayInSeq
<1>6. y \in Seq(T) /\ Len(y) = m /\ y[m] = e /\ \A i \in 1..n : y[i] = w[i]
  BY <1>4, <1>5, AppendProperties
<1> HIDE DEF y
<1>7. \A i \in 1..m : x[i] = y[i]
  BY <1>1, <1>6
<1>8. x = y
  BY <1>3, <1>6, <1>7, SeqEqual
<1> QED
  BY <1>8 DEF y

\* The first none of a sequence
LEMMA NoPart == \A s : SubSeq(s, 1, 0) = <<>>
OBVIOUS
=============================================================================
