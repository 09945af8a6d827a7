------------------------- MODULE QueryLanguageProofs -------------------------
(***************************************************************************)
(* Normalising a query keeps what it says, for all queries of any shape.   *)
(*                                                                         *)
(* An expression is normalised by opening its parentheses.  What is in a   *)
(* negated one is inverted first, which may put new parentheses, without   *)
(* negations, around each of its conjunctions.  The rank of an expression  *)
(* is twice its depth, less one when it has the shape inversion makes:     *)
(* what stands for a parenthesis has a lower rank than the expression the  *)
(* parenthesis is in.  So the recursive functions exist, and what holds of *)
(* an expression can be shown from what holds of those of lower rank.      *)
(***************************************************************************)
EXTENDS QueryLanguage, PebbleStoreProofs, SequenceTheorems, WellFoundedInduction

-----------------------------------------------------------------------------
(* Recursion on a rank                                                     *)

(* What is passed on from everything of a lower rank holds of everything.  *)
LEMMA RankInduction ==
    ASSUME NEW S, NEW rank \in [S -> Nat], NEW Good,
           \A x \in S : (\A y \in S : rank[y] < rank[x] => y \in Good) => x \in Good
    PROVE  S \subseteq Good
<1> DEFINE T == {rank[x] : x \in S \ Good}
<1>1. ASSUME NEW z \in S, z \notin Good PROVE FALSE
    <2>1. T \in SUBSET Nat /\ T # {}  BY <1>1
    <2> HIDE DEF T
    <2>2. PICK n \in T : \A m \in T : ~ (<<m, n>> \in OpToRel(<, Nat))
        BY <2>1, NatLessThanWellFounded, WFMin
    <2>3. \A m \in T : <<m, n>> \in Nat \X Nat  BY <2>1
    <2>4. \A m \in T : ~ (m < n)  BY <2>2, <2>3, Zenon DEF OpToRel
    <2> USE DEF T
    <2>5. PICK x \in S \ Good : rank[x] = n  OBVIOUS
    <2>6. \A y \in S : rank[y] < rank[x] => y \in Good  BY <2>4, <2>5
    <2> QED  BY <2>5, <2>6
<1> QED  BY <1>1

(* Each step makes a value from the values of what has a lower rank.       *)
Founded(S, T, bound, rank, step) ==
    /\ rank \in [S -> 0 .. bound]
    /\ step \in [S \X [S -> T] -> T]
    /\ \A x \in S : \A g, h \in [S -> T] :
          (\A y \in S : rank[y] < rank[x] => g[y] = h[y])
              => step[<<x, g>>] = step[<<x, h>>]

Solves(f, S, T, step) == f \in [S -> T] /\ f = [x \in S |-> step[<<x, f>>]]

(* There is a function whose values such steps make.                       *)
LEMMA RecursionExists ==
    ASSUME NEW S, NEW T, NEW bound \in Nat, NEW rank, NEW step, NEW start \in T,
           Founded(S, T, bound, rank, step)
    PROVE  \E f : Solves(f, S, T, step)
<1> USE DEF Founded
<1> DEFINE N == 0 .. bound + 1
           Upto(f, n) == \A x \in S : rank[x] < n => f[x] = step[<<x, f>>]
           Good == {n \in N : \E f \in [S -> T] : Upto(f, n)}
           id == [n \in N |-> n]
<1>1. 0 \in Good
    <2> DEFINE f == [x \in S |-> start]
    <2>1. f \in [S -> T]  OBVIOUS
    <2>2. Upto(f, 0)  OBVIOUS
    <2>3. 0 \in N  OBVIOUS
    <2> HIDE DEF f, N, Upto
    <2> QED  BY <2>1, <2>2, <2>3
<1>2. ASSUME NEW n \in N, n + 1 \in N, n \in Good PROVE n + 1 \in Good
    <2>1. PICK f \in [S -> T] : Upto(f, n)  BY <1>2
    <2> DEFINE g == [x \in S |-> IF rank[x] < n THEN f[x] ELSE step[<<x, f>>]]
    <2>2. \A x \in S : step[<<x, f>>] \in T  OBVIOUS
    <2>3. g \in [S -> T]  BY <2>2
    <2>4. \A x \in S : rank[x] < n => g[x] = f[x]  OBVIOUS
    <2>5. \A x \in S : g[x] = step[<<x, f>>]  BY <2>1
    <2> HIDE DEF g
    <2>6. ASSUME NEW x \in S, rank[x] < n + 1 PROVE step[<<x, g>>] = step[<<x, f>>]
        <3>1. \A y \in S : rank[y] < rank[x] => g[y] = f[y]  BY <2>4, <2>6
        <3> QED  BY <2>3, <3>1
    <2>7. Upto(g, n + 1)  BY <2>5, <2>6
    <2> QED  BY <1>2, <2>3, <2>7
<1>3. id \in [N -> Nat]  OBVIOUS
<1> HIDE DEF Good
<1>4. \A n \in N : (\A m \in N : id[m] < id[n] => m \in Good) => n \in Good
    <2> SUFFICES ASSUME NEW n \in N, \A m \in N : id[m] < id[n] => m \in Good, n # 0
                 PROVE  n \in Good
        BY <1>1
    <2>1. n - 1 \in N /\ id[n - 1] < id[n] /\ (n - 1) + 1 = n  OBVIOUS
    <2>2. n - 1 \in Good  BY <2>1
    <2> QED  BY <2>1, <2>2, <1>2
<1>5. N \subseteq Good
    <2> HIDE DEF N, id
    <2> QED  BY <1>3, <1>4, RankInduction
<1>6. bound + 1 \in Good
    <2>1. bound + 1 \in N  OBVIOUS
    <2> HIDE DEF N
    <2> QED  BY <2>1, <1>5
<1>7. PICK f \in [S -> T] : Upto(f, bound + 1)  BY <1>6 DEF Good
<1>8. \A x \in S : rank[x] < bound + 1  OBVIOUS
<1>9. \A x \in S : f[x] = step[<<x, f>>]  BY <1>7, <1>8
<1> DEFINE g == [x \in S |-> step[<<x, f>>]]
<1>10. f = [x \in S |-> f[x]]  OBVIOUS
<1>11. g = [x \in S |-> g[x]] /\ \A x \in S : g[x] = step[<<x, f>>]  OBVIOUS
<1> HIDE DEF g
<1>12. \A x \in S : f[x] = g[x]  BY <1>9, <1>11
<1>13. f = g  BY <1>10, <1>11, <1>12
<1> USE DEF g
<1> QED  BY <1>13 DEF Solves

-----------------------------------------------------------------------------
(* Expressions                                                             *)

(* The elements of a sequence that is not empty.                           *)
LEMMA NonEmptySeqElements ==
    ASSUME NEW S, NEW s \in NonEmptySeq(S)
    PROVE  /\ Len(s) \in Nat \ {0} /\ DOMAIN s = 1 .. Len(s) /\ 1 \in DOMAIN s
           /\ s = [i \in 1 .. Len(s) |-> s[i]]
           /\ \A i \in DOMAIN s : s[i] \in S
<1>1. s \in Seq(S) /\ s # <<>>  BY DEF NonEmptySeq
<1>2. /\ Len(s) \in Nat /\ DOMAIN s = 1 .. Len(s)
      /\ s = [i \in 1 .. Len(s) |-> s[i]]
      /\ \A i \in DOMAIN s : s[i] \in S
    BY <1>1
<1>3. Len(s) # 0  BY <1>1
<1> QED  BY <1>2, <1>3

(* A function on 1 .. n is a sequence.                                     *)
LEMMA NonEmptySeqOf ==
    ASSUME NEW S, NEW n \in Nat \ {0}, NEW f \in [1 .. n -> S]
    PROVE  f \in NonEmptySeq(S) /\ Len(f) = n
<1>1. f \in Seq(S) /\ Len(f) = n  OBVIOUS
<1>2. f # <<>>  BY <1>1
<1> QED  BY <1>1, <1>2 DEF NonEmptySeq

(* What the conjunctions of an expression consist of.                      *)
Element(exprs) == Term \cup Paren(exprs)
ExprOver(elements) == NonEmptySeq(NonEmptySeq(elements))

(* Larger sets have more sequences.                                        *)
LEMMA ExprMonotone ==
    ASSUME NEW S, NEW T, S \subseteq T  PROVE ExprOver(S) \subseteq ExprOver(T)
<1>1. ASSUME NEW A, NEW B, A \subseteq B PROVE NonEmptySeq(A) \subseteq NonEmptySeq(B)
    <2> SUFFICES ASSUME NEW s \in NonEmptySeq(A) PROVE s \in NonEmptySeq(B)
        OBVIOUS
    <2>1. s \in [1 .. Len(s) -> B] /\ Len(s) \in Nat \ {0}
        BY <1>1, NonEmptySeqElements
    <2> QED  BY <2>1, NonEmptySeqOf
<1> QED  BY <1>1 DEF ExprOver

Level(f, n) == ExprOver(IF n = 0 THEN Term ELSE Element(f[n - 1]))

(* The levels of nesting exist.                                            *)
LEMMA LevelsExist ==
    ASSUME NEW bound \in Nat
    PROVE  \E f : f = [n \in 0 .. bound |-> Level(f, n)]
<1> DEFINE N == 0 .. bound
           Upto(f, k) == f = [n \in 0 .. k |-> Level(f, n)]
           Good == {k \in N : \E f : Upto(f, k)}
           id == [n \in N |-> n]
<1>1. 0 \in Good
    <2> DEFINE f == [n \in 0 .. 0 |-> ExprOver(Term)]
    <2>1. \A n \in 0 .. 0 : Level(f, n) = ExprOver(Term)
        BY DEF Level
    <2>2. f = [n \in 0 .. 0 |-> Level(f, n)]
        <3> DEFINE g == [n \in 0 .. 0 |-> Level(f, n)]
        <3>1. \A n \in 0 .. 0 : f[n] = g[n]  BY <2>1
        <3>2. f = [n \in 0 .. 0 |-> f[n]] /\ g = [n \in 0 .. 0 |-> g[n]]  OBVIOUS
        <3> HIDE DEF f, g
        <3>3. f = g  BY <3>1, <3>2
        <3> USE DEF g
        <3> QED  BY <3>3
    <2> QED  BY <2>2
<1>2. ASSUME NEW k \in N, k + 1 \in N, k \in Good PROVE k + 1 \in Good
    <2>1. PICK f : Upto(f, k)  BY <1>2
    <2> DEFINE g == [n \in 0 .. k + 1 |-> IF n = k + 1 THEN Level(f, k + 1) ELSE f[n]]
               h == [n \in 0 .. k + 1 |-> Level(g, n)]
    <2>2. \A n \in 0 .. k : g[n] = f[n]  OBVIOUS
    <2>3. g[k + 1] = Level(f, k + 1)  OBVIOUS
    <2>4. g = [n \in 0 .. k + 1 |-> g[n]]  OBVIOUS
    <2>5. \A n \in 0 .. k : f[n] = Level(f, n)  BY <2>1, Zenon
    <2>6. h = [n \in 0 .. k + 1 |-> h[n]] /\ \A n \in 0 .. k + 1 : h[n] = Level(g, n)
        OBVIOUS
    <2> HIDE DEF g, h
    <2>7. ASSUME NEW n \in 0 .. k + 1 PROVE Level(g, n) = Level(f, n)
        <3>1. CASE n = 0  BY <3>1 DEF Level
        <3>2. CASE n # 0
            <4>1. n - 1 \in 0 .. k  BY <3>2
            <4> QED  BY <4>1, <2>2 DEF Level
        <3> QED  BY <3>1, <3>2
    <2>8. ASSUME NEW n \in 0 .. k + 1 PROVE g[n] = h[n]
        <3>1. CASE n = k + 1  BY <3>1, <2>3, <2>6, <2>7
        <3>2. CASE n # k + 1
            <4>1. n \in 0 .. k  BY <3>2
            <4> QED  BY <4>1, <2>2, <2>5, <2>6, <2>7
        <3> QED  BY <3>1, <3>2
    <2>9. g = h  BY <2>4, <2>6, <2>8
    <2>10. Upto(g, k + 1)  BY <2>9 DEF h
    <2> QED  BY <2>10, <1>2
<1>3. id \in [N -> Nat]  OBVIOUS
<1> HIDE DEF Good
<1>4. \A n \in N : (\A m \in N : id[m] < id[n] => m \in Good) => n \in Good
    <2> SUFFICES ASSUME NEW n \in N, \A m \in N : id[m] < id[n] => m \in Good, n # 0
                 PROVE  n \in Good
        BY <1>1
    <2>1. n - 1 \in N /\ id[n - 1] < id[n] /\ (n - 1) + 1 = n  OBVIOUS
    <2>2. n - 1 \in Good  BY <2>1
    <2> QED  BY <2>1, <2>2, <1>2
<1>5. N \subseteq Good
    <2> HIDE DEF N, id
    <2> QED  BY <1>3, <1>4, RankInduction
<1>6. bound \in Good
    <2>1. bound \in N  OBVIOUS
    <2> HIDE DEF N
    <2> QED  BY <2>1, <1>5
<1> QED  BY <1>6 DEF Good

(* The expressions of a level are made of terms and of parentheses around  *)
(* expressions of the level below.                                         *)
LEMMA NestedLevels ==
    /\ MaxNesting \in Nat
    /\ \A n \in 0 .. MaxNesting : Nested[n] = Level(Nested, n)
<1> DEFINE Is1(f) == f = [n \in 0 .. MaxNesting |-> Level(f, n)]
<1>1. MaxNesting \in Nat  BY ParsedAssumption
<1>2. \E f : Is1(f)  BY <1>1, LevelsExist
<1>3. Is1(Nested)
    <2>1. \E f : f = [n \in 0 .. MaxNesting |->
                        NonEmptySeq(NonEmptySeq(IF n = 0 THEN Term
                                                ELSE Term \cup Paren(f[n - 1])))]
        BY <1>2, Zenon DEF Level, ExprOver, Element
    <2> QED  BY <2>1, Zenon DEF Nested, Level, ExprOver, Element
<1>4. \A n \in 0 .. MaxNesting : Nested[n] = Level(Nested, n)
    BY <1>3, Zenon
<1> QED  BY <1>1, <1>4

(* A level contains those below it.                                        *)
LEMMA NestedMonotone ==
    \A n \in 1 .. MaxNesting : Nested[n - 1] \subseteq Nested[n]
<1> DEFINE N == 0 .. MaxNesting
           Good == {n \in N : n # 0 => Nested[n - 1] \subseteq Nested[n]}
           id == [n \in N |-> n]
<1>1. MaxNesting \in Nat  BY NestedLevels
<1>2. id \in [N -> Nat]  BY <1>1
<1>3. ASSUME NEW n \in N, \A m \in N : id[m] < id[n] => m \in Good PROVE n \in Good
    <2> SUFFICES ASSUME n # 0 PROVE Nested[n - 1] \subseteq Nested[n]
        OBVIOUS
    <2>1. n - 1 \in N /\ n - 1 \in Good  BY <1>1, <1>3
    <2>2. Nested[n] = ExprOver(Element(Nested[n - 1]))
        BY NestedLevels DEF Level
    <2>3. CASE n - 1 = 0
        <3>1. Nested[n - 1] = ExprOver(Term)  BY <2>1, <2>3, NestedLevels DEF Level
        <3>2. Term \subseteq Element(Nested[n - 1])  BY DEF Element
        <3> QED  BY <2>2, <3>1, <3>2, ExprMonotone
    <2>4. CASE n - 1 # 0
        <3>1. Nested[n - 1] = ExprOver(Element(Nested[(n - 1) - 1]))
            BY <2>1, <2>4, NestedLevels DEF Level
        <3>2. Nested[(n - 1) - 1] \subseteq Nested[n - 1]  BY <2>1, <2>4
        <3>3. Element(Nested[(n - 1) - 1]) \subseteq Element(Nested[n - 1])
            BY <3>2 DEF Element, Paren
        <3> QED  BY <2>2, <3>1, <3>3, ExprMonotone
    <2> QED  BY <2>3, <2>4
<1> HIDE DEF Good, N, id
<1>4. N \subseteq Good  BY <1>2, <1>3, RankInduction
<1> USE DEF Good, N
<1> QED  BY <1>1, <1>4

(* A level contains all levels below it.                                   *)
LEMMA NestedIncreases ==
    \A n \in 0 .. MaxNesting : \A m \in 0 .. n : Nested[m] \subseteq Nested[n]
<1> DEFINE N == 0 .. MaxNesting
           Good == {n \in N : \A m \in 0 .. n : Nested[m] \subseteq Nested[n]}
           id == [n \in N |-> n]
<1>1. MaxNesting \in Nat  BY NestedLevels
<1>2. id \in [N -> Nat]  BY <1>1
<1>3. ASSUME NEW n \in N, \A m \in N : id[m] < id[n] => m \in Good PROVE n \in Good
    <2> SUFFICES ASSUME NEW m \in 0 .. n PROVE Nested[m] \subseteq Nested[n]
        OBVIOUS
    <2>1. CASE m = n  BY <2>1
    <2>2. CASE m # n
        <3>1. n - 1 \in N /\ n - 1 \in Good /\ m \in 0 .. n - 1 /\ n \in 1 .. MaxNesting
            BY <1>1, <1>3, <2>2
        <3>2. Nested[m] \subseteq Nested[n - 1]  BY <3>1
        <3> QED  BY <3>1, <3>2, NestedMonotone
    <2> QED  BY <2>1, <2>2
<1> HIDE DEF Good, N, id
<1>4. N \subseteq Good  BY <1>2, <1>3, RankInduction
<1> USE DEF Good, N
<1> QED  BY <1>4

(* How many parentheses of an expression are within each other.            *)
Depth(e) ==
    CHOOSE n \in 0 .. MaxNesting :
        /\ e \in Nested[n]
        /\ \A m \in 0 .. MaxNesting : e \in Nested[m] => n <= m

(* It is the lowest level the expression is in.                            *)
LEMMA DepthIs ==
    ASSUME NEW e \in Expression
    PROVE  /\ Depth(e) \in 0 .. MaxNesting
           /\ e \in Nested[Depth(e)]
           /\ \A m \in 0 .. MaxNesting : e \in Nested[m] => Depth(e) <= m
<1> DEFINE N == 0 .. MaxNesting
           Low(n) == e \in Nested[n] /\ \A m \in N : e \in Nested[m] => n <= m
           Good == {n \in N : ~ (e \in Nested[n])}
           id == [n \in N |-> n]
<1>1. MaxNesting \in Nat  BY NestedLevels
<1>2. id \in [N -> Nat]  BY <1>1
<1>3. \E n \in N : Low(n)
    <2> SUFFICES ASSUME \A n \in N : ~ Low(n) PROVE FALSE
        OBVIOUS
    <2>1. ASSUME NEW n \in N, \A m \in N : id[m] < id[n] => m \in Good PROVE n \in Good
        <3> SUFFICES ASSUME e \in Nested[n] PROVE FALSE
            OBVIOUS
        <3>1. PICK m \in N : e \in Nested[m] /\ ~ (n <= m)  OBVIOUS
        <3>2. id[m] < id[n]  BY <1>1, <3>1
        <3> QED  BY <2>1, <3>1, <3>2
    <2> HIDE DEF Good, N, id
    <2>2. N \subseteq Good  BY <1>2, <2>1, RankInduction
    <2> USE DEF Good, N
    <2>3. e \in Nested[MaxNesting] /\ MaxNesting \in N  BY <1>1 DEF Expression
    <2> QED  BY <2>2, <2>3
<1> QED  BY <1>3 DEF Depth

(* What an expression consists of.                                         *)
LEMMA ExpressionParts ==
    ASSUME NEW n \in 0 .. MaxNesting, NEW e \in Nested[n]
    PROVE  /\ e \in Expression
           /\ e \in NonEmptySeq(NonEmptySeq(IF n = 0 THEN Term ELSE Element(Nested[n - 1])))
           /\ Len(e) \in Nat \ {0} /\ DOMAIN e = 1 .. Len(e) /\ 1 \in DOMAIN e
           /\ \A i \in DOMAIN e :
                 /\ Len(e[i]) \in Nat \ {0} /\ DOMAIN e[i] = 1 .. Len(e[i])
                 /\ 1 \in DOMAIN e[i]
                 /\ \A j \in DOMAIN e[i] :
                       e[i][j] \in Term \/ (n # 0 /\ e[i][j] \in Paren(Nested[n - 1]))
<1>1. e \in Expression
    BY NestedLevels, NestedIncreases DEF Expression
<1> DEFINE E == IF n = 0 THEN Term ELSE Element(Nested[n - 1])
<1>2. e \in NonEmptySeq(NonEmptySeq(E))
    BY NestedLevels DEF Level, ExprOver
<1>3. \A x \in E : x \in Term \/ (n # 0 /\ x \in Paren(Nested[n - 1]))
    BY DEF Element
<1> HIDE DEF E
<1>4. /\ Len(e) \in Nat \ {0} /\ DOMAIN e = 1 .. Len(e) /\ 1 \in DOMAIN e
      /\ \A i \in DOMAIN e : e[i] \in NonEmptySeq(E)
    BY <1>2, NonEmptySeqElements
<1>5. ASSUME NEW i \in DOMAIN e
      PROVE  /\ Len(e[i]) \in Nat \ {0} /\ DOMAIN e[i] = 1 .. Len(e[i])
             /\ 1 \in DOMAIN e[i]
             /\ \A j \in DOMAIN e[i] : e[i][j] \in E
    BY <1>4, NonEmptySeqElements
<1>6. e \in NonEmptySeq(NonEmptySeq(IF n = 0 THEN Term ELSE Element(Nested[n - 1])))
    BY <1>2 DEF E
<1> QED  BY <1>1, <1>3, <1>4, <1>5, <1>6

(* A term is no parenthesis.                                               *)
LEMMA TermFields ==
    ASSUME NEW t \in Term
    PROVE  /\ t.op \in TermOps /\ t.op # "()" /\ t.not \in BOOLEAN /\ t.kind \in Kind
           /\ DOMAIN t = {"op", "not", "kind", "var", IF t.op = "in" THEN "vals" ELSE "val"}
<1>1. t.op \in TermOps  BY TermAssumption
<1>2. t.op # "()"  BY <1>1 DEF TermOps, ComparisonOps
<1> QED  BY <1>1, <1>2, TermAssumption

(* The operands of an expression are terms and, of lower depth, what is in *)
(* parentheses.                                                            *)
LEMMA Operands ==
    ASSUME NEW e \in Expression, NEW i \in DOMAIN e, NEW j \in DOMAIN e[i]
    PROVE  \/ e[i][j] \in Term /\ e[i][j].op # "()"
           \/ /\ e[i][j] \in Paren(Expression) /\ e[i][j].op = "()"
              /\ e[i][j].not \in BOOLEAN
              /\ e[i][j].nested \in Expression
              /\ Depth(e[i][j].nested) < Depth(e)
<1> DEFINE n == Depth(e)
           x == e[i][j]
<1>1. MaxNesting \in Nat  BY NestedLevels
<1>2. n \in 0 .. MaxNesting /\ e \in Nested[n]  BY DepthIs
<1> HIDE DEF n
<1>3. x \in Term \/ (n # 0 /\ x \in Paren(Nested[n - 1]))
    BY <1>2, ExpressionParts
<1> HIDE DEF x
<1>4. CASE x \in Term  BY <1>4, TermFields DEF x
<1>5. CASE n # 0 /\ x \in Paren(Nested[n - 1])
    <2>1. n - 1 \in 0 .. MaxNesting  BY <1>1, <1>2, <1>5
    <2>2. x.op = "()" /\ x.not \in BOOLEAN /\ x.nested \in Nested[n - 1]
        BY <1>5 DEF Paren
    <2>3. x.nested \in Expression  BY <2>1, <2>2, ExpressionParts
    <2>4. x \in Paren(Expression)  BY <1>5, <2>3 DEF Paren
    <2>5. Depth(x.nested) \in 0 .. MaxNesting /\ Depth(x.nested) <= n - 1
        BY <2>1, <2>2, <2>3, DepthIs
    <2>6. Depth(x.nested) < n  BY <1>1, <1>2, <2>1, <2>5
    <2> QED  BY <2>2, <2>3, <2>4, <2>6 DEF x, n
<1> QED  BY <1>3, <1>4, <1>5

-----------------------------------------------------------------------------
(* Negation of an expression                                               *)

(* A term's negation is a term, that of a parenthesis a parenthesis around *)
(* the same.                                                               *)
LEMMA InvertTermOf ==
    /\ \A t \in Term : /\ invertTerm(t) \in Term /\ invertTerm(t).op # "()"
    /\ \A S : \A x \in Paren(S) :
          /\ invertTerm(x) \in Paren(S)
          /\ invertTerm(x).op = "()" /\ invertTerm(x).nested = x.nested
          /\ invertTerm(x).not = ~ x.not
<1>1. ASSUME NEW t \in Term  PROVE invertTerm(t) \in Term
    <2>1. CASE t.op \in ComparisonOps
        <3>1. Complement[t.op] \in ComparisonOps
            BY <2>1 DEF Complement, ComparisonOps
        <3>2. invertTerm(t) = [t EXCEPT !.op = Complement[t.op]]
            BY <2>1 DEF invertTerm
        <3> QED  BY <2>1, <3>1, <3>2, TermAssumption
    <2>2. CASE t.op \notin ComparisonOps
        <3>1. invertTerm(t) = [t EXCEPT !.not = ~ t.not]
            BY <2>2 DEF invertTerm
        <3>2. (~ t.not) \in BOOLEAN  OBVIOUS
        <3> QED  BY <3>1, <3>2, TermAssumption
    <2> QED  BY <2>1, <2>2
<1>2. ASSUME NEW S, NEW x \in Paren(S)
      PROVE  /\ invertTerm(x) \in Paren(S)
             /\ invertTerm(x).op = "()" /\ invertTerm(x).nested = x.nested
             /\ invertTerm(x).not = ~ x.not
    <2>1. x.op \notin ComparisonOps  BY DEF Paren, ComparisonOps
    <2>2. invertTerm(x) = [x EXCEPT !.not = ~ x.not]  BY <2>1 DEF invertTerm
    <2> QED  BY <2>2 DEF Paren
<1> QED  BY <1>1, <1>2, TermFields

(* The negation of a conjunction is a disjunction of conjunctions of one   *)
(* operand each.                                                           *)
LEMMA InvertAndOf ==
    ASSUME NEW n \in 0 .. MaxNesting, NEW e \in Nested[n], NEW i \in DOMAIN e
    PROVE  /\ invertAnd(e[i]) \in Nested[n]
           /\ DOMAIN invertAnd(e[i]) = DOMAIN e[i]
           /\ \A j \in DOMAIN e[i] :
                 /\ DOMAIN invertAnd(e[i])[j] = {1}
                 /\ invertAnd(e[i])[j][1] = invertTerm(e[i][j])
<1> DEFINE E == IF n = 0 THEN Term ELSE Element(Nested[n - 1])
           a == e[i]
           f == invertAnd(a)
<1>1. \A x \in E : invertTerm(x) \in E
    BY InvertTermOf DEF Element
<1>2. /\ Len(a) \in Nat \ {0} /\ DOMAIN a = 1 .. Len(a)
      /\ \A j \in DOMAIN a : a[j] \in E
    BY ExpressionParts DEF Element
<1>3. Nested[n] = NonEmptySeq(NonEmptySeq(E))
    BY NestedLevels DEF Level, ExprOver
<1> HIDE DEF E, a
<1>4. f = [j \in DOMAIN a |-> <<invertTerm(a[j])>>]  BY DEF invertAnd
<1> HIDE DEF f
<1>5. ASSUME NEW j \in DOMAIN a
      PROVE  <<invertTerm(a[j])>> \in NonEmptySeq(E)
    <2>1. invertTerm(a[j]) \in E  BY <1>1, <1>2
    <2> DEFINE y == invertTerm(a[j])
    <2> HIDE DEF y
    <2>2. y \in E  BY <2>1 DEF y
    <2>3. <<y>> \in Seq(E) /\ <<y>> # <<>>  BY <2>2
    <2> QED  BY <2>3 DEF y, NonEmptySeq
<1>6. f \in [1 .. Len(a) -> NonEmptySeq(E)]
    BY <1>2, <1>4, <1>5
<1>7. f \in Nested[n]
    BY <1>2, <1>3, <1>6, NonEmptySeqOf
<1>8. \A j \in DOMAIN a : f[j] = <<invertTerm(a[j])>>  BY <1>4
<1>9. DOMAIN f = DOMAIN a  BY <1>4
<1>10. \A y : DOMAIN <<y>> = {1} /\ <<y>>[1] = y  OBVIOUS
<1> QED  BY <1>7, <1>8, <1>9, <1>10 DEF f, a

(* The negation of an expression with one conjunction is the negation of   *)
(* that, and the negation of any other a conjunction of parentheses.       *)
LEMMA InvertExpressionOf ==
    ASSUME NEW n \in 0 .. MaxNesting, NEW e \in Nested[n]
    PROVE  /\ Len(e) = 1 => invertExpression(e) = invertAnd(e[1])
           /\ Len(e) # 1 =>
                 /\ invertExpression(e) = <<invertOr(e)>>
                 /\ DOMAIN invertExpression(e) = {1} /\ Len(invertExpression(e)) = 1
                 /\ invertExpression(e)[1] = invertOr(e)
                 /\ n + 1 <= MaxNesting => invertExpression(e) \in Nested[n + 1]
           /\ DOMAIN invertOr(e) = DOMAIN e
           /\ \A i \in DOMAIN e :
                 invertOr(e)[i] = [op |-> "()", not |-> FALSE, nested |-> invertAnd(e[i])]
<1>1. /\ DOMAIN invertOr(e) = DOMAIN e
      /\ \A i \in DOMAIN e :
             invertOr(e)[i] = [op |-> "()", not |-> FALSE, nested |-> invertAnd(e[i])]
    BY DEF invertOr
<1>2. /\ Len(e) \in Nat \ {0} /\ DOMAIN e = 1 .. Len(e) /\ 1 \in DOMAIN e
    BY ExpressionParts
<1>3. ASSUME Len(e) = 1 PROVE invertExpression(e) = invertAnd(e[1])
    BY <1>1, <1>2, <1>3 DEF invertExpression
<1>4. ASSUME Len(e) # 1
      PROVE  /\ invertExpression(e) = <<invertOr(e)>>
             /\ DOMAIN invertExpression(e) = {1} /\ Len(invertExpression(e)) = 1
             /\ invertExpression(e)[1] = invertOr(e)
    <2>1. invertExpression(e) = <<invertOr(e)>>  BY <1>4 DEF invertExpression
    <2>2. \A y : DOMAIN <<y>> = {1} /\ Len(<<y>>) = 1 /\ <<y>>[1] = y  OBVIOUS
    <2> QED  BY <2>1, <2>2
<1>5. ASSUME n + 1 <= MaxNesting  PROVE <<invertOr(e)>> \in Nested[n + 1]
    <2>1. n + 1 \in 0 .. MaxNesting /\ n + 1 # 0 /\ (n + 1) - 1 = n
        BY <1>5, NestedLevels
    <2>2. Nested[n + 1] = NonEmptySeq(NonEmptySeq(Element(Nested[n])))
        BY <2>1, NestedLevels DEF Level, ExprOver
    <2>3. ASSUME NEW i \in DOMAIN e PROVE invertOr(e)[i] \in Element(Nested[n])
        <3>1. invertAnd(e[i]) \in Nested[n]  BY InvertAndOf
        <3>2. \A p \in Nested[n] :
                  [op |-> "()", not |-> FALSE, nested |-> p] \in Paren(Nested[n])
            BY DEF Paren
        <3>3. invertOr(e)[i] \in Paren(Nested[n])  BY <1>1, <3>1, <3>2, Zenon
        <3> QED  BY <3>3 DEF Element
    <2> DEFINE y == invertOr(e)
               E == Element(Nested[n])
    <2>4. y = [i \in DOMAIN e |-> y[i]]  BY DEF invertOr
    <2> HIDE DEF y, E
    <2>5. y \in [1 .. Len(e) -> E]  BY <1>1, <1>2, <2>3, <2>4 DEF y, E
    <2>6. y \in NonEmptySeq(E)  BY <1>2, <2>5, NonEmptySeqOf
    <2> DEFINE F == NonEmptySeq(E)
    <2> HIDE DEF F
    <2>7. y \in F  BY <2>6 DEF F
    <2>8. <<y>> \in Seq(F) /\ <<y>> # <<>>  BY <2>7
    <2> QED  BY <2>2, <2>8 DEF F, E, y, NonEmptySeq
<1> QED  BY <1>1, <1>3, <1>4, <1>5

-----------------------------------------------------------------------------
(* Opening a parenthesis, negated or not, makes an expression simpler: of  *)
(* less depth, or of the same depth with the negation gone.                *)
AllOpen(e) ==
    Len(e) = 1 /\ \A j \in DOMAIN e[1] : e[1][j].op = "()" /\ ~ e[1][j].not

Rank(e) == 2 * Depth(e) - (IF AllOpen(e) THEN 1 ELSE 0)

(* The rank is a number.                                                   *)
LEMMA RankIs ==
    \A e \in Expression : Rank(e) \in 0 .. 2 * MaxNesting
<1> SUFFICES ASSUME NEW e \in Expression PROVE Rank(e) \in 0 .. 2 * MaxNesting
    OBVIOUS
<1>1. MaxNesting \in Nat  BY NestedLevels
<1>2. Depth(e) \in 0 .. MaxNesting /\ e \in Nested[Depth(e)]  BY DepthIs
<1>3. ASSUME AllOpen(e) PROVE Depth(e) # 0
    <2>1. 1 \in DOMAIN e /\ 1 \in DOMAIN e[1]  BY <1>2, ExpressionParts
    <2>2. e[1][1].op = "()"  BY <1>3, <2>1 DEF AllOpen
    <2>3. Depth(e[1][1].nested) < Depth(e) /\ e[1][1].nested \in Expression
        BY <2>1, <2>2, Operands
    <2>4. Depth(e[1][1].nested) \in 0 .. MaxNesting  BY <2>3, DepthIs
    <2> QED  BY <1>1, <2>3, <2>4
<1> QED  BY <1>1, <1>2, <1>3 DEF Rank

(* What stands for an operand in parentheses has a lower rank.             *)
LEMMA OpenedIsSimpler ==
    ASSUME NEW e \in Expression, NEW i \in DOMAIN e, NEW j \in DOMAIN e[i],
           e[i][j].op = "()"
    PROVE  /\ Opened(e[i][j]) \in Expression
           /\ Rank(Opened(e[i][j])) < Rank(e)
<1> DEFINE x == e[i][j]
           y == x.nested
           d == Depth(y)
<1>1. MaxNesting \in Nat  BY NestedLevels
<1>2. /\ x.op = "()" /\ x.not \in BOOLEAN /\ y \in Expression /\ d < Depth(e)
    BY Operands
<1>3. Depth(e) \in 0 .. MaxNesting /\ e \in Nested[Depth(e)]  BY DepthIs
<1>4. d \in 0 .. MaxNesting /\ y \in Nested[d]  BY <1>2, DepthIs
<1>5. Rank(y) <= 2 * d  BY <1>4 DEF Rank
<1>6. CASE ~ x.not
    <2>1. Opened(x) = y  BY <1>6 DEF Opened
    <2>2. Rank(e) >= 2 * Depth(e) - 1  BY <1>1, <1>3 DEF Rank
    <2>3. Rank(y) \in Int /\ Rank(e) \in Int  BY <1>2, RankIs
    <2> HIDE DEF x, y, d
    <2>4. Rank(y) < Rank(e)  BY <1>1, <1>2, <1>3, <1>4, <1>5, <2>2, <2>3
    <2> QED  BY <1>2, <2>1, <2>4 DEF x
<1>7. CASE x.not
    <2>1. Opened(x) = invertExpression(y)  BY <1>7 DEF Opened
    <2>2. ~ AllOpen(e)
        <3>1. DOMAIN e = 1 .. Len(e)  BY <1>3, ExpressionParts
        <3>2. Len(e) = 1 => i = 1  BY <3>1
        <3> QED  BY <1>7, <3>2 DEF AllOpen
    <2>3. Rank(e) = 2 * Depth(e)  BY <1>1, <1>3, <2>2 DEF Rank
    <2>4. /\ 1 \in DOMAIN y /\ DOMAIN y = 1 .. Len(y)
        BY <1>4, ExpressionParts
    <2> DEFINE z == invertExpression(y)
    <2>5. CASE Len(y) = 1
        <3>1. z = invertAnd(y[1])  BY <1>4, <2>5, InvertExpressionOf
        <3>2. z \in Nested[d]  BY <1>4, <2>4, <3>1, InvertAndOf
        <3> HIDE DEF x, y, d, z
        <3>3. z \in Expression  BY <1>4, <3>2, ExpressionParts
        <3>4. Depth(z) \in 0 .. MaxNesting /\ Depth(z) <= d
            BY <1>4, <3>2, <3>3, DepthIs
        <3>5. Rank(z) <= 2 * Depth(z) /\ Rank(z) \in Int
            BY <3>3, <3>4, RankIs DEF Rank
        <3>6. Rank(z) < Rank(e)
            BY <1>1, <1>2, <1>3, <1>4, <2>3, <3>4, <3>5
        <3> QED  BY <2>1, <3>3, <3>6 DEF x, z
    <2>6. CASE Len(y) # 1
        <3>1. /\ z = <<invertOr(y)>> /\ Len(z) = 1 /\ z[1] = invertOr(y)
              /\ d + 1 <= MaxNesting => z \in Nested[d + 1]
              /\ DOMAIN invertOr(y) = DOMAIN y
              /\ \A k \in DOMAIN y : invertOr(y)[k] =
                     [op |-> "()", not |-> FALSE, nested |-> invertAnd(y[k])]
            BY <1>4, <2>6, InvertExpressionOf
        <3> HIDE DEF x, y, d, z
        <3>2. AllOpen(z)
            <4> DEFINE w == z[1]
            <4>1. w = invertOr(y)  BY <3>1
            <4> HIDE DEF w
            <4>2. \A k \in DOMAIN w :
                     w[k] = [op |-> "()", not |-> FALSE, nested |-> invertAnd(y[k])]
                BY <3>1, <4>1
            <4>3. \A k \in DOMAIN w : w[k].op = "()" /\ ~ w[k].not
                BY <4>2
            <4> QED  BY <3>1, <4>3 DEF w, AllOpen
        <3>3. d + 1 \in 0 .. MaxNesting /\ d + 1 <= Depth(e)
            BY <1>1, <1>2, <1>3, <1>4
        <3>4. z \in Nested[d + 1]  BY <3>1, <3>3
        <3>5. z \in Expression  BY <3>3, <3>4, ExpressionParts
        <3>6. Depth(z) \in 0 .. MaxNesting /\ Depth(z) <= d + 1
            BY <3>3, <3>4, <3>5, DepthIs
        <3>7. Rank(z) = 2 * Depth(z) - 1  BY <3>2, <3>6 DEF Rank
        <3>8. Rank(z) < Rank(e)
            BY <1>1, <1>3, <2>3, <3>3, <3>6, <3>7
        <3> QED  BY <2>1, <3>5, <3>8 DEF x, z
    <2> QED  BY <2>5, <2>6
<1> QED  BY <1>2, <1>6, <1>7

-----------------------------------------------------------------------------
(* The recursive functions                                                 *)

(* The terms of an operand, and one step of the recursion.                 *)
OccurIn(f, x) ==
    IF x.op = "()" THEN {<<o[1], o[2] # x.not>> : o \in f[x.nested]} ELSE {<<x, FALSE>>}

OccurrencesStep(f, e) ==
    UNION {UNION {OccurIn(f, e[i][j]) : j \in DOMAIN e[i]} : i \in DOMAIN e}

(* What a step collects.                                                   *)
LEMMA OccurrencesStepIs ==
    ASSUME NEW f, NEW e, NEW o
    PROVE  o \in OccurrencesStep(f, e)
               <=> \E i \in DOMAIN e : \E j \in DOMAIN e[i] : o \in OccurIn(f, e[i][j])
<1> DEFINE O(i, j) == OccurIn(f, e[i][j])
<1> HIDE DEF O
<1>1. o \in UNION {UNION {O(i, j) : j \in DOMAIN e[i]} : i \in DOMAIN e}
          <=> \E i \in DOMAIN e : \E j \in DOMAIN e[i] : o \in O(i, j)
    OBVIOUS
<1> QED  BY <1>1, Zenon DEF O, OccurrencesStep

(* The terms of an expression are those of its operands.                   *)
LEMMA OccurrencesRecursion ==
    \A e \in Expression : Occurrences[e] = OccurrencesStep(Occurrences, e)
<1> DEFINE S == Expression
           T == SUBSET (Term \X BOOLEAN)
           rank == [e \in S |-> Depth(e)]
           step == [p \in S \X [S -> T] |-> OccurrencesStep(p[2], p[1])]
<1>1. ASSUME NEW f \in [S -> T], NEW e \in S PROVE OccurrencesStep(f, e) \in T
    <2>1. ASSUME NEW i \in DOMAIN e, NEW j \in DOMAIN e[i], NEW o \in OccurIn(f, e[i][j])
          PROVE  o \in Term \X BOOLEAN
        <3> DEFINE x == e[i][j]
        <3>1. CASE x.op = "()"
            <4>1. x.nested \in S  BY <3>1, Operands
            <4>2. f[x.nested] \subseteq Term \X BOOLEAN  BY <4>1
            <4>3. PICK p \in f[x.nested] : o = <<p[1], p[2] # x.not>>
                BY <2>1, <3>1, Zenon DEF OccurIn
            <4> QED  BY <4>2, <4>3
        <3>2. CASE x.op # "()"
            <4>1. x \in Term  BY <3>2, Operands
            <4>2. o = <<x, FALSE>>  BY <2>1, <3>2, Zenon DEF OccurIn
            <4> QED  BY <4>1, <4>2
        <3> QED  BY <3>1, <3>2
    <2> QED  BY <2>1, OccurrencesStepIs
<1>2. ASSUME NEW e \in S, NEW g \in [S -> T], NEW h \in [S -> T],
             \A y \in S : rank[y] < rank[e] => g[y] = h[y]
      PROVE  OccurrencesStep(g, e) = OccurrencesStep(h, e)
    <2>1. ASSUME NEW i \in DOMAIN e, NEW j \in DOMAIN e[i]
          PROVE  OccurIn(g, e[i][j]) = OccurIn(h, e[i][j])
        <3> DEFINE x == e[i][j]
        <3>1. CASE x.op = "()"
            <4> DEFINE A == g[x.nested]
                       B == h[x.nested]
            <4>1. x.nested \in S /\ Depth(x.nested) < Depth(e)
                BY <3>1, Operands
            <4>2. A = B  BY <4>1, <1>2
            <4>3. /\ OccurIn(g, x) = {<<o[1], o[2] # x.not>> : o \in A}
                  /\ OccurIn(h, x) = {<<o[1], o[2] # x.not>> : o \in B}
                BY <3>1, Zenon DEF OccurIn
            <4> HIDE DEF A, B, x
            <4>4. OccurIn(g, x) = OccurIn(h, x)  BY <4>2, <4>3, Zenon
            <4> QED  BY <4>4 DEF x
        <3>2. CASE x.op # "()"
            <4>1. /\ OccurIn(g, x) = {<<x, FALSE>>}
                  /\ OccurIn(h, x) = {<<x, FALSE>>}
                BY <3>2, Zenon DEF OccurIn
            <4> QED  BY <4>1
        <3> QED  BY <3>1, <3>2
    <2> HIDE DEF S, T, rank, step
    <2>2. \A o : o \in OccurrencesStep(g, e) <=> o \in OccurrencesStep(h, e)
        BY <2>1, OccurrencesStepIs
    <2> QED  BY <2>2
<1>3. MaxNesting \in Nat  BY NestedLevels
<1>4. rank \in [S -> 0 .. MaxNesting]  BY DepthIs
<1>5. {} \in T  OBVIOUS
<1>6. step \in [S \X [S -> T] -> T]  BY <1>1
<1>7. \A e \in S : \A f \in [S -> T] : step[<<e, f>>] = OccurrencesStep(f, e)
    <2> HIDE DEF S, T
    <2> QED  OBVIOUS
<1> HIDE DEF S, T, step, rank
<1>8. \A e \in S : \A g, h \in [S -> T] :
          (\A y \in S : rank[y] < rank[e] => g[y] = h[y])
              => step[<<e, g>>] = step[<<e, h>>]
    BY <1>2, <1>7
<1>9. PICK f : Solves(f, S, T, step)
    <2>1. Founded(S, T, MaxNesting, rank, step)
        BY <1>4, <1>6, <1>8 DEF Founded
    <2> QED  BY <1>3, <1>5, <2>1, RecursionExists
<1>10. f = [e \in S |-> step[<<e, f>>]]  BY <1>9 DEF Solves
<1>11. f = [e \in S |-> OccurrencesStep(f, e)]
    <2> f \in [S -> T]  BY <1>9 DEF Solves
    <2>1. \A e \in S : step[<<e, f>>] = OccurrencesStep(f, e)  BY <1>7
    <2> QED  BY <1>10, <2>1, Zenon
<1>12. \E g : g = [e \in Expression |-> OccurrencesStep(g, e)]
    BY <1>11, Zenon DEF S
<1>13. Occurrences = [e \in Expression |-> OccurrencesStep(Occurrences, e)]
    BY <1>12, Zenon DEF Occurrences, OccurrencesStep, OccurIn
<1> QED  BY <1>13, Zenon

-----------------------------------------------------------------------------
(* The combinations of one set of each of the disjunctions.                *)
LEMMA CrossProductElements ==
    ASSUME NEW D, NEW c \in CrossProduct(D)
    PROVE  /\ \A t \in c : \E j \in DOMAIN D : \E d \in D[j] : t \in d
           /\ \A j \in DOMAIN D : \E d \in D[j] : d \subseteq c
<1> DEFINE every == UNION {D[j] : j \in DOMAIN D}
           choices == {f \in [DOMAIN D -> every] : \A j \in DOMAIN D : f[j] \in D[j]}
<1>1. PICK f \in choices : c = UNION {f[j] : j \in DOMAIN f}
    BY Zenon DEF CrossProduct
<1>2. DOMAIN f = DOMAIN D /\ \A j \in DOMAIN D : f[j] \in D[j]  OBVIOUS
<1> HIDE DEF choices
<1>3. c = UNION {f[j] : j \in DOMAIN D}  BY <1>1, <1>2
<1>4. \A t : t \in c <=> \E j \in DOMAIN D : t \in f[j]  BY <1>3
<1> QED  BY <1>2, <1>4

(* Some combination is within a set when a part of each disjunction is.    *)
LEMMA CrossProductWithin ==
    ASSUME NEW D, NEW P
    PROVE  (\E c \in CrossProduct(D) : c \subseteq P)
               <=> \A j \in DOMAIN D : \E d \in D[j] : d \subseteq P
<1> DEFINE every == UNION {D[j] : j \in DOMAIN D}
           choices == {f \in [DOMAIN D -> every] : \A j \in DOMAIN D : f[j] \in D[j]}
<1>1. ASSUME \A j \in DOMAIN D : \E d \in D[j] : d \subseteq P
      PROVE  \E c \in CrossProduct(D) : c \subseteq P
    <2> DEFINE pick(j) == CHOOSE d \in D[j] : d \subseteq P
               f == [j \in DOMAIN D |-> pick(j)]
    <2>1. \A j \in DOMAIN D : pick(j) \in D[j] /\ pick(j) \subseteq P
        BY <1>1
    <2> HIDE DEF pick
    <2>2. \A j \in DOMAIN D : f[j] \in D[j] /\ f[j] \subseteq P
        BY <2>1
    <2>3. f \in [DOMAIN D -> every]
        <3>1. \A j \in DOMAIN D : pick(j) \in every  BY <2>1
        <3> HIDE DEF every
        <3> QED  BY <3>1
    <2>4. f \in choices /\ DOMAIN f = DOMAIN D  BY <2>2, <2>3
    <2> HIDE DEF f, choices
    <2> DEFINE c == UNION {f[j] : j \in DOMAIN f}
    <2>5. c \in {UNION {g[j] : j \in DOMAIN g} : g \in choices}
        BY <2>4, Zenon
    <2>6. c \in CrossProduct(D)
        BY <2>5, Zenon DEF CrossProduct, choices
    <2>7. c \subseteq P  BY <2>2, <2>4
    <2> QED  BY <2>6, <2>7
<1>2. ASSUME NEW c \in CrossProduct(D), c \subseteq P, NEW j \in DOMAIN D
      PROVE  \E d \in D[j] : d \subseteq P
    BY <1>2, CrossProductElements
<1> QED  BY <1>1, <1>2

(* The terms of normal forms, and one step of the recursion.               *)
Lowered == {NormalizeTerm(t) : t \in Term}

NormalizeStep(f, e) == UNION {NormalizeAnd(f, e[i]) : i \in DOMAIN e}

(* A conjunction is normalised by combining what stands for its operands.  *)
LEMMA NormalizeAndIs ==
    ASSUME NEW f, NEW and
    PROVE  \E D : /\ NormalizeAnd(f, and) = CrossProduct(D)
                  /\ DOMAIN D = DOMAIN and
                  /\ \A j \in DOMAIN and : D[j] = convertToTerms(f, and[j])
<1> DEFINE D == [j \in DOMAIN and |-> convertToTerms(f, and[j])]
<1>1. NormalizeAnd(f, and) = CrossProduct(D)  BY DEF NormalizeAnd
<1>2. DOMAIN D = DOMAIN and /\ \A j \in DOMAIN and : D[j] = convertToTerms(f, and[j])
    OBVIOUS
<1> HIDE DEF D
<1> QED  BY <1>1, <1>2

(* Opened parentheses are of lower rank.                                   *)
LEMMA NormalizeRecursion ==
    \A e \in Expression : Normalize[e] = NormalizeStep(Normalize, e)
<1> DEFINE S == Expression
           T == SUBSET SUBSET Lowered
           bound == 2 * MaxNesting
           rank == [e \in S |-> Rank(e)]
           step == [p \in S \X [S -> T] |-> NormalizeStep(p[2], p[1])]
<1>1. ASSUME NEW f \in [S -> T], NEW e \in S PROVE NormalizeStep(f, e) \in T
    <2>1. ASSUME NEW i \in DOMAIN e, NEW j \in DOMAIN e[i]
          PROVE  convertToTerms(f, e[i][j]) \in T
        <3> DEFINE x == e[i][j]
        <3>1. CASE x.op = "()"
            <4>1. Opened(x) \in S  BY <3>1, OpenedIsSimpler
            <4> HIDE DEF x, T
            <4>2. f[Opened(x)] \in T  BY <4>1
            <4> QED  BY <3>1, <4>2, Zenon DEF convertToTerms, x
        <3>2. CASE x.op # "()"
            <4>1. x \in Term  BY <3>2, Operands
            <4>2. NormalizeTerm(x) \in Lowered  BY <4>1, Zenon DEF Lowered
            <4>3. convertToTerms(f, x) = {{NormalizeTerm(x)}}
                BY <3>2, Zenon DEF convertToTerms
            <4> QED  BY <4>2, <4>3
        <3> QED  BY <3>1, <3>2
    <2>2. ASSUME NEW i \in DOMAIN e, NEW c \in NormalizeAnd(f, e[i])
          PROVE  c \subseteq Lowered
        <3>1. PICK D : /\ NormalizeAnd(f, e[i]) = CrossProduct(D)
                       /\ DOMAIN D = DOMAIN e[i]
                       /\ \A j \in DOMAIN e[i] : D[j] = convertToTerms(f, e[i][j])
            BY NormalizeAndIs
        <3>2. c \in CrossProduct(D)  BY <2>2, <3>1
        <3>3. \A j \in DOMAIN D : D[j] \in T  BY <2>1, <3>1
        <3>4. \A t \in c : \E j \in DOMAIN D : \E d \in D[j] : t \in d
            BY <3>2, CrossProductElements
        <3> QED  BY <3>3, <3>4
    <2>3. \A c \in NormalizeStep(f, e) : c \subseteq Lowered
        BY <2>2 DEF NormalizeStep
    <2> QED  BY <2>3
<1>2. ASSUME NEW e \in S, NEW g \in [S -> T], NEW h \in [S -> T],
             \A y \in S : rank[y] < rank[e] => g[y] = h[y]
      PROVE  NormalizeStep(g, e) = NormalizeStep(h, e)
    <2>1. ASSUME NEW i \in DOMAIN e, NEW j \in DOMAIN e[i]
          PROVE  convertToTerms(g, e[i][j]) = convertToTerms(h, e[i][j])
        <3> DEFINE x == e[i][j]
        <3>1. CASE x.op = "()"
            <4>1. Opened(x) \in S /\ Rank(Opened(x)) < Rank(e)
                BY <3>1, OpenedIsSimpler
            <4>2. g[Opened(x)] = h[Opened(x)]  BY <4>1, <1>2
            <4> HIDE DEF x
            <4> QED  BY <3>1, <4>2, Zenon DEF convertToTerms, x
        <3>2. CASE x.op # "()"
            BY <3>2, Zenon DEF convertToTerms
        <3> QED  BY <3>1, <3>2
    <2>2. ASSUME NEW i \in DOMAIN e
          PROVE  NormalizeAnd(g, e[i]) = NormalizeAnd(h, e[i])
        <3>1. [j \in DOMAIN e[i] |-> convertToTerms(g, e[i][j])]
                  = [j \in DOMAIN e[i] |-> convertToTerms(h, e[i][j])]
            BY <2>1, Zenon
        <3> QED  BY <3>1, Zenon DEF NormalizeAnd
    <2> QED  BY <2>2, Zenon DEF NormalizeStep
<1>3. bound \in Nat  BY NestedLevels
<1>4. rank \in [S -> 0 .. bound]  BY RankIs
<1>5. {} \in T  OBVIOUS
<1>6. step \in [S \X [S -> T] -> T]  BY <1>1
<1>7. \A e \in S : \A f \in [S -> T] : step[<<e, f>>] = NormalizeStep(f, e)
    <2> HIDE DEF S, T
    <2> QED  OBVIOUS
<1> HIDE DEF S, T, step, rank, bound
<1>8. \A e \in S : \A g, h \in [S -> T] :
          (\A y \in S : rank[y] < rank[e] => g[y] = h[y])
              => step[<<e, g>>] = step[<<e, h>>]
    BY <1>2, <1>7
<1>9. PICK f : Solves(f, S, T, step)
    <2>1. Founded(S, T, bound, rank, step)
        BY <1>4, <1>6, <1>8 DEF Founded
    <2> QED  BY <1>3, <1>5, <2>1, RecursionExists
<1>10. f = [e \in S |-> step[<<e, f>>]]  BY <1>9 DEF Solves
<1>11. f = [e \in S |-> NormalizeStep(f, e)]
    <2> f \in [S -> T]  BY <1>9 DEF Solves
    <2>1. \A e \in S : step[<<e, f>>] = NormalizeStep(f, e)  BY <1>7
    <2> QED  BY <1>10, <2>1, Zenon
<1>12. \E g : g = [e \in Expression |-> NormalizeStep(g, e)]
    BY <1>11, Zenon DEF S
<1>13. Normalize = [e \in Expression |-> NormalizeStep(Normalize, e)]
    BY <1>12, Zenon DEF Normalize, NormalizeStep
<1> QED  BY <1>13, Zenon

(* The conjunctions of a normalised expression: one of its conjunctions,   *)
(* with one conjunction of every parenthesis.                              *)
LEMMA NormalizeIs ==
    ASSUME NEW e \in Expression, NEW c \in Normalize[e]
    PROVE  \E i \in DOMAIN e :
              /\ \A t \in c : \E j \in DOMAIN e[i] :
                    \E d \in convertToTerms(Normalize, e[i][j]) : t \in d
              /\ \A j \in DOMAIN e[i] :
                    \E d \in convertToTerms(Normalize, e[i][j]) : d \subseteq c
<1>1. PICK i \in DOMAIN e : c \in NormalizeAnd(Normalize, e[i])
    BY NormalizeRecursion DEF NormalizeStep
<1>2. PICK D : /\ NormalizeAnd(Normalize, e[i]) = CrossProduct(D)
               /\ DOMAIN D = DOMAIN e[i]
               /\ \A j \in DOMAIN e[i] : D[j] = convertToTerms(Normalize, e[i][j])
    BY NormalizeAndIs
<1>3. c \in CrossProduct(D)  BY <1>1, <1>2
<1> QED  BY <1>2, <1>3, CrossProductElements

(* Some conjunction of the normal form is within a set when each operand   *)
(* of a conjunction has one that is.                                       *)
LEMMA NormalizeWithin ==
    ASSUME NEW e \in Expression, NEW P
    PROVE  (\E c \in Normalize[e] : c \subseteq P)
               <=> \E i \in DOMAIN e : \A j \in DOMAIN e[i] :
                      \E d \in convertToTerms(Normalize, e[i][j]) : d \subseteq P
<1>1. ASSUME NEW i \in DOMAIN e
      PROVE  (\E c \in NormalizeAnd(Normalize, e[i]) : c \subseteq P)
                 <=> \A j \in DOMAIN e[i] :
                        \E d \in convertToTerms(Normalize, e[i][j]) : d \subseteq P
    <2>1. PICK D : /\ NormalizeAnd(Normalize, e[i]) = CrossProduct(D)
                   /\ DOMAIN D = DOMAIN e[i]
                   /\ \A j \in DOMAIN e[i] : D[j] = convertToTerms(Normalize, e[i][j])
        BY NormalizeAndIs
    <2>2. (\E c \in CrossProduct(D) : c \subseteq P)
              <=> \A j \in DOMAIN D : \E d \in D[j] : d \subseteq P
        BY CrossProductWithin
    <2> QED  BY <2>1, <2>2
<1>2. (\E c \in Normalize[e] : c \subseteq P)
          <=> \E i \in DOMAIN e : \E c \in NormalizeAnd(Normalize, e[i]) : c \subseteq P
    BY NormalizeRecursion DEF NormalizeStep
<1> QED  BY <1>1, <1>2

-----------------------------------------------------------------------------
(* What a query says                                                       *)
(* Claims about a row, and one step of the recursion.                      *)
Claim == Expression \X Row \X BOOLEAN

IsStep(is, expr, row, truth) ==
    IF truth THEN \E i \in DOMAIN expr : AndIs(is, expr[i], row, TRUE)
             ELSE \A i \in DOMAIN expr : AndIs(is, expr[i], row, FALSE)

(* A claim about an expression rests on claims about its operands.         *)
LEMMA IsRecursion ==
    \A s \in Claim : Is[s] = IsStep(Is, s[1], s[2], s[3])
<1> DEFINE S == Claim
           T == BOOLEAN
           rank == [s \in S |-> Depth(s[1])]
           step == [p \in S \X [S -> T] |-> IsStep(p[2], p[1][1], p[1][2], p[1][3])]
<1>1. ASSUME NEW f, NEW e, NEW row, NEW truth
      PROVE  IsStep(f, e, row, truth) \in BOOLEAN
    <2>1. CASE truth
        <3>1. (\E i \in DOMAIN e : AndIs(f, e[i], row, TRUE)) \in BOOLEAN  OBVIOUS
        <3> QED  BY <2>1, <3>1, Zenon DEF IsStep
    <2>2. CASE ~ truth
        <3>1. (\A i \in DOMAIN e : AndIs(f, e[i], row, FALSE)) \in BOOLEAN  OBVIOUS
        <3> QED  BY <2>2, <3>1, Zenon DEF IsStep
    <2> QED  BY <2>1, <2>2
<1>2. ASSUME NEW s \in S, NEW g \in [S -> T], NEW h \in [S -> T],
             \A y \in S : rank[y] < rank[s] => g[y] = h[y]
      PROVE  IsStep(g, s[1], s[2], s[3]) = IsStep(h, s[1], s[2], s[3])
    <2> DEFINE e == s[1]
               row == s[2]
    <2>1. e \in Expression /\ row \in Row /\ s[3] \in BOOLEAN  BY DEF Claim
    <2>2. ASSUME NEW i \in DOMAIN e, NEW j \in DOMAIN e[i], NEW truth \in BOOLEAN
          PROVE  ConjunctIs(g, e[i][j], row, truth) = ConjunctIs(h, e[i][j], row, truth)
        <3> DEFINE x == e[i][j]
                   y == <<x.nested, row, truth # x.not>>
        <3>1. CASE x.op = "()"
            <4>1. x.nested \in Expression /\ Depth(x.nested) < Depth(e)
                BY <2>1, <3>1, Operands
            <4>2. y \in S  BY <2>1, <4>1 DEF Claim
            <4>3. rank[y] < rank[s]  BY <4>1, <4>2
            <4>4. g[y] = h[y]  BY <1>2, <4>2, <4>3
            <4> QED  BY <3>1, <4>4, Zenon DEF ConjunctIs
        <3>2. CASE x.op # "()"
            BY <3>2, Zenon DEF ConjunctIs
        <3> QED  BY <3>1, <3>2
    <2>3. ASSUME NEW i \in DOMAIN e, NEW truth \in BOOLEAN
          PROVE  AndIs(g, e[i], row, truth) = AndIs(h, e[i], row, truth)
        <3>1. CASE truth
            BY <2>2, <3>1, Zenon DEF AndIs
        <3>2. CASE ~ truth
            BY <2>2, <3>2, Zenon DEF AndIs
        <3> QED  BY <3>1, <3>2
    <2>4. CASE s[3]  BY <2>3, <2>4, Zenon DEF IsStep
    <2>5. CASE ~ s[3]  BY <2>3, <2>5, Zenon DEF IsStep
    <2> QED  BY <2>4, <2>5
<1>3. MaxNesting \in Nat  BY NestedLevels
<1>4. rank \in [S -> 0 .. MaxNesting]
    <2>1. \A s \in S : Depth(s[1]) \in 0 .. MaxNesting
        BY DepthIs DEF Claim
    <2> QED  BY <2>1
<1>5. TRUE \in T  OBVIOUS
<1>6. step \in [S \X [S -> T] -> T]  BY <1>1
<1>7. \A s \in S : \A f \in [S -> T] : step[<<s, f>>] = IsStep(f, s[1], s[2], s[3])
    <2> HIDE DEF S, T
    <2> QED  OBVIOUS
<1> HIDE DEF S, T, step, rank
<1>8. \A s \in S : \A g, h \in [S -> T] :
          (\A y \in S : rank[y] < rank[s] => g[y] = h[y])
              => step[<<s, g>>] = step[<<s, h>>]
    BY <1>2, <1>7
<1>9. PICK f : Solves(f, S, T, step)
    <2>1. Founded(S, T, MaxNesting, rank, step)
        BY <1>4, <1>6, <1>8 DEF Founded
    <2> QED  BY <1>3, <1>5, <2>1, RecursionExists
<1>10. f = [s \in S |-> step[<<s, f>>]]  BY <1>9 DEF Solves
<1>11. f = [s \in S |-> IsStep(f, s[1], s[2], s[3])]
    <2> f \in [S -> T]  BY <1>9 DEF Solves
    <2>1. \A s \in S : step[<<s, f>>] = IsStep(f, s[1], s[2], s[3])  BY <1>7
    <2> QED  BY <1>10, <2>1, Zenon
<1>12. \E g : g = [s \in Expression \X Row \X BOOLEAN |-> IsStep(g, s[1], s[2], s[3])]
    BY <1>11, Zenon DEF S, Claim
<1>13. Is = [s \in Expression \X Row \X BOOLEAN |-> IsStep(Is, s[1], s[2], s[3])]
    BY <1>12, Zenon DEF Is, IsStep
<1>14. \A s \in Claim : Is[s] = IsStep(Is, s[1], s[2], s[3])
    BY <1>13, Zenon DEF Claim
<1> QED  BY <1>14

(* A claim in terms of the claims about its operands.                      *)
LEMMA IsTrueIs ==
    ASSUME NEW e \in Expression, NEW row \in Row
    PROVE  Is[<<e, row, TRUE>>]
               <=> \E i \in DOMAIN e : \A j \in DOMAIN e[i] : ConjunctIs(Is, e[i][j], row, TRUE)
<1> DEFINE s == <<e, row, TRUE>>
<1>1. s \in Claim /\ s[1] = e /\ s[2] = row /\ s[3]  BY DEF Claim
<1> HIDE DEF s
<1>2. Is[s] = \E i \in DOMAIN e : AndIs(Is, e[i], row, TRUE)
    BY <1>1, IsRecursion, Zenon DEF IsStep
<1>3. \A i \in DOMAIN e :
          AndIs(Is, e[i], row, TRUE) = \A j \in DOMAIN e[i] : ConjunctIs(Is, e[i][j], row, TRUE)
    BY Zenon DEF AndIs
<1> QED  BY <1>2, <1>3, Zenon DEF s

(* An expression is false when every conjunction has a false operand.      *)
LEMMA IsFalseIs ==
    ASSUME NEW e \in Expression, NEW row \in Row
    PROVE  Is[<<e, row, FALSE>>]
               <=> \A i \in DOMAIN e : \E j \in DOMAIN e[i] :
                      ConjunctIs(Is, e[i][j], row, FALSE)
<1> DEFINE s == <<e, row, FALSE>>
<1>1. s \in Claim /\ s[1] = e /\ s[2] = row /\ ~ s[3]  BY DEF Claim
<1> HIDE DEF s
<1>2. Is[s] = \A i \in DOMAIN e : AndIs(Is, e[i], row, FALSE)
    BY <1>1, IsRecursion, Zenon DEF IsStep
<1>3. \A i \in DOMAIN e :
          AndIs(Is, e[i], row, FALSE)
              = \E j \in DOMAIN e[i] : ConjunctIs(Is, e[i][j], row, FALSE)
    BY Zenon DEF AndIs
<1> QED  BY <1>2, <1>3, Zenon DEF s

-----------------------------------------------------------------------------
(* The terms of an expression                                              *)

(* The terms of an expression are those of its operands.                   *)
LEMMA OccurrencesOf ==
    ASSUME NEW e \in Expression, NEW o
    PROVE  o \in Occurrences[e]
               <=> \E i \in DOMAIN e : \E j \in DOMAIN e[i] :
                      o \in OccurIn(Occurrences, e[i][j])
<1>1. Occurrences[e] = OccurrencesStep(Occurrences, e)  BY OccurrencesRecursion
<1> QED  BY <1>1, OccurrencesStepIs

(* The terms of an operand: a term itself, or those in the parentheses.    *)
LEMMA OccurInIs ==
    ASSUME NEW x, NEW o
    PROVE  /\ x.op = "()" => (o \in OccurIn(Occurrences, x) <=>
                  \E p \in Occurrences[x.nested] : o = <<p[1], p[2] # x.not>>)
           /\ x.op # "()" => (o \in OccurIn(Occurrences, x) <=> o = <<x, FALSE>>)
<1>1. CASE x.op = "()"
    <2> DEFINE B == {<<p[1], p[2] # x.not>> : p \in Occurrences[x.nested]}
    <2>1. OccurIn(Occurrences, x) = B  BY <1>1, Zenon DEF OccurIn
    <2>2. o \in B <=> \E p \in Occurrences[x.nested] : o = <<p[1], p[2] # x.not>>
        BY Zenon
    <2> HIDE DEF B
    <2> QED  BY <1>1, <2>1, <2>2, Zenon
<1>2. CASE x.op # "()"
    <2>1. OccurIn(Occurrences, x) = {<<x, FALSE>>}
        BY <1>2, Zenon DEF OccurIn
    <2> QED  BY <1>2, <2>1, Zenon
<1> QED  BY <1>1, <1>2

(* Where a term in parentheses comes from.                                 *)
LEMMA OccurInParenthesis ==
    ASSUME NEW x, x.op = "()", NEW o \in OccurIn(Occurrences, x)
    PROVE  \E p \in Occurrences[x.nested] : o = <<p[1], p[2] # x.not>>
<1> DEFINE B == {<<p[1], p[2] # x.not>> : p \in Occurrences[x.nested]}
<1>1. OccurIn(Occurrences, x) = B  BY Zenon DEF OccurIn
<1>2. o \in B  BY <1>1
<1> QED  BY <1>2

(* A term is negated by the parentheses around it, or is not.              *)
LEMMA OccurrenceIsPair ==
    ASSUME NEW e \in Expression, NEW o \in Occurrences[e]
    PROVE  o[2] \in BOOLEAN
<1>1. PICK i \in DOMAIN e : \E j \in DOMAIN e[i] : o \in OccurIn(Occurrences, e[i][j])
    BY OccurrencesOf
<1>5. PICK j \in DOMAIN e[i] : o \in OccurIn(Occurrences, e[i][j])
    BY <1>1
<1>2. CASE e[i][j].op = "()"
    <2>1. PICK p \in Occurrences[e[i][j].nested] : o = <<p[1], p[2] # e[i][j].not>>
        BY <1>5, <1>2, OccurInParenthesis
    <2> QED  BY <2>1
<1>3. CASE e[i][j].op # "()"
    <2>1. o = <<e[i][j], FALSE>>
        BY <1>5, <1>3, OccurInIs, Zenon
    <2> QED  BY <2>1
<1> QED  BY <1>2, <1>3

(* What is left of the terms when the negations of the parentheses, and    *)
(* that of the expression, are carried out is in a set.                    *)
Carried(t, inverted) == IF inverted THEN invertTerm(t) ELSE t

Allowed(Ok, e, neg) == \A o \in Occurrences[e] : Carried(o[1], o[2] # neg) \in Ok

(* The condition in terms of the operands.                                 *)
LEMMA AllowedIs ==
    ASSUME NEW Ok, NEW e \in Expression, NEW neg \in BOOLEAN
    PROVE  Allowed(Ok, e, neg) <=>
              \A i \in DOMAIN e : \A j \in DOMAIN e[i] :
                 /\ e[i][j].op = "()" => Allowed(Ok, e[i][j].nested, neg # e[i][j].not)
                 /\ e[i][j].op # "()" => Carried(e[i][j], neg) \in Ok
<1>1. ASSUME NEW i \in DOMAIN e, NEW j \in DOMAIN e[i], e[i][j].op = "()",
             NEW p \in Occurrences[e[i][j].nested]
      PROVE  LET o == <<p[1], p[2] # e[i][j].not>>
             IN  /\ o \in Occurrences[e]
                 /\ Carried(o[1], o[2] # neg) = Carried(p[1], p[2] # (neg # e[i][j].not))
    <2> DEFINE x == e[i][j]
               o == <<p[1], p[2] # x.not>>
    <2>1. o \in Occurrences[e]
        <3>1. o \in OccurIn(Occurrences, x)  BY <1>1, OccurInIs, Zenon
        <3> HIDE DEF o
        <3> QED  BY <3>1, OccurrencesOf
    <2>2. p[2] \in BOOLEAN /\ x.not \in BOOLEAN  BY <1>1, Operands, OccurrenceIsPair
    <2>3. o[1] = p[1] /\ (o[2] # neg) = (p[2] # (neg # x.not))  BY <2>2
    <2> HIDE DEF o
    <2>4. Carried(o[1], o[2] # neg) = Carried(p[1], p[2] # (neg # x.not))
        BY <2>3, Zenon
    <2> QED  BY <2>1, <2>4 DEF o
<1>2. ASSUME NEW i \in DOMAIN e, NEW j \in DOMAIN e[i], e[i][j].op # "()"
      PROVE  LET o == <<e[i][j], FALSE>>
             IN  /\ o \in Occurrences[e]
                 /\ Carried(o[1], o[2] # neg) = Carried(e[i][j], neg)
    <2> DEFINE o == <<e[i][j], FALSE>>
    <2>1. o \in Occurrences[e]
        <3>1. o \in OccurIn(Occurrences, e[i][j])  BY <1>2, OccurInIs, Zenon
        <3> HIDE DEF o
        <3> QED  BY <3>1, OccurrencesOf
    <2>2. o[1] = e[i][j] /\ (o[2] # neg) = neg  OBVIOUS
    <2> HIDE DEF o
    <2>3. Carried(o[1], o[2] # neg) = Carried(e[i][j], neg)
        BY <2>2, Zenon
    <2> QED  BY <2>1, <2>3 DEF o
<1>3. ASSUME Allowed(Ok, e, neg), NEW i \in DOMAIN e, NEW j \in DOMAIN e[i]
      PROVE  /\ e[i][j].op = "()" => Allowed(Ok, e[i][j].nested, neg # e[i][j].not)
             /\ e[i][j].op # "()" => Carried(e[i][j], neg) \in Ok
    <2>1. ASSUME e[i][j].op = "()", NEW p \in Occurrences[e[i][j].nested]
          PROVE  Carried(p[1], p[2] # (neg # e[i][j].not)) \in Ok
        BY <1>1, <1>3, <2>1, Zenon DEF Allowed
    <2>2. ASSUME e[i][j].op # "()" PROVE Carried(e[i][j], neg) \in Ok
        BY <1>2, <1>3, <2>2, Zenon DEF Allowed
    <2> QED  BY <2>1, <2>2, Zenon DEF Allowed
<1>4. ASSUME \A i \in DOMAIN e : \A j \in DOMAIN e[i] :
                 /\ e[i][j].op = "()" => Allowed(Ok, e[i][j].nested, neg # e[i][j].not)
                 /\ e[i][j].op # "()" => Carried(e[i][j], neg) \in Ok,
             NEW o \in Occurrences[e]
      PROVE  Carried(o[1], o[2] # neg) \in Ok
    <2>1. PICK i \in DOMAIN e : \E j \in DOMAIN e[i] : o \in OccurIn(Occurrences, e[i][j])
        BY OccurrencesOf
    <2>5. PICK j \in DOMAIN e[i] : o \in OccurIn(Occurrences, e[i][j])
        BY <2>1
    <2>2. CASE e[i][j].op = "()"
        <3>1. PICK p \in Occurrences[e[i][j].nested] : o = <<p[1], p[2] # e[i][j].not>>
            BY <2>5, <2>2, OccurInParenthesis
        <3>2. Carried(p[1], p[2] # (neg # e[i][j].not)) \in Ok
            BY <1>4, <2>2, Zenon DEF Allowed
        <3> QED  BY <1>1, <2>2, <3>1, <3>2, Zenon
    <2>3. CASE e[i][j].op # "()"
        <3>1. o = <<e[i][j], FALSE>>  BY <2>5, <2>3, OccurInIs, Zenon
        <3>2. Carried(e[i][j], neg) \in Ok  BY <1>4, <2>3, Zenon
        <3> QED  BY <1>2, <2>3, <3>1, <3>2, Zenon
    <2> QED  BY <2>2, <2>3
<1> QED  BY <1>3, <1>4, Zenon DEF Allowed

(* Inverting an expression carries its negation out.                       *)
LEMMA AllowedInverted ==
    ASSUME NEW Ok, NEW e \in Expression, Allowed(Ok, e, TRUE),
           invertExpression(e) \in Expression
    PROVE  Allowed(Ok, invertExpression(e), FALSE)
<1>1. Depth(e) \in 0 .. MaxNesting /\ e \in Nested[Depth(e)]  BY DepthIs
<1>2. DOMAIN e = 1 .. Len(e) /\ 1 \in DOMAIN e  BY <1>1, ExpressionParts
<1>3. ASSUME NEW i \in DOMAIN e
      PROVE  invertAnd(e[i]) \in Expression /\ Allowed(Ok, invertAnd(e[i]), FALSE)
    <2> DEFINE z == invertAnd(e[i])
    <2>1. /\ z \in Expression /\ DOMAIN z = DOMAIN e[i]
          /\ \A j \in DOMAIN e[i] : DOMAIN z[j] = {1} /\ z[j][1] = invertTerm(e[i][j])
        BY <1>1, InvertAndOf, ExpressionParts
    <2> HIDE DEF z
    <2>2. ASSUME NEW j \in DOMAIN z, NEW k \in DOMAIN z[j]
          PROVE  /\ z[j][k].op = "()" => Allowed(Ok, z[j][k].nested, FALSE # z[j][k].not)
                 /\ z[j][k].op # "()" => Carried(z[j][k], FALSE) \in Ok
        <3> DEFINE x == e[i][j]
        <3>1. j \in DOMAIN e[i] /\ z[j][k] = invertTerm(x)  BY <2>1
        <3>2. /\ x.op = "()" => Allowed(Ok, x.nested, TRUE # x.not)
              /\ x.op # "()" => Carried(x, TRUE) \in Ok
            BY <3>1, AllowedIs
        <3>3. CASE x.op = "()"
            <4>1. x \in Paren(Expression) /\ x.not \in BOOLEAN  BY <3>1, <3>3, Operands
            <4>2. /\ invertTerm(x).op = "()" /\ invertTerm(x).nested = x.nested
                  /\ invertTerm(x).not = ~ x.not
                BY <4>1, InvertTermOf
            <4>3. (FALSE # invertTerm(x).not) = (TRUE # x.not)  BY <4>1, <4>2
            <4>4. Allowed(Ok, invertTerm(x).nested, FALSE # invertTerm(x).not)
                BY <3>2, <3>3, <4>2, <4>3, Zenon
            <4> QED  BY <3>1, <4>2, <4>4, Zenon
        <3>4. CASE x.op # "()"
            <4>1. x \in Term  BY <3>1, <3>4, Operands
            <4>2. invertTerm(x).op # "()"  BY <4>1, InvertTermOf
            <4>3. Carried(x, TRUE) = invertTerm(x)
                  /\ Carried(invertTerm(x), FALSE) = invertTerm(x)
                BY DEF Carried
            <4> QED  BY <3>1, <3>2, <3>4, <4>2, <4>3, Zenon
        <3> QED  BY <3>3, <3>4
    <2>3. Allowed(Ok, z, FALSE)  BY <2>1, <2>2, AllowedIs
    <2> QED  BY <2>1, <2>3 DEF z
<1>4. CASE Len(e) = 1
    <2>1. invertExpression(e) = invertAnd(e[1])  BY <1>1, <1>4, InvertExpressionOf
    <2> QED  BY <1>2, <1>3, <2>1
<1>5. CASE Len(e) # 1
    <2> DEFINE z == invertExpression(e)
    <2>1. /\ DOMAIN z = {1} /\ z[1] = invertOr(e) /\ DOMAIN invertOr(e) = DOMAIN e
          /\ \A i \in DOMAIN e :
                invertOr(e)[i] = [op |-> "()", not |-> FALSE, nested |-> invertAnd(e[i])]
        BY <1>1, <1>5, InvertExpressionOf
    <2> HIDE DEF z
    <2>2. ASSUME NEW k \in DOMAIN z, NEW i \in DOMAIN z[k]
          PROVE  /\ z[k][i].op = "()" => Allowed(Ok, z[k][i].nested, FALSE # z[k][i].not)
                 /\ z[k][i].op # "()" => Carried(z[k][i], FALSE) \in Ok
        <3>1. i \in DOMAIN e
              /\ z[k][i] = [op |-> "()", not |-> FALSE, nested |-> invertAnd(e[i])]
            BY <2>1
        <3>2. /\ z[k][i].op = "()" /\ z[k][i].nested = invertAnd(e[i])
              /\ (FALSE # z[k][i].not) = FALSE
            BY <3>1
        <3>3. Allowed(Ok, invertAnd(e[i]), FALSE)  BY <1>3, <3>1
        <3> QED  BY <3>2, <3>3, Zenon
    <2>3. z \in Expression  BY DEF z
    <2> QED  BY <2>2, <2>3, AllowedIs DEF z
<1> QED  BY <1>4, <1>5

(* What is normalised in place of a parenthesis has its terms.             *)
LEMMA AllowedOpened ==
    ASSUME NEW Ok, NEW e \in Expression, Allowed(Ok, e, FALSE),
           NEW i \in DOMAIN e, NEW j \in DOMAIN e[i], e[i][j].op = "()"
    PROVE  Allowed(Ok, Opened(e[i][j]), FALSE)
<1> DEFINE x == e[i][j]
<1>1. Allowed(Ok, x.nested, FALSE # x.not)  BY AllowedIs
<1>2. x.not \in BOOLEAN /\ x.nested \in Expression /\ Opened(x) \in Expression
    BY Operands, OpenedIsSimpler
<1> HIDE DEF x
<1>3. CASE x.not
    <2>1. Opened(x) = invertExpression(x.nested)  BY <1>3 DEF Opened
    <2>2. (FALSE # x.not) = TRUE  BY <1>3
    <2>3. Allowed(Ok, x.nested, TRUE)  BY <1>1, <2>2, Zenon
    <2>4. Allowed(Ok, invertExpression(x.nested), FALSE)
        BY <1>2, <2>1, <2>3, AllowedInverted
    <2> QED  BY <2>1, <2>4 DEF x
<1>4. CASE ~ x.not
    <2>1. Opened(x) = x.nested  BY <1>4 DEF Opened
    <2>2. (FALSE # x.not) = FALSE  BY <1>4, <1>2
    <2>3. Allowed(Ok, x.nested, FALSE)  BY <1>1, <2>2, Zenon
    <2> QED  BY <2>1, <2>3 DEF x
<1> QED  BY <1>3, <1>4

-----------------------------------------------------------------------------
(* Terms                                                                   *)

(* The terms of the grammar that do not panic, and those of them whose     *)
(* negation NormalizeTerm keeps.                                           *)
Legal == {t \in Term : IsTerm(t) /\ t.var \in Vars(t.op) /\ ~ NilString(t)}
Kept == {t \in Legal : t.op = "in" /\ t.var \in KeyAttributes => ~ t.not}

(* The store's own attributes have no identifiers for names.               *)
LEMMA NamesApart ==
    ASSUME NEW name \in Ident
    PROVE  /\ name \notin KeyAttributes
           /\ \A kind \in Kind : <<kind, name>> \notin SystemNames
<1>1. <<"str", name>> \notin SystemNames /\ <<"num", name>> \notin SystemNames
    BY ParsedAssumption
<1>2. \A k \in KeyAttributes : <<"str", k>> \in SystemNames
    BY DEF KeyAttributes, SystemNames
<1> QED  BY <1>1, <1>2 DEF Kind

(* The fields of a negated term.                                           *)
LEMMA InvertedFields ==
    ASSUME NEW t \in Term
    PROVE  /\ invertTerm(t) \in Term
           /\ invertTerm(t).var = t.var /\ invertTerm(t).kind = t.kind
           /\ t.op \in ComparisonOps =>
                 /\ invertTerm(t).op = Complement[t.op] /\ Complement[t.op] \in ComparisonOps
                 /\ invertTerm(t).not = t.not /\ invertTerm(t).val = t.val
           /\ t.op \notin ComparisonOps =>
                 /\ invertTerm(t).op = t.op /\ invertTerm(t).not = ~ t.not
                 /\ t.op # "in" => invertTerm(t).val = t.val
                 /\ t.op = "in" => invertTerm(t).vals = t.vals
<1>1. invertTerm(t) \in Term  BY InvertTermOf
<1>2. DOMAIN t = {"op", "not", "kind", "var", IF t.op = "in" THEN "vals" ELSE "val"}
    BY TermFields
<1>3. CASE t.op \in ComparisonOps
    <2>1. invertTerm(t) = [t EXCEPT !.op = Complement[t.op]]
        BY <1>3 DEF invertTerm
    <2>2. t.op # "in"  BY <1>3 DEF ComparisonOps
    <2>3. Complement[t.op] \in ComparisonOps  BY <1>3 DEF Complement, ComparisonOps
    <2> QED  BY <1>1, <1>2, <1>3, <2>1, <2>2, <2>3
<1>4. CASE t.op \notin ComparisonOps
    <2>1. invertTerm(t) = [t EXCEPT !.not = ~ t.not]
        BY <1>4 DEF invertTerm
    <2>2. CASE t.op = "in"  BY <1>1, <1>2, <1>4, <2>1, <2>2
    <2>3. CASE t.op # "in"  BY <1>1, <1>2, <1>4, <2>1, <2>3
    <2> QED  BY <2>2, <2>3
<1> QED  BY <1>3, <1>4

(* A term can be negated when it is legal, and the other way around.       *)
LEMMA LegalInverted ==
    ASSUME NEW t \in Term
    PROVE  t \in Legal <=> invertTerm(t) \in Legal
<1> DEFINE u == invertTerm(t)
<1>1. t.not \in BOOLEAN /\ t.op \in TermOps /\ t.kind \in Kind  BY TermFields
<1>2. u \in Term  BY InvertedFields
<1>3. CASE t.op \in ComparisonOps
    <2>1. /\ u.op \in ComparisonOps /\ u.var = t.var /\ u.kind = t.kind /\ u.not = t.not
        BY <1>3, InvertedFields
    <2> HIDE DEF u
    <2>2. IsTerm(u) <=> IsTerm(t)
        BY <1>3, <2>1 DEF IsTerm, TermOps, ComparisonOps
    <2>3. Vars(u.op) = Ident /\ Vars(t.op) = Ident
        BY <1>3, <2>1 DEF Vars, ComparisonOps
    <2>4. t.var \in Ident => ~ NilString(t) /\ ~ NilString(u)
        BY <2>1, NamesApart DEF NilString
    <2> QED  BY <1>2, <2>1, <2>2, <2>3, <2>4 DEF Legal, u
<1>4. CASE t.op \notin ComparisonOps
    <2>1. u.op = t.op /\ u.var = t.var /\ u.kind = t.kind /\ u.not = ~ t.not
        BY <1>4, InvertedFields
    <2> HIDE DEF u
    <2>2. IsTerm(u) <=> IsTerm(t)
        BY <1>1, <1>4, <2>1 DEF IsTerm
    <2>3. NilString(u) <=> NilString(t)  BY <2>1 DEF NilString
    <2> QED  BY <1>2, <2>1, <2>2, <2>3 DEF Legal, u
<1> QED  BY <1>3, <1>4

(* An index key with a user's attribute comes from the body.               *)
LEMMA UserKey ==
    ASSUME NEW row \in Row, NEW p \in IndexKeys(row), <<p[1], p[2]>> \notin SystemNames
    PROVE  p \in Attributes[row.body]
    BY DEF IndexKeys, SystemNames, OwnerKey, ExpirationKey

(* A negated comparison is true when the comparison is false, of values    *)
(* that are ordered.                                                       *)
LEMMA ComplementIs ==
    ASSUME NEW t \in Term, t.op \in ComparisonOps, NEW w, Ordered(t.kind, w, t.val)
    PROVE  Compare(invertTerm(t), w) <=> ~ Compare(t, w)
<1> DEFINE u == invertTerm(t)
<1>1. u.op = Complement[t.op] /\ u.kind = t.kind /\ u.val = t.val
    BY InvertedFields
<1>2. /\ t.op = "<" => u.op = ">="
      /\ t.op = "<=" => u.op = ">"
      /\ t.op = ">" => u.op = "<="
      /\ t.op = ">=" => u.op = "<"
    BY <1>1 DEF Complement, ComparisonOps
<1> HIDE DEF u
<1>3. t.op \in {"<", "<=", ">", ">="}  BY DEF ComparisonOps
<1>4. CASE t.op = "<"  BY <1>1, <1>2, <1>4 DEF Compare, Ordered, u
<1>5. CASE t.op = "<="  BY <1>1, <1>2, <1>5 DEF Compare, Ordered, u
<1>6. CASE t.op = ">"  BY <1>1, <1>2, <1>6 DEF Compare, Ordered, u
<1>7. CASE t.op = ">="  BY <1>1, <1>2, <1>7 DEF Compare, Ordered, u
<1> QED  BY <1>3, <1>4, <1>5, <1>6, <1>7

(* What the negation of a term says.                                       *)
LEMMA TermInverted ==
    ASSUME NEW t \in Legal, NEW row \in Row
    PROVE  TermIs(invertTerm(t), row, TRUE) <=> TermIs(t, row, FALSE)
<1> DEFINE u == invertTerm(t)
<1>1. /\ t \in Term /\ t.not \in BOOLEAN /\ t.kind \in Kind /\ t.op \in TermOps
      /\ IsTerm(t) /\ t.var \in Vars(t.op)
    BY TermFields DEF Legal
<1>2. u \in Term /\ u.var = t.var /\ u.kind = t.kind  BY <1>1, InvertedFields
<1>3. ASSUME NEW p \in IndexKeys(row), p[1] = t.kind, p[2] = t.var
      PROVE  (Compare(Literal(u), p[3]) # u.not) = TRUE
                 <=> (Compare(Literal(t), p[3]) # t.not) = FALSE
    <2> DEFINE w == p[3]
    <2>1. CASE t.op \in ComparisonOps
        <3>1. t.var \in Ident  BY <1>1, <2>1 DEF Vars, ComparisonOps
        <3>2. t.var \notin KeyAttributes /\ <<p[1], p[2]>> \notin SystemNames
            BY <1>1, <1>3, <3>1, NamesApart
        <3>3. Literal(u) = u /\ Literal(t) = t
            BY <1>2, <3>2 DEF Literal
        <3>4. p \in Attributes[row.body]  BY <3>2, UserKey
        <3>5. row.body \in Body  BY DEF Row
        <3>6. Ordered(t.kind, w, t.val)
            BY <1>1, <1>3, <2>1, <3>4, <3>5, OrderAssumption
        <3>7. Compare(u, w) <=> ~ Compare(t, w)
            BY <1>1, <2>1, <3>6, ComplementIs
        <3>8. u.not = FALSE /\ t.not = FALSE
            BY <1>1, <2>1, InvertedFields DEF IsTerm
        <3>9. Compare(u, w) \in BOOLEAN /\ Compare(t, w) \in BOOLEAN
            BY DEF Compare
        <3> HIDE DEF u, w
        <3> QED  BY <3>3, <3>7, <3>8, <3>9 DEF w
    <2>2. CASE t.op \notin ComparisonOps
        <3>1. /\ u.op = t.op /\ u.not = ~ t.not
              /\ t.op # "in" => u.val = t.val
              /\ t.op = "in" => u.vals = t.vals
            BY <1>1, <2>2, InvertedFields
        <3>2. /\ DOMAIN t = {"op", "not", "kind", "var", IF t.op = "in" THEN "vals" ELSE "val"}
              /\ DOMAIN u = {"op", "not", "kind", "var", IF u.op = "in" THEN "vals" ELSE "val"}
            BY <1>1, <1>2, TermFields
        <3> DEFINE a == Literal(u)
                   b == Literal(t)
        <3> HIDE DEF u
        <3>3. /\ a.op = b.op /\ a.kind = b.kind
              /\ a.op # "in" => a.val = b.val
              /\ a.op = "in" => a.vals = b.vals
            <4>1. CASE t.op = "in"  BY <1>2, <3>1, <3>2, <4>1 DEF Literal
            <4>2. CASE t.op # "in"  BY <1>2, <3>1, <3>2, <4>2 DEF Literal
            <4> QED  BY <4>1, <4>2
        <3> HIDE DEF a, b, w
        <3>4. Compare(a, w) <=> Compare(b, w)  BY <3>3 DEF Compare
        <3>5. Compare(a, w) \in BOOLEAN /\ Compare(b, w) \in BOOLEAN
            BY DEF Compare
        <3> QED  BY <1>1, <3>1, <3>4, <3>5 DEF a, b, w, u
    <2> QED  BY <2>1, <2>2
<1> HIDE DEF u
<1>4. TermIs(u, row, TRUE) <=> TermIs(t, row, FALSE)
    BY <1>2, <1>3, Zenon DEF TermIs
<1> QED  BY <1>4 DEF u

(* A normalised term is true when the term is.                             *)
LEMMA TermNormalized ==
    ASSUME KeysAreStrings, NEW t \in Kept, NEW row \in Row
    PROVE  TrueOf(NormalizeTerm(t), row) <=> TermIs(t, row, TRUE)
<1> DEFINE u == NormalizeTerm(t)
           l == Literal(t)
<1>1. /\ t \in Term /\ t.not \in BOOLEAN /\ t.kind \in Kind /\ t.op \in TermOps
      /\ IsTerm(t) /\ t.var \in Vars(t.op) /\ ~ NilString(t)
      /\ t.op = "in" /\ t.var \in KeyAttributes => ~ t.not
    BY TermFields DEF Legal, Kept
<1>2. DOMAIN t = {"op", "not", "kind", "var", IF t.op = "in" THEN "vals" ELSE "val"}
    BY <1>1, TermFields
<1>3. CASE t.var \notin KeyAttributes
    <2>1. u = t /\ l = t  BY <1>3 DEF NormalizeTerm, Literal
    <2>2. \A p \in IndexKeys(row) :
              (Compare(t, p[3]) <=> ~ t.not) = ((Compare(t, p[3]) # t.not) = TRUE)
        BY <1>1 DEF Compare
    <2> QED  BY <2>1, <2>2, Zenon DEF TrueOf, TermIs
<1>4. CASE t.var \in KeyAttributes /\ t.kind = "num"
    <2>1. u.var = t.var /\ u.kind = t.kind
        <3>1. t.op = "in" \/ t.op = "~"  BY <1>1, <1>4 DEF NilString
        <3>2. CASE t.op = "in"  BY <1>2, <1>4, <3>2 DEF NormalizeTerm
        <3>3. CASE t.op = "~"  BY <1>2, <1>4, <3>3 DEF NormalizeTerm
        <3> QED  BY <3>1, <3>2, <3>3
    <2>2. ASSUME NEW p \in IndexKeys(row), p[1] = "num" PROVE p[2] \notin KeyAttributes
        <3>1. CASE p \in Attributes[row.body]
            <4>1. row.body \in Body  BY DEF Row
            <4> QED  BY <2>2, <3>1, <4>1 DEF KeysAreStrings
        <3>2. CASE p \notin Attributes[row.body]
            BY <2>2, <3>2 DEF IndexKeys, OwnerKey, ExpirationKey, KeyAttributes
        <3> QED  BY <3>1, <3>2
    <2> HIDE DEF u
    <2>3. ~ TrueOf(u, row) /\ ~ TermIs(t, row, TRUE)
        BY <1>4, <2>1, <2>2 DEF TrueOf, TermIs
    <2> QED  BY <2>3 DEF u
<1>5. CASE t.var \in KeyAttributes /\ t.kind = "str"
    <2>1. t.op \in {"=", "in"}
        <3>1. t.var \notin Ident  BY <1>5, NamesApart
        <3> QED  BY <1>1, <3>1 DEF Vars
    <2>2. /\ u.var = t.var /\ u.kind = t.kind /\ u.not = t.not /\ u.op = t.op
          /\ l.kind = t.kind /\ l.op = t.op
          /\ t.op = "=" => u.val = l.val
          /\ t.op = "in" => u.vals = l.vals
        <3>1. CASE t.op = "in"
            <4>1. u = [t EXCEPT !.not = FALSE, !.vals = {ToLower(s) : s \in @}]
                BY <1>5, <3>1 DEF NormalizeTerm
            <4>2. l = [t EXCEPT !.vals = {ToLower(s) : s \in @}]
                BY <1>5, <3>1 DEF Literal
            <4> QED  BY <1>1, <1>2, <1>5, <3>1, <4>1, <4>2
        <3>2. CASE t.op = "="
            <4>1. u = [t EXCEPT !.val = ToLower(@)]
                BY <1>5, <3>2 DEF NormalizeTerm
            <4>2. l = [t EXCEPT !.val = ToLower(@)]
                BY <1>5, <3>2 DEF Literal
            <4> QED  BY <1>2, <3>2, <4>1, <4>2
        <3> QED  BY <2>1, <3>1, <3>2
    <2> HIDE DEF u, l
    <2>3. \A w : /\ Compare(u, w) <=> Compare(l, w)
                 /\ Compare(u, w) \in BOOLEAN /\ Compare(l, w) \in BOOLEAN
        BY <2>1, <2>2 DEF Compare
    <2>4. \A w : (Compare(u, w) <=> ~ u.not) = ((Compare(l, w) # t.not) = TRUE)
        BY <1>1, <2>2, <2>3
    <2>5. TrueOf(u, row) <=> TermIs(t, row, TRUE)
        BY <2>2, <2>4, Zenon DEF TrueOf, TermIs, l
    <2> QED  BY <2>5 DEF u
<1> QED  BY <1>1, <1>3, <1>4, <1>5 DEF Kind

(* Normalised, a legal term is what the evaluator is made for.             *)
LEMMA NormalTerm ==
    ASSUME NEW t \in Legal
    PROVE  NormalizeTerm(t) \in Lowered /\ IsTerm(NormalizeTerm(t))
<1> DEFINE u == NormalizeTerm(t)
<1>1. t \in Term /\ t.not \in BOOLEAN /\ IsTerm(t)
    BY TermFields DEF Legal
<1>2. DOMAIN t = {"op", "not", "kind", "var", IF t.op = "in" THEN "vals" ELSE "val"}
    BY <1>1, TermFields
<1>3. u \in Lowered  BY <1>1, Zenon DEF Lowered
<1>4. u.op = t.op /\ u.kind = t.kind /\ (u.not = t.not \/ u.not = FALSE)
    <2>1. CASE t.op = "in" /\ t.var \in KeyAttributes
        BY <1>2, <2>1 DEF NormalizeTerm
    <2>2. CASE ~ (t.op = "in" /\ t.var \in KeyAttributes)
        <3>1. u = t \/ (t.op # "in" /\ u = [t EXCEPT !.val = ToLower(@)])
            BY <2>2 DEF NormalizeTerm
        <3> QED  BY <1>2, <3>1
    <2> QED  BY <2>1, <2>2
<1> HIDE DEF u
<1>5. IsTerm(u)  BY <1>1, <1>4 DEF IsTerm
<1> QED  BY <1>3, <1>5 DEF u

-----------------------------------------------------------------------------
(* Normalisation                                                           *)

(* What stands for an operand in the normal form.                          *)
LEMMA OperandTerms ==
    ASSUME NEW e \in Expression, Allowed(Legal, e, FALSE),
           NEW i \in DOMAIN e, NEW j \in DOMAIN e[i]
    PROVE  \/ /\ e[i][j] \in Legal /\ e[i][j].op # "()"
              /\ convertToTerms(Normalize, e[i][j]) = {{NormalizeTerm(e[i][j])}}
           \/ /\ e[i][j].op = "()" /\ Opened(e[i][j]) \in Expression
              /\ Rank(Opened(e[i][j])) < Rank(e)
              /\ Allowed(Legal, Opened(e[i][j]), FALSE)
              /\ convertToTerms(Normalize, e[i][j]) = Normalize[Opened(e[i][j])]
<1> DEFINE x == e[i][j]
<1>1. CASE x.op = "()"
    <2>1. /\ Opened(x) \in Expression /\ Rank(Opened(x)) < Rank(e)
          /\ Allowed(Legal, Opened(x), FALSE)
        BY <1>1, OpenedIsSimpler, AllowedOpened
    <2>2. convertToTerms(Normalize, x) = Normalize[Opened(x)]
        BY <1>1, Zenon DEF convertToTerms
    <2> QED  BY <1>1, <2>1, <2>2, Zenon
<1>2. CASE x.op # "()"
    <2>1. Carried(x, FALSE) \in Legal  BY <1>2, AllowedIs
    <2>2. x \in Legal  BY <2>1, Zenon DEF Carried
    <2>3. convertToTerms(Normalize, x) = {{NormalizeTerm(x)}}
        BY <1>2, Zenon DEF convertToTerms
    <2> QED  BY <1>2, <2>2, <2>3, Zenon
<1> QED  BY <1>1, <1>2

(* What the normal form of legal terms is to be.                           *)
IsNormal(normal) ==
    /\ normal # {}
    /\ \A and \in normal : and # {} /\ \A t \in and : t \in Lowered /\ IsTerm(t)

(* An expression of legal terms has such a normal form.                    *)
LEMMA NormalFormOf ==
    \A e \in Expression : Allowed(Legal, e, FALSE) => IsNormal(Normalize[e])
<1> DEFINE S == Expression
           rank == [e \in S |-> Rank(e)]
           Good == {e \in S : Allowed(Legal, e, FALSE) => IsNormal(Normalize[e])}
<1>1. rank \in [S -> Nat]  BY RankIs, NestedLevels
<1>2. ASSUME NEW e \in S, \A y \in S : rank[y] < rank[e] => y \in Good
      PROVE  e \in Good
    <2> SUFFICES ASSUME Allowed(Legal, e, FALSE) PROVE IsNormal(Normalize[e])
        OBVIOUS
    <2>1. ASSUME NEW i \in DOMAIN e, NEW j \in DOMAIN e[i]
          PROVE  IsNormal(convertToTerms(Normalize, e[i][j]))
        <3> DEFINE x == e[i][j]
                   terms == convertToTerms(Normalize, x)
        <3>1. CASE x \in Legal /\ terms = {{NormalizeTerm(x)}}
            <4> DEFINE u == NormalizeTerm(x)
            <4>1. u \in Lowered /\ IsTerm(u)  BY <3>1, NormalTerm
            <4> HIDE DEF u
            <4>2. IsNormal({{u}})  BY <4>1 DEF IsNormal
            <4> QED  BY <3>1, <4>2 DEF u
        <3>2. CASE /\ Opened(x) \in S /\ Rank(Opened(x)) < Rank(e)
                   /\ Allowed(Legal, Opened(x), FALSE)
                   /\ terms = Normalize[Opened(x)]
            <4>1. Opened(x) \in Good  BY <1>2, <3>2
            <4> QED  BY <3>2, <4>1
        <3> HIDE DEF terms, x, S
        <3>3. \/ x \in Legal /\ terms = {{NormalizeTerm(x)}}
              \/ /\ Opened(x) \in S /\ Rank(Opened(x)) < Rank(e)
                 /\ Allowed(Legal, Opened(x), FALSE)
                 /\ terms = Normalize[Opened(x)]
            BY OperandTerms, Zenon DEF S, x, terms
        <3> QED  BY <3>1, <3>2, <3>3, Zenon DEF terms, x
    <2>2. Depth(e) \in 0 .. MaxNesting /\ e \in Nested[Depth(e)]  BY DepthIs
    <2>3. 1 \in DOMAIN e /\ \A i \in DOMAIN e : 1 \in DOMAIN e[i]
        BY <2>2, ExpressionParts
    <2> HIDE DEF Good, rank, S
    <2>4. Normalize[e] # {}
        <3> DEFINE all == UNION {UNION convertToTerms(Normalize, e[1][j]) : j \in DOMAIN e[1]}
        <3>1. ASSUME NEW j \in DOMAIN e[1]
              PROVE  \E d \in convertToTerms(Normalize, e[1][j]) : d \subseteq all
            <4>1. PICK d \in convertToTerms(Normalize, e[1][j]) : TRUE
                BY <2>1, <2>3 DEF IsNormal
            <4>2. d \subseteq all  BY <4>1
            <4> QED  BY <4>2
        <3> HIDE DEF all
        <3>2. \E c \in Normalize[e] : c \subseteq all
            BY <2>3, <3>1, NormalizeWithin DEF S
        <3> QED  BY <3>2
    <2>5. ASSUME NEW c \in Normalize[e]
          PROVE  c # {} /\ \A t \in c : t \in Lowered /\ IsTerm(t)
        <3>1. PICK i \in DOMAIN e :
                 /\ \A t \in c : \E j \in DOMAIN e[i] :
                       \E d \in convertToTerms(Normalize, e[i][j]) : t \in d
                 /\ \A j \in DOMAIN e[i] :
                       \E d \in convertToTerms(Normalize, e[i][j]) : d \subseteq c
            BY NormalizeIs DEF S
        <3>2. PICK d \in convertToTerms(Normalize, e[i][1]) : d \subseteq c
            BY <2>3, <3>1, Zenon
        <3>3. d # {}
            <4>1. IsNormal(convertToTerms(Normalize, e[i][1]))  BY <2>1, <2>3
            <4> QED  BY <3>2, <4>1 DEF IsNormal
        <3>4. ASSUME NEW t \in c PROVE t \in Lowered /\ IsTerm(t)
            <4>1. PICK j \in DOMAIN e[i] :
                     \E f \in convertToTerms(Normalize, e[i][j]) : t \in f
                BY <3>1, <3>4
            <4> QED  BY <2>1, <4>1 DEF IsNormal
        <3> QED  BY <3>2, <3>3, <3>4
    <2> QED  BY <2>4, <2>5 DEF IsNormal
<1> HIDE DEF Good, rank, S
<1>3. S \subseteq Good  BY <1>1, <1>2, RankInduction
<1> QED  BY <1>3 DEF Good, S

-----------------------------------------------------------------------------
(* The meaning of a normalised expression                                  *)

(* The negation of a conjunction is true when one of its operands is false.*)
LEMMA AndInverted ==
    ASSUME NEW e \in Expression, Allowed(Legal, e, TRUE), NEW row \in Row,
           NEW i \in DOMAIN e
    PROVE  /\ invertAnd(e[i]) \in Expression
           /\ Is[<<invertAnd(e[i]), row, TRUE>>]
                  <=> \E j \in DOMAIN e[i] : ConjunctIs(Is, e[i][j], row, FALSE)
<1> DEFINE z == invertAnd(e[i])
<1>1. Depth(e) \in 0 .. MaxNesting /\ e \in Nested[Depth(e)]  BY DepthIs
<1>2. /\ z \in Expression /\ DOMAIN z = DOMAIN e[i]
      /\ \A j \in DOMAIN e[i] : DOMAIN z[j] = {1} /\ z[j][1] = invertTerm(e[i][j])
    BY <1>1, InvertAndOf, ExpressionParts
<1> HIDE DEF z
<1>3. ASSUME NEW j \in DOMAIN e[i]
      PROVE  ConjunctIs(Is, invertTerm(e[i][j]), row, TRUE)
                 <=> ConjunctIs(Is, e[i][j], row, FALSE)
    <2> DEFINE x == e[i][j]
               u == invertTerm(x)
    <2>1. CASE x.op = "()"
        <3>1. x \in Paren(Expression) /\ x.not \in BOOLEAN  BY <2>1, Operands
        <3>2. u.op = "()" /\ u.nested = x.nested /\ u.not = ~ x.not
            BY <3>1, InvertTermOf
        <3>3. (TRUE # u.not) = (FALSE # x.not)  BY <3>1, <3>2
        <3> HIDE DEF u, x
        <3>4. ConjunctIs(Is, u, row, TRUE) = Is[<<x.nested, row, TRUE # u.not>>]
            BY <3>2, Zenon DEF ConjunctIs
        <3>5. ConjunctIs(Is, x, row, FALSE) = Is[<<x.nested, row, FALSE # x.not>>]
            BY <2>1, Zenon DEF ConjunctIs
        <3>6. ConjunctIs(Is, u, row, TRUE) = ConjunctIs(Is, x, row, FALSE)
            BY <3>3, <3>4, <3>5, Zenon
        <3> QED  BY <3>6, Zenon DEF u, x
    <2>2. CASE x.op # "()"
        <3>1. x \in Term  BY <2>2, Operands
        <3>2. Carried(x, TRUE) \in Legal  BY <2>2, AllowedIs
        <3>3. u \in Legal  BY <3>2, Zenon DEF Carried
        <3>4. x \in Legal /\ u.op # "()"  BY <3>1, <3>3, LegalInverted, InvertTermOf
        <3>5. TermIs(u, row, TRUE) <=> TermIs(x, row, FALSE)
            BY <3>4, TermInverted
        <3>6. /\ ConjunctIs(Is, u, row, TRUE) = TermIs(u, row, TRUE)
              /\ ConjunctIs(Is, x, row, FALSE) = TermIs(x, row, FALSE)
            BY <2>2, <3>4, Zenon DEF ConjunctIs
        <3> QED  BY <3>5, <3>6, Zenon
    <2> QED  BY <2>1, <2>2
<1>4. Is[<<z, row, TRUE>>]
          <=> \E j \in DOMAIN z : \A k \in DOMAIN z[j] : ConjunctIs(Is, z[j][k], row, TRUE)
    BY <1>2, IsTrueIs
<1>5. ASSUME NEW j \in DOMAIN e[i]
      PROVE  (\A k \in DOMAIN z[j] : ConjunctIs(Is, z[j][k], row, TRUE))
                 <=> ConjunctIs(Is, e[i][j], row, FALSE)
    <2>1. (\A k \in {1} : ConjunctIs(Is, z[j][k], row, TRUE))
              <=> ConjunctIs(Is, z[j][1], row, TRUE)
        OBVIOUS
    <2>2. DOMAIN z[j] = {1} /\ z[j][1] = invertTerm(e[i][j])  BY <1>2
    <2>3. (\A k \in DOMAIN z[j] : ConjunctIs(Is, z[j][k], row, TRUE))
              <=> ConjunctIs(Is, invertTerm(e[i][j]), row, TRUE)
        BY <2>1, <2>2, Zenon
    <2> QED  BY <1>3, <2>3, Zenon
<1>6. Is[<<z, row, TRUE>>] <=> \E j \in DOMAIN e[i] : ConjunctIs(Is, e[i][j], row, FALSE)
    BY <1>2, <1>4, <1>5, Zenon
<1> QED  BY <1>2, <1>6 DEF z

(* The negation of an expression is true when the expression is false.     *)
LEMMA ExpressionInverted ==
    ASSUME NEW e \in Expression, Allowed(Legal, e, TRUE), NEW row \in Row,
           invertExpression(e) \in Expression
    PROVE  Is[<<invertExpression(e), row, TRUE>>] <=> Is[<<e, row, FALSE>>]
<1>1. Depth(e) \in 0 .. MaxNesting /\ e \in Nested[Depth(e)]  BY DepthIs
<1>2. DOMAIN e = 1 .. Len(e) /\ 1 \in DOMAIN e  BY <1>1, ExpressionParts
<1>3. Is[<<e, row, FALSE>>]
          <=> \A i \in DOMAIN e : \E j \in DOMAIN e[i] : ConjunctIs(Is, e[i][j], row, FALSE)
    BY IsFalseIs
<1>4. Is[<<e, row, FALSE>>] <=> \A i \in DOMAIN e : Is[<<invertAnd(e[i]), row, TRUE>>]
    <2>1. \A i \in DOMAIN e : Is[<<invertAnd(e[i]), row, TRUE>>]
              <=> \E j \in DOMAIN e[i] : ConjunctIs(Is, e[i][j], row, FALSE)
        BY AndInverted
    <2> QED  BY <1>3, <2>1, Zenon
<1>5. CASE Len(e) = 1
    <2>1. invertExpression(e) = invertAnd(e[1])  BY <1>1, <1>5, InvertExpressionOf
    <2>2. DOMAIN e = {1}  BY <1>2, <1>5
    <2>3. (\A i \in {1} : Is[<<invertAnd(e[i]), row, TRUE>>])
              <=> Is[<<invertAnd(e[1]), row, TRUE>>]
        OBVIOUS
    <2> QED  BY <1>4, <2>1, <2>2, <2>3, Zenon
<1>6. CASE Len(e) # 1
    <2> DEFINE z == invertExpression(e)
    <2>1. /\ DOMAIN z = {1} /\ z[1] = invertOr(e) /\ DOMAIN invertOr(e) = DOMAIN e
          /\ \A i \in DOMAIN e :
                invertOr(e)[i] = [op |-> "()", not |-> FALSE, nested |-> invertAnd(e[i])]
        BY <1>1, <1>6, InvertExpressionOf
    <2>2. z \in Expression  OBVIOUS
    <2> HIDE DEF z
    <2>3. ASSUME NEW i \in DOMAIN e
          PROVE  ConjunctIs(Is, invertOr(e)[i], row, TRUE)
                     = Is[<<invertAnd(e[i]), row, TRUE>>]
        <3> DEFINE x == invertOr(e)[i]
        <3>1. /\ x.op = "()" /\ x.nested = invertAnd(e[i]) /\ (TRUE # x.not) = TRUE
            <4> DEFINE y == invertAnd(e[i])
            <4>1. x = [op |-> "()", not |-> FALSE, nested |-> y]  BY <2>1
            <4> HIDE DEF x, y
            <4>2. x.op = "()" /\ x.nested = y /\ x.not = FALSE  BY <4>1
            <4>3. (TRUE # x.not) = TRUE  BY <4>2
            <4> QED  BY <4>2, <4>3 DEF y
        <3> HIDE DEF x
        <3>2. ConjunctIs(Is, x, row, TRUE) = Is[<<x.nested, row, TRUE # x.not>>]
            BY <3>1, Zenon DEF ConjunctIs
        <3>3. ConjunctIs(Is, x, row, TRUE) = Is[<<invertAnd(e[i]), row, TRUE>>]
            BY <3>1, <3>2, Zenon
        <3> QED  BY <3>3, Zenon DEF x
    <2>4. Is[<<z, row, TRUE>>]
              <=> \E k \in DOMAIN z : \A i \in DOMAIN z[k] : ConjunctIs(Is, z[k][i], row, TRUE)
        BY <2>2, IsTrueIs
    <2>5. (\E k \in {1} : \A i \in DOMAIN z[k] : ConjunctIs(Is, z[k][i], row, TRUE))
              <=> \A i \in DOMAIN z[1] : ConjunctIs(Is, z[1][i], row, TRUE)
        OBVIOUS
    <2>6. Is[<<z, row, TRUE>>]
              <=> \A i \in DOMAIN e : ConjunctIs(Is, invertOr(e)[i], row, TRUE)
        BY <2>1, <2>4, <2>5, Zenon
    <2>7. Is[<<z, row, TRUE>>] <=> Is[<<e, row, FALSE>>]
        BY <1>4, <2>3, <2>6, Zenon
    <2> QED  BY <2>7 DEF z
<1> QED  BY <1>5, <1>6

(* An opened parenthesis says what the parenthesis says.                   *)
LEMMA OpenedMeans ==
    ASSUME NEW e \in Expression, Allowed(Legal, e, FALSE), NEW row \in Row,
           NEW i \in DOMAIN e, NEW j \in DOMAIN e[i], e[i][j].op = "()"
    PROVE  Is[<<Opened(e[i][j]), row, TRUE>>] <=> ConjunctIs(Is, e[i][j], row, TRUE)
<1> DEFINE x == e[i][j]
           y == x.nested
<1>1. /\ x.op = "()" /\ x.not \in BOOLEAN /\ y \in Expression
      /\ Opened(x) \in Expression /\ Allowed(Legal, y, FALSE # x.not)
    BY Operands, OpenedIsSimpler, AllowedIs
<1>2. ConjunctIs(Is, x, row, TRUE) = Is[<<y, row, TRUE # x.not>>]
    BY <1>1, Zenon DEF ConjunctIs
<1> HIDE DEF x, y
<1>3. CASE x.not
    <2>1. (FALSE # x.not) = TRUE /\ (TRUE # x.not) = FALSE  BY <1>1, <1>3
    <2>2. Opened(x) = invertExpression(y)  BY <1>3 DEF Opened, y
    <2>3. Allowed(Legal, y, TRUE)  BY <1>1, <2>1, Zenon
    <2>4. Is[<<invertExpression(y), row, TRUE>>] <=> Is[<<y, row, FALSE>>]
        BY <1>1, <2>2, <2>3, ExpressionInverted
    <2>5. Is[<<Opened(x), row, TRUE>>] <=> ConjunctIs(Is, x, row, TRUE)
        BY <1>2, <2>1, <2>2, <2>4, Zenon
    <2> QED  BY <2>5, Zenon DEF x
<1>4. CASE ~ x.not
    <2>1. (TRUE # x.not) = TRUE  BY <1>1, <1>4
    <2>2. Opened(x) = y  BY <1>4 DEF Opened, y
    <2>3. Is[<<y, row, TRUE>>] \in BOOLEAN
        <3> DEFINE s == <<y, row, TRUE>>
        <3>1. s \in Claim /\ s[3]  BY <1>1 DEF Claim
        <3> HIDE DEF s
        <3>2. Is[s] = \E k \in DOMAIN s[1] : AndIs(Is, s[1][k], s[2], TRUE)
            BY <3>1, IsRecursion, Zenon DEF IsStep
        <3>3. Is[s] \in BOOLEAN  BY <3>2
        <3> QED  BY <3>3 DEF s
    <2>4. Is[<<Opened(x), row, TRUE>>] = ConjunctIs(Is, x, row, TRUE)
        BY <1>2, <2>1, <2>2, Zenon
    <2>5. Is[<<Opened(x), row, TRUE>>] <=> ConjunctIs(Is, x, row, TRUE)
        BY <2>4, Zenon
    <2> QED  BY <2>5, Zenon DEF x
<1> QED  BY <1>1, <1>3, <1>4, Zenon

(* The rows that satisfy a conjunction of the normal form are the rows of  *)
(* which the expression is true.                                           *)
TrueTerms(row) == {t \in Lowered : TrueOf(t, row)}

(* All that is kept is legal.                                              *)
LEMMA KeptIsLegal ==
    ASSUME NEW e \in Expression, NEW neg \in BOOLEAN, Allowed(Kept, e, neg)
    PROVE  Allowed(Legal, e, neg)
    BY DEF Allowed, Kept

(* A row satisfies a conjunction of the normal form when the expression is *)
(* true of it.                                                             *)
LEMMA MeaningKept ==
    ASSUME KeysAreStrings, NEW row \in Row
    PROVE  \A e \in Expression : Allowed(Kept, e, FALSE) =>
               ((\E c \in Normalize[e] : c \subseteq TrueTerms(row))
                    <=> Is[<<e, row, TRUE>>])
<1> DEFINE S == Expression
           Within(e) == \E c \in Normalize[e] : c \subseteq TrueTerms(row)
           rank == [e \in S |-> Rank(e)]
           Good == {e \in S : Allowed(Kept, e, FALSE) =>
                                 (Within(e) <=> Is[<<e, row, TRUE>>])}
<1>1. rank \in [S -> Nat]  BY RankIs, NestedLevels
<1>2. ASSUME NEW e \in S, \A y \in S : rank[y] < rank[e] => y \in Good,
             Allowed(Kept, e, FALSE)
      PROVE  Within(e) <=> Is[<<e, row, TRUE>>]
    <2>1. Allowed(Legal, e, FALSE)  BY <1>2, KeptIsLegal
    <2>2. ASSUME NEW i \in DOMAIN e, NEW j \in DOMAIN e[i]
          PROVE  (\E d \in convertToTerms(Normalize, e[i][j]) : d \subseteq TrueTerms(row))
                     <=> ConjunctIs(Is, e[i][j], row, TRUE)
        <3> DEFINE x == e[i][j]
                   terms == convertToTerms(Normalize, x)
                   Met == \E d \in terms : d \subseteq TrueTerms(row)
        <3>1. CASE x.op = "()"
            <4>1. /\ Opened(x) \in S /\ Rank(Opened(x)) < Rank(e)
                  /\ Allowed(Kept, Opened(x), FALSE)
                BY <1>2, <3>1, OpenedIsSimpler, AllowedOpened
            <4>2. Opened(x) \in Good  BY <1>2, <4>1
            <4>3. Within(Opened(x)) <=> Is[<<Opened(x), row, TRUE>>]
                BY <4>1, <4>2
            <4>4. Is[<<Opened(x), row, TRUE>>] <=> ConjunctIs(Is, x, row, TRUE)
                BY <2>1, <3>1, OpenedMeans
            <4>5. terms = Normalize[Opened(x)]
                BY <3>1, Zenon DEF convertToTerms
            <4>6. Met <=> Within(Opened(x))
                <5> HIDE DEF x, terms
                <5> QED  BY <4>5
            <4> HIDE DEF x, Within, Met
            <4> QED  BY <4>3, <4>4, <4>6, Zenon DEF x, Met
        <3>2. CASE x.op # "()"
            <4>1. Carried(x, FALSE) \in Kept  BY <1>2, <3>2, AllowedIs
            <4>2. x \in Kept  BY <4>1, Zenon DEF Carried
            <4>3. x \in Legal  BY <4>2 DEF Kept
            <4> DEFINE u == NormalizeTerm(x)
            <4>4. u \in Lowered  BY <4>3, NormalTerm
            <4>5. TrueOf(u, row) <=> TermIs(x, row, TRUE)
                BY <1>2, <4>2, TermNormalized
            <4>6. terms = {{u}}
                BY <3>2, Zenon DEF convertToTerms
            <4>7. ConjunctIs(Is, x, row, TRUE) = TermIs(x, row, TRUE)
                BY <3>2, Zenon DEF ConjunctIs
            <4> HIDE DEF x, u, terms
            <4>8. Met <=> TrueOf(u, row)
                BY <4>4, <4>6 DEF TrueTerms
            <4> HIDE DEF Met
            <4>9. Met <=> ConjunctIs(Is, x, row, TRUE)
                BY <4>5, <4>7, <4>8, Zenon
            <4> QED  BY <4>9, Zenon DEF Met, terms, x
        <3> QED  BY <3>1, <3>2, Zenon
    <2>3. Within(e) <=> \E i \in DOMAIN e : \A j \in DOMAIN e[i] :
              \E d \in convertToTerms(Normalize, e[i][j]) : d \subseteq TrueTerms(row)
        BY NormalizeWithin
    <2>4. Is[<<e, row, TRUE>>]
              <=> \E i \in DOMAIN e : \A j \in DOMAIN e[i] : ConjunctIs(Is, e[i][j], row, TRUE)
        BY IsTrueIs
    <2> HIDE DEF Within
    <2> QED  BY <2>2, <2>3, <2>4, Zenon
<1> HIDE DEF Within, rank, S
<1>3. ASSUME NEW e \in S, \A y \in S : rank[y] < rank[e] => y \in Good
      PROVE  e \in Good
    BY <1>2, <1>3, Zenon
<1> HIDE DEF Good
<1>4. S \subseteq Good  BY <1>1, <1>3, RankInduction
<1>5. ASSUME NEW e \in S, Allowed(Kept, e, FALSE)
      PROVE  Within(e) <=> Is[<<e, row, TRUE>>]
    <2>1. e \in Good  BY <1>4
    <2> QED  BY <1>5, <2>1, Zenon DEF Good
<1> QED  BY <1>5, Zenon DEF Within, S

-----------------------------------------------------------------------------
(* Queries                                                                 *)

(* The terms of an expression are terms.                                   *)
LEMMA OccurrencesTyped ==
    \A e \in Expression : \A o \in Occurrences[e] : o[1] \in Term
<1> DEFINE S == Expression
           rank == [e \in S |-> Depth(e)]
           Good == {e \in S : \A o \in Occurrences[e] : o[1] \in Term}
<1>1. rank \in [S -> Nat]  BY DepthIs, NestedLevels
<1>2. ASSUME NEW e \in S, \A y \in S : rank[y] < rank[e] => y \in Good,
             NEW o \in Occurrences[e]
      PROVE  o[1] \in Term
    <2>1. PICK i \in DOMAIN e : \E j \in DOMAIN e[i] : o \in OccurIn(Occurrences, e[i][j])
        BY <1>2, OccurrencesOf
    <2>2. PICK j \in DOMAIN e[i] : o \in OccurIn(Occurrences, e[i][j])
        BY <2>1
    <2>3. CASE e[i][j].op = "()"
        <3>1. PICK p \in Occurrences[e[i][j].nested] : o = <<p[1], p[2] # e[i][j].not>>
            BY <2>2, <2>3, OccurInParenthesis
        <3>2. e[i][j].nested \in S /\ Depth(e[i][j].nested) < Depth(e)
            BY <2>3, Operands
        <3>3. e[i][j].nested \in Good  BY <1>2, <3>2
        <3> QED  BY <3>1, <3>3
    <2>4. CASE e[i][j].op # "()"
        <3>1. o = <<e[i][j], FALSE>>  BY <2>2, <2>4, OccurInIs, Zenon
        <3> QED  BY <2>4, <3>1, Operands
    <2> QED  BY <2>3, <2>4
<1> HIDE DEF rank, S
<1>3. ASSUME NEW e \in S, \A y \in S : rank[y] < rank[e] => y \in Good
      PROVE  e \in Good
    BY <1>2, <1>3
<1> HIDE DEF Good
<1>4. S \subseteq Good  BY <1>1, <1>3, RankInduction
<1> QED  BY <1>4 DEF Good, S

(* A query that is neither refused nor panics has legal terms only.        *)
Accepted(e) == InGrammar(e) /\ ~ Dereferences(e)

(* Unless a key is excluded, all of their negations are kept.              *)
LEMMA AcceptedIsLegal ==
    ASSUME NEW e \in Expression, Accepted(e)
    PROVE  /\ e # AllTokens
           /\ Allowed(Legal, e, FALSE)
           /\ NoKeyExcluded(e) => Allowed(Kept, e, FALSE)
<1>1. e # AllTokens
    <2>1. Depth(e) \in 0 .. MaxNesting /\ e \in Nested[Depth(e)]  BY DepthIs
    <2>2. Len(e) # 0  BY <2>1, ExpressionParts
    <2> QED  BY <2>2 DEF AllTokens
<1>2. ASSUME NEW o \in Occurrences[e]
      PROVE  /\ Carried(o[1], o[2] # FALSE) \in Legal
             /\ NoKeyExcluded(e) => Carried(o[1], o[2] # FALSE) \in Kept
    <2> DEFINE t == o[1]
    <2>1. t \in Term /\ o[2] \in BOOLEAN  BY OccurrencesTyped, OccurrenceIsPair
    <2>2. IsTerm(t) /\ t.var \in Vars(t.op) /\ ~ NilString(t)
        BY <1>1 DEF Accepted, InGrammar, Dereferences
    <2>3. NoKeyExcluded(e) => (t.op = "in" /\ t.var \in KeyAttributes => t.not = o[2])
        BY <1>1 DEF NoKeyExcluded
    <2> HIDE DEF t
    <2>4. t \in Legal  BY <2>1, <2>2 DEF Legal
    <2>5. CASE o[2]
        <3>1. Carried(t, o[2] # FALSE) = invertTerm(t)  BY <2>5 DEF Carried
        <3>2. invertTerm(t) \in Legal  BY <2>1, <2>4, LegalInverted
        <3>3. /\ invertTerm(t).op = "in" => t.op = "in" /\ invertTerm(t).not = ~ t.not
              /\ invertTerm(t).var = t.var
            BY <2>1, InvertedFields DEF ComparisonOps
        <3>4. NoKeyExcluded(e) => invertTerm(t) \in Kept
            BY <2>3, <2>5, <3>2, <3>3 DEF Kept
        <3> QED  BY <3>1, <3>2, <3>4 DEF t
    <2>6. CASE ~ o[2]
        <3>1. Carried(t, o[2] # FALSE) = t  BY <2>1, <2>6 DEF Carried
        <3>2. NoKeyExcluded(e) => t \in Kept
            BY <2>1, <2>3, <2>4, <2>6 DEF Kept
        <3> QED  BY <2>4, <3>1, <3>2 DEF t
    <2> QED  BY <2>1, <2>5, <2>6
<1> QED  BY <1>1, <1>2, Zenon DEF Allowed

(* On every view whose index is exact, the normalised query selects the    *)
(* entities of which the query is true.                                    *)
THEOREM QueryMeaning ==
    ASSUME KeysAreStrings, NEW v, Readable(v),
           NEW e \in Expression, Accepted(e), NoKeyExcluded(e)
    PROVE  evaluateAST(v, Normalize[e]) = {id \in DOMAIN v.pay : Is[<<e, v.pay[id], TRUE>>]}
<1> DEFINE normal == Normalize[e]
<1>1. Allowed(Legal, e, FALSE) /\ Allowed(Kept, e, FALSE)  BY AcceptedIsLegal
<1>2. IsNormal(normal)  BY <1>1, NormalFormOf
<1>3. IsAST(normal) /\ normal # AllEntities  BY <1>2 DEF IsNormal, IsAST, AllEntities
<1>4. evaluateAST(v, normal) = Answer(v, normal)  BY <1>3, EvaluationIsAnswer
<1>5. ASSUME NEW id \in DOMAIN v.pay
      PROVE  Matches(normal, v.pay[id]) <=> Is[<<e, v.pay[id], TRUE>>]
    <2> DEFINE row == v.pay[id]
    <2>1. row \in Row  BY DEF Readable, IsView
    <2> HIDE DEF row
    <2>2. (\E c \in normal : c \subseteq TrueTerms(row)) <=> Is[<<e, row, TRUE>>]
        BY <1>1, <2>1, MeaningKept
    <2> HIDE DEF normal
    <2>3. Matches(normal, row) <=> \E c \in normal : c \subseteq TrueTerms(row)
        <3>1. \A c \in normal : (\A t \in c : TrueOf(t, row)) <=> c \subseteq TrueTerms(row)
            BY <1>2 DEF IsNormal, TrueTerms
        <3> QED  BY <1>3, <3>1, Zenon DEF Matches
    <2>4. Matches(normal, row) <=> Is[<<e, row, TRUE>>]
        BY <2>2, <2>3, Zenon
    <2> QED  BY <2>4, Zenon DEF row
<1> HIDE DEF normal
<1>6. Answer(v, normal) = {id \in DOMAIN v.pay : Is[<<e, v.pay[id], TRUE>>]}
    BY <1>5 DEF Answer
<1> QED  BY <1>4, <1>6 DEF normal

(* Parsing and evaluation, as far as they have come.                       *)
QueryInv ==
    /\ tree \in Parsed
    /\ pc \in {"parsed", "answered"} =>
          /\ Accepted(tree)
          /\ ast = IF tree = AllTokens THEN AllEntities ELSE Normalize[tree]
    /\ pc = "answered" => answer = evaluateAST(View, ast)

(* This is kept.                                                           *)
LEMMA QueryInvHolds == Spec => []QueryInv
<1>1. Init => QueryInv  BY DEF Init, QueryInv
<1>2. ASSUME QueryInv, [Next]_vars PROVE QueryInv'
    <2> USE DEF QueryInv
    <2>1. CASE Refuse  BY <1>2, <2>1 DEF Refuse
    <2>2. CASE Panic  BY <1>2, <2>2 DEF Panic
    <2>3. CASE Parse  BY <1>2, <2>3 DEF Parse, Accepted
    <2>4. CASE Evaluate  BY <1>2, <2>4 DEF Evaluate
    <2>5. CASE UNCHANGED vars  BY <1>2, <2>5 DEF vars
    <2> QED  BY <1>2, <2>1, <2>2, <2>3, <2>4, <2>5 DEF Next
<1> QED  BY <1>1, <1>2, PTL DEF Spec

(* A tree that is not `$all` is an expression.                             *)
LEMMA ParsedIs ==
    ASSUME QueryInv, tree # AllTokens PROVE tree \in Expression
    BY ParsedAssumption DEF QueryInv

(* What the evaluator is handed is a disjunctive normal form.              *)
THEOREM NormalFormHolds == Spec => []NormalForm
<1>1. ASSUME QueryInv, pc \in {"parsed", "answered"} PROVE IsAST(ast)
    <2>1. CASE tree = AllTokens
        BY <1>1, <2>1 DEF QueryInv, IsAST, AllEntities
    <2>2. CASE tree # AllTokens
        <3>1. tree \in Expression /\ Accepted(tree) /\ ast = Normalize[tree]
            BY <1>1, <2>2, ParsedIs DEF QueryInv
        <3>2. IsNormal(ast)  BY <3>1, AcceptedIsLegal, NormalFormOf
        <3> QED  BY <3>2 DEF IsNormal, IsAST
    <2> QED  BY <2>1, <2>2
<1>2. QueryInv => NormalForm  BY <1>1 DEF NormalForm
<1> QED  BY <1>2, QueryInvHolds, PTL

(* The answer is what the query says.                                      *)
THEOREM AnswersMeanTheQueryHolds ==
    ASSUME InclusionsPlain, KeysAreStrings
    PROVE  Spec => []AnswersMeanTheQuery
<1>1. ASSUME QueryInv, pc = "answered"
      PROVE  answer = {id \in DOMAIN View.pay :
                          tree = AllTokens \/ Is[<<tree, View.pay[id], TRUE>>]}
    <2>1. Readable(View) /\ answer = evaluateAST(View, ast)
        BY <1>1, ViewAssumption DEF QueryInv
    <2>2. CASE tree = AllTokens
        <3>1. ast = AllEntities  BY <1>1, <2>2 DEF QueryInv
        <3>2. IsAST(AllEntities)  BY DEF IsAST, AllEntities
        <3>3. answer = Answer(View, AllEntities)
            BY <2>1, <3>1, <3>2, EvaluationIsAnswer
        <3>4. Answer(View, AllEntities) = DOMAIN View.pay  BY DEF Answer, Matches
        <3> QED  BY <2>2, <3>3, <3>4
    <2>3. CASE tree # AllTokens
        <3>1. tree \in Expression /\ Accepted(tree) /\ ast = Normalize[tree]
            BY <1>1, <2>3, ParsedIs DEF QueryInv
        <3>2. NoKeyExcluded(tree)  BY <1>1 DEF InclusionsPlain, QueryInv
        <3>3. answer = {id \in DOMAIN View.pay : Is[<<tree, View.pay[id], TRUE>>]}
            BY <2>1, <3>1, <3>2, QueryMeaning
        <3>4. \A id : (tree = AllTokens \/ Is[<<tree, View.pay[id], TRUE>>])
                          <=> Is[<<tree, View.pay[id], TRUE>>]
            BY <2>3
        <3> QED  BY <3>3, <3>4
    <2> QED  BY <2>2, <2>3
<1>2. QueryInv => AnswersMeanTheQuery  BY <1>1 DEF AnswersMeanTheQuery
<1> QED  BY <1>2, QueryInvHolds, PTL
=============================================================================
