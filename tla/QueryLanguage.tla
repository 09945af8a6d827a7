---------------------------- MODULE QueryLanguage ----------------------------
(***************************************************************************)
(* From a parsed query to its answer (query/language.go, normalize.go): a  *)
(* query is checked against the grammar, brought to disjunctive normal     *)
(* form with its negations pushed down to the terms, and evaluated.        *)
(*                                                                         *)
(* A parse tree: an expression is the sequence of its conjunctions, which  *)
(* are sequences of terms (see QueryEval) and parentheses, possibly        *)
(* negated.  AllTokens stands for `$all` and `*`.  Lexing and the          *)
(* recognition of the tree are participle's.                               *)
(***************************************************************************)
EXTENDS QueryEval, Sequences

CONSTANTS
    Term,        \* comparisons
    MaxNesting,  \* bound: parentheses within each other
    Parsed,      \* parse trees of the queries that are asked
    Ident,       \* attribute names that are identifiers
    Lower,       \* strings.ToLower, on the strings it changes
    View         \* the snapshot the queries are answered on

AllTokens == <<>>
KeyAttributes == {"$key", "$owner", "$creator"}

(* The expressions with up to n parentheses within each other.             *)
NonEmptySeq(S) == Seq(S) \ {<<>>}
Paren(exprs) == [op : {"()"}, not : BOOLEAN, nested : exprs]

Nested[n \in 0 .. MaxNesting] ==
    NonEmptySeq(NonEmptySeq(IF n = 0 THEN Term ELSE Term \cup Paren(Nested[n - 1])))

Expression == Nested[MaxNesting]

(* Any term may come with any negation and any comparison; the grammar     *)
(* says which do.                                                          *)
ASSUME TermAssumption ==
    \A t \in Term :
        /\ t.op \in TermOps /\ t.not \in BOOLEAN /\ t.kind \in Kind
        /\ DOMAIN t = {"op", "not", "kind", "var", IF t.op = "in" THEN "vals" ELSE "val"}
        /\ \A not \in BOOLEAN : [t EXCEPT !.not = not] \in Term
        /\ t.op \in ComparisonOps =>
              \A op \in ComparisonOps : [t EXCEPT !.op = op] \in Term

ASSUME ParsedAssumption ==
    /\ MaxNesting \in Nat
    /\ Parsed \subseteq Expression \cup {AllTokens}
    /\ \A name \in Ident : <<"str", name>> \notin SystemNames /\ <<"num", name>> \notin SystemNames

(* Numbers are ordered, and so are strings byte by byte.                   *)
Ordered(kind, v, w) ==
    /\ Less(kind, v, w) \/ v = w \/ Less(kind, w, v)
    /\ ~(Less(kind, v, w) /\ Less(kind, w, v))
    /\ v = w => ~Less(kind, v, w)

ASSUME OrderAssumption ==
    \A t \in Term : t.op \in ComparisonOps =>
        \A b \in Body : \A a \in Attributes[b] :
            a[1] = t.kind /\ a[2] = t.var => Ordered(t.kind, a[3], t.val)

(* The index is exact, as in every database the follower commits.          *)
ASSUME ViewAssumption == Readable(View)

VARIABLES
    pc,       \* "asked", "refused", "panicked", "parsed", "answered"
    tree,     \* the parse tree
    ast,      \* the normalised query
    answer    \* ids of the entities selected

vars == <<pc, tree, ast, answer>>

-----------------------------------------------------------------------------
(* The grammar: attributes of the store can be compared for equality and   *)
(* inclusion only, and not all of them.                                    *)
Vars(op) ==
    IF op \in {"=", "in"}
    THEN Ident \cup KeyAttributes \cup {"$expiration", "$sequence"}
    ELSE Ident

(* The terms of an expression, each with whether the parentheses around it *)
(* negate it.                                                              *)
Occurrences[expr \in Expression] ==
    LET In(x) == IF x.op = "()"
                 THEN {<<o[1], o[2] # x.not>> : o \in Occurrences[x.nested]}
                 ELSE {<<x, FALSE>>}
    IN  UNION {UNION {In(expr[i][j]) : j \in DOMAIN expr[i]} : i \in DOMAIN expr}

InGrammar(query) ==
    query # AllTokens =>
        \A o \in Occurrences[query] : IsTerm(o[1]) /\ o[1].var \in Vars(o[1].op)

-----------------------------------------------------------------------------
(* normalize.go: negation                                                  *)
Complement == [op \in ComparisonOps |->
    CASE op = "<" -> ">=" [] op = "<=" -> ">" [] op = ">" -> "<=" [] op = ">=" -> "<"]

(* Slips: a comparison is negated by a flag the evaluator has not, or      *)
(* keeps the equality it had.                                              *)
invertTermFlipped(x) == [x EXCEPT !.not = ~@]
invertTermMirrored(x) ==
    IF x.op \in ComparisonOps
    THEN [x EXCEPT !.op = CHOOSE op \in ComparisonOps \ {@} :
                             (op \in {"<=", ">="}) = (@ \in {"<=", ">="})]
    ELSE [x EXCEPT !.not = ~@]

(* EqualExpr.invert: comparisons change into their opposites, everything   *)
(* else, parentheses too, flips its negation.                              *)
invertTerm(x) ==
    IF x.op \in ComparisonOps THEN [x EXCEPT !.op = Complement[@]]
                              ELSE [x EXCEPT !.not = ~@]

(* The conjunction's negation is the disjunction of its terms' negations.  *)
invertAnd(and) == [i \in DOMAIN and |-> <<invertTerm(and[i])>>]

(* The disjunction's negation is a conjunction of parentheses.             *)
invertOr(expr) ==
    [i \in DOMAIN expr |->
        [op |-> "()", not |-> FALSE, nested |-> invertAnd(expr[i])]]

invertExpression(expr) ==
    IF Len(expr) = 1 THEN invertOr(expr)[1].nested ELSE <<invertOr(expr)>>

-----------------------------------------------------------------------------
(* normalize.go: disjunctive normal form                                   *)
ToLower(s) == IF s \in DOMAIN Lower THEN Lower[s] ELSE s

(* Keys and addresses are filed in lower case.  Only the strings of an     *)
(* inclusion are taken over; its negation is not.                          *)
NormalizeTerm(t) ==
    CASE t.var \in KeyAttributes /\ t.op = "in" ->
            [t EXCEPT !.not = FALSE,
                      !.vals = IF t.kind = "str" THEN {ToLower(s) : s \in @} ELSE {}]
      [] t.var \in KeyAttributes /\ t.op \notin {"in", "~"} ->
            [t EXCEPT !.val = ToLower(@)]
      [] OTHER -> t

(* The string of a comparison with a key attribute is dereferenced, but    *)
(* the literal may be a number.                                            *)
NilString(t) == t.var \in KeyAttributes /\ t.op \notin {"in", "~"} /\ t.kind = "num"
Dereferences(query) ==
    query # AllTokens /\ \E o \in Occurrences[query] : NilString(o[1])

(* What is normalised in place of a parenthesis.                           *)
Opened(x) == IF x.not THEN invertExpression(x.nested) ELSE x.nested

convertToTerms(normalize, x) ==
    IF x.op = "()" THEN normalize[Opened(x)] ELSE {{NormalizeTerm(x)}}

(* The disjunctions, combined by taking one conjunction of each.           *)
CrossProduct(disjunctions) ==
    LET every == UNION {disjunctions[j] : j \in DOMAIN disjunctions}
        choices == {c \in [DOMAIN disjunctions -> every] :
                       \A j \in DOMAIN disjunctions : c[j] \in disjunctions[j]}
    IN  {UNION {c[j] : j \in DOMAIN c} : c \in choices}

NormalizeAnd(normalize, and) ==
    CrossProduct([j \in DOMAIN and |-> convertToTerms(normalize, and[j])])

(* A conjunction is the set of its terms, the normal form the set of its   *)
(* conjunctions: neither order nor repetition changes the answer.          *)
Normalize[expr \in Expression] ==
    UNION {NormalizeAnd(Normalize, expr[i]) : i \in DOMAIN expr}

-----------------------------------------------------------------------------
Init ==
    /\ pc = "asked"
    /\ tree \in Parsed
    /\ ast = AllEntities
    /\ answer = {}

Refuse ==
    /\ pc = "asked"
    /\ ~InGrammar(tree)
    /\ pc' = "refused"
    /\ UNCHANGED <<tree, ast, answer>>

Panic ==
    /\ pc = "asked"
    /\ InGrammar(tree) /\ Dereferences(tree)
    /\ pc' = "panicked"
    /\ UNCHANGED <<tree, ast, answer>>

Parse ==
    /\ pc = "asked"
    /\ InGrammar(tree) /\ ~Dereferences(tree)
    /\ pc' = "parsed"
    /\ ast' = IF tree = AllTokens THEN AllEntities ELSE Normalize[tree]
    /\ UNCHANGED <<tree, answer>>

Evaluate ==
    /\ pc = "parsed"
    /\ pc' = "answered"
    /\ answer' = evaluateAST(View, ast)
    /\ UNCHANGED <<tree, ast>>

Next == Refuse \/ Panic \/ Parse \/ Evaluate

Spec == Init /\ [][Next]_vars

-----------------------------------------------------------------------------
(* What a query says of an entity.  A term with an attribute the entity    *)
(* does not have, or has with the other type of value, is neither true nor *)
(* false, and a negation is true when what it negates is false.            *)
Literal(t) ==
    IF t.var \notin KeyAttributes \/ t.kind = "num" THEN t
    ELSE IF t.op = "in" THEN [t EXCEPT !.vals = {ToLower(s) : s \in @}]
                        ELSE [t EXCEPT !.val = ToLower(@)]

TermIs(t, row, truth) ==
    \E p \in IndexKeys(row) :
        p[1] = t.kind /\ p[2] = t.var /\ (Compare(Literal(t), p[3]) # t.not) = truth

ConjunctIs(is, x, row, truth) ==
    IF x.op = "()" THEN is[<<x.nested, row, truth # x.not>>]
                   ELSE TermIs(x, row, truth)

AndIs(is, and, row, truth) ==
    IF truth THEN \A j \in DOMAIN and : ConjunctIs(is, and[j], row, TRUE)
             ELSE \E j \in DOMAIN and : ConjunctIs(is, and[j], row, FALSE)

(* A claim is <<expr, row, truth>>.                                        *)
Is[claim \in Expression \X Row \X BOOLEAN] ==
    LET expr == claim[1]
        row == claim[2]
    IN  IF claim[3] THEN \E i \in DOMAIN expr : AndIs(Is, expr[i], row, TRUE)
                    ELSE \A i \in DOMAIN expr : AndIs(Is, expr[i], row, FALSE)

(* Where the negation of an inclusion, which NormalizeTerm does not keep,  *)
(* is not needed: keys and addresses are included, or what excludes them   *)
(* is itself negated.                                                      *)
NoKeyExcluded(query) ==
    query # AllTokens =>
        \A o \in Occurrences[query] :
            o[1].op = "in" /\ o[1].var \in KeyAttributes => o[1].not = o[2]

InclusionsPlain == \A query \in Parsed : NoKeyExcluded(query)

(* The numbers of an inclusion in a key are not kept either, which is not  *)
(* noticed where no user gives a number the name of a key.                 *)
KeysAreStrings ==
    \A b \in Body : \A a \in Attributes[b] : a[1] = "num" => a[2] \notin KeyAttributes

(* The answer is what the query says: distributing conjunctions over       *)
(* disjunctions, pushing negations through any nesting of parentheses and  *)
(* lowering the case of keys and addresses keep the meaning, and so do the *)
(* index lookups the terms end in.                                         *)
AnswersMeanTheQuery ==
    pc = "answered" =>
        answer = {id \in DOMAIN View.pay :
                    tree = AllTokens \/ Is[<<tree, View.pay[id], TRUE>>]}

(* The evaluator is handed a disjunctive normal form: no conjunction is    *)
(* empty, comparisons are not negated and no parenthesis is left.          *)
NormalForm == pc \in {"parsed", "answered"} => IsAST(ast)
=============================================================================
