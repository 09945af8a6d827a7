------------------------------ MODULE QueryEval ------------------------------
(***************************************************************************)
(* Evaluation of a normalised query on a view of the database              *)
(* (pebblestore/evaluate.go, value_queries.go, temporal_queries.go): every *)
(* term is a point lookup in the bitmap index, or a scan of the values an  *)
(* attribute has in it; terms are combined by intersection and union of    *)
(* bitmaps.                                                                *)
(*                                                                         *)
(* A term is a record: the comparison, the attribute's name, whether it is *)
(* negated, and the literals, all strings or all numbers.  An AST is the   *)
(* set of its conjunctions, each the set of its terms; the AST without an  *)
(* expression, which selects every entity, is the empty set.               *)
(***************************************************************************)
EXTENDS PebbleStore

CONSTANTS
    StringLess,   \* pairs <<v, w>> of strings, v before w byte by byte
    GlobMatches   \* pairs <<pattern, v>> for which path.Match reports a match

Kind == {"str", "num"}
AllEntities == {}

(* An index key is an attribute with one value.                            *)
ASSUME IndexKeyAssumption ==
    \A b \in Body : \A a \in Attributes[b] :
        a = <<a[1], a[2], a[3]>> /\ a[1] \in Kind

ComparisonOps == {"<", "<=", ">", ">="}
TermOps == ComparisonOps \cup {"=", "in", "~"}

IsTerm(t) ==
    /\ t.op \in TermOps
    /\ t.kind \in Kind
    /\ t.not \in BOOLEAN
    /\ t.op \in ComparisonOps => ~t.not
    /\ t.op = "~" => t.kind = "str"

IsAST(ast) == \A and \in ast : and # {} /\ \A t \in and : IsTerm(t)

(* What evaluation needs of the view it reads.                             *)
Readable(v) == IsView(v) /\ PointersMatchPayloads(v) /\ IndexExact(v)

-----------------------------------------------------------------------------
(* value_queries.go                                                        *)
Less(kind, v, w) ==
    (kind = "str" /\ <<v, w>> \in StringLess) \/ (kind = "num" /\ v < w)

Compare(t, v) ==
    \/ t.op = "="  /\ v = t.val
    \/ t.op = "in" /\ v \in t.vals
    \/ t.op = "~"  /\ <<t.val, v>> \in GlobMatches
    \/ t.op \in {"<", "<="} /\ Less(t.kind, v, t.val)
    \/ t.op \in {">", ">="} /\ Less(t.kind, t.val, v)
    \/ t.op \in {"<=", ">="} /\ v = t.val

(* Slip: a negated inclusion selects as if it were not negated.            *)
PassesInclusionUnnegated(t, v) ==
    IF t.op = "in" THEN Compare(t, v) ELSE Compare(t, v) # t.not

(* The filters of the GetMatching...Values functions.  A pattern that      *)
(* path.Match rejects matches nothing, and negated everything.             *)
Passes(t, v) == Compare(t, v) # t.not

scanDistinctValues(v, kind, name) ==
    {p[3] : p \in {q \in DOMAIN v.bm : q[1] = kind /\ q[2] = name}}

GetMatchingValues(v, t) ==
    {w \in scanDistinctValues(v, t.kind, t.var) : Passes(t, w)}

-----------------------------------------------------------------------------
(* evaluate.go                                                             *)
reconstructBitmapsOR(v, t, values) ==
    UNION {GetBitmap(v, <<t.kind, t.var, w>>) : w \in values}

evaluateByScan(v, t) == reconstructBitmapsOR(v, t, GetMatchingValues(v, t))

evaluateGlob(v, t) == evaluateByScan(v, t)
evaluateComparison(v, t) == evaluateByScan(v, t)
evaluateInclusion(v, t) == evaluateByScan(v, t)

(* Slip: takes the point lookup for an inequality as well.                 *)
evaluateEqualityByLookup(v, t) == GetBitmap(v, <<t.kind, t.var, t.val>>)
evaluateEquality(v, t) ==
    IF t.not THEN evaluateByScan(v, t)
             ELSE GetBitmap(v, <<t.kind, t.var, t.val>>)

evaluateTerm(v, t) ==
    CASE t.op = "="  -> evaluateEquality(v, t)
      [] t.op = "in" -> evaluateInclusion(v, t)
      [] t.op = "~"  -> evaluateGlob(v, t)
      [] t.op \in ComparisonOps -> evaluateComparison(v, t)

(* The bitmaps are intersected, or united, one after the other.            *)
evaluateAnd(v, and) ==
    {id \in UNION {evaluateTerm(v, t) : t \in and} :
        \A t \in and : id \in evaluateTerm(v, t)}

evaluateExpr(v, or) == UNION {evaluateAnd(v, and) : and \in or}

evaluateAllCurrent(v) == {v.cur[k] : k \in DOMAIN v.cur}

evaluateAST(v, ast) ==
    IF ast = AllEntities THEN evaluateAllCurrent(v) ELSE evaluateExpr(v, ast)

-----------------------------------------------------------------------------
(* What the answer should be, record by record.  A negated term is true of *)
(* an entity that has the attribute, with a value of the literal's type    *)
(* that is another one; nothing is true of an attribute it does not have.  *)
TrueOf(t, row) ==
    \E p \in IndexKeys(row) :
        p[1] = t.kind /\ p[2] = t.var /\ (Compare(t, p[3]) <=> ~t.not)

Matches(ast, row) ==
    ast = AllEntities \/ \E and \in ast : \A t \in and : TrueOf(t, row)

Answer(v, ast) == {id \in DOMAIN v.pay : Matches(ast, v.pay[id])}
=============================================================================
