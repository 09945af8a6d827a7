--------------------------- MODULE MCQueryLanguage ---------------------------
(* Constants for QueryLanguage.  The entities have every combination of    *)
(* two owners, three types (none, art, nft) and three versions (none, 1,   *)
(* 2).                                                                     *)
EXTENDS QueryLanguage

CONSTANTS o1, o2, O1   \* O1 is o1 in upper case

Owners == <<o1, o2>>
Types == <<{}, {<<"str", "type", "art">>}, {<<"str", "type", "nft">>}>>
Versions == <<{}, {<<"num", "version", 1>>}, {<<"num", "version", 2>>}>>

MCIdent == {"type", "version"}
MCBody == {Types[i] \cup Versions[j] : i, j \in 1 .. 3}
MCAttributes == [b \in MCBody |-> b]
MCStringLess == {<<"art", "nft">>}
MCGlobMatches == {<<"n*", "nft">>}
MCLower == [s \in {O1} |-> o1]

MCRow(id) ==
    LET i == id - 1
        owner == Owners[(i \div 9) + 1]
    IN  [key |-> id, owner |-> owner, creator |-> owner, expiration |-> 5,
         createdAt |-> 1, modifiedAt |-> 1, sequence |-> id, tx |-> 0, idx |-> 0,
         body |-> Types[((i \div 3) % 3) + 1] \cup Versions[(i % 3) + 1]]

MCKey == 1 .. 18
MCRows == [id \in MCKey |-> MCRow(id)]

(* The entities with their exact index.                                    *)
MCView ==
    LET v == [EmptyView EXCEPT !.pay = MCRows, !.cur = [k \in MCKey |-> k]]
    IN  [v EXCEPT !.bm = [p \in UNION {IndexKeys(MCRows[id]) : id \in MCKey} |->
                             Posting(v, p)]]

-----------------------------------------------------------------------------
Cmp(var, op, not, kind, val) ==
    [op |-> op, not |-> not, kind |-> kind, var |-> var, val |-> val]
In(var, not, kind, vals) ==
    [op |-> "in", not |-> not, kind |-> kind, var |-> var, vals |-> vals]

(* Terms of every kind, negated where the grammar has a negation.          *)
AllTerms ==
    {Cmp("version", op, FALSE, "num", n) : op \in ComparisonOps, n \in {1, 2}}
    \cup {Cmp("type", op, FALSE, "str", s) : op \in ComparisonOps, s \in {"art", "nft"}}
    \cup {Cmp("version", "=", n, "num", 1) : n \in BOOLEAN}
    \cup {Cmp("type", "=", n, "str", "art") : n \in BOOLEAN}
    \cup {Cmp("$owner", "=", n, "str", o) : n \in BOOLEAN, o \in {o1, O1}}
    \cup {Cmp("$key", "=", n, "str", 3) : n \in BOOLEAN}
    \cup {Cmp("$sequence", "=", n, "num", 3) : n \in BOOLEAN}
    \cup {Cmp("type", "~", n, "str", p) : n \in BOOLEAN, p \in {"n*", "["}}
    \cup {In("type", n, "str", {"art", "x"}) : n \in BOOLEAN}
    \cup {In("version", n, "num", {1, 2}) : n \in BOOLEAN}
    \cup {In("$expiration", n, "num", {5}) : n \in BOOLEAN}

(* Terms that are combined with each other.                                *)
SomeTerms == {Cmp("type", "=", FALSE, "str", "art"),
              Cmp("version", "<", FALSE, "num", 2),
              Cmp("type", "~", TRUE, "str", "n*"),
              Cmp("$owner", "=", FALSE, "str", O1)}

(* Keys and addresses in inclusions, and terms that are refused or panic.  *)
KeyExcluded == In("$owner", TRUE, "str", {O1})
KeyGlob == Cmp("$owner", "~", FALSE, "str", "n*")
KeyTerms == {In("$owner", FALSE, "str", {O1}), In("$owner", FALSE, "num", {1}),
             Cmp("$createdAtBlock", ">", FALSE, "num", 1000),
             Cmp("$owner", "=", FALSE, "num", 5), KeyGlob, KeyExcluded}

Parenthesis(not, expr) == [op |-> "()", not |-> not, nested |-> expr]
Single(xs) == {<<<<x>>>> : x \in xs}
Pairs(xs) == {<<<<x, y>>>> : x, y \in xs} \cup {<<<<x>>, <<y>>>> : x, y \in xs}
Parens(exprs) == {Parenthesis(n, e) : n \in BOOLEAN, e \in exprs}

Flat == Single(SomeTerms) \cup Pairs(SomeTerms)
Deep == Pairs(SomeTerms \cup Parens(Flat))
Triples == {<<<<x>>, <<y, z>>>> : x, y, z \in SomeTerms}

(* Pairs of terms and pairs under parentheses, whole or negated; every     *)
(* term under up to two negations; keys and addresses in inclusions that   *)
(* are not negated, or twice; queries outside the grammar; and one with a  *)
(* number for an address.                                                  *)
MCParsed ==
    {AllTokens} \cup Flat \cup Deep \cup Triples
    \cup Single({Parenthesis(TRUE, e) : e \in Deep \cup Triples})
    \cup Single(AllTerms)
    \cup Single({Parenthesis(TRUE, e) : e \in Single(AllTerms \cup Parens(Single(AllTerms)))})
    \cup Single(KeyTerms \ {KeyExcluded})
    \cup Single({Parenthesis(TRUE, <<<<t>>>>) : t \in {KeyExcluded, KeyGlob}})

(* The terms of all of them, with every negation and every comparison.     *)
MCTerm == UNION {{[t EXCEPT !.not = n, !.op = op] :
                     n \in BOOLEAN,
                     op \in IF t.op \in ComparisonOps THEN ComparisonOps ELSE {t.op}} :
                 t \in AllTerms \cup SomeTerms \cup KeyTerms}

(* AnswersMeanTheQuery relies on this.                                     *)
ASSUME PlainAssumption == (\A query \in MCParsed : NoKeyExcluded(query)) /\ KeysAreStrings

(* `$owner not in (...)`                                                   *)
NotInParsed == Single({KeyExcluded})
=============================================================================
