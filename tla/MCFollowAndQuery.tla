-------------------------- MODULE MCFollowAndQuery --------------------------
(* Queries for FollowAndQuery: every operator, negated where it can be, on *)
(* attributes that change, that are shared and that do not exist.          *)
EXTENDS FollowAndQuery, MCFollowEvents

Cmp(var, op, not, kind, val) ==
    [op |-> op, not |-> not, kind |-> kind, var |-> var, val |-> val]
In(var, not, kind, vals) ==
    [op |-> "in", not |-> not, kind |-> kind, var |-> var, vals |-> vals]

MCStringLess == {<<"art", "nft">>}
MCGlobMatches == {<<"n*", "nft">>}

Single ==
    {Cmp("$owner", "=", n, "str", o1) : n \in BOOLEAN}
    \cup {Cmp("version", op, FALSE, "num", 1) : op \in ComparisonOps \cup {"="}}
    \cup {Cmp("type", op, FALSE, "str", "art") : op \in {"<=", ">"}}
    \cup {Cmp("type", "~", n, "str", p) : n \in BOOLEAN, p \in {"n*", "["}}
    \cup {In("$expiration", n, "num", {2, 3}) : n \in BOOLEAN}
    \cup {Cmp("$createdAtBlock", "=", TRUE, "num", 1),
          Cmp("version", "=", TRUE, "str", "nft")}

MCQueries ==
    {{{t}} : t \in Single}
    \cup {AllEntities,
          {{Cmp("$owner", "=", FALSE, "str", o1), Cmp("version", "<", FALSE, "num", 2)}},
          {{Cmp("$owner", "=", TRUE, "str", o1)}, {Cmp("version", "=", FALSE, "num", 2)}}}

KeySymmetry == Permutations({k1, k2})

(* IdOrderIsSequenceOrder relies on this.                                  *)
ASSUME PositionsAssumption == PositionsAscend /\ SequencesFit
=============================================================================
