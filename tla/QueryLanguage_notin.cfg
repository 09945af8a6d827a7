\* An inclusion that is negated, on an address.
SPECIFICATION Spec
CONSTANTS
    o1 = o1  o2 = o2  O1 = O1
    Key <- MCKey
    Address = {o1, o2}
    Body <- MCBody
    Attributes <- MCAttributes
    BTL = {1}
    Wrap = 1024
    IndexBase = 4
    StringLess <- MCStringLess
    GlobMatches <- MCGlobMatches
    Term <- MCTerm
    MaxNesting = 2
    Parsed <- NotInParsed
    Ident <- MCIdent
    Lower <- MCLower
    View <- MCView
CHECK_DEADLOCK FALSE
INVARIANTS AnswersMeanTheQuery
