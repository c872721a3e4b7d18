SPECIFICATION RuleSpec
CONSTANTS
    kw = kw
    math = math
    law = law
    bank = bank
    typo = typo
    domain = domain
    embedding = embedding
    Heuristic <- MCHeuristic
    ML <- MCML
    Signal <- MCSignal
    Defined <- MCDefined
    MaxRuleDepth = 3
    Height <- MCHeight
    RulePolicies <- MCRulePolicies
    Turns <- MCTurns
    Unset = Unset
INVARIANTS
    FirstMatchWins
    FiresDefinitely
    AskedSparingly
CHECK_DEADLOCK FALSE
