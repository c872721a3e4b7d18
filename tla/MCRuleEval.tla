---------------------------- MODULE MCRuleEval ----------------------------
(***************************************************************************)
(* One keyword leaf, two domain leaves that share the classification, one  *)
(* embedding leaf, and a leaf whose name is not defined.  Every group or    *)
(* negation of conditions of two levels as a policy of one route, every    *)
(* pair of conditions of two levels as a policy of two, malformed nodes,   *)
(* and one nesting too deep.                                               *)
(***************************************************************************)
EXTENDS RuleEval, TLC

CONSTANTS kw, math, law, bank, typo, domain, embedding

MCHeuristic == {kw}
MCML == {math, law, bank, typo}
MCDefined == {kw, math, law, bank}
MCSignal == math :> domain @@ law :> domain @@ bank :> embedding @@ typo :> embedding

Node(all, any, not, leaves) ==
    [all |-> all, any |-> any, not |-> not, leaves |-> leaves]
Is(l) == Node(Unset, Unset, Unset, <<l>>)
AllOf(s) == Node(s, Unset, Unset, <<>>)
AnyOf(s) == Node(Unset, s, Unset, <<>>)
Not(r) == Node(Unset, Unset, r, <<>>)

One == {Is(l) : l \in MCDefined}
Over(rs) ==
    {Not(r) : r \in rs} \cup {AllOf(<<p, q>>) : p, q \in rs}
                        \cup {AnyOf(<<p, q>>) : p, q \in rs}
Two == One \cup Over(One)

Three == Over(Two)

Malformed ==
    {Is(typo), Not(Is(typo)), AllOf(<<>>), AnyOf(<<>>), Not(AllOf(<<>>)),
     Node(Unset, Unset, Unset, <<>>),
     Node(Unset, Unset, Unset, <<kw, math>>),
     Node(Unset, Unset, Is(math), <<kw>>),
     Node(<<Is(kw)>>, <<Is(math)>>, Unset, <<>>),
     AnyOf(<<Is(kw), Node(<<Is(bank)>>, Unset, Unset, <<kw>>)>>),
     Not(Not(Not(Is(kw))))}

MCRulePolicies ==
    {<<r>> : r \in Three} \cup {<<p, q>> : p, q \in Two}
    \cup {<<r>> : r \in Malformed} \cup {<<p, r>> : p \in One, r \in Malformed}

\* The nodes of these policies, and how high their trees are.
MCRules ==
    Two \cup Three \cup Malformed
    \cup {AllOf(<<>>), Not(Not(Is(kw))), Node(<<Is(bank)>>, Unset, Unset, <<kw>>)}
MCHeight[r \in MCRules] ==
    CHOOSE n \in 0..4 : \A m \in 0..4 :
        n <= m <=> \A q \in Parts(r) : MCHeight[q] < m

\* The answers of leaves whose signal fails do not matter.
MCTurns ==
    {q \in [heur : [MCHeuristic -> BOOLEAN], says : [MCML -> BOOLEAN],
            down : SUBSET {domain, embedding}, smart : BOOLEAN] :
        /\ ~q.smart => q.down = {}
        /\ ~q.says[typo]
        /\ \A l \in MCML :
              (~q.smart \/ MCSignal[l] \in q.down) => ~q.says[l]}
=============================================================================
