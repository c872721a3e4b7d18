------------------------------ MODULE RuleEval ------------------------------
(***************************************************************************)
(* Which route a request matches (router/engine.go, rule.go, validate.go): *)
(* an accepted policy's routes are tried in order, each condition tree     *)
(* evaluated heuristics first, the classifiers asked only where a leaf is  *)
(* reached, once per signal, and not believed when they fail.  A policy is *)
(* here the sequence of its routes' conditions, a request what its leaves  *)
(* would say of the turn.                                                  *)
(***************************************************************************)
EXTENDS Naturals, Sequences, SequencesExt, FiniteSets, Filters

CONSTANTS
    Heuristic,      \* leaves computed from the request itself
    ML,             \* leaves that name a signal of the policy
    Signal,         \* Signal[l]: the classifier call that answers leaf l
    Defined,        \* leaves validateLeaf accepts; of ML, those whose signal exists
    MaxRuleDepth,
    Height,         \* of each node of the condition trees: above those under it
    RulePolicies,   \* the policies that are loaded
    Turns,          \* what the leaves would say of a request, see Turn
    Unset           \* a field that is not set

Leaf == Heuristic \cup ML
Signals == {Signal[l] : l \in ML}

\* heur and says: the answers of the leaves.  down: the signals whose call fails.
\* smart: whether a sidecar is configured; without one every call is refused.
Turn == [heur : [Heuristic -> BOOLEAN], says : [ML -> BOOLEAN],
         down : SUBSET Signals, smart : BOOLEAN]

Rules == DOMAIN Height

\* Rule: every field of a node is optional.  all and any hold sequences of
\* nodes, not a node, leaves the predicates that are set.
Rule == [all : {Unset} \cup Seq(Rules), any : {Unset} \cup Seq(Rules),
         not : {Unset} \cup Rules, leaves : Seq(Leaf)]

Sequel(kids) == IF kids = Unset THEN {} ELSE Range(kids)

\* The nodes under r.
Parts(r) ==
    Sequel(r.all) \cup Sequel(r.any) \cup (IF r.not = Unset THEN {} ELSE {r.not})

ASSUME RuleConstants ==
    /\ Heuristic \cap ML = {}
    /\ Defined \subseteq Leaf
    /\ DOMAIN Signal = ML
    /\ MaxRuleDepth \in Nat \ {0}
    /\ Turns \subseteq Turn

\* A condition decoded from a file is a finite tree.
ASSUME RuleTrees ==
    /\ Rules \subseteq Rule
    /\ Height \in [Rules -> Nat]
    /\ \A r \in Rules : \A q \in Parts(r) : Height[q] < Height[r]
    /\ RulePolicies \subseteq Seq(Rules)

VARIABLES
    pol,        \* the policy
    turn,       \* the request
    route,      \* the route to try next
    asked,      \* signals computed for this request
    calls,      \* calls made, per signal
    mlErr,      \* a signal consulted by the current route failed
    anyMLErr,   \* a signal failed that should have answered
    outcome     \* "loading", "refused", "deciding", "routed" (by route), "default"

ruleVars == <<pol, turn, route, asked, calls, mlErr, anyMLErr, outcome>>

-----------------------------------------------------------------------------
Combinators(r) == Cardinality({f \in {"all", "any", "not"} : r[f] # Unset})

LeavesOf[r \in Rules] ==
    Range(r.leaves) \cup UNION {LeavesOf[q] : q \in Parts(r)}

\* ruleUsesML
UsesML(r) == LeavesOf[r] \cap ML # {}

\* Mutant: a node may be a group and a condition at once.
OneShape_Mixed(r) ==
    \/ Combinators(r) = 1
    \/ Combinators(r) = 0 /\ Len(r.leaves) = 1

\* A node is one combinator or one leaf.
OneShape(r) ==
    \/ Combinators(r) = 1 /\ r.leaves = <<>>
    \/ Combinators(r) = 0 /\ Len(r.leaves) = 1

\* validateRule
Valid[r \in Rules] == [depth \in Nat |->
    /\ depth <= MaxRuleDepth
    /\ OneShape(r)
    /\ r.all # <<>> /\ r.any # <<>>
    /\ \A q \in Parts(r) : Valid[q][depth + 1]
    /\ Range(r.leaves) \subseteq Defined]

-----------------------------------------------------------------------------
(***************************************************************************)
(* evalState: the memo, the calls and the failures, threaded through the   *)
(* evaluation together with its result.                                    *)
(***************************************************************************)
EvalState == [asked : SUBSET Signals, calls : [Signals -> Nat],
              mlErr : BOOLEAN, anyMLErr : BOOLEAN]

Fails(s) == ~turn.smart \/ s \in turn.down

\* One call per signal: the answer or the failure is remembered.
Ask(s, st) ==
    [st EXCEPT !.asked = @ \cup {s},
               !.calls[s] = IF s \in st.asked THEN @ ELSE @ + 1]

\* mlFailed; smart mode being off is no degradation.
Failed(st) == [st EXCEPT !.mlErr = TRUE, !.anyMLErr = @ \/ turn.smart]

\* evalLeaf.  A name that is not defined is false, without a failure.
EvalLeaf(l, st) ==
    IF l \in Heuristic THEN [val |-> turn.heur[l], st |-> st]
    ELSE IF l \notin Defined THEN [val |-> FALSE, st |-> st]
    ELSE LET asked1 == Ask(Signal[l], st)
         IN  IF Fails(Signal[l]) THEN [val |-> FALSE, st |-> Failed(asked1)]
             ELSE [val |-> turn.says[l], st |-> asked1]

\* Mutant: the children in the order they are written.
CheapFirst_AsWritten(kids) == kids

Cheap == {r \in Rules : ~UsesML(r)}
Costly == Rules \ Cheap

\* The heuristic children, then those that need a model.
CheapFirst(kids) == Only(kids, Cheap) \o Only(kids, Costly)

\* evalGroup: the first child that equals isAny decides; eval evaluates a child.
EvalGroup(eval, kids, isAny, st) ==
    FoldLeft(LAMBDA acc, k : IF acc.val = isAny THEN acc ELSE eval[k][acc.st],
             [val |-> ~isAny, st |-> st], CheapFirst(kids))

\* eval's switch.
EvalNode(eval, r, st) ==
    IF r.all # Unset THEN EvalGroup(eval, r.all, FALSE, st)
    ELSE IF r.any # Unset THEN EvalGroup(eval, r.any, TRUE, st)
    ELSE IF r.not # Unset
    THEN LET e == eval[r.not][st] IN [val |-> ~e.val, st |-> e.st]
    ELSE IF r.leaves = <<>> THEN [val |-> FALSE, st |-> st]
    ELSE EvalLeaf(Head(r.leaves), st)

Eval[r \in Rules] == [st \in EvalState |-> EvalNode(Eval, r, st)]

-----------------------------------------------------------------------------
RuleInit ==
    /\ pol \in RulePolicies
    /\ turn \in Turns
    /\ route = 1
    /\ asked = {}
    /\ calls = [s \in Signals |-> 0]
    /\ mlErr = FALSE
    /\ anyMLErr = FALSE
    /\ outcome = "loading"

\* Load: one invalid condition refuses the whole policy.
Load ==
    /\ outcome = "loading"
    /\ outcome' = IF \A k \in DOMAIN pol : Valid[pol[k]][1]
                  THEN "deciding" ELSE "refused"
    /\ UNCHANGED <<pol, turn, route, asked, calls, mlErr, anyMLErr>>

\* Mutant: mlErr is kept from route to route.
Before_ErrKept == [asked |-> asked, calls |-> calls, mlErr |-> mlErr,
                   anyMLErr |-> anyMLErr]

\* A route starts with a clean mlErr.
Before == [asked |-> asked, calls |-> calls, mlErr |-> FALSE,
           anyMLErr |-> anyMLErr]

Leave(st) ==
    /\ asked' = st.asked
    /\ calls' = st.calls
    /\ mlErr' = st.mlErr
    /\ anyMLErr' = st.anyMLErr

\* Mutant: a failed signal does not veto the route.
Fires_Unvetoed(e) == e.val

\* A match that consulted a failed signal is no match.
Fires(e) == e.val /\ ~e.st.mlErr

\* The next route's condition; the first one that fires is taken.
TryRoute ==
    /\ outcome = "deciding"
    /\ route <= Len(pol)
    /\ LET e == Eval[pol[route]][Before]
       IN  /\ Leave(e.st)
           /\ outcome' = IF Fires(e) THEN "routed" ELSE outcome
           /\ route' = IF Fires(e) THEN route ELSE route + 1
    /\ UNCHANGED <<pol, turn>>

\* No route fired.
Default ==
    /\ outcome = "deciding"
    /\ route > Len(pol)
    /\ outcome' = "default"
    /\ UNCHANGED <<pol, turn, route, asked, calls, mlErr, anyMLErr>>

RuleNext == Load \/ TryRoute \/ Default

RuleSpec == RuleInit /\ [][RuleNext]_ruleVars

-----------------------------------------------------------------------------
\* The meaning of a condition: everything a node sets must hold, if the ML
\* leaves said what says does.
Holds[r \in Rules] == [says \in [ML -> BOOLEAN] |->
    /\ r.all # Unset => \A q \in Sequel(r.all) : Holds[q][says]
    /\ r.any # Unset => \E q \in Sequel(r.any) : Holds[q][says]
    /\ r.not # Unset => ~Holds[r.not][says]
    /\ \A l \in Range(r.leaves) :
          IF l \in Heuristic THEN turn.heur[l] ELSE says[l]]

\* What the leaves might have said where a signal failed.
Completions ==
    {s \in [ML -> BOOLEAN] : \A l \in ML : ~Fails(Signal[l]) => s[l] = turn.says[l]}

Concluded == outcome \in {"routed", "default"}
Chosen == route
FirstMatch(says) ==
    LET ms == {k \in DOMAIN pol : Holds[pol[k]][says]}
    IN  IF ms = {} THEN Len(pol) + 1 ELSE CHOOSE k \in ms : \A j \in ms : k <= j

\* The waterfall of an accepted policy is its plain reading, whatever the order
\* of evaluation, as long as no signal that was consulted failed: first match
\* wins, and no predicate that a node sets is silently ignored.
FirstMatchWins ==
    Concluded /\ (\A s \in asked : ~Fails(s)) =>
        \A says \in Completions : Chosen = FirstMatch(says)

\* A route fires only if its condition holds whatever the failed signals would
\* have said: an unavailable signal never causes a route to fire, "directly or
\* via not", and a degraded request never takes a route above the one it would
\* have matched with the answers.  Nor is a route without ML leaves that holds
\* lost to a failure ("heuristic routes still work"); and the request is
\* reported degraded exactly if a configured sidecar failed on any route.
FiresDefinitely ==
    /\ outcome = "routed" => \A says \in Completions : Holds[pol[route]][says]
    /\ Concluded => \A k \in DOMAIN pol :
                      ~UsesML(pol[k]) /\ Holds[pol[k]][turn.says] => Chosen <= k
    /\ Concluded => (anyMLErr <=> turn.smart /\ asked \cap turn.down # {})

Kids(r) ==
    IF r.all # Unset THEN r.all ELSE IF r.any # Unset THEN r.any ELSE <<>>
Settled(r) ==
    \E kid \in Range(Kids(r)) :
        ~UsesML(kid) /\ Holds[kid][turn.says] = (r.any # Unset)

\* Each signal is computed at most once per request, failing or not (a sidecar
\* that hangs costs one timeout per signal), and only for a route that was
\* reached, names it, and whose top group no heuristic child has decided.
AskedSparingly ==
    \A s \in asked :
        /\ calls[s] <= 1
        /\ \E k \in DOMAIN pol :
              /\ k <= route
              /\ ~Settled(pol[k])
              /\ \E l \in LeavesOf[pol[k]] \cap ML : Signal[l] = s
=============================================================================
