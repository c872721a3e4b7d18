----------------------------- MODULE Reconcile -----------------------------
(***************************************************************************)
(* Capability reconciliation (router/reconcile.go, caps.go, request.go): a *)
(* request rewritten for another model loses the features that model is    *)
(* known to reject, each from body and headers at once, and has its turns  *)
(* repaired.  The features run in the order of the code's table.  A beta   *)
(* token is known by the features its name belongs to; a content block is  *)
(* a model value.                                                          *)
(***************************************************************************)
EXTENDS Naturals, Sequences, SequencesExt, Filters

CONSTANTS
    Targets,        \* model ids a policy may name
    Supports,       \* Supports[t]: the features target t is not known to lack
    Betas,          \* tokens of the anthropic-beta header
    Owners,         \* Owners[b]: the features whose name test b passes
    Blocks,         \* content blocks
    Thinking,       \* those of type thinking or redacted_thinking
    Pairs,          \* a tool call and its result: <<use, result>>
    Absent,         \* a body field that is not there
    Originals       \* the requests that reach the reconciler

\* reconcileFeatures, in the order of the table.
Features == <<"context-1m", "effort", "thinking", "midconv-system">>
FeatureSet == Range(Features)

Roles == {"user", "assistant", "system", "none"}

\* A message.  A bare string counts as the one text block it is wrapped into;
\* "other" is content of neither form, "junk" an entry that is no map.
Message ==
    {m \in [role : Roles, kind : {"string", "blocks", "other", "junk"},
            blocks : Seq(Blocks)] :
        /\ m.kind = "string" => Len(m.blocks) = 1 /\ m.blocks[1] \notin Thinking
        /\ m.kind \in {"other", "junk"} => m.blocks = <<>>
        /\ m.kind = "junk" => m.role = "none"}

\* What matters of a request: the thinking config, the keys of output_config,
\* the kinds of the edits of context_management, the history, the header.
Request ==
    [model : Targets \cup {Absent},
     thinking : BOOLEAN,
     output : {Absent} \cup SUBSET {"effort", "format"},
     edits : {Absent} \cup SUBSET {"thinking", "other"},
     messages : Seq(Message),
     betas : SUBSET Betas]

ASSUME ReconcileConstants ==
    /\ Supports \in [Targets -> SUBSET FeatureSet]
    /\ Owners \in [Betas -> SUBSET FeatureSet]
    /\ Thinking \subseteq Blocks
    /\ Pairs \subseteq (Blocks \ Thinking) \X (Blocks \ Thinking)
    /\ Absent \notin Targets
    /\ \A s \in SUBSET {"effort", "format", "thinking", "other"} : Absent # s
    /\ Originals \subseteq Request

VARIABLES
    orig,       \* the request the client sent; the proxy keeps it for a retry
    target,
    req,        \* the request being rewritten
    at,         \* the next feature, then the repair, then done
    stripped    \* names of the stripped features, for the log

reconcileVars == <<orig, target, req, at, stripped>>

Repair == Len(Features) + 1
Done == Repair + 1

-----------------------------------------------------------------------------
HasBeta(r, f) == \E b \in r.betas : f \in Owners[b]
WithoutBetas(r, f) == {b \in r.betas : f \notin Owners[b]}

\* The table's detect functions.
Detect(f, r) ==
    \/ HasBeta(r, f)
    \/ f = "effort" /\ r.output # Absent /\ "effort" \in r.output
    \/ f = "thinking" /\ r.thinking
    \/ f = "thinking" /\ r.edits # Absent /\ "thinking" \in r.edits
    \/ f = "midconv-system" /\ \E m \in Range(r.messages) : m.role = "system"

\* The effort key goes, and an output_config without keys with it.
WithoutEffort(output) ==
    IF output = Absent \/ output \subseteq {"effort"} THEN Absent
    ELSE output \ {"effort"}

\* stripThinkingContextEdits: removing the last edit removes the field as well.
WithoutEdits(edits) ==
    IF edits = Absent \/ "thinking" \notin edits THEN edits
    ELSE IF edits = {"thinking"} THEN Absent ELSE edits \ {"thinking"}

\* stripThinkingFromHistory: thinking blocks go, and turns left without any.
Bare(m) == [m EXCEPT !.blocks = Only(@, Blocks \ Thinking)]
StripTurn(kept, m) ==
    IF m.kind # "blocks" THEN Append(kept, m)
    ELSE IF Bare(m).blocks = <<>> THEN kept ELSE Append(kept, Bare(m))
StripHistory(ms) == FoldLeft(StripTurn, <<>>, ms)

\* convertSystemToUser
SystemToUser(ms) ==
    [k \in DOMAIN ms |->
        IF ms[k].role = "system" THEN [ms[k] EXCEPT !.role = "user"] ELSE ms[k]]

WithoutSystem(ms) == Only(ms, {m \in Message : m.role # "system"})

\* Mutant: the thinking strip keeps user and assistant turns only.
Strip_DropsSystem(f, r) ==
    LET q == [r EXCEPT !.betas = WithoutBetas(r, f)]
    IN  CASE f = "context-1m" -> q
          [] f = "effort" -> [q EXCEPT !.output = WithoutEffort(@)]
          [] f = "thinking" ->
                [q EXCEPT !.thinking = FALSE,
                          !.messages = WithoutSystem(StripHistory(@)),
                          !.edits = WithoutEdits(@)]
          [] f = "midconv-system" -> [q EXCEPT !.messages = SystemToUser(@)]

\* The table's strip functions: body and header together.
Strip(f, r) ==
    LET q == [r EXCEPT !.betas = WithoutBetas(r, f)]
    IN  CASE f = "context-1m" -> q
          [] f = "effort" -> [q EXCEPT !.output = WithoutEffort(@)]
          [] f = "thinking" -> [q EXCEPT !.thinking = FALSE,
                                         !.messages = StripHistory(@),
                                         !.edits = WithoutEdits(@)]
          [] f = "midconv-system" -> [q EXCEPT !.messages = SystemToUser(@)]

\* Two consecutive turns of one role become one.
Mergeable(m, n) ==
    m.kind # "junk" /\ n.kind # "junk" /\ n.role # "none" /\ m.role = n.role
Joined(m, n) == [m EXCEPT !.kind = "blocks", !.blocks = @ \o n.blocks]

\* Mutant: the later turn's blocks come first.
Merge_Swapped(out, m) ==
    IF out # <<>> /\ Mergeable(Last(out), m)
    THEN Append(Front(out), [Joined(m, Last(out)) EXCEPT !.role = m.role])
    ELSE Append(out, m)

\* One round of repairAlternation.
Merge(out, m) ==
    IF out # <<>> /\ Mergeable(Last(out), m)
    THEN Append(Front(out), Joined(Last(out), m))
    ELSE Append(out, m)

RepairAlternation(ms) == IF Len(ms) < 2 THEN ms ELSE FoldLeft(Merge, <<>>, ms)

-----------------------------------------------------------------------------
\* The proxy has parsed a copy of the body and cloned the headers.
ReconcileInit ==
    /\ orig \in Originals
    /\ target \in Targets
    /\ req = [orig EXCEPT !.model = target]
    /\ at = 1
    /\ stripped = {}

Lacks(t, f) == f \notin Supports[t]

\* The target lacks a feature the request uses.
StripFeature ==
    /\ at < Repair
    /\ LET f == Features[at]
       IN  /\ Lacks(target, f) /\ Detect(f, req)
           /\ req' = Strip(f, req)
           /\ stripped' = stripped \cup {f}
    /\ at' = at + 1
    /\ UNCHANGED <<orig, target>>

KeepFeature ==
    /\ at < Repair
    /\ LET f == Features[at] IN ~(Lacks(target, f) /\ Detect(f, req))
    /\ at' = at + 1
    /\ UNCHANGED <<orig, target, req, stripped>>

\* Mutant: only a converted system message asks for a repair.
RepairTurns_SystemOnly ==
    /\ at = Repair
    /\ req' = IF "midconv-system" \in stripped
              THEN [req EXCEPT !.messages = RepairAlternation(@)]
              ELSE req
    /\ at' = Done
    /\ UNCHANGED <<orig, target, stripped>>

\* Mutant: the repair is the thinking strip's own.
RepairTurns_ThinkingOnly ==
    /\ at = Repair
    /\ req' = IF "thinking" \in stripped
              THEN [req EXCEPT !.messages = RepairAlternation(@)]
              ELSE req
    /\ at' = Done
    /\ UNCHANGED <<orig, target, stripped>>

\* One repair at the end, if anything was stripped.
RepairTurns ==
    /\ at = Repair
    /\ req' = IF stripped # {}
              THEN [req EXCEPT !.messages = RepairAlternation(@)]
              ELSE req
    /\ at' = Done
    /\ UNCHANGED <<orig, target, stripped>>

ReconcileNext == StripFeature \/ KeepFeature \/ RepairTurns

ReconcileSpec == ReconcileInit /\ [][ReconcileNext]_reconcileVars

-----------------------------------------------------------------------------
\* What a changed request is refused for in turn: an empty output_config or
\* context_management, a turn without blocks, and turns that do not alternate,
\* whatever combination of strips emptied, dropped or converted messages.
EmptyTurn(m) == m.kind \in {"blocks", "other"} /\ m.blocks = <<>>
WellFormed ==
    at = Done /\ stripped # {} =>
        /\ req.output = {} => orig.output = {}
        /\ req.edits = {} => orig.edits = {}
        /\ (\E m \in Range(req.messages) : EmptyTurn(m))
           => \E m0 \in Range(orig.messages) : EmptyTurn(m0)
        /\ \A k \in 2..Len(req.messages) :
              ~Mergeable(req.messages[k - 1], req.messages[k])

\* What the messages say, on which side.
Side(role) == IF role = "system" THEN "user" ELSE role
Spoken(m) == [j \in DOMAIN m.blocks |-> <<Side(m.role), m.blocks[j]>>]
Said(ms) == FoldLeft(LAMBDA said, m : said \o Spoken(m), <<>>, ms)
Kept(said) ==
    IF "thinking" \in stripped THEN Only(said, Roles \X (Blocks \ Thinking))
    ELSE said

\* A call is an assistant turn, and in the turn right after it is its result.
Paired(ms, p) ==
    \A k \in DOMAIN ms :
        p[1] \in Range(ms[k].blocks) =>
            /\ ms[k].role = "assistant"
            /\ k < Len(ms)
            /\ ms[k + 1].role = "user"
            /\ p[2] \in Range(ms[k + 1].blocks)
NoSystemCalls(ms, p) ==
    \A m \in Range(ms) : m.role = "system" => p[1] \notin Range(m.blocks)

\* Converting and merging lose no block and change no order: the history says
\* on each side what the original said, without the thinking that was stripped;
\* and a tool call keeps its result in the turn right after it, even where a
\* system message stood between the two.
NothingElseLost ==
    at = Done =>
        /\ Said(req.messages) = Kept(Said(orig.messages))
        /\ "midconv-system" \in stripped =>
              \A p \in Pairs :
                  Paired(WithoutSystem(orig.messages), p)
                      /\ NoSystemCalls(orig.messages, p) => Paired(req.messages, p)

\* The order of the table does not matter ("order is irrelevant to the result
\* -- the four are independent").
RunFeature(r, f) == IF Lacks(target, f) /\ Detect(f, r) THEN Strip(f, r) ELSE r
Orders == {s \in [1..Len(Features) -> FeatureSet] : Range(s) = FeatureSet}

OrderIrrelevant ==
    at = Repair =>
        \A s \in Orders :
            req = FoldLeft(RunFeature, [orig EXCEPT !.model = target], s)
=============================================================================
