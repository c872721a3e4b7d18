---------------------------- MODULE MCReconcile ----------------------------
(***************************************************************************)
(* A session moved from a capable model to itself or to one that lacks     *)
(* everything (the compiled-in table knows only these two).  Histories of  *)
(* up to four turns, with system messages and thinking-only turns anywhere *)
(* after the first, and every way of using each feature.                   *)
(***************************************************************************)
EXTENDS Reconcile, TLC

CONSTANTS opus, haiku, a, b, think, use, result

MCTargets == {opus, haiku}
MCSupports == opus :> FeatureSet @@ haiku :> {}
MCBetas == {"context-1m-2025", "effort-2025", "interleaved-thinking-2025",
            "mid-conversation-system-2025", "oauth-2025"}
MCOwners == "context-1m-2025" :> {"context-1m"} @@ "effort-2025" :> {"effort"}
         @@ "interleaved-thinking-2025" :> {"thinking"}
         @@ "mid-conversation-system-2025" :> {"midconv-system"}
         @@ "oauth-2025" :> {}
MCBlocks == {a, b, think, use, result}
MCThinking == {think}
MCPairs == {<<use, result>>}

Turn(role, kind, blocks) == [role |-> role, kind |-> kind, blocks |-> blocks]
Ask == Turn("user", "string", <<a>>)
Turns == {Ask, Turn("user", "blocks", <<result, b>>),
          Turn("assistant", "blocks", <<think>>),
          Turn("assistant", "blocks", <<think, use>>),
          Turn("system", "string", <<b>>)}
Odd == {Turn("none", "junk", <<>>), Turn("user", "other", <<>>)}

Histories ==
    {<<Ask>> \o s : s \in BoundedSeq(Turns, 3)}
    \cup {<<Ask>> \o s : s \in BoundedSeq(Turns \cup Odd, 2)} \cup {<<>>}

MCOriginals ==
    [model : {opus}, thinking : BOOLEAN,
     output : {Absent, {}, {"effort"}, {"effort", "format"}},
     edits : {Absent, {"thinking"}, {"thinking", "other"}},
     messages : Histories,
     betas : {{}, MCBetas} \cup {{t} : t \in MCBetas}]
=============================================================================
