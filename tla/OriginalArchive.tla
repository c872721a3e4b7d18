-------------------------- MODULE OriginalArchive --------------------------
(***************************************************************************)
(* What the retrieval hints promise (server/store.go, server/hook.go): an  *)
(* alias, once handed to a model, means one content for good.  A retrieval *)
(* is a miss or that content, never another one.  The archive may lose     *)
(* contents; it never mixes them up.  OriginalStore.tla implements it.     *)
(***************************************************************************)
EXTENDS Naturals

CONSTANTS
    Contents,       \* contents that were reduced
    NoContent,      \* a miss
    Getters         \* concurrent /whittle/get calls

VARIABLES
    registry,       \* the content each alias handed out stands for
    answer          \* the last answer of each getter

vars == <<registry, answer>>

\* `whole` is FALSE when the bytes are a prefix of the content.
Answers == [id : Nat, c : Contents \cup {NoContent}, whole : BOOLEAN]

Init ==
    /\ registry = [id \in {} |-> NoContent]
    /\ answer = [g \in Getters |-> [id |-> 0, c |-> NoContent, whole |-> TRUE]]

\* Aliases are handed out: what the earlier ones stand for does not change.
Issue ==
    /\ registry' \in [DOMAIN registry' -> Contents]
    /\ DOMAIN registry \subseteq DOMAIN registry'
    /\ \A id \in DOMAIN registry : registry'[id] = registry[id]
    /\ UNCHANGED answer

\* A retrieval: a miss, or the content of the alias.
Retrieve(g) ==
    LET a == answer'[g]
    IN  /\ a \in Answers
        /\ a.c # NoContent =>
              a.id \in DOMAIN registry /\ a.c = registry[a.id]
        /\ answer' = [answer EXCEPT ![g] = a]
        /\ UNCHANGED registry

Next == Issue \/ \E g \in Getters : Retrieve(g)

Spec == Init /\ [][Next]_vars
=============================================================================
