--------------------------- MODULE ProxyContract ---------------------------
(***************************************************************************)
(* What the routing proxy promises each client request, whatever the       *)
(* policy, the classifier, the session store and the blocklist do: at most *)
(* one rewritten attempt; a rewrite the upstream rejects (400, 403) is     *)
(* followed by the original and nothing else; one answer, which is the     *)
(* upstream's whenever the upstream answered at all.  docs/ROUTER.md, 7.   *)
(***************************************************************************)
EXTENDS Naturals, Sequences

CONSTANTS
    Requests,
    Statuses,       \* upstream statuses
    Rejections,     \* those that trigger mode B
    Lost,           \* a transport failure instead of a status
    NoReply         \* the client has not been answered

VARIABLES
    sent,           \* sent[r]: what went upstream, in order
    heard,          \* heard[r]: what came back, in order
    reply           \* reply[r]: what the client was answered

vars == <<sent, heard, reply>>

Bodies == {"routed", "original"}
Outcomes == Statuses \cup {Lost}
Replies == [status : Statuses \cup {Lost}, from : Bodies \cup {"proxy"}]

Init ==
    /\ sent = [r \in Requests |-> <<>>]
    /\ heard = [r \in Requests |-> <<>>]
    /\ reply = [r \in Requests |-> NoReply]

\* The answer due once `h` came back for `s`: none while a retry is due, the
\* proxy's own 502 when nothing ever came back, the rejected rewrite's answer
\* when the retry got lost, and the last answer otherwise.
Verdict(s, h) ==
    IF Len(h) = 1
    THEN IF h[1] = Lost THEN [status |-> Lost, from |-> "proxy"]
         ELSE IF s[1] = "routed" /\ h[1] \in Rejections THEN NoReply
         ELSE [status |-> h[1], from |-> s[1]]
    ELSE IF h[2] = Lost THEN [status |-> h[1], from |-> s[1]]
         ELSE [status |-> h[2], from |-> s[2]]

\* The first attempt, rewritten or not.
Send(r, body) ==
    /\ reply[r] = NoReply
    /\ sent[r] = <<>>
    /\ sent' = [sent EXCEPT ![r] = <<body>>]
    /\ UNCHANGED <<heard, reply>>

\* The single retry: only ever the original, only after a rejected rewrite.
Retry(r) ==
    /\ reply[r] = NoReply
    /\ sent[r] = <<"routed">>
    /\ Len(heard[r]) = 1
    /\ heard[r][1] \in Rejections
    /\ sent' = [sent EXCEPT ![r] = <<"routed", "original">>]
    /\ UNCHANGED <<heard, reply>>

Hear(r, o) ==
    /\ reply[r] = NoReply
    /\ Len(heard[r]) < Len(sent[r])
    /\ heard' = [heard EXCEPT ![r] = Append(@, o)]
    /\ reply' = [reply EXCEPT ![r] = Verdict(sent[r], heard'[r])]
    /\ UNCHANGED sent

Next ==
    \E r \in Requests :
        \/ \E b \in Bodies : Send(r, b)
        \/ Retry(r)
        \/ \E o \in Outcomes : Hear(r, o)

Spec == Init /\ [][Next]_vars
=============================================================================
