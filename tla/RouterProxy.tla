---------------------------- MODULE RouterProxy ----------------------------
(***************************************************************************)
(* The routing proxy (router/proxy.go, engine.go Decide, config.go):       *)
(* concurrent requests share the live policy (an atomic pointer swapped by *)
(* SIGHUP), the session memory (SessionMemory.tla) and the account-global  *)
(* entitlement blocklist.  Each request is a handler goroutine with a      *)
(* program counter; a step is the code between two accesses to shared      *)
(* state or to the network.  Which route of the policy matches is the rule *)
(* evaluation's business and left open here.                               *)
(***************************************************************************)
EXTENDS Integers, Sequences

CONSTANTS
    Requests,
    Sessions, NoSession,    \* X-Claude-Code-Session-Id values; "" is none
    Names, NoTier,          \* tier names; NoTier is the "-" of a no-op
    Models, NoModel,        \* model ids, canonicalized; NoModel is ""
    NoPin,
    Policies,               \* the policies a file may hold
    NoPolicy,               \* the nil policy
    BadPolicy,              \* a file that does not load
    Inputs,                 \* the requests clients send
    Statuses, Rejections, Denied, Lost, NoReply,
    BlockTTL,               \* entitlementBlockTTL
    MaxTime                 \* bound on the clock (model bound)

Keep == "keep"
Requested == "requested"
Range1(s) == {s[k] : k \in DOMAIN s}

Policy ==
    [tiers : Seq(Names),            \* cheap to capable
     model : [Names -> Models],
     default : Names \cup {Requested},
     routes : SUBSET (Names \cup {Keep}),   \* the targets of the routes
     sticky : BOOLEAN, jump : Nat,
     pins : BOOLEAN]                \* a pin header is configured

\* What matters of a client request.  kind: "sibling" is any path or method
\* but POST /v1/messages, "unbuffered" a body over the cap or a failed read,
\* "unparseable" a body Extract rejects, "opaque" one only reconcile rejects.
Input ==
    [kind : {"sibling", "unbuffered", "unparseable", "opaque", "message"},
     sess : Sessions \cup {NoSession},
     model : Models \cup {NoModel},
     pin : Names \cup {NoPin}]

ASSUME ProxyConstants ==
    /\ NoSession \notin Sessions
    /\ NoTier \notin Names /\ NoPin \notin Names
    /\ {Keep, Requested} \cap (Names \cup {NoTier}) = {}
    /\ NoModel \notin Models
    /\ Policies \subseteq Policy
    /\ NoPolicy \notin Policies /\ BadPolicy \notin Policies
    /\ Inputs \subseteq Input
    /\ Rejections \subseteq Statuses /\ Denied \in Rejections
    /\ Lost \notin Statuses
    /\ NoReply \notin [status : Statuses \cup {Lost},
                       from : {"routed", "original", "proxy"}]
    /\ BlockTTL \in Nat \ {0}
    /\ MaxTime \in Nat

VARIABLES
    live,       \* Proxy.policy: the policy pointer
    mem,        \* the session memory
    blocked,    \* Proxy.blocked: tier -> blocked until (0: never blocked)
    clock,
    h,          \* h[r]: the handler of request r
    sent,       \* sent[r]: what r's handler sent upstream
    heard,      \* heard[r]: what came back
    reply       \* reply[r]: what the client was answered

shared == <<live, mem, blocked, clock>>
wire == <<sent, heard, reply>>
vars == <<live, mem, blocked, clock, h, sent, heard, reply>>

Steps == {"idle", "accepted", "deciding", "recording", "guarding", "routing",
          "passing", "awaiting", "buffering", "classifying", "retrying",
          "done"}

Handler ==
    [at : Steps,
     in : Input,
     pol : Policies \cup {NoPolicy},
     tier : Names \cup {NoTier},
     model : Models \cup {NoModel},
     since : 0..MaxTime]            \* when the blocklist was consulted

AnyInput == [kind |-> "sibling", sess |-> NoSession, model |-> NoModel,
             pin |-> NoPin]
Blank == [at |-> "idle", in |-> AnyInput, pol |-> NoPolicy, tier |-> NoTier,
          model |-> NoModel, since |-> 0]

TypeOK ==
    /\ live \in Policies \cup {NoPolicy}
    /\ mem \in [Sessions -> Names \cup {NoTier}]
    /\ blocked \in [Names -> 0..(MaxTime + BlockTTL)]
    /\ clock \in 0..MaxTime
    /\ h \in [Requests -> Handler]
    /\ sent \in [Requests -> Seq({"routed", "original"})]
    /\ heard \in [Requests -> Seq(Statuses \cup {Lost})]
    /\ reply \in [Requests -> [status : Statuses \cup {Lost},
                               from : {"routed", "original", "proxy"}]
                              \cup {NoReply}]

\* ListenAndServe: a policy file that does not load means transparent
\* passthrough until one does.
Init ==
    /\ live \in Policies \cup {NoPolicy}
    /\ mem = [s \in Sessions |-> NoTier]
    /\ blocked = [n \in Names |-> 0]
    /\ clock = 0
    /\ h = [r \in Requests |-> Blank]
    /\ sent = [r \in Requests |-> <<>>]
    /\ heard = [r \in Requests |-> <<>>]
    /\ reply = [r \in Requests |-> NoReply]

-----------------------------------------------------------------------------
\* tierRank: the band of a tier, 0 if the policy has no such tier.
TierRank(p, n) ==
    IF n \in Range1(p.tiers)
    THEN CHOOSE k \in DOMAIN p.tiers : p.tiers[k] = n
    ELSE 0

\* tierModel
TierModel(p, n) == IF TierRank(p, n) = 0 THEN NoModel ELSE p.model[n]

\* Stickiness: a downgrade of fewer than min_band_jump bands is damped.
Damped(p, cur, new) ==
    LET c == TierRank(p, cur)
        n == TierRank(p, new)
    IN  c # 0 /\ n # 0 /\ n < c /\ c - n < p.jump

\* SessionStore.Current and Set, which do nothing without a session.
CurrentTier(s) == IF s \in Sessions THEN mem[s] ELSE NoTier
\* Mutant: the empty session id is stored like any other.
SetTier_Sessionless(s, t) ==
    [x \in Sessions \cup {s} |-> IF x = s THEN t ELSE mem[x]]

SetTier(s, t) == [x \in Sessions |-> IF x = s THEN t ELSE mem[x]]

\* The pin header names a tier of the policy.
Pinned(r) == h[r].pol.pins /\ TierRank(h[r].pol, h[r].in.pin) # 0

\* IsNoOp
NoOp(model, in) == model \in {NoModel, in.model}

\* The handler moves to step `at`.
Goto(r, at) == h' = [h EXCEPT ![r].at = at]

\* Decide returned: a no-op is passed through, anything else is guarded.
Decided(r, tier, model) ==
    h' = [h EXCEPT ![r] = [@ EXCEPT
            !.at = IF NoOp(model, h[r].in) THEN "passing" ELSE "guarding",
            !.tier = tier,
            !.model = model]]

-----------------------------------------------------------------------------
\* A request arrives and its body is read.
Accept(r) ==
    /\ h[r].at = "idle"
    /\ \E in \in Inputs : h' = [h EXCEPT ![r].at = "accepted", ![r].in = in]
    /\ UNCHANGED <<shared, wire>>

\* Requests that are never routed go on as they came.
PassUnrouted(r) ==
    /\ h[r].at = "accepted"
    /\ h[r].in.kind \in {"sibling", "unbuffered"}
    /\ Goto(r, "passing")
    /\ UNCHANGED <<shared, wire>>

\* The policy pointer is loaded once; no policy, or a body Extract cannot
\* parse, passes the request through.
LoadPolicy(r) ==
    /\ h[r].at = "accepted"
    /\ h[r].in.kind \notin {"sibling", "unbuffered"}
    /\ h' = [h EXCEPT
               ![r].pol = live,
               ![r].at = IF live = NoPolicy \/ h[r].in.kind = "unparseable"
                         THEN "passing" ELSE "deciding"]
    /\ UNCHANGED <<shared, wire>>

\* Mutant: a pin is remembered for the session.
DecidePin_Writes(r) ==
    /\ h[r].at = "deciding"
    /\ Pinned(r)
    /\ mem' = SetTier(h[r].in.sess, h[r].in.pin)
    /\ Decided(r, h[r].in.pin, TierModel(h[r].pol, h[r].in.pin))
    /\ UNCHANGED <<live, blocked, clock, wire>>

\* Decide: a pin wins outright and never writes the session.
DecidePin(r) ==
    /\ h[r].at = "deciding"
    /\ Pinned(r)
    /\ Decided(r, h[r].in.pin, TierModel(h[r].pol, h[r].in.pin))
    /\ UNCHANGED <<shared, wire>>

\* A route to a tier matched: the tier is recorded for the session.
DecideRoute(r) ==
    /\ h[r].at = "deciding"
    /\ ~Pinned(r)
    /\ \E t \in h[r].pol.routes \ {Keep} :
          /\ mem' = SetTier(h[r].in.sess, t)
          /\ Decided(r, t, TierModel(h[r].pol, t))
    /\ UNCHANGED <<live, blocked, clock, wire>>

\* A route to "keep" matched: the session's tier, or the default if there is
\* none; a tier the policy lost, or the default "requested", has no model.
DecideKeep(r) ==
    /\ h[r].at = "deciding"
    /\ ~Pinned(r)
    /\ Keep \in h[r].pol.routes
    /\ LET p == h[r].pol
           cur == CurrentTier(h[r].in.sess)
           t == IF cur # NoTier THEN cur
                ELSE IF p.default = Requested THEN NoTier ELSE p.default
       IN  Decided(r, t, TierModel(p, t))
    /\ UNCHANGED <<shared, wire>>

\* No route matched and the default is "requested": a no-op.
DecideRequested(r) ==
    /\ h[r].at = "deciding"
    /\ ~Pinned(r)
    /\ h[r].pol.default = Requested
    /\ Decided(r, NoTier, h[r].in.model)
    /\ UNCHANGED <<shared, wire>>

\* No route matched and the default is a tier: the session's tier is read and
\* damps the downgrade.  The store's lock is released here.
DecideDefault(r) ==
    /\ h[r].at = "deciding"
    /\ ~Pinned(r)
    /\ h[r].pol.default # Requested
    /\ LET p == h[r].pol
           cur == CurrentTier(h[r].in.sess)
           t == IF p.sticky /\ cur # NoTier /\ Damped(p, cur, p.default)
                THEN cur ELSE p.default
       IN  h' = [h EXCEPT ![r].at = "recording", ![r].tier = t]
    /\ UNCHANGED <<shared, wire>>

\* Mutant: the tier's model is looked up in the policy now live.
RecordDefault_Reloads(r) ==
    /\ h[r].at = "recording"
    /\ mem' = SetTier(h[r].in.sess, h[r].tier)
    /\ Decided(r, h[r].tier, TierModel(live, h[r].tier))
    /\ UNCHANGED <<live, blocked, clock, wire>>

\* ... and the outcome is written back under a second acquisition.
RecordDefault(r) ==
    /\ h[r].at = "recording"
    /\ mem' = SetTier(h[r].in.sess, h[r].tier)
    /\ Decided(r, h[r].tier, TierModel(h[r].pol, h[r].tier))
    /\ UNCHANGED <<live, blocked, clock, wire>>

Blocked(n) == clock < blocked[n]

\* A blocked tier, a context the model cannot hold and a body reconcile
\* rejects leave the request as it came; otherwise it is rewritten.
GuardBlocked(r) ==
    /\ h[r].at = "guarding"
    /\ Blocked(h[r].tier)
    /\ Goto(r, "passing")
    /\ UNCHANGED <<shared, wire>>

GuardContext(r) ==
    /\ h[r].at = "guarding"
    /\ ~Blocked(h[r].tier)
    /\ Goto(r, "passing")
    /\ UNCHANGED <<shared, wire>>

\* Mutant: the blocklist is not consulted.
Rewrite_Unguarded(r) ==
    /\ h[r].at = "guarding"
    /\ h[r].in.kind = "message"
    /\ h' = [h EXCEPT ![r].at = "routing", ![r].since = clock]
    /\ UNCHANGED <<shared, wire>>

Rewrite(r) ==
    /\ h[r].at = "guarding"
    /\ ~Blocked(h[r].tier)
    /\ h[r].in.kind = "message"
    /\ h' = [h EXCEPT ![r].at = "routing", ![r].since = clock]
    /\ UNCHANGED <<shared, wire>>

-----------------------------------------------------------------------------
Send(r, from, body) ==
    /\ h[r].at = from
    /\ Goto(r, "awaiting")
    /\ sent' = [sent EXCEPT ![r] = Append(@, body)]
    /\ UNCHANGED <<shared, heard, reply>>

\* forward, passthrough (and passthroughStream), and the mode B retry.
SendRouted(r) == Send(r, "routing", "routed")
SendOriginal(r) == Send(r, "passing", "original")
\* Mutant: the retry sends the rewritten body again.
SendRetry_Rewrite(r) == Send(r, "retrying", "routed")

SendRetry(r) == Send(r, "retrying", "original")

Awaiting(r) == h[r].at = "awaiting"
LastSent(r) == sent[r][Len(sent[r])]

\* The client is answered: the commit point, and the end of the handler.
Answer(r, o, status, from) ==
    /\ heard' = [heard EXCEPT ![r] = Append(@, o)]
    /\ reply' = [reply EXCEPT ![r] = [status |-> status, from |-> from]]
    /\ h' = [h EXCEPT ![r] = [Blank EXCEPT !.at = "done"]]
    /\ UNCHANGED <<shared, sent>>

\* A status that is final: anything for an original, anything but 400 and 403
\* for a rewrite.
Relay(r, o) ==
    /\ Awaiting(r)
    /\ o \in Statuses
    /\ LastSent(r) = "routed" => o \notin Rejections
    /\ Answer(r, o, o, LastSent(r))

\* modeC: nothing was heard of the only attempt.
TransportError(r) ==
    /\ Awaiting(r)
    /\ Len(sent[r]) = 1
    /\ Answer(r, Lost, Lost, "proxy")

\* Mutant: a lost retry ends the handler without an answer.
RetryLost_Silent(r) ==
    /\ Awaiting(r)
    /\ Len(sent[r]) = 2
    /\ h' = [h EXCEPT ![r] = [Blank EXCEPT !.at = "done"]]
    /\ heard' = [heard EXCEPT ![r] = Append(@, Lost)]
    /\ UNCHANGED <<shared, sent, reply>>

\* The retry could not be sent: the buffered rejection is relayed.
RetryLost(r) ==
    /\ Awaiting(r)
    /\ Len(sent[r]) = 2
    /\ Answer(r, Lost, heard[r][1], "routed")

\* The headers of a rejection of the rewrite: its error body is to be read.
RejectionHeaders(r) ==
    /\ Awaiting(r)
    /\ LastSent(r) = "routed"
    /\ Goto(r, "buffering")
    /\ UNCHANGED <<shared, wire>>

\* The read of the error body ends, in full or not: its error is ignored, and
\* a body cut short only names no error type.
Rejected(r, o) ==
    /\ h[r].at = "buffering"
    /\ o \in Rejections
    /\ heard' = [heard EXCEPT ![r] = Append(@, o)]
    /\ Goto(r, "classifying")
    /\ UNCHANGED <<shared, sent, reply>>

\* A 403 permission_error blocks the tier; the retry is next in any case.
Classify(r) ==
    /\ h[r].at = "classifying"
    /\ blocked' = IF heard[r][1] = Denied
                  THEN [blocked EXCEPT ![h[r].tier] = clock + BlockTTL]
                  ELSE blocked
    /\ Goto(r, "retrying")
    /\ UNCHANGED <<live, mem, clock, wire>>

-----------------------------------------------------------------------------
\* SIGHUP: ReloadFile swaps the policy in, or keeps the old one on any error.
Reloaded(f) == IF f = BadPolicy THEN live ELSE f

Reload ==
    /\ \E f \in Policies \cup {BadPolicy} : live' = Reloaded(f)
    /\ UNCHANGED <<mem, blocked, clock, h, wire>>

\* The session store forgets: idle TTL or eviction (SessionMemory!Forget).
Forget ==
    /\ \E s \in Sessions : mem' = [mem EXCEPT ![s] = NoTier]
    /\ UNCHANGED <<live, blocked, clock, h, wire>>

Tick ==
    /\ clock < MaxTime
    /\ clock' = clock + 1
    /\ UNCHANGED <<live, mem, blocked, h, wire>>

\* What the handler of an accepted request does of itself.
Serve(r) ==
    \/ PassUnrouted(r) \/ LoadPolicy(r)
    \/ DecidePin(r) \/ DecideRoute(r) \/ DecideKeep(r)
    \/ DecideRequested(r) \/ DecideDefault(r) \/ RecordDefault(r)
    \/ GuardBlocked(r) \/ GuardContext(r) \/ Rewrite(r)
    \/ SendRouted(r) \/ SendOriginal(r) \/ SendRetry(r)
    \/ Classify(r)

\* What comes of its waits for the upstream.
Outcome(r) ==
    \/ \E o \in Statuses : Relay(r, o) \/ Rejected(r, o)
    \/ RejectionHeaders(r)
    \/ TransportError(r) \/ RetryLost(r)

Next ==
    \/ \E r \in Requests : Accept(r) \/ Serve(r) \/ Outcome(r)
    \/ Reload \/ Forget \/ Tick

Spec == Init /\ [][Next]_vars

\* A handler goroutine is scheduled.  Nothing is supposed of its waits: the
\* transport bounds the one for the response headers, but neither dialling,
\* the TLS handshake and the sending of the body nor the read of a rejection's
\* body.
FairSpec == Spec /\ \A r \in Requests : WF_vars(Serve(r))

-----------------------------------------------------------------------------
\* A handler whose rewrite is about to go, or is, upstream.
Routing(r) ==
    \/ h[r].at = "routing"
    \/ h[r].at \in {"awaiting", "buffering", "classifying"} /\ LastSent(r) = "routed"

\* The entitlement block holds: while a tier is blocked, the only rewrites to
\* it are those whose guard was passed no later than the denial that set the
\* block, however the requests overlap and however often the tier is denied
\* ("never route to an entitlement-blocked tier (a prior 403)").
BlockHonoured ==
    \A r \in Requests :
        Routing(r) /\ Blocked(h[r].tier)
        => h[r].since <= blocked[h[r].tier] - BlockTTL

\* A rewrite always goes to a tier of the policy its handler loaded, with the
\* model that policy gives it, and never to the model the client asked for --
\* across reloads, and whatever tier an older policy left in the session.
RoutesWithinPolicy ==
    \A r \in Requests :
        Routing(r) =>
            /\ h[r].tier \in Range1(h[r].pol.tiers)
            /\ h[r].model = h[r].pol.model[h[r].tier]
            /\ h[r].model # h[r].in.model

\* Once a policy is live the proxy never falls back to running without one: a
\* bad edit keeps the running policy.
PolicyKept == [][live # NoPolicy => live' # NoPolicy]_vars

\* A session's tier is only ever written for that session's own requests, by
\* a route or the default (never by a pin, a keep, or a request that was not
\* parsed), and what is written is what that request decided.
SessionOwned ==
    [][\A s \in Sessions :
          mem'[s] \notin {mem[s], NoTier} =>
              \E r \in Requests :
                  /\ h[r].in.sess = s
                  /\ h[r].at \in {"deciding", "recording"} /\ ~Pinned(r)
                  /\ h'[r].at \in {"passing", "guarding"}
                  /\ h'[r].tier = mem'[s]]_vars

\* A tier is blocked only by a handler that routed to that very tier and was
\* denied there, and a block is never shortened.
BlocksEarned ==
    [][\A n \in Names :
          blocked'[n] # blocked[n] =>
              /\ blocked'[n] > blocked[n]
              /\ \E r \in Requests :
                    /\ h[r].at = "classifying" /\ h[r].tier = n
                    /\ heard[r] = <<Denied>>]_vars

\* The handler waits for the upstream: for a response, or for the rest of a
\* rejection.
Waiting(r) == h[r].at \in {"awaiting", "buffering"}

\* Every accepted request is answered -- the rejected, the retried and the
\* lost ones too, across reloads and the other requests -- unless its handler
\* waits for the upstream for ever, which no deadline of the proxy excludes.
Answered ==
    \A r \in Requests :
        []<>~Waiting(r) => (h[r].at = "accepted" ~> reply[r] # NoReply)

\* The proxy implements its contract.
Contract == INSTANCE ProxyContract
ImplementsContract == Contract!Spec
=============================================================================
