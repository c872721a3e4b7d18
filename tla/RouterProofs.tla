---------------------------- MODULE RouterProofs ----------------------------
(***************************************************************************)
(* Proofs about the router.                                                *)
(*                                                                         *)
(* RouterProxy, for any requests, sessions, tiers, policies, statuses and  *)
(* block duration: all of its safety properties and that it implements     *)
(* ProxyContract.  The inductive invariant ties each handler's program     *)
(* counter to what it sent and heard (WireOK) and to the policy it loaded  *)
(* (DecisionOK); a guard already passed was passed no later than any       *)
(* denial still in force (GuardOK), which needs every block to end at most *)
(* BlockTTL from now (BlocksOK) only to be extended, never shortened.      *)
(*                                                                         *)
(* Reconcile, for any features and any history: what a rewrite drops and   *)
(* that nothing else is lost, by the part of the features dealt with so    *)
(* far (Parted).                                                           *)
(*                                                                         *)
(* RuleEval, for any policies and any condition trees: by induction over   *)
(* the trees an evaluation without a failure is a condition's meaning      *)
(* (Good), and the waterfall adds up what each route told (RuleInv).       *)
(***************************************************************************)
EXTENDS RouterProxy, Reconcile, RuleEval, FoldTheorems

Early == {"idle", "accepted", "deciding", "recording", "guarding", "routing",
          "passing"}

\* What the program counter says about the attempts made so far.
WireOK(r) ==
    \/ /\ h[r].at \in Early
       /\ sent[r] = <<>> /\ heard[r] = <<>>
    \/ /\ h[r].at = "awaiting"
       /\ sent[r] \in {<<"routed">>, <<"original">>} /\ heard[r] = <<>>
    \/ /\ h[r].at = "buffering"
       /\ sent[r] = <<"routed">> /\ heard[r] = <<>>
    \/ /\ h[r].at \in {"classifying", "retrying"}
       /\ sent[r] = <<"routed">>
       /\ \E x \in Rejections : heard[r] = <<x>>
    \/ /\ h[r].at = "awaiting"
       /\ sent[r] = <<"routed", "original">>
       /\ \E x \in Rejections : heard[r] = <<x>>
    \/ h[r].at = "done"

\* A handler is done exactly when its client was answered.
ReplyOK(r) == reply[r] = NoReply <=> h[r].at # "done"

\* The decision a handler goes on with.
DecisionOK(r) ==
    /\ h[r].at \in {"deciding", "recording"} => h[r].pol \in Policies
    /\ h[r].at = "recording" => h[r].tier \in Names /\ ~Pinned(r)
    /\ h[r].at = "guarding" \/ Routing(r) =>
          /\ h[r].pol \in Policies
          /\ h[r].tier \in Range1(h[r].pol.tiers)
          /\ h[r].model = h[r].pol.model[h[r].tier]
          /\ h[r].model # h[r].in.model

\* The guard of a rewrite was passed in the past, and no later than the denial
\* behind a block that is still on.
GuardOK(r) ==
    Routing(r) =>
        /\ h[r].since <= clock
        /\ Blocked(h[r].tier) => h[r].since <= blocked[h[r].tier] - BlockTTL

RequestOK(r) == WireOK(r) /\ ReplyOK(r) /\ DecisionOK(r) /\ GuardOK(r)

\* No block reaches further than one set now would.
BlocksOK == \A n \in Names : blocked[n] <= clock + BlockTTL

\* The inductive invariant.
IInv ==
    /\ TypeOK
    /\ BlocksOK
    /\ \A r \in Requests : RequestOK(r)

\* Sequences of one and two elements, which is all the wire ever sees.
LEMMA Appends ==
    ASSUME NEW a, NEW b
    PROVE  /\ Append(<<>>, a) = <<a>>
           /\ Append(<<a>>, b) = <<a, b>>
           /\ Len(<<>>) = 0 /\ Len(<<a>>) = 1 /\ Len(<<a, b>>) = 2
           /\ <<a>>[1] = a /\ <<a, b>>[1] = a /\ <<a, b>>[2] = b
<1>1. Append(<<>>, a) = <<a>>
  OBVIOUS
<1>2. Append(<<a>>, b) = <<a, b>>
  <2> DEFINE S == {a, b}
             t == Append(<<a>>, b)
  <2>1. <<a>> \in Seq(S) /\ <<a, b>> \in Seq(S) /\ Len(<<a>>) = 1
        /\ Len(<<a, b>>) = 2
    OBVIOUS
  <2>2. t \in Seq(S) /\ Len(t) = 2
    BY <2>1, AppendProperties
  <2>3. t[1] = a /\ t[2] = b
    BY <2>1, AppendProperties
  <2>4. \A i \in 1..Len(t) : t[i] = <<a, b>>[i]
    BY <2>2, <2>3
  <2> HIDE DEF S, t
  <2>5. t = <<a, b>>
    BY <2>1, <2>2, <2>4, SeqEqual
  <2> QED
    BY <2>5 DEF t
<1>3. Len(<<>>) = 0 /\ Len(<<a>>) = 1 /\ Len(<<a, b>>) = 2
  OBVIOUS
<1>4. <<a>>[1] = a /\ <<a, b>>[1] = a /\ <<a, b>>[2] = b
  OBVIOUS
<1> QED
  BY <1>1, <1>2, <1>3, <1>4

\* The parts of a policy a file may hold.
LEMMA PolicyShape ==
    ASSUME NEW p \in Policies
    PROVE  /\ p.tiers \in Seq(Names)
           /\ p.model \in [Names -> Models]
           /\ p.default \in Names \cup {Requested}
           /\ p.routes \subseteq Names \cup {Keep}
BY ProxyConstants DEF Policy

\* A tier with a band is a tier of the policy.
LEMMA TierRankPositive ==
    ASSUME NEW p \in Policies, NEW n, TierRank(p, n) # 0
    PROVE  n \in Range1(p.tiers) /\ n \in Names
<1>1. n \in Range1(p.tiers)
  BY DEF TierRank
<1>2. Range1(p.tiers) \subseteq Names
  BY PolicyShape DEF Range1
<1> QED
  BY <1>1, <1>2

\* A tier has a model only if it is a tier of the policy, and then the
\* policy's.
LEMMA TierModelType ==
    ASSUME NEW p \in Policies, NEW n
    PROVE  /\ TierModel(p, n) \in Models \cup {NoModel}
           /\ TierModel(p, n) # NoModel =>
                 /\ n \in Range1(p.tiers)
                 /\ n \in Names
                 /\ TierModel(p, n) = p.model[n]
<1>1. CASE TierRank(p, n) = 0
  BY <1>1 DEF TierModel
<1>2. CASE TierRank(p, n) # 0
  BY <1>2, TierRankPositive, PolicyShape DEF TierModel
<1> QED
  BY <1>1, <1>2

-----------------------------------------------------------------------------
\* What the two ways of moving a handler do to it.
Alone(r) == \A q \in Requests \ {r} : h'[q] = h[q]

\* Goto moves one handler and changes nothing else of it.
LEMMA GotoEffect ==
    ASSUME TypeOK, NEW r \in Requests, NEW pc \in Steps, Goto(r, pc)
    PROVE  /\ h' \in [Requests -> Handler]
           /\ h'[r].at = pc
           /\ h'[r].in = h[r].in /\ h'[r].pol = h[r].pol
           /\ h'[r].tier = h[r].tier /\ h'[r].model = h[r].model
           /\ h'[r].since = h[r].since
           /\ Alone(r)
<1>1. h[r] \in Handler /\ h \in [Requests -> Handler]
  BY DEF TypeOK
<1>2. [h[r] EXCEPT !.at = pc] \in Handler
  BY <1>1 DEF Handler
<1> QED
  BY <1>1, <1>2 DEF Goto, Handler, Alone

\* Decided sets tier, model and program counter of one handler.
LEMMA DecidedEffect ==
    ASSUME TypeOK, NEW r \in Requests, NEW t \in Names \cup {NoTier},
           NEW md \in Models \cup {NoModel}, Decided(r, t, md)
    PROVE  /\ h' \in [Requests -> Handler]
           /\ h'[r].at = IF NoOp(md, h[r].in) THEN "passing" ELSE "guarding"
           /\ h'[r].in = h[r].in /\ h'[r].pol = h[r].pol
           /\ h'[r].tier = t /\ h'[r].model = md
           /\ h'[r].since = h[r].since
           /\ Alone(r)
<1>1. h[r] \in Handler /\ h \in [Requests -> Handler]
  BY DEF TypeOK
<1> DEFINE pc == IF NoOp(md, h[r].in) THEN "passing" ELSE "guarding"
<1>2. pc \in Steps
  BY DEF Steps
<1> HIDE DEF pc
<1>3. h' = [h EXCEPT ![r] = [h[r] EXCEPT !.at = pc, !.tier = t, !.model = md]]
  BY DEF Decided, pc
<1>4. [h[r] EXCEPT !.at = pc, !.tier = t, !.model = md] \in Handler
  BY <1>1, <1>2 DEF Handler
<1>5. h' \in [Requests -> Handler]
  BY <1>1, <1>3, <1>4
<1>6. h'[r] = [h[r] EXCEPT !.at = pc, !.tier = t, !.model = md]
  BY <1>1, <1>3
<1>7. Alone(r)
  BY <1>1, <1>3 DEF Alone
<1>8. /\ h'[r].at = pc /\ h'[r].tier = t /\ h'[r].model = md
      /\ h'[r].in = h[r].in /\ h'[r].pol = h[r].pol /\ h'[r].since = h[r].since
  BY <1>1, <1>6 DEF Handler
<1> QED
  BY <1>5, <1>7, <1>8 DEF pc

\* A step of one handler leaves what holds of the others alone.
LEMMA Frame ==
    ASSUME NEW r \in Requests, Alone(r),
           \A q \in Requests \ {r} : /\ sent'[q] = sent[q]
                                     /\ heard'[q] = heard[q]
                                     /\ reply'[q] = reply[q],
           UNCHANGED <<clock, blocked>>,
           \A q \in Requests : RequestOK(q),
           RequestOK(r)'
    PROVE  \A q \in Requests : RequestOK(q)'
<1> SUFFICES ASSUME NEW q \in Requests \ {r} PROVE RequestOK(q)'
  OBVIOUS
<1>1. /\ h'[q] = h[q] /\ sent'[q] = sent[q] /\ heard'[q] = heard[q]
      /\ reply'[q] = reply[q] /\ RequestOK(q)
  BY DEF Alone
<1> QED
  BY <1>1 DEF RequestOK, WireOK, ReplyOK, DecisionOK, GuardOK, Routing,
              LastSent, Blocked, Pinned, TierRank

\* Writing a tier keeps the memory a memory.
LEMMA SetTierType ==
    ASSUME TypeOK, NEW s, NEW t \in Names
    PROVE  SetTier(s, t) \in [Sessions -> Names \cup {NoTier}]
BY DEF SetTier, TypeOK

-----------------------------------------------------------------------------
\* The invariant holds before the first request.
LEMMA InitIInv == Init => IInv
<1> SUFFICES ASSUME Init PROVE IInv
  OBVIOUS
<1>1. Blank \in Handler
  BY ProxyConstants DEF Blank, Handler, AnyInput, Input, Steps
<1>2. TypeOK
  <2>1. h \in [Requests -> Handler]
    BY <1>1 DEF Init
  <2>2. /\ sent \in [Requests -> Seq({"routed", "original"})]
        /\ heard \in [Requests -> Seq(Statuses \cup {Lost})]
    BY DEF Init
  <2>3. blocked \in [Names -> 0..(MaxTime + BlockTTL)] /\ clock \in 0..MaxTime
    BY ProxyConstants DEF Init
  <2> QED
    BY <2>1, <2>2, <2>3 DEF Init, TypeOK
<1>3. BlocksOK
  BY ProxyConstants DEF BlocksOK, Init
<1>4. ASSUME NEW r \in Requests PROVE RequestOK(r)
  <2>1. h[r].at = "idle" /\ sent[r] = <<>> /\ heard[r] = <<>>
        /\ reply[r] = NoReply
    BY DEF Init, Blank
  <2> QED
    BY <2>1 DEF RequestOK, WireOK, Early, ReplyOK, DecisionOK, GuardOK, Routing
<1> QED
  BY <1>2, <1>3, <1>4 DEF IInv

\* A step that a handler takes before it sends anything.
LEMMA EarlyStep ==
    ASSUME IInv, NEW r \in Requests, Alone(r), h' \in [Requests -> Handler],
           h[r].at \in Early, h'[r].at \in Early,
           UNCHANGED <<live, blocked, clock, wire>>,
           mem' \in [Sessions -> Names \cup {NoTier}],
           h'[r].at \in {"deciding", "recording"} => h'[r].pol \in Policies,
           h'[r].at = "recording" => h'[r].tier \in Names /\ ~Pinned(r)',
           h'[r].at \in {"guarding", "routing"} =>
               /\ h'[r].pol \in Policies
               /\ h'[r].tier \in Range1(h'[r].pol.tiers)
               /\ h'[r].model = h'[r].pol.model[h'[r].tier]
               /\ h'[r].model # h'[r].in.model,
           h'[r].at = "routing" => h'[r].since <= clock /\ ~Blocked(h'[r].tier)
    PROVE  IInv'
<1>1. TypeOK'
  BY DEF IInv, TypeOK, wire
<1>2. BlocksOK'
  BY DEF IInv, BlocksOK
<1>3. RequestOK(r)'
  <2>1. RequestOK(r)
    BY DEF IInv
  <2>2. WireOK(r)'
    BY <2>1 DEF RequestOK, WireOK, Early, wire
  <2>3. ReplyOK(r)'
    BY <2>1 DEF RequestOK, ReplyOK, Early, wire
  <2>4. Routing(r)' => h'[r].at = "routing"
    BY DEF Routing, Early
  <2>5. DecisionOK(r)'
    BY <2>4 DEF DecisionOK
  <2>6. GuardOK(r)'
    BY <2>4 DEF GuardOK, Blocked
  <2> QED
    BY <2>2, <2>3, <2>5, <2>6 DEF RequestOK
<1>4. \A q \in Requests : RequestOK(q)'
  <2>1. \A q \in Requests \ {r} : /\ sent'[q] = sent[q]
                                  /\ heard'[q] = heard[q]
                                  /\ reply'[q] = reply[q]
    BY DEF wire
  <2> QED
    BY <1>3, <2>1, Frame DEF IInv
<1> QED
  BY <1>1, <1>2, <1>4 DEF IInv

\* What Decide returned is sound when the tier's model is the policy's.
LEMMA DecidedStep ==
    ASSUME IInv, NEW r \in Requests, h[r].at \in {"deciding", "recording"},
           NEW t \in Names \cup {NoTier}, NEW md \in Models \cup {NoModel},
           Decided(r, t, md),
           md \in {h[r].in.model, TierModel(h[r].pol, t)},
           UNCHANGED <<live, blocked, clock, wire>>,
           mem' \in [Sessions -> Names \cup {NoTier}]
    PROVE  IInv'
<1>1. TypeOK /\ RequestOK(r)
  BY DEF IInv
<1>2. h[r].pol \in Policies
  BY <1>1 DEF RequestOK, DecisionOK
<1>3. /\ h' \in [Requests -> Handler]
      /\ h'[r].at = IF NoOp(md, h[r].in) THEN "passing" ELSE "guarding"
      /\ h'[r].in = h[r].in /\ h'[r].pol = h[r].pol
      /\ h'[r].tier = t /\ h'[r].model = md
      /\ Alone(r)
  BY <1>1, DecidedEffect
<1>4. ASSUME ~NoOp(md, h[r].in)
      PROVE  /\ t \in Range1(h[r].pol.tiers)
             /\ md = h[r].pol.model[t]
             /\ md # h[r].in.model
  BY <1>2, <1>4, TierModelType DEF NoOp
<1>5. h[r].at \in Early /\ h'[r].at \in Early \ {"deciding", "recording", "routing"}
  BY <1>3 DEF Early
<1>6. h'[r].at = "guarding" => ~NoOp(md, h[r].in)
  BY <1>3
<1> QED
  BY <1>2, <1>3, <1>4, <1>5, <1>6, EarlyStep

\* A request that arrives has made no attempt and no decision.
LEMMA AcceptStep ==
    ASSUME IInv, NEW r \in Requests, Accept(r)
    PROVE  IInv'
<1>1. h \in [Requests -> Handler] /\ h[r] \in Handler
  BY DEF IInv, TypeOK
<1>2. PICK in \in Inputs : h' = [h EXCEPT ![r] = [h[r] EXCEPT !.at = "accepted", !.in = in]]
  BY <1>1 DEF Accept, Handler
<1>3. [h[r] EXCEPT !.at = "accepted", !.in = in] \in Handler
  BY <1>1, ProxyConstants DEF Handler, Steps
<1>4. h' \in [Requests -> Handler] /\ Alone(r) /\ h'[r].at = "accepted"
  BY <1>1, <1>2, <1>3 DEF Alone, Handler
<1>5. /\ UNCHANGED <<live, blocked, clock, wire>>
      /\ mem' \in [Sessions -> Names \cup {NoTier}]
  BY DEF Accept, shared, IInv, TypeOK
<1>6. h[r].at \in Early /\ h'[r].at \in Early
  BY <1>4 DEF Accept, Early
<1> QED
  BY <1>4, <1>5, <1>6, EarlyStep

\* A handler that goes on to decide has loaded a policy.
LEMMA LoadPolicyStep ==
    ASSUME IInv, NEW r \in Requests, LoadPolicy(r)
    PROVE  IInv'
<1> DEFINE pc == IF live = NoPolicy \/ h[r].in.kind = "unparseable"
                 THEN "passing" ELSE "deciding"
<1>1. h \in [Requests -> Handler] /\ h[r] \in Handler
      /\ live \in Policies \cup {NoPolicy}
  BY DEF IInv, TypeOK
<1>2. h' = [h EXCEPT ![r] = [h[r] EXCEPT !.pol = live, !.at = pc]]
  BY <1>1 DEF LoadPolicy, Handler
<1>3. pc \in {"passing", "deciding"} /\ (pc = "deciding" => live \in Policies)
  BY <1>1
<1> HIDE DEF pc
<1>4. [h[r] EXCEPT !.pol = live, !.at = pc] \in Handler
  BY <1>1, <1>3 DEF Handler, Steps
<1>5. /\ h' \in [Requests -> Handler] /\ Alone(r)
      /\ h'[r].at = pc /\ h'[r].pol = live
  BY <1>1, <1>2, <1>4 DEF Alone, Handler
<1>6. /\ UNCHANGED <<live, blocked, clock, wire>>
      /\ mem' \in [Sessions -> Names \cup {NoTier}]
  BY DEF LoadPolicy, shared, IInv, TypeOK
<1>7. h[r].at \in Early /\ h'[r].at \in Early
  BY <1>3, <1>5 DEF LoadPolicy, Early
<1> QED
  BY <1>3, <1>5, <1>6, <1>7, EarlyStep

\* Every outcome of Decide is a no-op or a tier and model of the handler's
\* policy.
LEMMA DecideStep ==
    ASSUME IInv, NEW r \in Requests,
           \/ DecidePin(r) \/ DecideRoute(r) \/ DecideKeep(r)
           \/ DecideRequested(r) \/ RecordDefault(r)
    PROVE  IInv'
<1>1. /\ TypeOK /\ RequestOK(r) /\ h[r] \in Handler
      /\ mem \in [Sessions -> Names \cup {NoTier}]
  BY DEF IInv, TypeOK
<1>2. h[r].at \in {"deciding", "recording"}
  BY DEF DecidePin, DecideRoute, DecideKeep, DecideRequested, RecordDefault
<1>3. h[r].pol \in Policies
  BY <1>1, <1>2 DEF RequestOK, DecisionOK
<1>4. \A t : TierModel(h[r].pol, t) \in Models \cup {NoModel}
  BY <1>3, TierModelType
<1>5. CASE DecidePin(r)
  <2>1. h[r].in.pin \in Names
    BY <1>3, <1>5, TierRankPositive DEF DecidePin, Pinned
  <2>2. /\ UNCHANGED <<live, blocked, clock, wire>>
        /\ mem' \in [Sessions -> Names \cup {NoTier}]
        /\ Decided(r, h[r].in.pin, TierModel(h[r].pol, h[r].in.pin))
    BY <1>1, <1>5 DEF DecidePin, shared
  <2> QED
    BY <1>2, <1>4, <2>1, <2>2, DecidedStep
<1>6. CASE DecideRoute(r)
  <2>1. PICK t \in h[r].pol.routes \ {Keep} :
            /\ mem' = SetTier(h[r].in.sess, t)
            /\ Decided(r, t, TierModel(h[r].pol, t))
    BY <1>6 DEF DecideRoute
  <2>2. t \in Names
    BY <1>3, PolicyShape
  <2>3. mem' \in [Sessions -> Names \cup {NoTier}]
    BY <1>1, <2>1, <2>2, SetTierType
  <2>4. UNCHANGED <<live, blocked, clock, wire>>
    BY <1>6 DEF DecideRoute
  <2> QED
    BY <1>2, <1>4, <2>1, <2>2, <2>3, <2>4, DecidedStep
<1>7. CASE DecideKeep(r)
  <2> DEFINE p == h[r].pol
             cur == CurrentTier(h[r].in.sess)
             t == IF cur # NoTier THEN cur
                  ELSE IF p.default = Requested THEN NoTier ELSE p.default
  <2>1. t \in Names \cup {NoTier}
    BY <1>1, <1>3, PolicyShape DEF CurrentTier
  <2>2. Decided(r, t, TierModel(p, t))
    BY <1>7 DEF DecideKeep
  <2>3. /\ UNCHANGED <<live, blocked, clock, wire>>
        /\ mem' \in [Sessions -> Names \cup {NoTier}]
    BY <1>1, <1>7 DEF DecideKeep, shared
  <2> HIDE DEF t
  <2> QED
    BY <1>2, <1>4, <2>1, <2>2, <2>3, DecidedStep
<1>8. CASE DecideRequested(r)
  <2>1. h[r].in.model \in Models \cup {NoModel}
    BY <1>1 DEF Handler, Input
  <2>2. /\ UNCHANGED <<live, blocked, clock, wire>>
        /\ mem' \in [Sessions -> Names \cup {NoTier}]
        /\ Decided(r, NoTier, h[r].in.model)
    BY <1>1, <1>8 DEF DecideRequested, shared
  <2> QED
    BY <1>2, <2>1, <2>2, DecidedStep
<1>9. CASE RecordDefault(r)
  <2>1. h[r].tier \in Names
    BY <1>1, <1>9 DEF RecordDefault, RequestOK, DecisionOK
  <2>2. mem' \in [Sessions -> Names \cup {NoTier}]
    BY <1>1, <1>9, <2>1, SetTierType DEF RecordDefault
  <2>3. /\ UNCHANGED <<live, blocked, clock, wire>>
        /\ Decided(r, h[r].tier, TierModel(h[r].pol, h[r].tier))
    BY <1>9 DEF RecordDefault
  <2> QED
    BY <1>2, <1>4, <2>1, <2>2, <2>3, DecidedStep
<1> QED
  BY <1>5, <1>6, <1>7, <1>8, <1>9

\* The tier to be recorded is the default or the session's own.
LEMMA DecideDefaultStep ==
    ASSUME IInv, NEW r \in Requests, DecideDefault(r)
    PROVE  IInv'
<1> DEFINE p == h[r].pol
           cur == CurrentTier(h[r].in.sess)
           t == IF p.sticky /\ cur # NoTier /\ Damped(p, cur, p.default)
                THEN cur ELSE p.default
<1>1. /\ RequestOK(r) /\ h[r] \in Handler /\ h \in [Requests -> Handler]
      /\ mem \in [Sessions -> Names \cup {NoTier}]
  BY DEF IInv, TypeOK
<1>2. p \in Policies
  BY <1>1 DEF RequestOK, DecisionOK, DecideDefault
<1>3. t \in Names
  BY <1>1, <1>2, PolicyShape DEF CurrentTier, DecideDefault
<1>4. h' = [h EXCEPT ![r] = [h[r] EXCEPT !.at = "recording", !.tier = t]]
  BY <1>1 DEF DecideDefault, Handler
<1> HIDE DEF t
<1>5. [h[r] EXCEPT !.at = "recording", !.tier = t] \in Handler
  BY <1>1, <1>3 DEF Handler, Steps
<1>6. /\ h' \in [Requests -> Handler] /\ Alone(r)
      /\ h'[r].at = "recording" /\ h'[r].tier = t /\ h'[r].pol = p
      /\ h'[r].in = h[r].in
  BY <1>1, <1>4, <1>5 DEF Alone, Handler
<1>9. ~Pinned(r)'
  BY <1>6 DEF DecideDefault, Pinned
<1>7. /\ UNCHANGED <<live, blocked, clock, wire>>
      /\ mem' \in [Sessions -> Names \cup {NoTier}]
  BY <1>1 DEF DecideDefault, shared
<1>8. h[r].at \in Early /\ h'[r].at \in Early
  BY <1>6 DEF DecideDefault, Early
<1> QED
  BY <1>2, <1>3, <1>6, <1>7, <1>8, <1>9, EarlyStep

\* A handler that passes the request through routes nothing.
LEMMA PassStep ==
    ASSUME IInv, NEW r \in Requests,
           PassUnrouted(r) \/ GuardBlocked(r) \/ GuardContext(r)
    PROVE  IInv'
<1>1. Goto(r, "passing") /\ h[r].at \in {"accepted", "guarding"}
      /\ UNCHANGED <<shared, wire>>
  BY DEF PassUnrouted, GuardBlocked, GuardContext
<1>2. /\ h' \in [Requests -> Handler] /\ Alone(r) /\ h'[r].at = "passing"
      /\ mem \in [Sessions -> Names \cup {NoTier}]
  BY <1>1, GotoEffect DEF Steps, IInv, TypeOK
<1>3. h[r].at \in Early /\ h'[r].at \in Early
  BY <1>1, <1>2 DEF Early
<1>4. /\ UNCHANGED <<live, blocked, clock, wire>>
      /\ mem' \in [Sessions -> Names \cup {NoTier}]
  BY <1>1, <1>2 DEF shared
<1> QED
  BY <1>2, <1>3, <1>4, EarlyStep

\* A rewrite's guard is passed now, on a tier that is not blocked.
LEMMA RewriteStep ==
    ASSUME IInv, NEW r \in Requests, Rewrite(r)
    PROVE  IInv'
<1>1. /\ RequestOK(r) /\ h[r] \in Handler /\ h \in [Requests -> Handler]
      /\ mem \in [Sessions -> Names \cup {NoTier}] /\ clock \in 0..MaxTime
  BY DEF IInv, TypeOK
<1>2. h' = [h EXCEPT ![r] = [h[r] EXCEPT !.at = "routing", !.since = clock]]
  BY <1>1 DEF Rewrite, Handler
<1>3. [h[r] EXCEPT !.at = "routing", !.since = clock] \in Handler
  BY <1>1 DEF Handler, Steps
<1>4. /\ h' \in [Requests -> Handler] /\ Alone(r)
      /\ h'[r].at = "routing" /\ h'[r].since = clock
      /\ h'[r].tier = h[r].tier /\ h'[r].pol = h[r].pol
      /\ h'[r].model = h[r].model /\ h'[r].in = h[r].in
  BY <1>1, <1>2, <1>3 DEF Alone, Handler
<1>5. /\ UNCHANGED <<live, blocked, clock, wire>>
      /\ mem' \in [Sessions -> Names \cup {NoTier}]
  BY <1>1 DEF Rewrite, shared
<1>6. h[r].at \in Early /\ h'[r].at \in Early
  BY <1>4 DEF Rewrite, Early
<1>7. /\ h[r].pol \in Policies
      /\ h[r].tier \in Range1(h[r].pol.tiers)
      /\ h[r].model = h[r].pol.model[h[r].tier]
      /\ h[r].model # h[r].in.model
  BY <1>1 DEF Rewrite, RequestOK, DecisionOK
<1>8. h'[r].since <= clock /\ ~Blocked(h'[r].tier)
  BY <1>1, <1>4 DEF Rewrite
<1> QED
  BY <1>4, <1>5, <1>6, <1>7, <1>8, EarlyStep

-----------------------------------------------------------------------------
\* What the handler's attempts are when it sends and when it waits.
LEMMA Attempts ==
    ASSUME IInv, NEW r \in Requests
    PROVE  /\ h[r].at \in {"routing", "passing"} =>
                 sent[r] = <<>> /\ heard[r] = <<>>
           /\ h[r].at = "awaiting" =>
                 \/ /\ sent[r] \in {<<"routed">>, <<"original">>}
                    /\ heard[r] = <<>>
                    /\ Len(sent[r]) = 1 /\ sent[r][1] = LastSent(r)
                 \/ /\ sent[r] = <<"routed", "original">>
                    /\ \E x \in Rejections : heard[r] = <<x>>
                    /\ Len(sent[r]) = 2 /\ LastSent(r) = "original"
                    /\ heard[r][1] \in Rejections
           /\ h[r].at = "buffering" =>
                 /\ sent[r] = <<"routed">> /\ LastSent(r) = "routed"
                 /\ heard[r] = <<>>
                 /\ Len(sent[r]) = 1 /\ sent[r][1] = "routed"
           /\ h[r].at \in {"classifying", "retrying"} =>
                 /\ sent[r] = <<"routed">> /\ LastSent(r) = "routed"
                 /\ heard[r][1] \in Rejections
                 /\ heard[r] = <<heard[r][1]>>
           /\ reply[r] = NoReply <=> h[r].at # "done"
<1>1. WireOK(r) /\ ReplyOK(r)
  BY DEF IInv, RequestOK
<1>2. CASE h[r].at \in {"routing", "passing"}
  BY <1>1, <1>2 DEF WireOK, ReplyOK
<1>3. CASE h[r].at = "awaiting"
  <2>1. \/ sent[r] \in {<<"routed">>, <<"original">>} /\ heard[r] = <<>>
        \/ /\ sent[r] = <<"routed", "original">>
           /\ \E x \in Rejections : heard[r] = <<x>>
    BY <1>1, <1>3 DEF WireOK, Early
  <2>2. CASE sent[r] \in {<<"routed">>, <<"original">>} /\ heard[r] = <<>>
    <3>1. PICK b \in {"routed", "original"} : sent[r] = <<b>>
      BY <2>2
    <3>2. Len(sent[r]) = 1 /\ sent[r][1] = b /\ LastSent(r) = b
      BY <3>1, Appends DEF LastSent
    <3> QED
      BY <1>1, <1>3, <2>2, <3>2 DEF ReplyOK
  <2>3. CASE /\ sent[r] = <<"routed", "original">>
             /\ \E x \in Rejections : heard[r] = <<x>>
    <3>1. PICK x \in Rejections : heard[r] = <<x>>
      BY <2>3
    <3>2. heard[r][1] = x
      BY <3>1, Appends
    <3>3. Len(sent[r]) = 2 /\ LastSent(r) = "original"
      BY <2>3, Appends DEF LastSent
    <3> QED
      BY <1>1, <1>3, <2>3, <3>1, <3>2, <3>3 DEF ReplyOK
  <2> QED
    BY <2>1, <2>2, <2>3
<1>4. CASE h[r].at \in {"classifying", "retrying"}
  <2>1. PICK x \in Rejections : heard[r] = <<x>>
    BY <1>1, <1>4 DEF WireOK, Early
  <2>2. heard[r][1] = x
    BY <2>1, Appends
  <2>3. sent[r] = <<"routed">>
    BY <1>1, <1>4 DEF WireOK, Early
  <2>4. LastSent(r) = "routed"
    BY <2>3, Appends DEF LastSent
  <2> QED
    BY <1>1, <1>4, <2>1, <2>2, <2>3, <2>4 DEF ReplyOK
<1>5. CASE h[r].at = "buffering"
  <2>1. sent[r] = <<"routed">> /\ heard[r] = <<>>
    BY <1>1, <1>5 DEF WireOK, Early
  <2>2. LastSent(r) = "routed" /\ Len(sent[r]) = 1 /\ sent[r][1] = "routed"
    BY <2>1, Appends DEF LastSent
  <2> QED
    BY <1>1, <1>5, <2>1, <2>2 DEF ReplyOK
<1> QED
  BY <1>1, <1>2, <1>3, <1>4, <1>5 DEF ReplyOK

\* A step of a handler on the wire leaves the shared state alone.
LEMMA WireStep ==
    ASSUME IInv, NEW r \in Requests, Alone(r), h' \in [Requests -> Handler],
           UNCHANGED shared,
           sent' \in [Requests -> Seq({"routed", "original"})],
           heard' \in [Requests -> Seq(Statuses \cup {Lost})],
           reply' \in [Requests -> [status : Statuses \cup {Lost},
                                    from : {"routed", "original", "proxy"}]
                                   \cup {NoReply}],
           \A q \in Requests \ {r} : /\ sent'[q] = sent[q]
                                     /\ heard'[q] = heard[q]
                                     /\ reply'[q] = reply[q],
           RequestOK(r)'
    PROVE  IInv'
<1>1. TypeOK' /\ BlocksOK'
  BY DEF IInv, TypeOK, BlocksOK, shared
<1>2. UNCHANGED <<clock, blocked>>
  BY DEF shared
<1>3. \A q \in Requests : RequestOK(q)'
  BY <1>2, Frame DEF IInv
<1> QED
  BY <1>1, <1>3 DEF IInv

\* What is sent is the first attempt, or the original after a rejection.
LEMMA SendStep ==
    ASSUME IInv, NEW r \in Requests,
           SendRouted(r) \/ SendOriginal(r) \/ SendRetry(r)
    PROVE  IInv'
<1>1. PICK body \in {"routed", "original"}, from \in {"routing", "passing", "retrying"} :
          /\ Send(r, from, body)
          /\ body = "routed" <=> from = "routing"
  BY DEF SendRouted, SendOriginal, SendRetry
<1>2. /\ h[r].at = from /\ Goto(r, "awaiting") /\ UNCHANGED <<shared, heard, reply>>
      /\ sent' = [sent EXCEPT ![r] = Append(@, body)]
  BY <1>1 DEF Send
<1>3. /\ h' \in [Requests -> Handler] /\ Alone(r)
      /\ h'[r].at = "awaiting"
      /\ h'[r].in = h[r].in /\ h'[r].pol = h[r].pol
      /\ h'[r].tier = h[r].tier /\ h'[r].model = h[r].model
      /\ h'[r].since = h[r].since
  BY <1>2, GotoEffect DEF Steps, IInv, TypeOK
<1>4. /\ sent \in [Requests -> Seq({"routed", "original"})]
      /\ heard \in [Requests -> Seq(Statuses \cup {Lost})]
      /\ RequestOK(r)
  BY DEF IInv, TypeOK
<1>5. sent'[r] = Append(sent[r], body)
  BY <1>2, <1>4
<1>6. /\ \/ /\ from \in {"routing", "passing"} /\ sent'[r] = <<body>>
            /\ heard'[r] = <<>>
         \/ /\ from = "retrying" /\ sent'[r] = <<"routed", "original">>
            /\ \E x \in Rejections : heard'[r] = <<x>>
      /\ LastSent(r)' = body
  <2>1. CASE from \in {"routing", "passing"}
    <3>1. sent[r] = <<>> /\ heard[r] = <<>>
      BY <1>2, <2>1, Attempts
    <3>2. sent'[r] = <<body>>
      BY <1>5, <3>1, Appends
    <3>3. LastSent(r)' = body
      BY <3>2, Appends DEF LastSent
    <3> QED
      BY <1>2, <2>1, <3>1, <3>2, <3>3
  <2>2. CASE from = "retrying"
    <3>1. sent[r] = <<"routed">> /\ heard[r] = <<heard[r][1]>>
          /\ heard[r][1] \in Rejections
      BY <1>2, <2>2, Attempts
    <3>2. sent'[r] = <<"routed", "original">>
      BY <1>1, <1>5, <2>2, <3>1, Appends
    <3>3. LastSent(r)' = "original"
      BY <3>2, Appends DEF LastSent
    <3> QED
      BY <1>1, <1>2, <2>2, <3>1, <3>2, <3>3
  <2> QED
    BY <2>1, <2>2
<1>7. WireOK(r)' /\ ReplyOK(r)'
  BY <1>2, <1>3, <1>6, Attempts DEF WireOK, ReplyOK
<1>8. LastSent(r)' = body
  BY <1>6
<1>9. Routing(r)' => Routing(r)
  BY <1>1, <1>2, <1>3, <1>8 DEF Routing
<1>10. DecisionOK(r)' /\ GuardOK(r)'
  BY <1>2, <1>3, <1>4, <1>9 DEF RequestOK, DecisionOK, GuardOK, shared, Blocked
<1>11. /\ sent' \in [Requests -> Seq({"routed", "original"})]
       /\ \A q \in Requests \ {r} : sent'[q] = sent[q]
  BY <1>2, <1>4
<1>12. RequestOK(r)'
  BY <1>7, <1>10 DEF RequestOK
<1>13. /\ heard' \in [Requests -> Seq(Statuses \cup {Lost})]
       /\ reply' \in [Requests -> [status : Statuses \cup {Lost},
                                   from : {"routed", "original", "proxy"}]
                                  \cup {NoReply}]
  BY <1>2 DEF IInv, TypeOK
<1> QED
  BY <1>2, <1>3, <1>11, <1>12, <1>13, WireStep

\* An answer ends the handler, with a reply that is one.
LEMMA AnswerStep ==
    ASSUME IInv, NEW r \in Requests, NEW o \in Statuses \cup {Lost},
           NEW status \in Statuses \cup {Lost},
           NEW from \in {"routed", "original", "proxy"},
           Answer(r, o, status, from)
    PROVE  IInv'
<1> DEFINE a == [status |-> status, from |-> from]
           d == [Blank EXCEPT !.at = "done"]
<1>1. /\ heard' = [heard EXCEPT ![r] = Append(@, o)]
      /\ reply' = [reply EXCEPT ![r] = a]
      /\ h' = [h EXCEPT ![r] = d]
      /\ UNCHANGED <<shared, sent>>
  BY DEF Answer
<1>2. d \in Handler /\ d.at = "done"
  BY ProxyConstants DEF Blank, Handler, AnyInput, Input, Steps
<1>3. a \in [status : Statuses \cup {Lost}, from : {"routed", "original", "proxy"}]
      /\ a # NoReply
  BY ProxyConstants
<1> HIDE DEF a, d
<1>4. /\ h \in [Requests -> Handler]
      /\ sent \in [Requests -> Seq({"routed", "original"})]
      /\ heard \in [Requests -> Seq(Statuses \cup {Lost})]
      /\ reply \in [Requests -> [status : Statuses \cup {Lost},
                                 from : {"routed", "original", "proxy"}]
                                \cup {NoReply}]
  BY DEF IInv, TypeOK
<1>5. h' \in [Requests -> Handler] /\ Alone(r) /\ h'[r].at = "done"
  BY <1>1, <1>2, <1>4 DEF Alone
<1>6. /\ sent' \in [Requests -> Seq({"routed", "original"})]
      /\ heard' \in [Requests -> Seq(Statuses \cup {Lost})]
      /\ reply' \in [Requests -> [status : Statuses \cup {Lost},
                                  from : {"routed", "original", "proxy"}]
                                 \cup {NoReply}]
  BY <1>1, <1>3, <1>4
<1>7. \A q \in Requests \ {r} : /\ sent'[q] = sent[q]
                                /\ heard'[q] = heard[q]
                                /\ reply'[q] = reply[q]
  BY <1>1, <1>4
<1>8. reply'[r] # NoReply
  BY <1>1, <1>3, <1>4
<1>9. RequestOK(r)'
  BY <1>5, <1>8 DEF RequestOK, WireOK, ReplyOK, DecisionOK, GuardOK, Routing
<1>10. UNCHANGED shared
  BY <1>1
<1> QED
  BY <1>5, <1>6, <1>7, <1>9, <1>10, WireStep

\* The outcomes that end a request.
LEMMA OutcomeStep ==
    ASSUME IInv, NEW r \in Requests,
           \/ \E o \in Statuses : Relay(r, o)
           \/ TransportError(r) \/ RetryLost(r)
    PROVE  IInv'
<1>1. CASE \E o \in Statuses : Relay(r, o)
  <2>1. PICK o \in Statuses : Relay(r, o)
    BY <1>1
  <2>2. LastSent(r) \in {"routed", "original", "proxy"}
    BY <2>1, Attempts, Appends DEF Relay, Awaiting
  <2> QED
    BY <2>1, <2>2, AnswerStep DEF Relay
<1>2. CASE TransportError(r)
  BY <1>2, AnswerStep DEF TransportError
<1>3. CASE RetryLost(r)
  <2>1. heard[r][1] \in Statuses
    BY <1>3, Attempts, ProxyConstants DEF RetryLost, Awaiting
  <2> QED
    BY <1>3, <2>1, AnswerStep DEF RetryLost
<1> QED
  BY <1>1, <1>2, <1>3

\* The headers of a rejection are of a rewrite, the only attempt so far.
LEMMA HeadersStep ==
    ASSUME IInv, NEW r \in Requests, RejectionHeaders(r)
    PROVE  IInv'
<1>1. /\ h[r].at = "awaiting" /\ LastSent(r) = "routed"
      /\ Goto(r, "buffering")
      /\ UNCHANGED <<shared, wire>>
  BY DEF RejectionHeaders, Awaiting
<1>2. /\ h' \in [Requests -> Handler] /\ Alone(r)
      /\ h'[r].at = "buffering"
      /\ h'[r].in = h[r].in /\ h'[r].pol = h[r].pol
      /\ h'[r].tier = h[r].tier /\ h'[r].model = h[r].model
      /\ h'[r].since = h[r].since
  BY <1>1, GotoEffect DEF Steps, IInv, TypeOK
<1>3. RequestOK(r)
  BY DEF IInv
<1>4. sent[r] = <<"routed">> /\ heard[r] = <<>>
  BY <1>1, Attempts, Appends
<1>5. WireOK(r)' /\ ReplyOK(r)'
  BY <1>1, <1>2, <1>4, Attempts DEF WireOK, ReplyOK, wire
<1>6. Routing(r)
  BY <1>1 DEF Routing
<1>7. DecisionOK(r)' /\ GuardOK(r)'
  BY <1>1, <1>2, <1>3, <1>6 DEF RequestOK, DecisionOK, GuardOK, shared, Blocked
<1>8. RequestOK(r)'
  BY <1>5, <1>7 DEF RequestOK
<1>9. /\ sent' \in [Requests -> Seq({"routed", "original"})]
      /\ heard' \in [Requests -> Seq(Statuses \cup {Lost})]
      /\ reply' \in [Requests -> [status : Statuses \cup {Lost},
                                  from : {"routed", "original", "proxy"}]
                                 \cup {NoReply}]
  BY <1>1 DEF IInv, TypeOK, wire
<1> QED
  BY <1>1, <1>2, <1>8, <1>9, WireStep DEF wire

\* A rejection is the first thing heard of a rewrite.
LEMMA RejectedStep ==
    ASSUME IInv, NEW r \in Requests, NEW o \in Statuses, Rejected(r, o)
    PROVE  IInv'
<1>1. /\ h[r].at = "buffering" /\ o \in Rejections
      /\ heard' = [heard EXCEPT ![r] = Append(@, o)]
      /\ Goto(r, "classifying")
      /\ UNCHANGED <<shared, sent, reply>>
  BY DEF Rejected
<1>2. /\ h' \in [Requests -> Handler] /\ Alone(r)
      /\ h'[r].at = "classifying"
      /\ h'[r].in = h[r].in /\ h'[r].pol = h[r].pol
      /\ h'[r].tier = h[r].tier /\ h'[r].model = h[r].model
      /\ h'[r].since = h[r].since
  BY <1>1, GotoEffect DEF Steps, IInv, TypeOK
<1>3. /\ heard \in [Requests -> Seq(Statuses \cup {Lost})]
      /\ sent \in [Requests -> Seq({"routed", "original"})]
      /\ RequestOK(r)
  BY DEF IInv, TypeOK
<1>4. sent[r] = <<"routed">> /\ heard[r] = <<>> /\ LastSent(r) = "routed"
  BY <1>1, Attempts
<1>5. heard'[r] = <<o>>
  BY <1>1, <1>3, <1>4, Appends
<1>6. WireOK(r)' /\ ReplyOK(r)'
  BY <1>1, <1>2, <1>4, <1>5, Attempts DEF WireOK, ReplyOK
<1>7. Routing(r)
  BY <1>1, <1>4 DEF Routing
<1>8. DecisionOK(r)' /\ GuardOK(r)'
  BY <1>1, <1>2, <1>3, <1>7 DEF RequestOK, DecisionOK, GuardOK, shared, Blocked
<1>9. /\ heard' \in [Requests -> Seq(Statuses \cup {Lost})]
      /\ \A q \in Requests \ {r} : heard'[q] = heard[q]
  BY <1>1, <1>3
<1>10. RequestOK(r)'
  BY <1>6, <1>8 DEF RequestOK
<1>11. /\ sent' \in [Requests -> Seq({"routed", "original"})]
       /\ reply' \in [Requests -> [status : Statuses \cup {Lost},
                                   from : {"routed", "original", "proxy"}]
                                  \cup {NoReply}]
  BY <1>1 DEF IInv, TypeOK
<1> QED
  BY <1>1, <1>2, <1>9, <1>10, <1>11, WireStep

\* A denial may block a tier that other handlers are routing to: their guards
\* were passed before it.
LEMMA ClassifyStep ==
    ASSUME IInv, NEW r \in Requests, Classify(r)
    PROVE  IInv'
<1>1. /\ h[r].at = "classifying" /\ Goto(r, "retrying")
      /\ UNCHANGED <<live, mem, clock, wire>>
      /\ blocked' = IF heard[r][1] = Denied
                    THEN [blocked EXCEPT ![h[r].tier] = clock + BlockTTL]
                    ELSE blocked
  BY DEF Classify
<1>2. /\ h' \in [Requests -> Handler] /\ Alone(r)
      /\ h'[r].at = "retrying"
  BY <1>1, GotoEffect DEF Steps, IInv, TypeOK
<1>3. /\ clock \in 0..MaxTime /\ blocked \in [Names -> 0..(MaxTime + BlockTTL)]
      /\ \A q \in Requests : RequestOK(q)
      /\ MaxTime \in Nat /\ BlockTTL \in Nat \ {0}
  BY ProxyConstants DEF IInv, TypeOK
<1>4. blocked' \in [Names -> 0..(MaxTime + BlockTTL)]
  <2>1. clock + BlockTTL \in 0..(MaxTime + BlockTTL)
    BY <1>3
  <2> DEFINE until == clock + BlockTTL
             S == 0..(MaxTime + BlockTTL)
  <2>2. until \in S /\ blocked \in [Names -> S]
    BY <1>3, <2>1
  <2>3. blocked' \in {blocked, [blocked EXCEPT ![h[r].tier] = until]}
    BY <1>1
  <2> HIDE DEF until, S
  <2>4. blocked' \in [Names -> S]
    BY <2>2, <2>3
  <2> QED
    BY <2>4 DEF S
<1>5. \A n \in Names : blocked'[n] = blocked[n] \/ blocked'[n] = clock + BlockTTL
  BY <1>1, <1>3
<1>6. TypeOK'
  BY <1>1, <1>2, <1>4 DEF IInv, TypeOK, wire
<1>7. BlocksOK'
  BY <1>1, <1>3, <1>5 DEF IInv, BlocksOK
<1>8. RequestOK(r)'
  <2>1. sent[r] = <<"routed">> /\ heard[r] = <<heard[r][1]>>
        /\ heard[r][1] \in Rejections /\ reply[r] = NoReply
    BY <1>1, Attempts
  <2>2. WireOK(r)' /\ ReplyOK(r)'
    BY <1>1, <1>2, <2>1 DEF WireOK, ReplyOK, wire
  <2>3. ~Routing(r)'
    BY <1>2 DEF Routing
  <2>4. DecisionOK(r)' /\ GuardOK(r)'
    BY <1>2, <2>3 DEF DecisionOK, GuardOK
  <2> QED
    BY <2>2, <2>4 DEF RequestOK
<1>9. ASSUME NEW q \in Requests, q # r PROVE RequestOK(q)'
  <2>1. h'[q] = h[q] /\ RequestOK(q) /\ h[q] \in Handler
    BY <1>2, <1>3, <1>9 DEF Alone, IInv, TypeOK
  <2>2. WireOK(q)' /\ ReplyOK(q)' /\ DecisionOK(q)'
    BY <1>1, <2>1 DEF RequestOK, WireOK, ReplyOK, DecisionOK, Routing, LastSent,
                      wire, Pinned
  <2>3. Routing(q)' => Routing(q) /\ h[q].tier \in Names
    <3> SUFFICES ASSUME Routing(q)' PROVE Routing(q) /\ h[q].tier \in Names
      OBVIOUS
    <3>1. Routing(q)
      BY <1>1, <2>1 DEF Routing, LastSent, wire
    <3>2. h[q].pol \in Policies /\ h[q].tier \in Range1(h[q].pol.tiers)
      BY <2>1, <3>1 DEF RequestOK, DecisionOK
    <3> QED
      BY <3>1, <3>2, PolicyShape DEF Range1
  <2>4. GuardOK(q)'
    <3> SUFFICES ASSUME Routing(q)'
                 PROVE  /\ h[q].since <= clock
                        /\ clock < blocked'[h[q].tier]
                           => h[q].since <= blocked'[h[q].tier] - BlockTTL
      BY <1>1, <2>1 DEF GuardOK, Blocked
    <3>1. /\ h[q].since <= clock
          /\ clock < blocked[h[q].tier]
             => h[q].since <= blocked[h[q].tier] - BlockTTL
      BY <2>1, <2>3 DEF RequestOK, GuardOK, Blocked
    <3>2. \/ blocked'[h[q].tier] = blocked[h[q].tier]
          \/ blocked'[h[q].tier] = clock + BlockTTL
      BY <1>5, <2>3
    <3>3. h[q].since \in Nat /\ clock \in Nat /\ BlockTTL \in Nat
      BY <1>3, <2>1 DEF Handler
    <3> QED
      BY <3>1, <3>2, <3>3
  <2> QED
    BY <2>2, <2>4 DEF RequestOK
<1> QED
  BY <1>6, <1>7, <1>8, <1>9 DEF IInv

\* Steps of no handler.
LEMMA OtherStep ==
    ASSUME IInv, Reload \/ Forget \/ Tick \/ UNCHANGED vars
    PROVE  IInv'
<1>1. UNCHANGED <<blocked, h, sent, heard, reply>> /\ clock' \in {clock, clock + 1}
      /\ clock' \in 0..MaxTime /\ clock \in Nat
  BY ProxyConstants DEF Reload, Forget, Tick, vars, wire, IInv, TypeOK
<1>2. live' \in Policies \cup {NoPolicy}
  BY DEF Reload, Reloaded, Forget, Tick, vars, IInv, TypeOK
<1>3. mem' \in [Sessions -> Names \cup {NoTier}]
  BY DEF Reload, Forget, Tick, vars, IInv, TypeOK
<1>4. TypeOK'
  BY <1>1, <1>2, <1>3 DEF IInv, TypeOK
<1>5. \A n \in Names : blocked[n] \in Nat
  BY ProxyConstants DEF IInv, TypeOK
<1>6. BlocksOK'
  BY <1>1, <1>5, ProxyConstants DEF IInv, BlocksOK
<1>7. ASSUME NEW q \in Requests PROVE RequestOK(q)'
  <2>1. RequestOK(q) /\ h[q] \in Handler
    BY DEF IInv, TypeOK
  <2>2. WireOK(q)' /\ ReplyOK(q)' /\ DecisionOK(q)'
    BY <1>1, <2>1 DEF RequestOK, WireOK, ReplyOK, DecisionOK, Routing, LastSent,
                      Pinned
  <2>3. GuardOK(q)'
    <3> SUFFICES ASSUME Routing(q)
                 PROVE  /\ h[q].since <= clock'
                        /\ clock' < blocked[h[q].tier]
                           => h[q].since <= blocked[h[q].tier] - BlockTTL
      BY <1>1 DEF GuardOK, Blocked, Routing, LastSent
    <3>1. h[q].pol \in Policies /\ h[q].tier \in Range1(h[q].pol.tiers)
      BY <2>1 DEF RequestOK, DecisionOK
    <3>2. h[q].tier \in Names
      BY <3>1, PolicyShape DEF Range1
    <3>3. blocked[h[q].tier] \in Nat /\ h[q].since \in Nat
      BY <1>5, <2>1, <3>2 DEF Handler
    <3> QED
      BY <1>1, <2>1, <3>3 DEF RequestOK, GuardOK, Blocked
  <2> QED
    BY <2>2, <2>3 DEF RequestOK
<1> QED
  BY <1>4, <1>6, <1>7 DEF IInv

\* Every step preserves the invariant.
LEMMA NextIInv == IInv /\ [Next]_vars => IInv'
<1> SUFFICES ASSUME IInv, [Next]_vars PROVE IInv'
  OBVIOUS
<1>1. CASE Reload \/ Forget \/ Tick \/ UNCHANGED vars
  BY <1>1, OtherStep
<1>2. ASSUME NEW r \in Requests, Accept(r) PROVE IInv'
  BY <1>2, AcceptStep
<1>3. ASSUME NEW r \in Requests, Serve(r) PROVE IInv'
  <2>1. CASE PassUnrouted(r) \/ GuardBlocked(r) \/ GuardContext(r)
    BY <2>1, PassStep
  <2>2. CASE LoadPolicy(r)
    BY <2>2, LoadPolicyStep
  <2>3. CASE \/ DecidePin(r) \/ DecideRoute(r) \/ DecideKeep(r)
             \/ DecideRequested(r) \/ RecordDefault(r)
    BY <2>3, DecideStep
  <2>4. CASE DecideDefault(r)
    BY <2>4, DecideDefaultStep
  <2>5. CASE Rewrite(r)
    BY <2>5, RewriteStep
  <2>6. CASE SendRouted(r) \/ SendOriginal(r) \/ SendRetry(r)
    BY <2>6, SendStep
  <2>7. CASE Classify(r)
    BY <2>7, ClassifyStep
  <2> QED
    BY <1>3, <2>1, <2>2, <2>3, <2>4, <2>5, <2>6, <2>7 DEF Serve
<1>4. ASSUME NEW r \in Requests, Outcome(r) PROVE IInv'
  <2>1. CASE \/ \E o \in Statuses : Relay(r, o)
             \/ TransportError(r) \/ RetryLost(r)
    BY <2>1, OutcomeStep
  <2>2. CASE RejectionHeaders(r)
    BY <2>2, HeadersStep
  <2>3. CASE \E o \in Statuses : Rejected(r, o)
    BY <2>3, RejectedStep
  <2> QED
    BY <1>4, <2>1, <2>2, <2>3 DEF Outcome
<1> QED
  BY <1>1, <1>2, <1>3, <1>4 DEF Next

\* The strengthened invariant holds.
THEOREM Invariance == Spec => []IInv
BY InitIInv, NextIInv, PTL DEF Spec

\* The proxy's state keeps its shape.
THEOREM ProxyTypeCorrect == Spec => []TypeOK
<1>1. IInv => TypeOK
  BY DEF IInv
<1> QED
  BY <1>1, Invariance, PTL

\* An entitlement block stops every rewrite whose guard comes after it.
THEOREM BlocksHold == Spec => []BlockHonoured
<1>1. IInv => BlockHonoured
  BY DEF IInv, RequestOK, GuardOK, BlockHonoured
<1> QED
  BY <1>1, Invariance, PTL

\* A rewrite follows the one policy its handler loaded.
THEOREM RewritesFollowPolicy == Spec => []RoutesWithinPolicy
<1>1. IInv => RoutesWithinPolicy
  BY DEF IInv, RequestOK, DecisionOK, RoutesWithinPolicy
<1> QED
  BY <1>1, Invariance, PTL

-----------------------------------------------------------------------------
\* What a step of the session's own request leaves in the session.
LEMMA SetTierOwned ==
    ASSUME NEW s \in Sessions, NEW x, NEW t, mem' = SetTier(x, t),
           mem'[s] # mem[s]
    PROVE  x = s /\ mem'[s] = t
BY DEF SetTier

\* A tier appears in a session only by its request's route or default.
LEMMA OwnedStep ==
    ASSUME IInv, [Next]_vars, NEW s \in Sessions,
           mem'[s] \notin {mem[s], NoTier}
    PROVE  \E r \in Requests :
              /\ h[r].in.sess = s
              /\ h[r].at \in {"deciding", "recording"} /\ ~Pinned(r)
              /\ h'[r].at \in {"passing", "guarding"}
              /\ h'[r].tier = mem'[s]
<1>1. mem \in [Sessions -> Names \cup {NoTier}] /\ TypeOK
  BY DEF IInv, TypeOK
<1>2. ~Forget
  BY <1>1 DEF Forget
<1>3. PICK r \in Requests : DecideRoute(r) \/ RecordDefault(r)
  BY <1>2 DEF Next, Accept, Serve, Outcome, RejectionHeaders,
              PassUnrouted, LoadPolicy, DecidePin,
              DecideKeep, DecideRequested, DecideDefault, GuardBlocked,
              GuardContext, Rewrite, SendRouted, SendOriginal, SendRetry, Send,
              Relay, Rejected, TransportError, RetryLost, Answer, Classify,
              Reload, Tick, shared, vars
<1>4. RequestOK(r) /\ h[r] \in Handler
  BY <1>1 DEF IInv, TypeOK
<1>5. PICK t \in Names : /\ mem' = SetTier(h[r].in.sess, t)
                         /\ Decided(r, t, TierModel(h[r].pol, t))
                         /\ h[r].at \in {"deciding", "recording"} /\ ~Pinned(r)
  <2>1. CASE DecideRoute(r)
    <3>1. h[r].pol \in Policies
      BY <1>4, <2>1 DEF RequestOK, DecisionOK, DecideRoute
    <3> QED
      BY <2>1, <3>1, PolicyShape DEF DecideRoute
  <2>2. CASE RecordDefault(r)
    BY <1>4, <2>2 DEF RequestOK, DecisionOK, RecordDefault
  <2> QED
    BY <1>3, <2>1, <2>2
<1>6. h[r].pol \in Policies
  BY <1>4, <1>5 DEF RequestOK, DecisionOK
<1>7. h'[r].at \in {"passing", "guarding"} /\ h'[r].tier = t
  BY <1>1, <1>5, <1>6, TierModelType, DecidedEffect
<1>8. h[r].in.sess = s /\ mem'[s] = t
  BY <1>5, SetTierOwned
<1> QED
  BY <1>5, <1>7, <1>8

\* Alone a session's own requests write its tier, and what they decided.
THEOREM SessionsAreOwned == Spec => SessionOwned
<1>1. IInv /\ [Next]_vars =>
         [\A s \in Sessions :
             mem'[s] \notin {mem[s], NoTier} =>
                 \E r \in Requests :
                     /\ h[r].in.sess = s
                     /\ h[r].at \in {"deciding", "recording"} /\ ~Pinned(r)
                     /\ h'[r].at \in {"passing", "guarding"}
                     /\ h'[r].tier = mem'[s]]_vars
  BY OwnedStep
<1> QED
  BY <1>1, Invariance, PTL DEF SessionOwned, Spec

\* A block appears only by the classification of a denial.
LEMMA EarnedStep ==
    ASSUME IInv, [Next]_vars, NEW n \in Names, blocked'[n] # blocked[n]
    PROVE  /\ blocked'[n] > blocked[n]
           /\ \E r \in Requests : /\ h[r].at = "classifying" /\ h[r].tier = n
                                  /\ heard[r] = <<Denied>>
<1>1. PICK r \in Requests : Classify(r)
  BY DEF Next, Accept, Serve, Outcome, RejectionHeaders, PassUnrouted,
         LoadPolicy, DecidePin, DecideRoute,
         DecideKeep, DecideRequested, DecideDefault, RecordDefault,
         GuardBlocked, GuardContext, Rewrite, SendRouted, SendOriginal,
         SendRetry, Send, Relay, Rejected, TransportError, RetryLost, Answer,
         Reload, Forget, Tick, shared, vars
<1>2. /\ blocked \in [Names -> 0..(MaxTime + BlockTTL)]
      /\ blocked[n] <= clock + BlockTTL /\ clock \in 0..MaxTime
      /\ MaxTime \in Nat /\ BlockTTL \in Nat \ {0}
  BY ProxyConstants DEF IInv, TypeOK, BlocksOK
<1>3. /\ h[r].at = "classifying"
      /\ heard[r][1] = Denied /\ h[r].tier = n /\ blocked'[n] = clock + BlockTTL
  BY <1>1, <1>2 DEF Classify
<1>4. heard[r] = <<Denied>>
  BY <1>3, Attempts
<1>5. blocked'[n] > blocked[n]
  BY <1>2, <1>3
<1> QED
  BY <1>3, <1>4, <1>5

\* A tier is blocked by a handler it denied, and no block is shortened.
THEOREM BlocksAreEarned == Spec => BlocksEarned
<1>1. IInv /\ [Next]_vars =>
         [\A n \in Names :
             blocked'[n] # blocked[n] =>
                 /\ blocked'[n] > blocked[n]
                 /\ \E r \in Requests :
                       /\ h[r].at = "classifying" /\ h[r].tier = n
                       /\ heard[r] = <<Denied>>]_vars
  BY EarnedStep
<1> QED
  BY <1>1, Invariance, PTL DEF BlocksEarned, Spec

\* A policy, once live, is only ever replaced by another one.
THEOREM PoliciesAreKept == Spec => PolicyKept
<1>1. IInv /\ [Next]_vars => [live # NoPolicy => live' # NoPolicy]_vars
  <2> SUFFICES ASSUME [Next]_vars, live' # live, live # NoPolicy
               PROVE  live' # NoPolicy
    OBVIOUS
  <2>1. Reload
    BY DEF Next, Accept, Serve, Outcome, RejectionHeaders,
           PassUnrouted, LoadPolicy, DecidePin,
           DecideRoute, DecideKeep, DecideRequested, DecideDefault,
           RecordDefault, GuardBlocked, GuardContext, Rewrite, SendRouted,
           SendOriginal, SendRetry, Send, Relay, Rejected, TransportError,
           RetryLost, Answer, Classify, Forget, Tick, shared, vars
  <2> QED
    BY <2>1, ProxyConstants DEF Reload, Reloaded
<1> QED
  BY <1>1, Invariance, PTL DEF PolicyKept, Spec

-----------------------------------------------------------------------------
\* The sends are the contract's.
LEMMA SendImplements ==
    ASSUME IInv, NEW r \in Requests,
           SendRouted(r) \/ SendOriginal(r) \/ SendRetry(r)
    PROVE  Contract!Next
<1>1. /\ sent \in [Requests -> Seq({"routed", "original"})]
      /\ reply[r] = NoReply
  BY Attempts DEF IInv, TypeOK, SendRouted, SendOriginal, SendRetry, Send
<1>2. ASSUME NEW from \in {"routing", "passing"}, NEW body \in {"routed", "original"},
             Send(r, from, body)
      PROVE  Contract!Send(r, body)
  <2>1. sent[r] = <<>>
    BY <1>2, Attempts DEF Send
  <2> QED
    BY <1>1, <1>2, <2>1, Appends DEF Send, Contract!Send
<1>3. CASE SendRetry(r)
  <2>1. /\ sent[r] = <<"routed">> /\ heard[r] = <<heard[r][1]>>
        /\ heard[r][1] \in Rejections
    BY <1>3, Attempts DEF SendRetry, Send
  <2>2. Len(heard[r]) = 1
    BY <2>1, Appends
  <2>3. Append(sent[r], "original") = <<"routed", "original">>
    BY <2>1, Appends
  <2>4. /\ sent' = [sent EXCEPT ![r] = <<"routed", "original">>]
        /\ UNCHANGED <<heard, reply>>
    BY <1>3, <2>3 DEF SendRetry, Send
  <2>5. Contract!Retry(r)
    BY <1>1, <2>1, <2>2, <2>4 DEF Contract!Retry
  <2> QED
    BY <2>5 DEF Contract!Next
<1> QED
  BY <1>2, <1>3 DEF SendRouted, SendOriginal, Contract!Next, Contract!Bodies

\* An outcome is the contract's when the reply is the verdict on it.
LEMMA HearImplements ==
    ASSUME IInv, NEW r \in Requests, h[r].at \in {"awaiting", "buffering"},
           NEW o \in Statuses \cup {Lost},
           heard' = [heard EXCEPT ![r] = Append(@, o)],
           reply' = [reply EXCEPT ![r] = Contract!Verdict(sent[r], Append(heard[r], o))],
           UNCHANGED sent
    PROVE  Contract!Next
<1>1. heard \in [Requests -> Seq(Statuses \cup {Lost})] /\ reply[r] = NoReply
  BY Attempts DEF IInv, TypeOK
<1>2. Len(heard[r]) < Len(sent[r])
  <2>1. CASE heard[r] = <<>> /\ Len(sent[r]) = 1
    BY <2>1, Appends
  <2>2. CASE (\E x \in Rejections : heard[r] = <<x>>) /\ Len(sent[r]) = 2
    <3>1. Len(heard[r]) = 1
      BY <2>2, Appends
    <3> QED
      BY <2>2, <3>1
  <2> QED
    BY <2>1, <2>2, Attempts
<1>3. heard'[r] = Append(heard[r], o)
  BY <1>1
<1>4. Contract!Hear(r, o)
  BY <1>1, <1>2, <1>3 DEF Contract!Hear
<1> QED
  BY <1>4 DEF Contract!Next, Contract!Outcomes

\* The replies are the contract's verdicts.
LEMMA OutcomeImplements ==
    ASSUME IInv, NEW r \in Requests,
           \/ \E o \in Statuses : Relay(r, o) \/ Rejected(r, o)
           \/ TransportError(r) \/ RetryLost(r)
    PROVE  Contract!Next
<1>1. /\ h[r].at \in {"awaiting", "buffering"}
      /\ h[r].at = "awaiting" \/ \E o \in Statuses : Rejected(r, o)
  BY DEF Relay, Rejected, TransportError, RetryLost, Awaiting
<1>2. reply \in [Requests -> [status : Statuses \cup {Lost},
                              from : {"routed", "original", "proxy"}]
                             \cup {NoReply}]
      /\ reply[r] = NoReply
  BY <1>1, Attempts DEF IInv, TypeOK
<1>3. ASSUME NEW x, NEW o, sent[r] = <<"routed", "original">>, heard[r] = <<x>>
      PROVE  Contract!Verdict(sent[r], Append(heard[r], o))
                = IF o = Lost THEN [status |-> x, from |-> "routed"]
                  ELSE [status |-> o, from |-> "original"]
  <2>1. Append(heard[r], o) = <<x, o>> /\ Len(<<x, o>>) = 2
        /\ <<x, o>>[1] = x /\ <<x, o>>[2] = o
    BY <1>3, Appends
  <2>2. sent[r][1] = "routed" /\ sent[r][2] = "original"
    BY <1>3, Appends
  <2> QED
    BY <2>1, <2>2 DEF Contract!Verdict
<1>4. ASSUME NEW o, heard[r] = <<>>
      PROVE  Contract!Verdict(sent[r], Append(heard[r], o))
                = IF o = Lost THEN [status |-> Lost, from |-> "proxy"]
                  ELSE IF sent[r][1] = "routed" /\ o \in Rejections THEN NoReply
                  ELSE [status |-> o, from |-> sent[r][1]]
  <2>1. Append(heard[r], o) = <<o>> /\ Len(<<o>>) = 1 /\ <<o>>[1] = o
    BY <1>4, Appends
  <2> QED
    BY <2>1 DEF Contract!Verdict
<1>5. ASSUME NEW o \in Statuses, Relay(r, o) PROVE Contract!Next
  <2>1. o # Lost
    BY ProxyConstants
  <2>2. Contract!Verdict(sent[r], Append(heard[r], o))
           = [status |-> o, from |-> LastSent(r)]
    <3>1. CASE heard[r] = <<>> /\ Len(sent[r]) = 1 /\ sent[r][1] = LastSent(r)
      BY <1>4, <1>5, <2>1, <3>1 DEF Relay
    <3>2. CASE /\ sent[r] = <<"routed", "original">> /\ LastSent(r) = "original"
               /\ \E x \in Rejections : heard[r] = <<x>>
      BY <1>3, <2>1, <3>2
    <3> QED
      BY <1>5, <3>1, <3>2, Attempts DEF Relay, Awaiting
  <2> QED
    BY <1>1, <1>5, <2>2, HearImplements DEF Relay, Answer
<1>6. ASSUME NEW o \in Statuses, Rejected(r, o) PROVE Contract!Next
  <2>1. o # Lost /\ o \in Rejections /\ h[r].at = "buffering"
    BY <1>6, ProxyConstants DEF Rejected
  <2>2. heard[r] = <<>> /\ sent[r][1] = "routed"
    BY <2>1, Attempts
  <2>3. Contract!Verdict(sent[r], Append(heard[r], o)) = NoReply
    BY <1>4, <2>1, <2>2
  <2>4. reply' = [reply EXCEPT ![r] = NoReply]
    BY <1>2, <1>6 DEF Rejected
  <2> QED
    BY <1>1, <1>6, <2>3, <2>4, HearImplements DEF Rejected
<1>7. CASE TransportError(r)
  <2>1. heard[r] = <<>>
    BY <1>7, Attempts DEF TransportError, Awaiting
  <2>2. Contract!Verdict(sent[r], Append(heard[r], Lost))
           = [status |-> Lost, from |-> "proxy"]
    BY <1>4, <2>1
  <2> QED
    BY <1>1, <1>7, <2>2, HearImplements DEF TransportError, Answer
<1>8. CASE RetryLost(r)
  <2>1. sent[r] = <<"routed", "original">> /\ \E x \in Rejections : heard[r] = <<x>>
    BY <1>8, Attempts DEF RetryLost, Awaiting
  <2>2. PICK x \in Rejections : heard[r] = <<x>>
    BY <2>1
  <2>3. heard[r][1] = x
    BY <2>2, Appends
  <2>4. Contract!Verdict(sent[r], Append(heard[r], Lost))
           = [status |-> heard[r][1], from |-> "routed"]
    BY <1>3, <2>1, <2>2, <2>3
  <2> QED
    BY <1>1, <1>8, <2>4, HearImplements DEF RetryLost, Answer
<1> QED
  BY <1>5, <1>6, <1>7, <1>8

\* Every step is a step of the contract, or none of the client's business.
LEMMA StepImplements ==
    ASSUME IInv, [Next]_vars
    PROVE  [Contract!Next]_(Contract!vars)
<1>1. CASE \E r \in Requests :
              \/ SendRouted(r) \/ SendOriginal(r) \/ SendRetry(r)
              \/ \E o \in Statuses : Relay(r, o) \/ Rejected(r, o)
              \/ TransportError(r) \/ RetryLost(r)
  BY <1>1, SendImplements, OutcomeImplements
<1>2. CASE ~ \E r \in Requests :
              \/ SendRouted(r) \/ SendOriginal(r) \/ SendRetry(r)
              \/ \E o \in Statuses : Relay(r, o) \/ Rejected(r, o)
              \/ TransportError(r) \/ RetryLost(r)
  <2>1. UNCHANGED wire
    BY <1>2 DEF Next, Accept, Serve, Outcome, RejectionHeaders,
                PassUnrouted, LoadPolicy, DecidePin,
                DecideRoute, DecideKeep, DecideRequested, DecideDefault,
                RecordDefault, GuardBlocked, GuardContext, Rewrite, Classify,
                Reload, Forget, Tick, wire, vars
  <2> QED
    BY <2>1 DEF wire, Contract!vars
<1> QED
  BY <1>1, <1>2

\* The proxy implements its contract for any policies, requests and statuses.
THEOREM ProxyImplementsContract == Spec => ImplementsContract
<1>1. Init => Contract!Init
  BY DEF Init, Contract!Init
<1> QED
  BY <1>1, Invariance, StepImplements, PTL DEF Spec, ImplementsContract, Contract!Spec

-----------------------------------------------------------------------------

\* A message by its parts.
LEMMA MessageIs ==
    ASSUME NEW m
    PROVE  m \in Message <=>
              /\ m = [role |-> m.role, kind |-> m.kind, blocks |-> m.blocks]
              /\ m.role \in Roles /\ m.kind \in {"string", "blocks", "other", "junk"}
              /\ m.blocks \in Seq(Blocks)
              /\ m.kind = "string" => Len(m.blocks) = 1 /\ m.blocks[1] \notin Thinking
              /\ m.kind \in {"other", "junk"} => m.blocks = <<>>
              /\ m.kind = "junk" => m.role = "none"
  BY DEF Message

\* A turn without its thinking is a message.
LEMMA BareIs ==
    ASSUME NEW m \in Message, m.kind = "blocks"
    PROVE  /\ Bare(m) \in Message
           /\ Bare(m) = [role |-> m.role, kind |-> "blocks",
                          blocks |-> Only(m.blocks, Blocks \ Thinking)]
<1>1. m = [role |-> m.role, kind |-> m.kind, blocks |-> m.blocks] /\ m.role \in Roles
      /\ m.blocks \in Seq(Blocks)
  BY MessageIs
<1>2. Only(m.blocks, Blocks \ Thinking) \in Seq(Blocks)
  BY <1>1, OnlyIs
<1>3. Bare(m) = [role |-> m.role, kind |-> "blocks",
                 blocks |-> Only(m.blocks, Blocks \ Thinking)]
  BY <1>1 DEF Bare
<1>4. QED
  BY <1>1, <1>2, <1>3, MessageIs

\* The rounds of the two loops over the messages, as functions.
StripTurnF == [kept \in Seq(Message) |-> [m \in Message |-> StripTurn(kept, m)]]
MergeF == [out \in Seq(Message) |-> [m \in Message |-> Merge(out, m)]]

LEMMA StripTurnStays == Stays(StripTurnF, Seq(Message), Message)
<1>1. \A kept \in Seq(Message), m \in Message : StripTurn(kept, m) \in Seq(Message)
  BY BareIs, AppendProperties DEF StripTurn
<1>2. QED
  BY <1>1 DEF Stays, StripTurnF

\* Two messages of one role joined.
LEMMA JoinedIs ==
    ASSUME NEW m \in Message, NEW n \in Message, Mergeable(m, n)
    PROVE  /\ Joined(m, n) \in Message
           /\ Joined(m, n) = [role |-> m.role, kind |-> "blocks",
                               blocks |-> m.blocks \o n.blocks]
<1>1. /\ m = [role |-> m.role, kind |-> m.kind, blocks |-> m.blocks]
      /\ m.role \in Roles /\ m.blocks \in Seq(Blocks) /\ n.blocks \in Seq(Blocks)
  BY MessageIs
<1>2. m.blocks \o n.blocks \in Seq(Blocks)
  BY <1>1, ConcatProperties
<1> DEFINE c == m.blocks \o n.blocks
           q == [m EXCEPT !.kind = "blocks"]
<1>3. Joined(m, n) = [q EXCEPT !.blocks = c]
  BY <1>1 DEF Joined
<1>4. q = [role |-> m.role, kind |-> "blocks", blocks |-> m.blocks]
  BY <1>1
<1>5. Joined(m, n) = [role |-> m.role, kind |-> "blocks", blocks |-> c]
  <2> HIDE DEF q, c
  <2>1. QED
    BY <1>3, <1>4
<1>6. QED
  BY <1>1, <1>2, <1>5, MessageIs

\* The last of some messages and those before it.
LEMMA LastAndFront ==
    ASSUME NEW B, NEW s \in Seq(B), s # <<>>
    PROVE  /\ Last(s) \in B /\ Front(s) \in Seq(B) /\ s = Append(Front(s), Last(s))
           /\ Len(Front(s)) = Len(s) - 1 /\ Len(s) \in Nat \ {0}
           /\ \A i \in 1..(Len(s) - 1) : Front(s)[i] = s[i]
<1>1. Len(s) \in Nat \ {0}
  BY EmptySeq, LenProperties
<1>2. Last(s) \in B
  BY <1>1, ElementOfSeq DEF Last
<1>3. Front(s) \in Seq(B) /\ Len(Front(s)) = Len(s) - 1
      /\ \A i \in 1..(Len(s) - 1) : Front(s)[i] = s[i]
  <2> DEFINE n == Len(s) - 1
  <2>1. n \in Nat /\ \A i \in 1..n : i \in 1..Len(s)
    BY <1>1
  <2>2. \A i \in 1..n : s[i] \in B
    BY <1>1, <2>1, ElementOfSeq
  <2>3. /\ SubSeq(s, 1, n) \in Seq(B)
        /\ Len(SubSeq(s, 1, n)) = IF 1 <= n THEN n - 1 + 1 ELSE 0
        /\ \A i \in 1..(n - 1 + 1) : SubSeq(s, 1, n)[i] = s[1 + i - 1]
    BY <2>1, <2>2, SubSeqProperties
  <2> HIDE DEF n
  <2>4. n - 1 + 1 = n /\ (~(1 <= n) => n = 0) /\ \A i \in 1..n : 1 + i - 1 = i
    BY <2>1
  <2>5. QED
    BY <2>3, <2>4, <2>1 DEF Front, n
<1>4. s = Append(Front(s), Last(s))
  <2> DEFINE u == Append(Front(s), Last(s))
  <2>1. /\ u \in Seq(B) /\ Len(u) = Len(Front(s)) + 1
        /\ \A i \in 1..Len(Front(s)) : u[i] = Front(s)[i]
        /\ u[Len(Front(s)) + 1] = Last(s)
    BY <1>2, <1>3, AppendProperties
  <2> HIDE DEF u
  <2>2. \A i \in 1..Len(s) : u[i] = s[i]
    BY <1>1, <1>3, <2>1 DEF Last
  <2>3. Len(u) = Len(s)
    BY <1>1, <1>3, <2>1
  <2>4. u = s
    BY <2>1, <2>2, <2>3, SeqEqual
  <2>5. QED
    BY <2>4 DEF u
<1>5. QED
  BY <1>1, <1>2, <1>3, <1>4

LEMMA MergeStays == Stays(MergeF, Seq(Message), Message)
<1>1. ASSUME NEW out \in Seq(Message), NEW m \in Message
      PROVE  Merge(out, m) \in Seq(Message)
  <2>1. CASE out # <<>> /\ Mergeable(Last(out), m)
    <3>1. Joined(Last(out), m) \in Message /\ Front(out) \in Seq(Message)
      BY <2>1, JoinedIs, LastAndFront
    <3>2. QED
      BY <2>1, <3>1, AppendProperties DEF Merge
  <2>2. CASE ~(out # <<>> /\ Mergeable(Last(out), m))
    BY <2>2, AppendProperties DEF Merge
  <2>3. QED
    BY <2>1, <2>2
<1>2. QED
  BY <1>1 DEF Stays, MergeF

\* The thinking strip is the fold of its rounds.
LEMMA StripHistoryIsFold ==
    ASSUME NEW s \in Seq(Message)
    PROVE  StripHistory(s) = LeftFold(StripTurnF, <<>>, s)
<1> DEFINE P == DOMAIN s
           base == <<>>
           E(hs) == [t \in SUBSET P |->
                       IF t = {} THEN base
                       ELSE StripTurn(hs[t \ {Max(t)}], s[Max(t)])]
           it == CHOOSE hs : hs = E(hs)
<1>1. Stays(StripTurnF, Seq(Message), Message) /\ base \in Seq(Message)
  BY StripTurnStays, EmptySeq
<1>2. Len(s) \in Nat /\ P = 1..Len(s) /\ \A i \in P : s[i] \in Message
  BY LenProperties, ElementOfSeq
<1>3. \A t \in SUBSET P : t # {} => Max(t) \in P
  BY <1>2, LastPosition
<1> HIDE DEF base
<1>4. PICK hs \in [SUBSET P -> Seq(Message)] : Lefts(hs, StripTurnF, base, s)
  BY <1>1, LeftsExist
<1>5. ASSUME NEW t \in SUBSET P
      PROVE  hs[t] = IF t = {} THEN base
                    ELSE StripTurn(hs[t \ {Max(t)}], s[Max(t)])
  <2>1. hs[t] = IF t = {} THEN base ELSE StripTurnF[hs[t \ {Max(t)}]][s[Max(t)]]
    BY <1>4 DEF Lefts
  <2>2. QED
    BY <1>2, <1>3, <2>1 DEF StripTurnF
<1>6. it = E(it)
  <2>1. hs = E(hs)
    BY <1>5
  <2> HIDE DEF E
  <2>2. QED
    BY <2>1
<1>7. StripHistory(s) = it[P]
  BY DEF StripHistory, FoldLeft, MapThenFoldSet, base
<1> HIDE DEF it
<1>8. \A t \in SUBSET P : it[t] = IF t = {} THEN base
                                  ELSE StripTurn(it[t \ {Max(t)}], s[Max(t)])
  BY <1>6
<1>9. GoesOn(it, StripTurnF, Seq(Message), base, s)
  BY <1>2, <1>3, <1>8 DEF GoesOn, StripTurnF
<1>10. it[P] = LeftFold(StripTurnF, base, s)
  BY <1>1, <1>9, GoesOnIsFold
<1>11. QED
  BY <1>7, <1>10 DEF base

\* So is the merging of turns.
LEMMA MergedIsFold ==
    ASSUME NEW s \in Seq(Message)
    PROVE  FoldLeft(Merge, <<>>, s) = LeftFold(MergeF, <<>>, s)
<1> DEFINE P == DOMAIN s
           base == <<>>
           E(hs) == [t \in SUBSET P |->
                       IF t = {} THEN base
                       ELSE Merge(hs[t \ {Max(t)}], s[Max(t)])]
           it == CHOOSE hs : hs = E(hs)
<1>1. Stays(MergeF, Seq(Message), Message) /\ base \in Seq(Message)
  BY MergeStays, EmptySeq
<1>2. Len(s) \in Nat /\ P = 1..Len(s) /\ \A i \in P : s[i] \in Message
  BY LenProperties, ElementOfSeq
<1>3. \A t \in SUBSET P : t # {} => Max(t) \in P
  BY <1>2, LastPosition
<1> HIDE DEF base
<1>4. PICK hs \in [SUBSET P -> Seq(Message)] : Lefts(hs, MergeF, base, s)
  BY <1>1, LeftsExist
<1>5. ASSUME NEW t \in SUBSET P
      PROVE  hs[t] = IF t = {} THEN base
                    ELSE Merge(hs[t \ {Max(t)}], s[Max(t)])
  <2>1. hs[t] = IF t = {} THEN base ELSE MergeF[hs[t \ {Max(t)}]][s[Max(t)]]
    BY <1>4 DEF Lefts
  <2>2. QED
    BY <1>2, <1>3, <2>1 DEF MergeF
<1>6. it = E(it)
  <2>1. hs = E(hs)
    BY <1>5
  <2> HIDE DEF E
  <2>2. QED
    BY <2>1
<1>7. FoldLeft(Merge, <<>>, s) = it[P]
  BY DEF Merge, FoldLeft, MapThenFoldSet, base
<1> HIDE DEF it
<1>8. \A t \in SUBSET P : it[t] = IF t = {} THEN base
                                  ELSE Merge(it[t \ {Max(t)}], s[Max(t)])
  BY <1>6
<1>9. GoesOn(it, MergeF, Seq(Message), base, s)
  BY <1>2, <1>3, <1>8 DEF GoesOn, MergeF
<1>10. it[P] = LeftFold(MergeF, base, s)
  BY <1>1, <1>9, GoesOnIsFold
<1>11. QED
  BY <1>7, <1>10 DEF base

\* The thinking strip turn by turn.
LEMMA StripHistoryIs ==
    /\ StripHistory(<<>>) = <<>>
    /\ \A s \in Seq(Message) : StripHistory(s) \in Seq(Message)
    /\ \A s \in Seq(Message), m \in Message :
           StripHistory(Append(s, m)) = StripTurn(StripHistory(s), m)
<1> DEFINE F == StripTurnF
           base == <<>>
<1>1. Stays(F, Seq(Message), Message) /\ base \in Seq(Message)
  BY StripTurnStays, EmptySeq
<1>2. \A s \in Seq(Message) : StripHistory(s) = LeftFold(F, base, s)
  BY StripHistoryIsFold
<1>3. \A v \in Seq(Message), x \in Message : F[v][x] = StripTurn(v, x)
  BY DEF StripTurnF
<1>4. base = <<>>
  OBVIOUS
<1> HIDE DEF F, base
<1>5. ASSUME NEW s \in Seq(Message) PROVE StripHistory(s) \in Seq(Message)
  <2>1. LeftFold(F, base, s) \in Seq(Message)
    BY <1>1, LeftFoldType
  <2>2. QED
    BY <1>2, <2>1
<1>6. StripHistory(base) = base
  <2>1. LeftFold(F, base, <<>>) = base
    BY <1>1, LeftFoldEmpty
  <2>2. QED
    BY <1>1, <1>2, <1>4, <2>1
<1>7. ASSUME NEW s \in Seq(Message), NEW m \in Message
      PROVE  StripHistory(Append(s, m)) = StripTurn(StripHistory(s), m)
  <2>1. Append(s, m) \in Seq(Message)
    BY AppendProperties
  <2>2. LeftFold(F, base, Append(s, m)) = F[LeftFold(F, base, s)][m]
    BY <1>1, LeftFoldAppend
  <2>3. QED
    BY <1>2, <1>3, <1>5, <2>1, <2>2
<1>8. QED
  BY <1>4, <1>5, <1>6, <1>7

\* The merging of turns, turn by turn.
Merged(s) == FoldLeft(Merge, <<>>, s)
LEMMA MergedIs ==
    /\ Merged(<<>>) = <<>>
    /\ \A s \in Seq(Message) : Merged(s) \in Seq(Message)
    /\ \A s \in Seq(Message), m \in Message :
           Merged(Append(s, m)) = Merge(Merged(s), m)
<1> DEFINE F == MergeF
           base == <<>>
<1>1. Stays(F, Seq(Message), Message) /\ base \in Seq(Message)
  BY MergeStays, EmptySeq
<1>2. \A s \in Seq(Message) : Merged(s) = LeftFold(F, base, s)
  BY MergedIsFold DEF Merged
<1>3. \A v \in Seq(Message), x \in Message : F[v][x] = Merge(v, x)
  BY DEF MergeF
<1>4. base = <<>>
  OBVIOUS
<1> HIDE DEF F, base
<1>5. ASSUME NEW s \in Seq(Message) PROVE Merged(s) \in Seq(Message)
  <2>1. LeftFold(F, base, s) \in Seq(Message)
    BY <1>1, LeftFoldType
  <2>2. QED
    BY <1>2, <2>1
<1>6. Merged(base) = base
  <2>1. LeftFold(F, base, <<>>) = base
    BY <1>1, LeftFoldEmpty
  <2>2. QED
    BY <1>1, <1>2, <1>4, <2>1
<1>7. ASSUME NEW s \in Seq(Message), NEW m \in Message
      PROVE  Merged(Append(s, m)) = Merge(Merged(s), m)
  <2>1. Append(s, m) \in Seq(Message)
    BY AppendProperties
  <2>2. LeftFold(F, base, Append(s, m)) = F[LeftFold(F, base, s)][m]
    BY <1>1, LeftFoldAppend
  <2>3. QED
    BY <1>2, <1>3, <1>5, <2>1, <2>2
<1>8. QED
  BY <1>4, <1>5, <1>6, <1>7

\* The repair is the merging: of fewer than two turns that changes nothing.
LEMMA RepairIs ==
    ASSUME NEW s \in Seq(Message)
    PROVE  RepairAlternation(s) = Merged(s)
<1>1. CASE Len(s) < 2
  <2>1. CASE s = <<>>
    BY <1>1, <2>1, MergedIs DEF RepairAlternation
  <2>2. CASE s # <<>>
    <3>1. PICK r \in Seq(Message), m \in Message : s = Append(r, m)
      BY <2>2, SequenceEmptyOrAppend
    <3>2. Len(r) = 0
      BY <1>1, <3>1, AppendProperties, LenProperties
    <3>3. r = <<>>
      BY <3>2, EmptySeq
    <3>4. Merged(s) = Merge(<<>>, m)
      BY <3>1, <3>3, MergedIs
    <3>5. QED
      BY <1>1, <3>1, <3>3, <3>4 DEF Merge, RepairAlternation
  <2>3. QED
    BY <2>1, <2>2
<1>2. CASE ~(Len(s) < 2)
  BY <1>2 DEF RepairAlternation, Merged
<1>3. QED
  BY <1>1, <1>2

\* A system turn as the user turn it is converted to.
ToUser(m) == IF m.role = "system" THEN [m EXCEPT !.role = "user"] ELSE m
LEMMA ToUserIs ==
    ASSUME NEW m \in Message
    PROVE  /\ ToUser(m) \in Message
           /\ ToUser(m) = [role |-> Side(m.role), kind |-> m.kind, blocks |-> m.blocks]
           /\ ToUser(m).role # "system"
<1>1. /\ m = [role |-> m.role, kind |-> m.kind, blocks |-> m.blocks]
      /\ m.role \in Roles
  BY MessageIs
<1>2. ToUser(m) = [role |-> Side(m.role), kind |-> m.kind, blocks |-> m.blocks]
  BY <1>1 DEF ToUser, Side
<1>3. Side(m.role) \in Roles /\ Side(m.role) # "system" /\ (m.role = "none" => Side(m.role) = "none")
  BY <1>1 DEF Side, Roles
<1>4. ToUser(m) \in Message
  BY <1>2, <1>3, MessageIs
<1>5. QED
  BY <1>2, <1>3, <1>4

\* The conversion turn by turn.
LEMMA SystemToUserIs ==
    /\ SystemToUser(<<>>) = <<>>
    /\ \A s \in Seq(Message) :
          /\ SystemToUser(s) \in Seq(Message)
          /\ Len(SystemToUser(s)) = Len(s)
          /\ \A i \in 1..Len(s) : SystemToUser(s)[i] = ToUser(s[i])
    /\ \A s \in Seq(Message), m \in Message :
           SystemToUser(Append(s, m)) = Append(SystemToUser(s), ToUser(m))
<1>1. ASSUME NEW s \in Seq(Message)
      PROVE  /\ SystemToUser(s) \in Seq(Message) /\ Len(SystemToUser(s)) = Len(s)
             /\ \A i \in 1..Len(s) : SystemToUser(s)[i] = ToUser(s[i])
  <2>1. Len(s) \in Nat /\ DOMAIN s = 1..Len(s) /\ \A i \in 1..Len(s) : s[i] \in Message
    BY LenProperties, ElementOfSeq
  <2>2. SystemToUser(s) = [i \in 1..Len(s) |-> ToUser(s[i])]
    BY <2>1 DEF SystemToUser, ToUser
  <2>3. \A i \in 1..Len(s) : ToUser(s[i]) \in Message
    BY <2>1, ToUserIs
  <2>4. SystemToUser(s) \in [1..Len(s) -> Message]
    BY <2>2, <2>3
  <2>5. SystemToUser(s) \in Seq(Message) /\ Len(SystemToUser(s)) = Len(s)
    BY <2>1, <2>4, SeqDef, LenProperties
  <2>6. QED
    BY <2>2, <2>5
<1>2. SystemToUser(<<>>) = <<>>
  <2>1. <<>> \in Seq(Message) /\ Len(<<>>) = 0
    BY EmptySeq
  <2>2. Len(SystemToUser(<<>>)) = 0 /\ SystemToUser(<<>>) \in Seq(Message)
    BY <1>1, <2>1
  <2>3. QED
    BY <2>2, EmptySeq
<1>3. ASSUME NEW s \in Seq(Message), NEW m \in Message
      PROVE  SystemToUser(Append(s, m)) = Append(SystemToUser(s), ToUser(m))
  <2> DEFINE u == Append(s, m)
             v == SystemToUser(u)
             w == Append(SystemToUser(s), ToUser(m))
  <2>1. /\ u \in Seq(Message) /\ Len(u) = Len(s) + 1 /\ u[Len(s) + 1] = m
        /\ \A i \in 1..Len(s) : u[i] = s[i]
    BY AppendProperties
  <2>2. /\ v \in Seq(Message) /\ Len(v) = Len(u) /\ \A i \in 1..Len(u) : v[i] = ToUser(u[i])
    BY <1>1, <2>1
  <2>3. /\ w \in Seq(Message) /\ Len(w) = Len(s) + 1 /\ w[Len(s) + 1] = ToUser(m)
        /\ \A i \in 1..Len(s) : w[i] = ToUser(s[i])
    BY <1>1, ToUserIs, AppendProperties
  <2>4. Len(s) \in Nat
    BY LenProperties
  <2> HIDE DEF u, v, w
  <2>5. \A i \in 1..Len(v) : v[i] = w[i]
    <3>1. ASSUME NEW i \in 1..(Len(s) + 1) PROVE v[i] = w[i]
      <4>1. i \in 1..Len(s) \/ i = Len(s) + 1
        BY <2>4
      <4>2. QED
        BY <2>1, <2>2, <2>3, <4>1
    <3>2. QED
      BY <2>1, <2>2, <3>1
  <2>6. v = w
    BY <2>1, <2>2, <2>3, <2>5, SeqEqual
  <2>7. QED
    BY <2>6 DEF v, w, u
<1>4. QED
  BY <1>1, <1>2, <1>3

\* Converting a turn and taking its thinking away commute.
LEMMA BareToUser ==
    ASSUME NEW m \in Message, m.kind = "blocks"
    PROVE  Bare(ToUser(m)) = ToUser(Bare(m)) /\ Bare(ToUser(m)).blocks = Bare(m).blocks
<1>1. ToUser(m) \in Message /\ Bare(m) \in Message
      /\ ToUser(m) = [role |-> Side(m.role), kind |-> m.kind, blocks |-> m.blocks]
      /\ Bare(m) = [role |-> m.role, kind |-> "blocks",
                    blocks |-> Only(m.blocks, Blocks \ Thinking)]
  BY ToUserIs, BareIs
<1>2. ToUser(Bare(m)) = [role |-> Side(Bare(m).role), kind |-> Bare(m).kind,
                         blocks |-> Bare(m).blocks]
  BY <1>1, ToUserIs
<1>3. ToUser(m).kind = "blocks"
  BY <1>1
<1>4. Bare(ToUser(m)) = [role |-> ToUser(m).role, kind |-> "blocks",
                         blocks |-> Only(ToUser(m).blocks, Blocks \ Thinking)]
  BY <1>1, <1>3, BareIs
<1>5. QED
  BY <1>1, <1>2, <1>4

LEMMA StripCommutes ==
    ASSUME NEW s \in Seq(Message)
    PROVE  StripHistory(SystemToUser(s)) = SystemToUser(StripHistory(s))
<1> DEFINE Q == {t \in Seq(Message) :
                   StripHistory(SystemToUser(t)) = SystemToUser(StripHistory(t))}
<1>1. <<>> \in Q
  BY StripHistoryIs, SystemToUserIs, EmptySeq
<1>2. ASSUME NEW t \in Q, NEW m \in Message PROVE Append(t, m) \in Q
  <2> DEFINE k == StripHistory(t)
  <2>1. /\ t \in Seq(Message) /\ k \in Seq(Message) /\ SystemToUser(t) \in Seq(Message)
        /\ Append(t, m) \in Seq(Message)
    BY StripHistoryIs, SystemToUserIs, AppendProperties
  <2>2. StripHistory(SystemToUser(t)) = SystemToUser(k)
    OBVIOUS
  <2>3. StripHistory(Append(t, m)) = StripTurn(k, m)
    BY <2>1, StripHistoryIs
  <2>4. StripHistory(SystemToUser(Append(t, m))) = StripTurn(SystemToUser(k), ToUser(m))
    <3>1. SystemToUser(Append(t, m)) = Append(SystemToUser(t), ToUser(m))
      BY <2>1, SystemToUserIs
    <3>2. ToUser(m) \in Message
      BY ToUserIs
    <3>3. QED
      BY <2>1, <2>2, <3>1, <3>2, StripHistoryIs
  <2> HIDE DEF Q, k
  <2>5. ToUser(m).kind = m.kind
    BY ToUserIs
  <2>6. StripTurn(SystemToUser(k), ToUser(m)) = SystemToUser(StripTurn(k, m))
    <3>1. CASE m.kind # "blocks"
      BY <2>1, <2>5, <3>1, SystemToUserIs DEF StripTurn
    <3>2. CASE m.kind = "blocks"
      <4>1. Bare(ToUser(m)) = ToUser(Bare(m)) /\ Bare(ToUser(m)).blocks = Bare(m).blocks
        BY <3>2, BareToUser
      <4>2. Bare(m) \in Message
        BY <3>2, BareIs
      <4>3. SystemToUser(Append(k, Bare(m))) = Append(SystemToUser(k), ToUser(Bare(m)))
        BY <2>1, <4>2, SystemToUserIs
      <4> HIDE DEF Bare
      <4>4. QED
        BY <2>5, <3>2, <4>1, <4>3 DEF StripTurn
    <3>3. QED
      BY <3>1, <3>2
  <2>7. QED
    BY <2>1, <2>3, <2>4, <2>6 DEF Q
<1>3. \A t \in Seq(Message) : t \in Q
  <2>1. Q \in SUBSET Seq(Message)
    OBVIOUS
  <2> HIDE DEF Q
  <2>2. QED
    BY <1>1, <1>2, <2>1, SequencesAll
<1>4. QED
  BY <1>3

-----------------------------------------------------------------------------
(***************************************************************************)
(* What is left of a request when the features of a set are stripped.      *)
(***************************************************************************)

\* The history, the header and the fields without the features of G.
Moved(ms, G) ==
    LET hs == IF "thinking" \in G THEN StripHistory(ms) ELSE ms
    IN  IF "midconv-system" \in G THEN SystemToUser(hs) ELSE hs
Parted(r, G) ==
    [model |-> r.model,
     thinking |-> IF "thinking" \in G THEN FALSE ELSE r.thinking,
     output |-> IF "effort" \in G THEN WithoutEffort(r.output) ELSE r.output,
     edits |-> IF "thinking" \in G THEN WithoutEdits(r.edits) ELSE r.edits,
     messages |-> Moved(r.messages, G),
     betas |-> {b \in r.betas : Owners[b] \cap G = {}}]

\* A request by its parts.
LEMMA RequestIs ==
    ASSUME NEW r \in Request
    PROVE  /\ r = [model |-> r.model, thinking |-> r.thinking, output |-> r.output,
                   edits |-> r.edits, messages |-> r.messages, betas |-> r.betas]
           /\ r.messages \in Seq(Message) /\ r.betas \in SUBSET Betas
           /\ r.thinking \in BOOLEAN
           /\ r.output \in {Absent} \cup SUBSET {"effort", "format"}
           /\ r.edits \in {Absent} \cup SUBSET {"thinking", "other"}
  BY DEF Request

\* The features.
LEMMA FeaturesAre ==
    /\ Len(Features) = 4 /\ Repair = 5 /\ Done = 6
    /\ Features[1] = "context-1m" /\ Features[2] = "effort"
    /\ Features[3] = "thinking" /\ Features[4] = "midconv-system"
    /\ FeatureSet = {"context-1m", "effort", "thinking", "midconv-system"}
<1>1. /\ Len(Features) = 4 /\ DOMAIN Features = 1..4
      /\ Features[1] = "context-1m" /\ Features[2] = "effort"
      /\ Features[3] = "thinking" /\ Features[4] = "midconv-system"
  BY DEF Features
<1>2. 1..4 = {1, 2, 3, 4}
  OBVIOUS
<1>3. FeatureSet = {Features[i] : i \in {1, 2, 3, 4}}
  BY <1>1, <1>2 DEF FeatureSet, Range
<1>4. QED
  BY <1>1, <1>3 DEF Repair, Done

\* What a strip does, by parts.
LEMMA StripIs ==
    ASSUME NEW r, r = [model |-> r.model, thinking |-> r.thinking, output |-> r.output,
                       edits |-> r.edits, messages |-> r.messages, betas |-> r.betas],
           NEW f \in FeatureSet
    PROVE  Strip(f, r) =
             [model |-> r.model,
              thinking |-> IF f = "thinking" THEN FALSE ELSE r.thinking,
              output |-> IF f = "effort" THEN WithoutEffort(r.output) ELSE r.output,
              edits |-> IF f = "thinking" THEN WithoutEdits(r.edits) ELSE r.edits,
              messages |-> IF f = "thinking" THEN StripHistory(r.messages)
                           ELSE IF f = "midconv-system" THEN SystemToUser(r.messages)
                           ELSE r.messages,
              betas |-> WithoutBetas(r, f)]
<1> DEFINE q == [r EXCEPT !.betas = WithoutBetas(r, f)]
           w == WithoutBetas(r, f)
           o == WithoutEffort(r.output)
           e == WithoutEdits(r.edits)
           hs == StripHistory(r.messages)
           u == SystemToUser(r.messages)
<1>1. q = [model |-> r.model, thinking |-> r.thinking, output |-> r.output,
           edits |-> r.edits, messages |-> r.messages, betas |-> w]
  <2> HIDE DEF w
  <2>1. [r EXCEPT !.betas = w] =
          [model |-> r.model, thinking |-> r.thinking, output |-> r.output,
           edits |-> r.edits, messages |-> r.messages, betas |-> w]
    OBVIOUS
  <2>2. QED
    BY <2>1 DEF w
<1>2. f \in {"context-1m", "effort", "thinking", "midconv-system"}
  BY FeaturesAre
<1> HIDE DEF w
<1>3. /\ WithoutEffort(q.output) = o /\ WithoutEdits(q.edits) = e
      /\ StripHistory(q.messages) = hs /\ SystemToUser(q.messages) = u
  <2> HIDE DEF q
  <2>1. QED
    BY <1>1
<1>4. CASE f = "context-1m"
  <2>1. Strip(f, r) = q
    BY <1>4 DEF Strip
  <2> HIDE DEF q, o, e, hs, u
  <2>2. QED
    BY <1>1, <1>4, <2>1 DEF w
<1>5. CASE f = "effort"
  <2>1. Strip(f, r) = [q EXCEPT !.output = o]
    BY <1>3, <1>5 DEF Strip
  <2> HIDE DEF q, o, e, hs, u
  <2>2. [q EXCEPT !.output = o] =
          [model |-> r.model, thinking |-> r.thinking, output |-> o,
           edits |-> r.edits, messages |-> r.messages, betas |-> w]
    BY <1>1
  <2>3. QED
    BY <1>5, <2>1, <2>2 DEF w, o
<1>6. CASE f = "thinking"
  <2> DEFINE no == FALSE
             q1 == [q EXCEPT !.thinking = no]
             q2 == [q1 EXCEPT !.messages = hs]
             q3 == [q2 EXCEPT !.edits = e]
  <2>1. Strip(f, r) = q3
    BY <1>3, <1>6 DEF Strip
  <2> HIDE DEF no, q, o, e, hs, u
  <2>2. q1 = [model |-> r.model, thinking |-> no, output |-> r.output,
              edits |-> r.edits, messages |-> r.messages, betas |-> w]
    BY <1>1
  <2> HIDE DEF q1
  <2>3. q2 = [model |-> r.model, thinking |-> no, output |-> r.output,
              edits |-> r.edits, messages |-> hs, betas |-> w]
    BY <2>2
  <2> HIDE DEF q2
  <2>4. q3 = [model |-> r.model, thinking |-> no, output |-> r.output,
              edits |-> e, messages |-> hs, betas |-> w]
    BY <2>3
  <2> HIDE DEF q3
  <2>5. QED
    BY <1>6, <2>1, <2>4 DEF w, e, hs, no
<1>7. CASE f = "midconv-system"
  <2>1. Strip(f, r) = [q EXCEPT !.messages = u]
    BY <1>3, <1>7 DEF Strip
  <2> HIDE DEF q, o, e, hs, u
  <2>2. [q EXCEPT !.messages = u] =
          [model |-> r.model, thinking |-> r.thinking, output |-> r.output,
           edits |-> r.edits, messages |-> u, betas |-> w]
    BY <1>1
  <2>3. QED
    BY <1>7, <2>1, <2>2 DEF w, u
<1>8. QED
  BY <1>2, <1>4, <1>5, <1>6, <1>7

\* Stripping one feature more.
LEMMA StripParted ==
    ASSUME NEW r \in Request, NEW G \in SUBSET FeatureSet, NEW f \in FeatureSet, f \notin G
    PROVE  Strip(f, Parted(r, G)) = Parted(r, G \cup {f})
<1> DEFINE p == Parted(r, G)
<1>1. p = [model |-> p.model, thinking |-> p.thinking, output |-> p.output,
           edits |-> p.edits, messages |-> p.messages, betas |-> p.betas]
  BY DEF Parted
<1>2. /\ p.model = r.model
      /\ p.thinking = (IF "thinking" \in G THEN FALSE ELSE r.thinking)
      /\ p.output = (IF "effort" \in G THEN WithoutEffort(r.output) ELSE r.output)
      /\ p.edits = (IF "thinking" \in G THEN WithoutEdits(r.edits) ELSE r.edits)
      /\ p.messages = Moved(r.messages, G)
      /\ p.betas = {b \in r.betas : Owners[b] \cap G = {}}
  BY DEF Parted
<1> HIDE DEF p
<1> DEFINE D == G \cup {f}
<1>3. WithoutBetas(p, f) = {b \in r.betas : Owners[b] \cap D = {}}
  BY <1>2 DEF WithoutBetas
<1>4. f \in {"context-1m", "effort", "thinking", "midconv-system"}
  BY FeaturesAre
<1>5. (IF f = "thinking" THEN StripHistory(p.messages)
       ELSE IF f = "midconv-system" THEN SystemToUser(p.messages)
       ELSE p.messages) = Moved(r.messages, D)
  <2>1. r.messages \in Seq(Message)
    BY RequestIs
  <2>2. StripHistory(SystemToUser(r.messages)) = SystemToUser(StripHistory(r.messages))
    BY <2>1, StripCommutes
  <2>3. CASE f = "thinking"
    BY <1>2, <2>2, <2>3 DEF Moved
  <2>4. CASE f = "midconv-system"
    BY <1>2, <2>4 DEF Moved
  <2>5. CASE f \notin {"thinking", "midconv-system"}
    BY <1>2, <2>5 DEF Moved
  <2>6. QED
    BY <2>3, <2>4, <2>5
<1>6. (IF f = "thinking" THEN FALSE ELSE p.thinking)
        = (IF "thinking" \in D THEN FALSE ELSE r.thinking)
  BY <1>2
<1>7. (IF f = "effort" THEN WithoutEffort(p.output) ELSE p.output)
        = (IF "effort" \in D THEN WithoutEffort(r.output) ELSE r.output)
  BY <1>2
<1>8. (IF f = "thinking" THEN WithoutEdits(p.edits) ELSE p.edits)
        = (IF "thinking" \in D THEN WithoutEdits(r.edits) ELSE r.edits)
  BY <1>2
<1> HIDE DEF D
<1>9. Strip(f, p) =
             [model |-> p.model,
              thinking |-> IF f = "thinking" THEN FALSE ELSE p.thinking,
              output |-> IF f = "effort" THEN WithoutEffort(p.output) ELSE p.output,
              edits |-> IF f = "thinking" THEN WithoutEdits(p.edits) ELSE p.edits,
              messages |-> IF f = "thinking" THEN StripHistory(p.messages)
                           ELSE IF f = "midconv-system" THEN SystemToUser(p.messages)
                           ELSE p.messages,
              betas |-> WithoutBetas(p, f)]
  BY <1>1, StripIs
<1>10. Strip(f, p) = Parted(r, D)
  BY <1>2, <1>3, <1>5, <1>6, <1>7, <1>8, <1>9 DEF Parted
<1>11. QED
  BY <1>10 DEF D, p

\* Of no features there is nothing to strip.
LEMMA PartedNone ==
    ASSUME NEW r \in Request
    PROVE  Parted(r, {}) = r
<1>1. Moved(r.messages, {}) = r.messages
  BY DEF Moved
<1>2. {b \in r.betas : Owners[b] \cap {} = {}} = r.betas
  OBVIOUS
<1>3. QED
  BY <1>1, <1>2, RequestIs DEF Parted

\* The stripped history is a history.
LEMMA MovedIs ==
    ASSUME NEW ms \in Seq(Message), NEW G
    PROVE  Moved(ms, G) \in Seq(Message)
  BY StripHistoryIs, SystemToUserIs DEF Moved

-----------------------------------------------------------------------------
(***************************************************************************)
(* The invariant.                                                          *)
(***************************************************************************)
Rewritten == [orig EXCEPT !.model = target]
SoFar == {Features[i] : i \in 1..(at - 1)}

ReconcileInv ==
    /\ orig \in Request /\ target \in Targets
    /\ at \in 1..Done
    /\ stripped \in SUBSET FeatureSet
    /\ at <= Repair => /\ stripped \subseteq SoFar
                       /\ req = Parted(Rewritten, stripped)
    /\ at = Done => req = [Parted(Rewritten, stripped) EXCEPT
                              !.messages = IF stripped # {} THEN Merged(@) ELSE @]

\* The copy the proxy rewrites is a request.
LEMMA RewrittenIs ==
    ASSUME orig \in Request, target \in Targets
    PROVE  Rewritten \in Request
  BY DEF Request, Rewritten

\* The features of the table before one are not that one.
LEMMA NotSoFar ==
    ASSUME at \in 1..(Repair - 1)
    PROVE  /\ Features[at] \in FeatureSet /\ Features[at] \notin SoFar
           /\ {Features[i] : i \in 1..at} = SoFar \cup {Features[at]}
<1>1. at \in {1, 2, 3, 4}
  BY FeaturesAre
<1>2. Features[at] \in FeatureSet
  BY <1>1, FeaturesAre
<1>3. \A i \in 1..(at - 1) : i \in {1, 2, 3, 4} /\ i # at
  BY <1>1
<1>4. \A i, j \in {1, 2, 3, 4} : Features[i] = Features[j] => i = j
  BY FeaturesAre
<1>5. Features[at] \notin SoFar
  BY <1>1, <1>3, <1>4 DEF SoFar
<1>6. 1..at = (1..(at - 1)) \cup {at}
  BY <1>1
<1>7. QED
  BY <1>2, <1>5, <1>6 DEF SoFar

\* The invariant holds at first and every step keeps it.
LEMMA ReconcileInvHolds == ReconcileSpec => []ReconcileInv
<1>1. ReconcileInit => ReconcileInv
  <2> SUFFICES ASSUME ReconcileInit PROVE ReconcileInv
    OBVIOUS
  <2>1. orig \in Request /\ target \in Targets /\ at = 1 /\ stripped = {}
    BY ReconcileConstants DEF ReconcileInit
  <2>2. Rewritten \in Request
    BY <2>1, RewrittenIs
  <2>3. req = Parted(Rewritten, {})
    BY <2>2, PartedNone DEF ReconcileInit, Rewritten
  <2>4. QED
    BY <2>1, <2>3, FeaturesAre DEF ReconcileInv
<1>2. ReconcileInv /\ [ReconcileNext]_reconcileVars => ReconcileInv'
  <2> SUFFICES ASSUME ReconcileInv, [ReconcileNext]_reconcileVars PROVE ReconcileInv'
    OBVIOUS
  <2>1. CASE StripFeature
    <3> DEFINE f == Features[at]
    <3>1. /\ orig' = orig /\ target' = target /\ at' = at + 1
          /\ stripped' = stripped \cup {f} /\ req' = Strip(f, req)
          /\ at \in 1..(Repair - 1)
      BY <2>1, FeaturesAre DEF StripFeature, ReconcileInv
    <3>2. /\ orig \in Request /\ target \in Targets
          /\ stripped \in SUBSET FeatureSet
          /\ stripped \subseteq SoFar /\ req = Parted(Rewritten, stripped)
      BY <3>1, FeaturesAre DEF ReconcileInv
    <3>3. /\ f \in FeatureSet /\ f \notin SoFar
          /\ {Features[i] : i \in 1..at} = SoFar \cup {f}
      BY <3>1, NotSoFar
    <3>4. Rewritten \in Request /\ Rewritten' = Rewritten
      BY <3>1, <3>2, RewrittenIs DEF Rewritten
    <3> HIDE DEF f
    <3>5. req' = Parted(Rewritten, stripped \cup {f})
      BY <3>1, <3>2, <3>3, <3>4, StripParted
    <3>6. SoFar' = SoFar \cup {f}
      <4>1. at' - 1 = at
        BY <3>1, FeaturesAre
      <4>2. QED
        BY <3>3, <4>1 DEF SoFar
    <3>7. at' \in 1..Done /\ at' # Done
      BY <3>1, FeaturesAre
    <3>8. stripped' \in SUBSET FeatureSet /\ stripped' \subseteq SoFar'
      BY <3>1, <3>2, <3>3, <3>6
    <3>9. Parted(Rewritten, stripped)' = Parted(Rewritten, stripped \cup {f})
      BY <3>1, <3>4 DEF Parted
    <3>10. QED
      BY <3>1, <3>2, <3>5, <3>7, <3>8, <3>9 DEF ReconcileInv
  <2>2. CASE KeepFeature
    <3>1. /\ orig' = orig /\ target' = target /\ at' = at + 1
          /\ stripped' = stripped /\ req' = req
          /\ at \in 1..(Repair - 1)
      BY <2>2, FeaturesAre DEF KeepFeature, ReconcileInv
    <3>2. /\ orig \in Request /\ target \in Targets
          /\ stripped \in SUBSET FeatureSet
          /\ stripped \subseteq SoFar /\ req = Parted(Rewritten, stripped)
      BY <3>1, FeaturesAre DEF ReconcileInv
    <3>3. SoFar' = SoFar \cup {Features[at]}
      <4>1. at' - 1 = at
        BY <3>1, FeaturesAre
      <4>2. QED
        BY <3>1, NotSoFar, <4>1 DEF SoFar
    <3>4. at' \in 1..Done /\ at' # Done
      BY <3>1, FeaturesAre
    <3>5. Parted(Rewritten, stripped)' = Parted(Rewritten, stripped)
      BY <3>1 DEF Parted, Rewritten
    <3>6. QED
      BY <3>1, <3>2, <3>3, <3>4, <3>5 DEF ReconcileInv
  <2>3. CASE RepairTurns
    <3>1. /\ orig' = orig /\ target' = target /\ stripped' = stripped
          /\ at = Repair /\ at' = Done
          /\ req' = IF stripped # {}
                    THEN [req EXCEPT !.messages = RepairAlternation(@)] ELSE req
      BY <2>3 DEF RepairTurns
    <3>2. /\ orig \in Request /\ target \in Targets /\ stripped \in SUBSET FeatureSet
          /\ req = Parted(Rewritten, stripped)
      BY <3>1, FeaturesAre DEF ReconcileInv
    <3>3. RepairAlternation(req.messages) = Merged(req.messages)
      <4>1. Rewritten \in Request
        BY <3>2, RewrittenIs
      <4>2. req.messages = Moved(Rewritten.messages, stripped)
        BY <3>2 DEF Parted
      <4>3. QED
        BY <4>1, <4>2, MovedIs, RequestIs, RepairIs
    <3>4. Parted(Rewritten, stripped)' = Parted(Rewritten, stripped)
      BY <3>1 DEF Parted, Rewritten
    <3>5. req' = [req EXCEPT !.messages = IF stripped # {} THEN Merged(@) ELSE @]
      <4>1. CASE stripped # {}
        BY <3>1, <3>3, <4>1
      <4>2. CASE stripped = {}
        <5>1. [req EXCEPT !.messages = req.messages] = req
          BY <3>2 DEF Parted
        <5>2. QED
          BY <3>1, <4>2, <5>1
      <4>3. QED
        BY <4>1, <4>2
    <3>6. at' \in 1..Done /\ ~(at' <= Repair)
      BY <3>1, FeaturesAre
    <3>7. QED
      BY <3>1, <3>2, <3>4, <3>5, <3>6 DEF ReconcileInv
  <2>4. CASE UNCHANGED reconcileVars
    <3>1. /\ orig' = orig /\ target' = target /\ stripped' = stripped
          /\ at' = at /\ req' = req
      BY <2>4 DEF reconcileVars
    <3>2. SoFar' = SoFar /\ Parted(Rewritten, stripped)' = Parted(Rewritten, stripped)
      BY <3>1 DEF SoFar, Parted, Rewritten
    <3>3. QED
      BY <3>1, <3>2 DEF ReconcileInv
  <2>5. QED
    BY <2>1, <2>2, <2>3, <2>4 DEF ReconcileNext
<1>3. QED
  BY <1>1, <1>2, PTL DEF ReconcileSpec

\* Turns with something in them, and junk the code leaves alone.
FullTurns == {m \in Message : ~EmptyTurn(m)}

LEMMA FullTurnsAre ==
    /\ FullTurns \subseteq Message
    /\ \A m \in Message : m \in FullTurns <=>
           m.kind = "junk" \/ (m.kind \in {"string", "blocks"} /\ m.blocks # <<>>)
<1>1. ASSUME NEW m \in Message
      PROVE  m \in FullTurns <=>
                 m.kind = "junk" \/ (m.kind \in {"string", "blocks"} /\ m.blocks # <<>>)
  <2>1. m.kind = "string" => Len(m.blocks) = 1
    BY MessageIs
  <2>2. Len(<<>>) = 0
    BY EmptySeq
  <2>3. m.kind \in {"string", "blocks", "other", "junk"}
        /\ (m.kind \in {"other", "junk"} => m.blocks = <<>>)
    BY MessageIs
  <2>4. m.kind = "string" => m.blocks # <<>>
    BY <2>1, <2>2
  <2>5. QED
    BY <2>3, <2>4 DEF FullTurns, EmptyTurn
<1>2. QED
  BY <1>1 DEF FullTurns

\* No round of the two loops empties a turn.
LEMMA StripKeepsFull ==
    ASSUME NEW s \in Seq(FullTurns)
    PROVE  StripHistory(s) \in Seq(FullTurns)
<1>0. FullTurns \subseteq Message /\ \A t \in Seq(FullTurns) : t \in Seq(Message)
  BY FullTurnsAre, SeqMonotonic
<1> DEFINE Q == {t \in Seq(FullTurns) : StripHistory(t) \in Seq(FullTurns)}
<1>1. <<>> \in Q
  BY StripHistoryIs, EmptySeq
<1>2. ASSUME NEW t \in Q, NEW m \in FullTurns PROVE Append(t, m) \in Q
  <2>1. t \in Seq(FullTurns) /\ StripHistory(t) \in Seq(FullTurns)
    OBVIOUS
  <2> HIDE DEF Q
  <2>2. StripHistory(Append(t, m)) = StripTurn(StripHistory(t), m)
    BY <1>0, <2>1, StripHistoryIs
  <2>3. m.kind = "blocks" /\ Bare(m).blocks # <<>> => Bare(m) \in FullTurns
    BY <1>0, BareIs, FullTurnsAre
  <2>4. StripTurn(StripHistory(t), m) \in Seq(FullTurns)
    BY <2>1, <2>3, AppendProperties DEF StripTurn
  <2>5. QED
    BY <2>1, <2>2, <2>4, AppendProperties DEF Q
<1>3. \A t \in Seq(FullTurns) : t \in Q
  <2>1. Q \in SUBSET Seq(FullTurns)
    OBVIOUS
  <2> HIDE DEF Q
  <2>2. QED
    BY <1>1, <1>2, <2>1, SequencesAll
<1>4. QED
  BY <1>3

LEMMA MergeKeepsFull ==
    ASSUME NEW s \in Seq(FullTurns)
    PROVE  Merged(s) \in Seq(FullTurns)
<1>0. FullTurns \subseteq Message /\ \A t \in Seq(FullTurns) : t \in Seq(Message)
  BY FullTurnsAre, SeqMonotonic
<1> DEFINE Q == {t \in Seq(FullTurns) : Merged(t) \in Seq(FullTurns)}
<1>1. <<>> \in Q
  BY MergedIs, EmptySeq
<1>2. ASSUME NEW t \in Q, NEW m \in FullTurns PROVE Append(t, m) \in Q
  <2>1. t \in Seq(FullTurns) /\ Merged(t) \in Seq(FullTurns)
    OBVIOUS
  <2> HIDE DEF Q
  <2>2. Merged(Append(t, m)) = Merge(Merged(t), m)
    BY <1>0, <2>1, MergedIs
  <2> DEFINE out == Merged(t)
  <2>3. Merge(out, m) \in Seq(FullTurns)
    <3>1. CASE out # <<>> /\ Mergeable(Last(out), m)
      <4>1. Last(out) \in FullTurns /\ Front(out) \in Seq(FullTurns)
        BY <2>1, <3>1, LastAndFront
      <4>2. /\ Joined(Last(out), m) \in Message
            /\ Joined(Last(out), m) = [role |-> Last(out).role, kind |-> "blocks",
                                       blocks |-> Last(out).blocks \o m.blocks]
        BY <1>0, <3>1, <4>1, JoinedIs
      <4>3. Last(out).blocks # <<>> /\ Last(out).blocks \in Seq(Blocks)
            /\ m.blocks \in Seq(Blocks)
        BY <1>0, <3>1, <4>1, FullTurnsAre, MessageIs DEF Mergeable
      <4>4. Last(out).blocks \o m.blocks # <<>>
        BY <4>3, ConcatEqualIffEmpty, ConcatEmptySeq, EmptySeq, ConcatProperties, LenProperties
      <4>5. Joined(Last(out), m) \in FullTurns
        BY <4>2, <4>4, FullTurnsAre
      <4>6. QED
        BY <3>1, <4>1, <4>5, AppendProperties DEF Merge
    <3>2. CASE ~(out # <<>> /\ Mergeable(Last(out), m))
      BY <2>1, <3>2, AppendProperties DEF Merge
    <3>3. QED
      BY <3>1, <3>2
  <2>4. QED
    BY <2>1, <2>2, <2>3, AppendProperties DEF Q
<1>3. \A t \in Seq(FullTurns) : t \in Q
  <2>1. Q \in SUBSET Seq(FullTurns)
    OBVIOUS
  <2> HIDE DEF Q
  <2>2. QED
    BY <1>1, <1>2, <2>1, SequencesAll
<1>4. QED
  BY <1>3

\* Neither does the conversion.
LEMMA MovedKeepsFull ==
    ASSUME NEW s \in Seq(FullTurns), NEW G
    PROVE  Moved(s, G) \in Seq(FullTurns)
<1>1. ASSUME NEW t \in Seq(FullTurns) PROVE SystemToUser(t) \in Seq(FullTurns)
  <2>1. FullTurns \subseteq Message /\ t \in Seq(Message)
    BY FullTurnsAre, SeqMonotonic
  <2>2. /\ SystemToUser(t) \in Seq(Message) /\ Len(SystemToUser(t)) = Len(t)
        /\ \A i \in 1..Len(t) : SystemToUser(t)[i] = ToUser(t[i])
    BY <2>1, SystemToUserIs
  <2>3. \A i \in 1..Len(t) : t[i] \in FullTurns
    BY ElementOfSeq
  <2>4. \A m \in FullTurns : ToUser(m) \in FullTurns
    BY <2>1, ToUserIs, FullTurnsAre
  <2>5. \A i \in 1..Len(t) : SystemToUser(t)[i] \in FullTurns
    BY <2>2, <2>3, <2>4
  <2>6. Len(t) \in Nat /\ DOMAIN SystemToUser(t) = 1..Len(t)
    BY <2>2, LenProperties
  <2>7. SystemToUser(t) \in [1..Len(t) -> FullTurns]
    BY <2>2, <2>5, <2>6, LenProperties
  <2>8. QED
    BY <2>6, <2>7, SeqDef
<1>2. QED
  BY <1>1, StripKeepsFull DEF Moved

\* No two turns that could be merged stand next to each other.
Alternates(s) == \A k \in 2..Len(s) : ~Mergeable(s[k - 1], s[k])

\* One turn more, next to the last.
LEMMA AlternatesAppend ==
    ASSUME NEW s \in Seq(Message), NEW m \in Message, Alternates(s),
           s # <<>> => ~Mergeable(s[Len(s)], m)
    PROVE  Alternates(Append(s, m))
<1> DEFINE u == Append(s, m)
<1>1. /\ Len(u) = Len(s) + 1 /\ u[Len(s) + 1] = m
      /\ \A i \in 1..Len(s) : u[i] = s[i]
  BY AppendProperties
<1>2. Len(s) \in Nat /\ (Len(s) # 0 => s # <<>>)
  BY LenProperties, EmptySeq
<1> HIDE DEF u
<1>3. ASSUME NEW k \in 2..(Len(s) + 1) PROVE ~Mergeable(u[k - 1], u[k])
  <2>1. CASE k \in 2..Len(s)
    <3>1. k \in 1..Len(s) /\ k - 1 \in 1..Len(s)
      BY <1>2, <2>1
    <3>2. u[k] = s[k] /\ u[k - 1] = s[k - 1]
      BY <1>1, <3>1
    <3>3. QED
      BY <2>1, <3>2 DEF Alternates
  <2>2. CASE k = Len(s) + 1
    <3>1. k - 1 = Len(s) /\ Len(s) \in 1..Len(s) /\ Len(s) # 0
      BY <1>2, <2>2
    <3>2. u[k - 1] = s[Len(s)] /\ u[k] = m
      BY <1>1, <2>2, <3>1
    <3>3. QED
      BY <1>2, <3>1, <3>2
  <2>3. QED
    BY <1>2, <2>1, <2>2
<1>4. QED
  BY <1>1, <1>3 DEF Alternates, u

\* The merged turns alternate.
LEMMA MergedAlternates ==
    ASSUME NEW s \in Seq(Message)
    PROVE  Alternates(Merged(s))
<1> DEFINE Q == {t \in Seq(Message) : Alternates(Merged(t))}
<1>1. <<>> \in Q
  <2>1. Merged(<<>>) = <<>> /\ <<>> \in Seq(Message) /\ Len(<<>>) = 0
    BY MergedIs, EmptySeq
  <2>2. Alternates(<<>>)
    BY <2>1 DEF Alternates
  <2>3. QED
    BY <2>1, <2>2
<1>2. ASSUME NEW t \in Q, NEW m \in Message PROVE Append(t, m) \in Q
  <2> DEFINE out == Merged(t)
  <2>1. t \in Seq(Message) /\ Alternates(out)
    OBVIOUS
  <2> HIDE DEF Q
  <2>2. Merged(Append(t, m)) = Merge(out, m) /\ out \in Seq(Message)
    BY <2>1, MergedIs
  <2> HIDE DEF out
  <2>3. Alternates(Merge(out, m))
    <3>1. CASE out # <<>> /\ Mergeable(Last(out), m)
      <4> DEFINE l == Last(out)
                 r == Front(out)
                 j == Joined(l, m)
      <4>1. /\ l \in Message /\ r \in Seq(Message) /\ Len(r) = Len(out) - 1
            /\ Len(out) \in Nat \ {0} /\ \A i \in 1..(Len(out) - 1) : r[i] = out[i]
        BY <2>2, <3>1, LastAndFront
      <4>2. l = out[Len(out)]
        BY DEF Last
      <4>3. j \in Message /\ j.role = l.role /\ j.kind # "junk"
            /\ l.kind # "junk" /\ j.role # "none"
        <5>1. j \in Message /\ j = [role |-> l.role, kind |-> "blocks",
                                   blocks |-> l.blocks \o m.blocks]
          BY <3>1, <4>1, JoinedIs
        <5>2. l.kind # "junk" /\ l.role # "none"
          BY <3>1 DEF Mergeable
        <5>3. QED
          BY <5>1, <5>2
      <4>4. Merge(out, m) = Append(r, j)
        BY <3>1 DEF Merge
      <4> HIDE DEF l, r, j
      <4>5. Alternates(r)
        <5>1. ASSUME NEW k \in 2..Len(r) PROVE ~Mergeable(r[k - 1], r[k])
          <6>1. k \in 1..(Len(out) - 1) /\ k - 1 \in 1..(Len(out) - 1) /\ k \in 2..Len(out)
            BY <4>1
          <6>2. r[k] = out[k] /\ r[k - 1] = out[k - 1]
            BY <4>1, <6>1
          <6>3. QED
            BY <2>1, <6>1, <6>2 DEF Alternates
        <5>2. QED
          BY <5>1 DEF Alternates
      <4>6. r # <<>> => ~Mergeable(r[Len(r)], j)
        <5>1. SUFFICES ASSUME r # <<>> PROVE ~Mergeable(r[Len(r)], j)
          OBVIOUS
        <5>2. Len(r) # 0
          BY <4>1, <5>1, EmptySeq
        <5>3. Len(out) - 1 \in 1..(Len(out) - 1) /\ Len(out) \in 2..Len(out)
          BY <4>1, <5>2
        <5>4. r[Len(r)] = out[Len(out) - 1]
          BY <4>1, <5>3
        <5>5. ~Mergeable(out[Len(out) - 1], out[Len(out)])
          BY <2>1, <5>3 DEF Alternates
        <5>6. QED
          BY <4>2, <4>3, <5>4, <5>5 DEF Mergeable
      <4>7. QED
        BY <4>1, <4>3, <4>4, <4>5, <4>6, AlternatesAppend
    <3>2. CASE ~(out # <<>> /\ Mergeable(Last(out), m))
      <4>1. Merge(out, m) = Append(out, m)
        BY <3>2 DEF Merge
      <4>2. out # <<>> => ~Mergeable(out[Len(out)], m)
        BY <3>2 DEF Last
      <4>3. QED
        BY <2>1, <2>2, <4>1, <4>2, AlternatesAppend
    <3>3. QED
      BY <3>1, <3>2
  <2>4. QED
    BY <2>1, <2>2, <2>3, AppendProperties DEF Q
<1>3. \A t \in Seq(Message) : t \in Q
  <2>1. Q \in SUBSET Seq(Message)
    OBVIOUS
  <2> HIDE DEF Q
  <2>2. QED
    BY <1>1, <1>2, <2>1, SequencesAll
<1>4. QED
  BY <1>3

\* The removed fields are removed whole.
LEMMA FieldsWhole ==
    ASSUME NEW G, NEW r \in Request
    PROVE  /\ Parted(r, G).output = {} => r.output = {}
           /\ Parted(r, G).edits = {} => r.edits = {}
<1>1. Absent # {}
  BY ReconcileConstants
<1>2. \A o : WithoutEffort(o) = {} => o = {}
  <2>1. \A o : ~(o \subseteq {"effort"}) => o \ {"effort"} # {}
    OBVIOUS
  <2>2. QED
    BY <1>1, <2>1 DEF WithoutEffort
<1>3. ASSUME r.edits # Absent, "thinking" \in r.edits, r.edits # {"thinking"}
      PROVE  r.edits \ {"thinking"} # {}
  BY <1>3, RequestIs
<1>4. WithoutEdits(r.edits) = {} => r.edits = {}
  BY <1>1, <1>3 DEF WithoutEdits
<1>5. QED
  BY <1>2, <1>4 DEF Parted

\* A request that was changed is one the target can be sent: the repair at the
\* end leaves turns that alternate whatever was stripped, no strip leaves an
\* empty field or an empty turn that the client did not send (reconcile.go).
THEOREM WellFormedHolds == ReconcileSpec => []WellFormed
<1>1. ReconcileInv => WellFormed
  <2> SUFFICES ASSUME ReconcileInv, at = Done, stripped # {}
               PROVE  /\ req.output = {} => orig.output = {}
                      /\ req.edits = {} => orig.edits = {}
                      /\ (\E m \in Range(req.messages) : EmptyTurn(m))
                            => \E m0 \in Range(orig.messages) : EmptyTurn(m0)
                      /\ Alternates(req.messages)
    BY DEF WellFormed, Alternates
  <2> DEFINE p == Parted(Rewritten, stripped)
  <2>1. Rewritten \in Request /\ orig \in Request
    BY RewrittenIs DEF ReconcileInv
  <2>2. Rewritten.output = orig.output /\ Rewritten.edits = orig.edits
        /\ Rewritten.messages = orig.messages
    BY <2>1 DEF Rewritten, Request
  <2>3. req = [p EXCEPT !.messages = Merged(@)]
    BY DEF ReconcileInv
  <2>4. req.output = p.output /\ req.edits = p.edits
        /\ req.messages = Merged(Moved(orig.messages, stripped))
    BY <2>2, <2>3 DEF Parted
  <2>5. orig.messages \in Seq(Message)
    BY <2>1, RequestIs
  <2>6. Alternates(req.messages) /\ req.messages \in Seq(Message)
    BY <2>4, <2>5, MovedIs, MergedIs, MergedAlternates
  <2>7. ASSUME \A m0 \in Range(orig.messages) : ~EmptyTurn(m0)
        PROVE  \A m \in Range(req.messages) : ~EmptyTurn(m)
    <3>1. Len(orig.messages) \in Nat /\ orig.messages \in [1..Len(orig.messages) -> Message]
      BY <2>5, LenProperties
    <3>2. \A i \in 1..Len(orig.messages) : orig.messages[i] \in FullTurns
      BY <2>7, <3>1 DEF Range, FullTurns
    <3>3. orig.messages \in Seq(FullTurns)
      BY <3>1, <3>2, SeqDef
    <3>4. req.messages \in Seq(FullTurns)
      BY <2>4, <3>3, MovedKeepsFull, MergeKeepsFull
    <3>5. \A i \in DOMAIN req.messages : req.messages[i] \in FullTurns
      BY <3>4, LenProperties, ElementOfSeq
    <3>6. QED
      BY <3>5 DEF Range, FullTurns
  <2>8. QED
    BY <2>1, <2>2, <2>4, <2>6, <2>7, FieldsWhole
<1>2. QED
  BY <1>1, ReconcileInvHolds, PTL

-----------------------------------------------------------------------------
(***************************************************************************)
(* What the messages say.                                                  *)
(***************************************************************************)
Sayings == Roles \X Blocks
SaidF == [said \in Seq(Sayings) |-> [m \in Message |-> said \o Spoken(m)]]

\* Blocks on one side.
OnSide(side, b) == [j \in DOMAIN b |-> <<side, b[j]>>]
LEMMA OnSideIs ==
    ASSUME NEW side \in Roles
    PROVE  /\ OnSide(side, <<>>) = <<>>
           /\ \A b \in Seq(Blocks) :
                 /\ OnSide(side, b) \in Seq(Sayings) /\ Len(OnSide(side, b)) = Len(b)
                 /\ \A i \in 1..Len(b) : OnSide(side, b)[i] = <<side, b[i]>>
           /\ \A b \in Seq(Blocks), x \in Blocks :
                 OnSide(side, Append(b, x)) = Append(OnSide(side, b), <<side, x>>)
           /\ \A b, c \in Seq(Blocks) :
                 OnSide(side, b \o c) = OnSide(side, b) \o OnSide(side, c)
<1>1. ASSUME NEW b \in Seq(Blocks)
      PROVE  /\ OnSide(side, b) \in Seq(Sayings) /\ Len(OnSide(side, b)) = Len(b)
             /\ \A i \in 1..Len(b) : OnSide(side, b)[i] = <<side, b[i]>>
  <2>1. Len(b) \in Nat /\ DOMAIN b = 1..Len(b) /\ \A i \in 1..Len(b) : b[i] \in Blocks
    BY LenProperties, ElementOfSeq
  <2>2. OnSide(side, b) = [i \in 1..Len(b) |-> <<side, b[i]>>]
    BY <2>1 DEF OnSide
  <2>3. OnSide(side, b) \in [1..Len(b) -> Sayings]
    BY <2>1, <2>2 DEF Sayings
  <2>4. OnSide(side, b) \in Seq(Sayings) /\ Len(OnSide(side, b)) = Len(b)
    BY <2>1, <2>3, SeqDef, LenProperties
  <2>5. QED
    BY <2>2, <2>4
<1>2. OnSide(side, <<>>) = <<>>
  <2>1. <<>> \in Seq(Blocks) /\ Len(<<>>) = 0
    BY EmptySeq
  <2>2. OnSide(side, <<>>) \in Seq(Sayings) /\ Len(OnSide(side, <<>>)) = 0
    BY <1>1, <2>1
  <2>3. QED
    BY <2>2, EmptySeq
<1>3. ASSUME NEW b \in Seq(Blocks), NEW x \in Blocks
      PROVE  OnSide(side, Append(b, x)) = Append(OnSide(side, b), <<side, x>>)
  <2> DEFINE u == Append(b, x)
             v == OnSide(side, u)
             w == Append(OnSide(side, b), <<side, x>>)
  <2>1. /\ u \in Seq(Blocks) /\ Len(u) = Len(b) + 1 /\ u[Len(b) + 1] = x
        /\ \A i \in 1..Len(b) : u[i] = b[i]
    BY AppendProperties
  <2>2. v \in Seq(Sayings) /\ Len(v) = Len(u) /\ \A i \in 1..Len(u) : v[i] = <<side, u[i]>>
    BY <1>1, <2>1
  <2>3. /\ w \in Seq(Sayings) /\ Len(w) = Len(b) + 1 /\ w[Len(b) + 1] = <<side, x>>
        /\ \A i \in 1..Len(b) : w[i] = <<side, b[i]>>
    <3>1. <<side, x>> \in Sayings
      BY DEF Sayings
    <3>2. QED
      BY <1>1, <3>1, AppendProperties
  <2>4. Len(b) \in Nat
    BY LenProperties
  <2> HIDE DEF u, v, w
  <2>5. ASSUME NEW i \in 1..(Len(b) + 1) PROVE v[i] = w[i]
    <3>1. i \in 1..Len(b) \/ i = Len(b) + 1
      BY <2>4
    <3>2. QED
      BY <2>1, <2>2, <2>3, <3>1
  <2>6. v = w
    BY <2>1, <2>2, <2>3, <2>5, SeqEqual
  <2>7. QED
    BY <2>6 DEF v, w, u
<1>4. ASSUME NEW b \in Seq(Blocks), NEW c \in Seq(Blocks)
      PROVE  OnSide(side, b \o c) = OnSide(side, b) \o OnSide(side, c)
  <2> DEFINE u == b \o c
             v == OnSide(side, u)
             x == OnSide(side, b)
             y == OnSide(side, c)
             w == x \o y
  <2>1. /\ u \in Seq(Blocks) /\ Len(u) = Len(b) + Len(c)
        /\ \A i \in 1..(Len(b) + Len(c)) : u[i] = IF i <= Len(b) THEN b[i] ELSE c[i - Len(b)]
    BY ConcatProperties
  <2>2. v \in Seq(Sayings) /\ Len(v) = Len(u) /\ \A i \in 1..Len(u) : v[i] = <<side, u[i]>>
    BY <1>1, <2>1
  <2>3. /\ x \in Seq(Sayings) /\ Len(x) = Len(b) /\ \A i \in 1..Len(b) : x[i] = <<side, b[i]>>
        /\ y \in Seq(Sayings) /\ Len(y) = Len(c) /\ \A i \in 1..Len(c) : y[i] = <<side, c[i]>>
    BY <1>1
  <2> HIDE DEF u, v, x, y
  <2>4. /\ w \in Seq(Sayings) /\ Len(w) = Len(b) + Len(c)
        /\ \A i \in 1..(Len(b) + Len(c)) : w[i] = IF i <= Len(b) THEN x[i] ELSE y[i - Len(b)]
    <3>1. x \in Seq(Sayings) /\ y \in Seq(Sayings) /\ Len(x) = Len(b) /\ Len(y) = Len(c)
      BY <2>3
    <3>2. /\ w \in Seq(Sayings) /\ Len(w) = Len(x) + Len(y)
          /\ \A i \in 1..(Len(x) + Len(y)) : w[i] = IF i <= Len(x) THEN x[i] ELSE y[i - Len(x)]
      BY <3>1, ConcatProperties
    <3> HIDE DEF w
    <3>3. QED
      BY <3>1, <3>2
  <2>5. Len(b) \in Nat /\ Len(c) \in Nat
    BY LenProperties
  <2> HIDE DEF w
  <2>6. ASSUME NEW i \in 1..(Len(b) + Len(c)) PROVE v[i] = w[i]
    <3>1. (i <= Len(b) => i \in 1..Len(b)) /\ (~(i <= Len(b)) => i - Len(b) \in 1..Len(c))
      BY <2>5
    <3>2. QED
      BY <2>1, <2>2, <2>3, <2>4, <3>1
  <2>7. v = w
    BY <2>1, <2>2, <2>4, <2>6, SeqEqual
  <2>8. QED
    BY <2>7 DEF u, v, w, x, y
<1>5. QED
  BY <1>1, <1>2, <1>3, <1>4

\* What one message says.
LEMMA SpokenIs ==
    ASSUME NEW m \in Message
    PROVE  /\ Side(m.role) \in Roles /\ m.blocks \in Seq(Blocks)
           /\ Spoken(m) = OnSide(Side(m.role), m.blocks)
           /\ Spoken(m) \in Seq(Sayings)
<1>1. Side(m.role) \in Roles /\ m.blocks \in Seq(Blocks)
  BY MessageIs DEF Side, Roles
<1>2. Spoken(m) = OnSide(Side(m.role), m.blocks)
  BY DEF Spoken, OnSide
<1>3. QED
  BY <1>1, <1>2, OnSideIs

LEMMA SaidStays == Stays(SaidF, Seq(Sayings), Message)
<1>1. \A said \in Seq(Sayings), m \in Message : said \o Spoken(m) \in Seq(Sayings)
  BY SpokenIs, ConcatProperties
<1>2. QED
  BY <1>1 DEF Stays, SaidF

\* What the messages say is a fold.
LEMMA SaidIsFold ==
    ASSUME NEW s \in Seq(Message)
    PROVE  Said(s) = LeftFold(SaidF, <<>>, s)
<1> DEFINE P == DOMAIN s
           base == <<>>
           E(hs) == [t \in SUBSET P |->
                       IF t = {} THEN base
                       ELSE hs[t \ {Max(t)}] \o Spoken(s[Max(t)])]
           it == CHOOSE hs : hs = E(hs)
<1>1. Stays(SaidF, Seq(Sayings), Message) /\ base \in Seq(Sayings)
  BY SaidStays, EmptySeq
<1>2. Len(s) \in Nat /\ P = 1..Len(s) /\ \A i \in P : s[i] \in Message
  BY LenProperties, ElementOfSeq
<1>3. \A t \in SUBSET P : t # {} => Max(t) \in P
  BY <1>2, LastPosition
<1> HIDE DEF base
<1>4. PICK hs \in [SUBSET P -> Seq(Sayings)] : Lefts(hs, SaidF, base, s)
  BY <1>1, LeftsExist
<1>5. ASSUME NEW t \in SUBSET P
      PROVE  hs[t] = IF t = {} THEN base
                    ELSE hs[t \ {Max(t)}] \o Spoken(s[Max(t)])
  <2>1. hs[t] = IF t = {} THEN base ELSE SaidF[hs[t \ {Max(t)}]][s[Max(t)]]
    BY <1>4 DEF Lefts
  <2>2. QED
    BY <1>2, <1>3, <2>1 DEF SaidF
<1>6. it = E(it)
  <2>1. hs = E(hs)
    BY <1>5
  <2> HIDE DEF E
  <2>2. QED
    BY <2>1
<1>7. Said(s) = it[P]
  BY DEF Said, FoldLeft, MapThenFoldSet, base
<1> HIDE DEF it
<1>8. \A t \in SUBSET P : it[t] = IF t = {} THEN base
                                  ELSE it[t \ {Max(t)}] \o Spoken(s[Max(t)])
  BY <1>6
<1>9. GoesOn(it, SaidF, Seq(Sayings), base, s)
  BY <1>2, <1>3, <1>8 DEF GoesOn, SaidF
<1>10. it[P] = LeftFold(SaidF, base, s)
  BY <1>1, <1>9, GoesOnIsFold
<1>11. QED
  BY <1>7, <1>10 DEF base

\* Message by message.
LEMMA SaidIs ==
    /\ Said(<<>>) = <<>>
    /\ \A s \in Seq(Message) : Said(s) \in Seq(Sayings)
    /\ \A s \in Seq(Message), m \in Message :
           Said(Append(s, m)) = Said(s) \o Spoken(m)
<1> DEFINE F == SaidF
           base == <<>>
<1>1. Stays(F, Seq(Sayings), Message) /\ base \in Seq(Sayings)
  BY SaidStays, EmptySeq
<1>2. \A s \in Seq(Message) : Said(s) = LeftFold(F, base, s)
  BY SaidIsFold
<1>3. \A v \in Seq(Sayings), x \in Message : F[v][x] = v \o Spoken(x)
  BY DEF SaidF
<1>4. base = <<>>
  OBVIOUS
<1> HIDE DEF F, base
<1>5. ASSUME NEW s \in Seq(Message) PROVE Said(s) \in Seq(Sayings)
  <2>1. LeftFold(F, base, s) \in Seq(Sayings)
    BY <1>1, LeftFoldType
  <2>2. QED
    BY <1>2, <2>1
<1>6. Said(base) = base
  <2>1. LeftFold(F, base, <<>>) = base
    BY <1>1, LeftFoldEmpty
  <2>2. base \in Seq(Message)
    BY <1>4, EmptySeq
  <2>3. QED
    BY <1>2, <1>4, <2>1, <2>2
<1>7. ASSUME NEW s \in Seq(Message), NEW m \in Message
      PROVE  Said(Append(s, m)) = Said(s) \o Spoken(m)
  <2>1. Append(s, m) \in Seq(Message)
    BY AppendProperties
  <2>2. LeftFold(F, base, Append(s, m)) = F[LeftFold(F, base, s)][m]
    BY <1>1, LeftFoldAppend
  <2>3. QED
    BY <1>2, <1>3, <1>5, <2>1, <2>2
<1>8. QED
  BY <1>4, <1>5, <1>6, <1>7

\* A conversion says the same.
LEMMA ConvertedSaid ==
    ASSUME NEW s \in Seq(Message)
    PROVE  Said(SystemToUser(s)) = Said(s)
<1> DEFINE Q == {t \in Seq(Message) : Said(SystemToUser(t)) = Said(t)}
<1>1. <<>> \in Q
  BY SystemToUserIs, EmptySeq
<1>2. ASSUME NEW t \in Q, NEW m \in Message PROVE Append(t, m) \in Q
  <2>1. t \in Seq(Message) /\ Said(SystemToUser(t)) = Said(t)
    OBVIOUS
  <2> HIDE DEF Q
  <2>2. /\ SystemToUser(t) \in Seq(Message) /\ ToUser(m) \in Message
        /\ SystemToUser(Append(t, m)) = Append(SystemToUser(t), ToUser(m))
        /\ Append(t, m) \in Seq(Message)
    BY <2>1, SystemToUserIs, ToUserIs, AppendProperties
  <2>3. Spoken(ToUser(m)) = Spoken(m)
    <3>1. ToUser(m).role = Side(m.role) /\ ToUser(m).blocks = m.blocks
      BY ToUserIs
    <3>2. Side(Side(m.role)) = Side(m.role)
      BY DEF Side
    <3>3. QED
      BY <2>2, <3>1, <3>2, SpokenIs
  <2>4. /\ Said(Append(t, m)) = Said(t) \o Spoken(m)
        /\ Said(SystemToUser(Append(t, m))) = Said(SystemToUser(t)) \o Spoken(ToUser(m))
    BY <2>1, <2>2, SaidIs
  <2>5. QED
    BY <2>1, <2>2, <2>3, <2>4 DEF Q
<1>3. \A t \in Seq(Message) : t \in Q
  <2>1. Q \in SUBSET Seq(Message)
    OBVIOUS
  <2> HIDE DEF Q
  <2>2. QED
    BY <1>1, <1>2, <2>1, SequencesAll
<1>4. QED
  BY <1>3

\* The blocks that are not thinking, on any side.
Plain == Roles \X (Blocks \ Thinking)
LEMMA OnSidePlain ==
    ASSUME NEW side \in Roles, NEW b \in Seq(Blocks)
    PROVE  OnSide(side, Only(b, Blocks \ Thinking)) = Only(OnSide(side, b), Plain)
<1> DEFINE D == Blocks \ Thinking
           Q == {c \in Seq(Blocks) : OnSide(side, Only(c, D)) = Only(OnSide(side, c), Plain)}
<1>0. /\ OnSide(side, <<>>) = <<>>
      /\ \A c \in Seq(Blocks) : OnSide(side, c) \in Seq(Sayings)
      /\ \A c \in Seq(Blocks), x \in Blocks :
            OnSide(side, Append(c, x)) = Append(OnSide(side, c), <<side, x>>)
  BY OnSideIs
<1>1. /\ \A c \in Seq(Blocks) : Only(c, D) \in Seq(Blocks)
      /\ \A c \in Seq(Blocks), x \in Blocks :
            Only(Append(c, x), D) = IF x \in D THEN Append(Only(c, D), x) ELSE Only(c, D)
  BY OnlyIs
<1>2. /\ \A v \in Seq(Sayings), y \in Sayings :
            Only(Append(v, y), Plain) = IF y \in Plain THEN Append(Only(v, Plain), y)
                                        ELSE Only(v, Plain)
  BY OnlyIs
<1>3. Only(<<>>, D) = <<>> /\ Only(<<>>, Plain) = <<>> /\ <<>> \in Seq(Blocks)
  BY OnlyIs, EmptySeq
<1>4. \A x \in Blocks : <<side, x>> \in Sayings /\ (<<side, x>> \in Plain <=> x \in D)
  BY DEF Sayings, Plain
<1> HIDE DEF D
<1>5. <<>> \in Q
  BY <1>0, <1>3
<1>6. ASSUME NEW c \in Q, NEW x \in Blocks PROVE Append(c, x) \in Q
  <2>1. c \in Seq(Blocks) /\ OnSide(side, Only(c, D)) = Only(OnSide(side, c), Plain)
    OBVIOUS
  <2> HIDE DEF Q
  <2>2. Append(c, x) \in Seq(Blocks)
    BY <2>1, AppendProperties
  <2>3. Only(OnSide(side, Append(c, x)), Plain)
          = IF x \in D THEN Append(Only(OnSide(side, c), Plain), <<side, x>>)
            ELSE Only(OnSide(side, c), Plain)
    <3> DEFINE v == OnSide(side, c)
               y == <<side, x>>
    <3>1. v \in Seq(Sayings) /\ y \in Sayings /\ (y \in Plain <=> x \in D)
          /\ OnSide(side, Append(c, x)) = Append(v, y)
      BY <1>0, <1>4, <2>1
    <3> HIDE DEF v, y
    <3>2. Only(Append(v, y), Plain) = IF y \in Plain THEN Append(Only(v, Plain), y)
                                      ELSE Only(v, Plain)
      BY <1>2, <3>1
    <3>3. QED
      BY <3>1, <3>2 DEF v, y
  <2>4. OnSide(side, Only(Append(c, x), D))
          = IF x \in D THEN Append(OnSide(side, Only(c, D)), <<side, x>>)
            ELSE OnSide(side, Only(c, D))
    BY <1>0, <1>1, <2>1
  <2>5. OnSide(side, Only(Append(c, x), D)) = Only(OnSide(side, Append(c, x)), Plain)
    <3>1. CASE x \in D
      BY <2>1, <2>3, <2>4, <3>1
    <3>2. CASE x \notin D
      BY <2>1, <2>3, <2>4, <3>2
    <3>3. QED
      BY <3>1, <3>2
  <2>6. QED
    BY <2>2, <2>5 DEF Q
<1>7. \A c \in Seq(Blocks) : c \in Q
  <2>1. Q \in SUBSET Seq(Blocks)
    OBVIOUS
  <2> HIDE DEF Q
  <2>2. QED
    BY <1>5, <1>6, <2>1, SequencesAll
<1>8. QED
  BY <1>7 DEF D

\* The thinking strip says all but the thinking.
LEMMA StrippedSaid ==
    ASSUME NEW s \in Seq(Message)
    PROVE  Said(StripHistory(s)) = Only(Said(s), Plain)
<1> DEFINE Q == {t \in Seq(Message) : Said(StripHistory(t)) = Only(Said(t), Plain)}
<1>0. Only(<<>>, Plain) = <<>>
  BY OnlyIs
<1>1. <<>> \in Q
  BY <1>0, StripHistoryIs, SaidIs, EmptySeq
<1>2. ASSUME NEW t \in Q, NEW m \in Message PROVE Append(t, m) \in Q
  <2> DEFINE k == StripHistory(t)
  <2>1. t \in Seq(Message) /\ Said(k) = Only(Said(t), Plain)
    OBVIOUS
  <2> HIDE DEF Q
  <2>2. /\ k \in Seq(Message) /\ StripHistory(Append(t, m)) = StripTurn(k, m)
        /\ Append(t, m) \in Seq(Message)
    BY <2>1, StripHistoryIs, AppendProperties
  <2> HIDE DEF k
  <2>3. /\ Said(t) \in Seq(Sayings) /\ Said(k) \in Seq(Sayings)
        /\ Spoken(m) \in Seq(Sayings) /\ Said(Append(t, m)) = Said(t) \o Spoken(m)
    BY <2>1, <2>2, SaidIs, SpokenIs
  <2>4. Only(Said(Append(t, m)), Plain) = Said(k) \o Only(Spoken(m), Plain)
    <3>1. Only(Said(t) \o Spoken(m), Plain) = Only(Said(t), Plain) \o Only(Spoken(m), Plain)
      BY <2>3, OnlyConcat
    <3>2. QED
      BY <2>1, <2>3, <3>1
  <2>5. /\ Side(m.role) \in Roles /\ m.blocks \in Seq(Blocks)
        /\ Spoken(m) = OnSide(Side(m.role), m.blocks)
    BY SpokenIs
  <2>6. Said(StripTurn(k, m)) = Said(k) \o Only(Spoken(m), Plain)
    <3>1. CASE m.kind # "blocks"
      <4>1. Said(StripTurn(k, m)) = Said(k) \o Spoken(m)
        BY <2>2, <3>1, SaidIs DEF StripTurn
      <4>2. Only(m.blocks, Blocks \ Thinking) = m.blocks
        <5>1. CASE m.blocks = <<>>
          <6>1. Only(<<>>, Blocks \ Thinking) = <<>>
            BY OnlyIs
          <6>2. QED
            BY <5>1, <6>1
        <5>2. CASE m.kind = "string"
          <6>1. Len(m.blocks) = 1 /\ m.blocks[1] \notin Thinking
            BY <5>2, MessageIs
          <6>2. m.blocks # <<>>
            BY <6>1, EmptySeq
          <6>3. PICK r \in Seq(Blocks), x \in Blocks : m.blocks = Append(r, x)
            BY <2>5, <6>2, SequenceEmptyOrAppend
          <6>4. Len(r) = 0 /\ m.blocks[Len(r) + 1] = x
            BY <6>1, <6>3, AppendProperties, LenProperties
          <6>5. r = <<>> /\ x \in Blocks \ Thinking
            BY <6>1, <6>3, <6>4, EmptySeq
          <6>6. Only(r, Blocks \ Thinking) = r
            <7>1. Only(<<>>, Blocks \ Thinking) = <<>>
              BY OnlyIs
            <7>2. QED
              BY <6>5, <7>1
          <6>7. Only(Append(r, x), Blocks \ Thinking) = Append(Only(r, Blocks \ Thinking), x)
            <7>1. \A c \in Seq(Blocks), y \in Blocks :
                     Only(Append(c, y), Blocks \ Thinking)
                       = IF y \in Blocks \ Thinking THEN Append(Only(c, Blocks \ Thinking), y)
                         ELSE Only(c, Blocks \ Thinking)
              BY OnlyIs
            <7>2. QED
              BY <6>3, <6>5, <7>1
          <6>8. QED
            BY <6>3, <6>6, <6>7
        <5>3. QED
          BY <3>1, <5>1, <5>2, MessageIs
      <4>3. Only(Spoken(m), Plain) = Spoken(m)
        BY <2>5, <4>2, OnSidePlain
      <4>4. QED
        BY <4>1, <4>3
    <3>2. CASE m.kind = "blocks"
      <4>1. /\ Bare(m) \in Message
            /\ Bare(m) = [role |-> m.role, kind |-> "blocks",
                          blocks |-> Only(m.blocks, Blocks \ Thinking)]
        BY <3>2, BareIs
      <4>2. /\ Bare(m).role = m.role /\ Bare(m).blocks = Only(m.blocks, Blocks \ Thinking)
        BY <4>1
      <4> HIDE DEF Bare
      <4>3. Spoken(Bare(m)) = Only(Spoken(m), Plain)
        BY <2>5, <4>1, <4>2, SpokenIs, OnSidePlain
      <4>4. CASE Bare(m).blocks = <<>>
        <5>1. Spoken(Bare(m)) = <<>>
          BY <2>5, <4>1, <4>2, <4>4, SpokenIs, OnSideIs
        <5>2. StripTurn(k, m) = k
          BY <3>2, <4>4 DEF StripTurn
        <5>3. Said(k) \o <<>> = Said(k)
          BY <2>3, ConcatEmptySeq
        <5>4. QED
          BY <4>3, <5>1, <5>2, <5>3
      <4>5. CASE Bare(m).blocks # <<>>
        <5>1. StripTurn(k, m) = Append(k, Bare(m))
          BY <3>2, <4>5 DEF StripTurn
        <5>2. Said(Append(k, Bare(m))) = Said(k) \o Spoken(Bare(m))
          BY <2>2, <4>1, SaidIs
        <5>3. QED
          BY <4>3, <5>1, <5>2
      <4>6. QED
        BY <4>4, <4>5
    <3>3. QED
      BY <3>1, <3>2
  <2>7. QED
    BY <2>1, <2>2, <2>4, <2>6 DEF Q, k
<1>3. \A t \in Seq(Message) : t \in Q
  <2>1. Q \in SUBSET Seq(Message)
    OBVIOUS
  <2> HIDE DEF Q
  <2>2. QED
    BY <1>1, <1>2, <2>1, SequencesAll
<1>4. QED
  BY <1>3

\* Merging says the same.
LEMMA MergedSaid ==
    ASSUME NEW s \in Seq(Message)
    PROVE  Said(Merged(s)) = Said(s)
<1> DEFINE Q == {t \in Seq(Message) : Said(Merged(t)) = Said(t)}
<1>1. <<>> \in Q
  BY MergedIs, EmptySeq
<1>2. ASSUME NEW t \in Q, NEW m \in Message PROVE Append(t, m) \in Q
  <2> DEFINE out == Merged(t)
  <2>1. t \in Seq(Message) /\ Said(out) = Said(t)
    OBVIOUS
  <2> HIDE DEF Q
  <2>2. out \in Seq(Message) /\ Merged(Append(t, m)) = Merge(out, m)
        /\ Append(t, m) \in Seq(Message) /\ Said(Append(t, m)) = Said(t) \o Spoken(m)
    BY <2>1, MergedIs, SaidIs, AppendProperties
  <2> HIDE DEF out
  <2>3. Said(Merge(out, m)) = Said(out) \o Spoken(m)
    <3>1. CASE out # <<>> /\ Mergeable(Last(out), m)
      <4> DEFINE l == Last(out)
                 r == Front(out)
                 j == Joined(l, m)
      <4>1. l \in Message /\ r \in Seq(Message) /\ out = Append(r, l)
        BY <2>2, <3>1, LastAndFront
      <4>2. Merge(out, m) = Append(r, j)
        BY <3>1 DEF Merge
      <4>3. j \in Message /\ j.role = l.role /\ j.blocks = l.blocks \o m.blocks
        <5> DEFINE c == l.blocks \o m.blocks
        <5>1. j \in Message /\ j = [role |-> l.role, kind |-> "blocks", blocks |-> c]
          BY <3>1, <4>1, JoinedIs
        <5> HIDE DEF c, j, l
        <5>2. j \in Message /\ j.role = l.role /\ j.blocks = c
          BY <5>1
        <5>3. QED
          BY <5>2 DEF c
      <4>4. m.role = l.role
        BY <3>1 DEF Mergeable
      <4> HIDE DEF l, r, j
      <4>5. Spoken(j) = Spoken(l) \o Spoken(m)
        <5>1. /\ Side(l.role) \in Roles /\ l.blocks \in Seq(Blocks) /\ m.blocks \in Seq(Blocks)
              /\ Spoken(l) = OnSide(Side(l.role), l.blocks)
              /\ Spoken(m) = OnSide(Side(l.role), m.blocks)
              /\ Spoken(j) = OnSide(Side(l.role), l.blocks \o m.blocks)
          BY <4>1, <4>3, <4>4, SpokenIs
        <5>2. QED
          BY <5>1, OnSideIs
      <4>6. /\ Said(Append(r, j)) = Said(r) \o Spoken(j)
            /\ Said(out) = Said(r) \o Spoken(l)
            /\ Said(r) \in Seq(Sayings)
        BY <4>1, <4>3, SaidIs
      <4>7. Said(r) \o (Spoken(l) \o Spoken(m)) = (Said(r) \o Spoken(l)) \o Spoken(m)
        <5>1. Said(r) \in Seq(Sayings) /\ Spoken(l) \in Seq(Sayings)
              /\ Spoken(m) \in Seq(Sayings)
          BY <4>1, <4>6, SpokenIs
        <5>2. QED
          BY <5>1, ConcatAssociative
      <4>8. QED
        BY <4>2, <4>5, <4>6, <4>7
    <3>2. CASE ~(out # <<>> /\ Mergeable(Last(out), m))
      <4>1. Merge(out, m) = Append(out, m)
        BY <3>2 DEF Merge
      <4>2. QED
        BY <2>2, <4>1, SaidIs
    <3>3. QED
      BY <3>1, <3>2
  <2>4. QED
    BY <2>1, <2>2, <2>3 DEF Q, out
<1>3. \A t \in Seq(Message) : t \in Q
  <2>1. Q \in SUBSET Seq(Message)
    OBVIOUS
  <2> HIDE DEF Q
  <2>2. QED
    BY <1>1, <1>2, <2>1, SequencesAll
<1>4. QED
  BY <1>3

-----------------------------------------------------------------------------
(***************************************************************************)
(* A tool call u and its result r.                                         *)
(***************************************************************************)

\* So far each call is an assistant turn with its result right after it; the
\* call at the end may still be open.
SoFarPaired(ms, u, r) ==
    \A k \in DOMAIN ms :
        u \in Range(ms[k].blocks) =>
            /\ ms[k].role = "assistant"
            /\ k < Len(ms) => ms[k + 1].role = "user" /\ r \in Range(ms[k + 1].blocks)
Open(ms, u) == ms # <<>> /\ u \in Range(ms[Len(ms)].blocks)

\* Among the merged turns, an open call is the last turn, or the last but one
\* with a user turn after it that has not got the result yet.
Waits(ms, u, r, open) ==
    \A k \in DOMAIN ms :
        u \in Range(ms[k].blocks) =>
            /\ ms[k].role = "assistant"
            /\ k = Len(ms) => open
            /\ k < Len(ms) => /\ ms[k + 1].role = "user"
                              /\ \/ r \in Range(ms[k + 1].blocks)
                                 \/ open /\ k + 1 = Len(ms)

\* A pairing one turn earlier.
LEMMA SoFarAppend ==
    ASSUME NEW s \in Seq(Message), NEW m \in Message, NEW u, NEW r,
           SoFarPaired(Append(s, m), u, r)
    PROVE  /\ SoFarPaired(s, u, r)
           /\ u \in Range(m.blocks) => m.role = "assistant"
           /\ Open(s, u) => m.role = "user" /\ r \in Range(m.blocks)
           /\ Open(Append(s, m), u) <=> u \in Range(m.blocks)
<1> DEFINE t == Append(s, m)
<1>1. /\ t \in Seq(Message) /\ Len(t) = Len(s) + 1 /\ t[Len(s) + 1] = m
      /\ \A i \in 1..Len(s) : t[i] = s[i]
  BY AppendProperties
<1>2. Len(s) \in Nat /\ DOMAIN s = 1..Len(s) /\ DOMAIN t = 1..(Len(s) + 1)
  BY <1>1, LenProperties
<1>3. SoFarPaired(t, u, r)
  OBVIOUS
<1> HIDE DEF t
<1>4. ASSUME NEW k \in 1..Len(s), u \in Range(s[k].blocks)
      PROVE  /\ s[k].role = "assistant"
             /\ k < Len(s) => s[k + 1].role = "user" /\ r \in Range(s[k + 1].blocks)
             /\ k = Len(s) => m.role = "user" /\ r \in Range(m.blocks)
  <2>1. k \in DOMAIN t /\ k < Len(t) /\ t[k] = s[k]
    BY <1>1, <1>2
  <2>2. t[k].role = "assistant" /\ t[k + 1].role = "user" /\ r \in Range(t[k + 1].blocks)
    BY <1>3, <1>4, <2>1 DEF SoFarPaired
  <2>3. k < Len(s) => k + 1 \in 1..Len(s)
    BY <1>2
  <2>4. QED
    BY <1>1, <2>1, <2>2, <2>3
<1>5. u \in Range(m.blocks) => m.role = "assistant"
  <2>1. Len(s) + 1 \in DOMAIN t
    BY <1>2
  <2>2. QED
    BY <1>1, <1>3, <2>1 DEF SoFarPaired
<1>6. SoFarPaired(s, u, r)
  BY <1>2, <1>4 DEF SoFarPaired
<1>7. Open(s, u) => m.role = "user" /\ r \in Range(m.blocks)
  <2>1. s # <<>> => Len(s) \in 1..Len(s)
    BY <1>2, EmptySeq
  <2>2. QED
    BY <1>4, <2>1 DEF Open
<1>8. Open(t, u) <=> u \in Range(m.blocks)
  <2>1. t # <<>>
    BY <1>1, <1>2, EmptySeq
  <2>2. QED
    BY <1>1, <2>1 DEF Open
<1>9. QED
  BY <1>5, <1>6, <1>7, <1>8 DEF t

\* Merging one turn more: a call is an assistant turn and then the open one, and
\* the turn after an open call is the user's, with the result or still without.
LEMMA MergeWaits ==
    ASSUME NEW s \in Seq(Message), NEW m \in Message, NEW u, NEW r,
           NEW open \in BOOLEAN, NEW open2 \in BOOLEAN,
           Waits(s, u, r, open),
           u \in Range(m.blocks) => m.role = "assistant" /\ open2,
           open => m.role = "user" /\ (r \in Range(m.blocks) \/ open2)
    PROVE  Waits(Merge(s, m), u, r, open2)
<1>0. Len(s) \in Nat /\ DOMAIN s = 1..Len(s) /\ (s # <<>> <=> Len(s) # 0)
      /\ \A i \in 1..Len(s) : s[i] \in Message
  BY LenProperties, EmptySeq, ElementOfSeq
<1>1. CASE s # <<>> /\ Mergeable(Last(s), m)
  <2> DEFINE n == Len(s)
             l == Last(s)
             f == Front(s)
             j == Joined(l, m)
             t == Append(f, j)
  <2>1. /\ l \in Message /\ f \in Seq(Message) /\ Len(f) = n - 1 /\ n \in Nat \ {0}
        /\ \A i \in 1..(n - 1) : f[i] = s[i]
    BY <1>1, LastAndFront
  <2>2. l = s[n]
    BY DEF Last
  <2>3. j \in Message /\ j.role = l.role /\ j.blocks = l.blocks \o m.blocks
    <3> DEFINE c == l.blocks \o m.blocks
    <3>1. j \in Message /\ j = [role |-> l.role, kind |-> "blocks", blocks |-> c]
      BY <1>1, <2>1, JoinedIs
    <3> HIDE DEF c, j, l
    <3>2. j \in Message /\ j.role = l.role /\ j.blocks = c
      BY <3>1
    <3>3. QED
      BY <3>2 DEF c
  <2>4. m.role = l.role
    BY <1>1 DEF Mergeable
  <2>5. Merge(s, m) = t
    BY <1>1 DEF Merge
  <2> HIDE DEF l, f, j
  <2>6. Range(j.blocks) = Range(l.blocks) \cup Range(m.blocks)
    BY <2>1, <2>3, MessageIs, RangeConcatenation
  <2>7. /\ t \in Seq(Message) /\ Len(t) = n /\ t[n] = j
        /\ \A i \in 1..(n - 1) : t[i] = s[i]
    <3>1. /\ t \in Seq(Message) /\ Len(t) = Len(f) + 1 /\ t[Len(f) + 1] = j
          /\ \A i \in 1..Len(f) : t[i] = f[i]
      BY <2>1, <2>3, AppendProperties
    <3> HIDE DEF t
    <3>2. Len(f) + 1 = n
      BY <2>1
    <3>3. QED
      BY <2>1, <3>1, <3>2
  <2> HIDE DEF t, n
  <2>8. ASSUME NEW k \in 1..n, u \in Range(t[k].blocks)
        PROVE  /\ t[k].role = "assistant"
               /\ k = n => open2
               /\ k < n => /\ t[k + 1].role = "user"
                           /\ r \in Range(t[k + 1].blocks) \/ (open2 /\ k + 1 = n)
    <3>1. n \in DOMAIN s /\ k \in DOMAIN s /\ Len(s) = n
      BY <1>0, <2>1 DEF n
    <3>2. CASE k = n
      <4>1. u \notin Range(l.blocks)
        <5>1. SUFFICES ASSUME u \in Range(l.blocks) PROVE FALSE
          OBVIOUS
        <5>2. l.role = "assistant" /\ open
          BY <2>2, <3>1, <5>1 DEF Waits
        <5>3. QED
          BY <2>4, <5>2
      <4>2. u \in Range(m.blocks)
        BY <2>6, <2>7, <2>8, <3>2, <4>1
      <4>3. QED
        BY <2>1, <2>3, <2>4, <2>7, <3>2, <4>2
    <3>3. CASE k < n
      <4>1. k \in 1..(n - 1) /\ t[k] = s[k] /\ k + 1 \in 1..n
        BY <2>1, <2>7, <3>3
      <4>2. /\ s[k].role = "assistant" /\ s[k + 1].role = "user"
            /\ r \in Range(s[k + 1].blocks) \/ (open /\ k + 1 = n)
        BY <2>8, <3>1, <3>3, <4>1 DEF Waits
      <4>3. CASE k + 1 = n
        <5>1. t[k + 1] = j /\ s[k + 1] = l
          BY <2>2, <2>7, <4>3
        <5>2. QED
          BY <2>3, <2>6, <3>3, <4>1, <4>2, <4>3, <5>1
      <4>4. CASE k + 1 # n
        <5>1. t[k + 1] = s[k + 1]
          BY <2>1, <2>7, <4>1, <4>4
        <5>2. QED
          BY <3>3, <4>1, <4>2, <4>4, <5>1
      <4>5. QED
        BY <4>3, <4>4
    <3>4. QED
      BY <2>1, <3>2, <3>3
  <2>9. DOMAIN t = 1..n
    BY <2>7, LenProperties
  <2>10. QED
    BY <2>5, <2>7, <2>8, <2>9 DEF Waits
<1>2. CASE ~(s # <<>> /\ Mergeable(Last(s), m))
  <2> DEFINE n == Len(s)
             t == Append(s, m)
  <2>1. Merge(s, m) = t
    BY <1>2 DEF Merge
  <2>2. /\ t \in Seq(Message) /\ Len(t) = n + 1 /\ t[n + 1] = m
        /\ \A i \in 1..n : t[i] = s[i]
    BY AppendProperties
  <2>3. n \in Nat /\ DOMAIN t = 1..(n + 1) /\ DOMAIN s = 1..n
    BY <1>0, <2>2, LenProperties
  <2> HIDE DEF t, n
  <2>4. ASSUME open, n # 0 PROVE s[n].role # "user"
    <3>1. SUFFICES ASSUME s[n].role = "user" PROVE FALSE
      OBVIOUS
    <3>2. s # <<>> /\ Last(s) = s[n] /\ s[n] \in Message
      BY <1>0, <2>3, <2>4 DEF n, Last
    <3>3. m.role = "user" /\ m.kind # "junk" /\ s[n].kind # "junk"
      BY <2>4, <3>1, <3>2, MessageIs
    <3>4. QED
      BY <1>2, <3>1, <3>2, <3>3 DEF Mergeable
  <2>5. ASSUME NEW k \in 1..(n + 1), u \in Range(t[k].blocks)
        PROVE  /\ t[k].role = "assistant"
               /\ k = n + 1 => open2
               /\ k < n + 1 => /\ t[k + 1].role = "user"
                               /\ r \in Range(t[k + 1].blocks) \/ (open2 /\ k + 1 = n + 1)
    <3>1. CASE k = n + 1
      BY <2>2, <2>3, <2>5, <3>1
    <3>2. CASE k < n + 1
      <4>1. k \in 1..n /\ t[k] = s[k] /\ Len(s) = n
        BY <2>2, <2>3, <3>2 DEF n
      <4>2. /\ s[k].role = "assistant"
            /\ k = n => open
            /\ k < n => /\ s[k + 1].role = "user"
                        /\ r \in Range(s[k + 1].blocks) \/ (open /\ k + 1 = n)
        BY <2>3, <2>5, <4>1 DEF Waits
      <4>3. CASE k = n
        BY <2>2, <3>2, <4>1, <4>2, <4>3
      <4>4. CASE k < n
        <5>1. k + 1 \in 1..n /\ k + 1 # n + 1
          BY <2>3, <4>1, <4>4
        <5>2. t[k + 1] = s[k + 1]
          BY <2>2, <5>1
        <5>3. ~(open /\ k + 1 = n)
          BY <2>3, <2>4, <4>1, <4>2, <4>4
        <5>4. QED
          BY <3>2, <4>1, <4>2, <4>4, <5>1, <5>2, <5>3
      <4>5. QED
        BY <2>3, <4>1, <4>3, <4>4
    <3>3. QED
      BY <2>3, <3>1, <3>2
  <2>6. QED
    BY <2>1, <2>2, <2>3, <2>5 DEF Waits
<1>3. QED
  BY <1>1, <1>2

\* One turn more of the history is one turn more to merge, with the same blocks
\* but for thinking, or none when only thinking was in it.
LEMMA MovedAppend ==
    ASSUME NEW s \in Seq(Message), NEW m \in Message, NEW G, "midconv-system" \in G
    PROVE  \/ /\ Moved(Append(s, m), G) = Moved(s, G)
              /\ \A x \in Blocks \ Thinking : x \notin Range(m.blocks)
           \/ \E n \in Message :
                 /\ Moved(Append(s, m), G) = Append(Moved(s, G), n)
                 /\ n.role = Side(m.role)
                 /\ \A x \in Blocks \ Thinking :
                       x \in Range(n.blocks) <=> x \in Range(m.blocks)
<1>1. \A t \in Seq(Message), n \in Message :
          SystemToUser(Append(t, n)) = Append(SystemToUser(t), ToUser(n))
  BY SystemToUserIs
<1>2. \A n \in Message : /\ ToUser(n) \in Message /\ ToUser(n).role = Side(n.role)
                         /\ ToUser(n).blocks = n.blocks
  BY ToUserIs
<1>3. CASE "thinking" \notin G
  <2>1. Moved(Append(s, m), G) = Append(Moved(s, G), ToUser(m))
    BY <1>1, <1>3 DEF Moved
  <2>2. QED
    BY <1>2, <2>1
<1>4. CASE "thinking" \in G
  <2> DEFINE k == StripHistory(s)
  <2>1. k \in Seq(Message) /\ StripHistory(Append(s, m)) = StripTurn(k, m)
    BY StripHistoryIs
  <2>2. Moved(Append(s, m), G) = SystemToUser(StripTurn(k, m)) /\ Moved(s, G) = SystemToUser(k)
    BY <1>4, <2>1 DEF Moved
  <2> HIDE DEF k
  <2>3. CASE m.kind # "blocks"
    <3>1. Moved(Append(s, m), G) = Append(Moved(s, G), ToUser(m))
      BY <1>1, <2>1, <2>2, <2>3 DEF StripTurn
    <3>2. QED
      BY <1>2, <3>1
  <2>4. CASE m.kind = "blocks"
    <3>1. /\ Bare(m) \in Message /\ Bare(m).role = m.role
          /\ Bare(m).blocks = Only(m.blocks, Blocks \ Thinking)
      <4>1. /\ Bare(m) \in Message
            /\ Bare(m) = [role |-> m.role, kind |-> "blocks",
                          blocks |-> Only(m.blocks, Blocks \ Thinking)]
        BY <2>4, BareIs
      <4>2. QED
        BY <4>1
    <3> HIDE DEF Bare
    <3>2. Range(Bare(m).blocks) = Range(m.blocks) \cap (Blocks \ Thinking)
      BY <3>1, MessageIs, OnlyRange
    <3>3. CASE Bare(m).blocks = <<>>
      <4>1. StripTurn(k, m) = k
        BY <2>4, <3>3 DEF StripTurn
      <4>2. <<>> \in Seq(Blocks) /\ DOMAIN <<>> = {}
        BY EmptySeq, LenProperties
      <4>3. Range(Bare(m).blocks) = {}
        BY <3>3, <4>2 DEF Range
      <4>4. QED
        BY <2>2, <3>2, <4>1, <4>3
    <3>4. CASE Bare(m).blocks # <<>>
      <4>1. StripTurn(k, m) = Append(k, Bare(m))
        BY <2>4, <3>4 DEF StripTurn
      <4>2. Moved(Append(s, m), G) = Append(Moved(s, G), ToUser(Bare(m)))
        BY <1>1, <2>1, <2>2, <3>1, <4>1
      <4>3. /\ ToUser(Bare(m)) \in Message /\ ToUser(Bare(m)).role = Side(m.role)
            /\ ToUser(Bare(m)).blocks = Bare(m).blocks
        BY <1>2, <3>1
      <4>4. \A x \in Blocks \ Thinking :
               x \in Range(ToUser(Bare(m)).blocks) <=> x \in Range(m.blocks)
        BY <3>2, <4>3
      <4>5. QED
        BY <4>2, <4>3, <4>4
    <3>5. QED
      BY <3>3, <3>4
  <2>5. QED
    BY <2>3, <2>4
<1>5. QED
  BY <1>3, <1>4

\* The turns of no system.
LEMMA WithoutSystemIs ==
    /\ WithoutSystem(<<>>) = <<>>
    /\ \A s \in Seq(Message) : WithoutSystem(s) \in Seq(Message)
    /\ \A s \in Seq(Message), m \in Message :
           WithoutSystem(Append(s, m)) = IF m.role # "system" THEN Append(WithoutSystem(s), m)
                                         ELSE WithoutSystem(s)
<1> DEFINE D == {m \in Message : m.role # "system"}
<1>1. \A s : WithoutSystem(s) = Only(s, D)
  BY DEF WithoutSystem
<1>2. \A m \in Message : m \in D <=> m.role # "system"
  OBVIOUS
<1> HIDE DEF D
<1>3. /\ Only(<<>>, D) = <<>>
      /\ \A s \in Seq(Message) : Only(s, D) \in Seq(Message)
      /\ \A s \in Seq(Message), m \in Message :
             Only(Append(s, m), D) = IF m \in D THEN Append(Only(s, D), m) ELSE Only(s, D)
  BY OnlyIs
<1>4. QED
  BY <1>1, <1>2, <1>3

\* The history of which every call has been answered so far waits only for the
\* call that is open, whatever stands between the two.
LEMMA HistoryWaits ==
    ASSUME NEW s \in Seq(Message), NEW G, "midconv-system" \in G,
           NEW u \in Blocks \ Thinking, NEW r \in Blocks \ Thinking,
           \A m \in Range(s) : m.role = "system" => u \notin Range(m.blocks),
           SoFarPaired(WithoutSystem(s), u, r)
    PROVE  Waits(Merged(Moved(s, G)), u, r, Open(WithoutSystem(s), u))
<1> DEFINE Fair(t) == /\ \A m \in Range(t) : m.role = "system" => u \notin Range(m.blocks)
                      /\ SoFarPaired(WithoutSystem(t), u, r)
           X(t) == Merged(Moved(t, G))
           O(t) == Open(WithoutSystem(t), u)
           Q == {t \in Seq(Message) : Fair(t) => Waits(X(t), u, r, O(t))}
<1>1. <<>> \in Q
  <2>1. <<>> \in Seq(Message) /\ DOMAIN <<>> = {}
    BY EmptySeq, LenProperties
  <2>2. X(<<>>) = <<>>
    BY MergedIs, StripHistoryIs, SystemToUserIs DEF Moved
  <2>3. Waits(<<>>, u, r, O(<<>>))
    BY <2>1 DEF Waits
  <2>4. QED
    BY <2>1, <2>2, <2>3
<1>2. ASSUME NEW t \in Q, NEW m \in Message PROVE Append(t, m) \in Q
  <2> DEFINE v == Append(t, m)
  <2>1. t \in Seq(Message) /\ (Fair(t) => Waits(X(t), u, r, O(t)))
    OBVIOUS
  <2>2. v \in Seq(Message) /\ Range(v) = Range(t) \cup {m}
    BY <2>1, AppendProperties, RangeAppend
  <2>3. SUFFICES ASSUME Fair(v) PROVE Waits(X(v), u, r, O(v))
    BY <2>2
  <2> HIDE DEF Q
  <2> DEFINE w == WithoutSystem(t)
  <2>4. /\ w \in Seq(Message)
        /\ WithoutSystem(v) = IF m.role # "system" THEN Append(w, m) ELSE w
    BY <2>1, WithoutSystemIs
  <2>5. /\ SoFarPaired(WithoutSystem(v), u, r)
        /\ m.role = "system" => u \notin Range(m.blocks)
        /\ \A x \in Range(t) : x.role = "system" => u \notin Range(x.blocks)
    BY <2>2, <2>3
  <2>6. /\ SoFarPaired(w, u, r)
        /\ m.role # "system" => /\ u \in Range(m.blocks) => m.role = "assistant"
                                /\ O(t) => m.role = "user" /\ r \in Range(m.blocks)
                                /\ O(v) <=> u \in Range(m.blocks)
        /\ m.role = "system" => (O(v) <=> O(t))
    <3>1. CASE m.role = "system"
      BY <2>4, <2>5, <3>1
    <3>2. CASE m.role # "system"
      <4>1. WithoutSystem(v) = Append(w, m)
        BY <2>4, <3>2
      <4>2. SoFarPaired(Append(w, m), u, r)
        BY <2>5, <4>1
      <4> HIDE DEF w, v
      <4>3. /\ SoFarPaired(w, u, r)
            /\ u \in Range(m.blocks) => m.role = "assistant"
            /\ Open(w, u) => m.role = "user" /\ r \in Range(m.blocks)
            /\ Open(Append(w, m), u) <=> u \in Range(m.blocks)
        BY <2>4, <4>2, SoFarAppend
      <4>4. QED
        BY <3>2, <4>1, <4>3 DEF w
    <3>3. QED
      BY <3>1, <3>2
  <2>7. Waits(X(t), u, r, O(t))
    BY <2>1, <2>5, <2>6
  <2>8. Moved(t, G) \in Seq(Message) /\ X(t) \in Seq(Message)
    BY <2>1, MovedIs, MergedIs
  <2>9. CASE /\ Moved(v, G) = Moved(t, G)
             /\ \A x \in Blocks \ Thinking : x \notin Range(m.blocks)
    <3>1. ~O(t) => (O(v) <=> O(t))
      BY <2>6, <2>9
    <3>2. O(t) => m.role = "system"
      BY <2>6, <2>9
    <3>3. O(v) <=> O(t)
      BY <2>6, <3>1, <3>2
    <3>4. X(v) = X(t)
      BY <2>9
    <3> HIDE DEF X, O
    <3>5. QED
      BY <2>7, <3>3, <3>4 DEF Waits
  <2>10. CASE \E n \in Message :
                 /\ Moved(v, G) = Append(Moved(t, G), n)
                 /\ n.role = Side(m.role)
                 /\ \A x \in Blocks \ Thinking :
                       x \in Range(n.blocks) <=> x \in Range(m.blocks)
    <3>1. PICK n \in Message :
                 /\ Moved(v, G) = Append(Moved(t, G), n)
                 /\ n.role = Side(m.role)
                 /\ \A x \in Blocks \ Thinking :
                       x \in Range(n.blocks) <=> x \in Range(m.blocks)
      BY <2>10
    <3>2. X(v) = Merge(X(t), n)
      BY <2>8, <3>1, MergedIs
    <3>3. O(t) \in BOOLEAN /\ O(v) \in BOOLEAN
      BY DEF Open
    <3>4. /\ u \in Range(n.blocks) <=> u \in Range(m.blocks)
          /\ r \in Range(n.blocks) <=> r \in Range(m.blocks)
      BY <3>1
    <3> HIDE DEF X, O, v
    <3>5. u \in Range(n.blocks) => n.role = "assistant" /\ O(v)
      BY <2>5, <2>6, <3>1, <3>4 DEF Side
    <3>6. O(t) => n.role = "user" /\ (r \in Range(n.blocks) \/ O(v))
      BY <2>6, <3>1, <3>4 DEF Side
    <3>7. Waits(Merge(X(t), n), u, r, O(v))
      BY <2>7, <2>8, <3>3, <3>5, <3>6, MergeWaits
    <3>8. QED
      BY <3>2, <3>7
  <2>11. QED
    BY <2>1, <2>9, <2>10, MovedAppend
<1>3. \A t \in Seq(Message) : t \in Q
  <2>1. Q \in SUBSET Seq(Message)
    OBVIOUS
  <2> HIDE DEF Q
  <2>2. QED
    BY <1>1, <1>2, <2>1, SequencesAll
<1>4. QED
  BY <1>3

\* Nothing is lost but what was stripped: whatever the features and the history,
\* converting, stripping and merging keep every other block, on its side and in
\* its order, and a tool call keeps its result in the very next turn.
THEOREM NothingElseLostHolds == ReconcileSpec => []NothingElseLost
<1>1. ReconcileInv => NothingElseLost
  <2> SUFFICES ASSUME ReconcileInv, at = Done PROVE NothingElseLost
    BY DEF NothingElseLost
  <2> DEFINE p == Parted(Rewritten, stripped)
             hs == orig.messages
             v == Moved(hs, stripped)
  <2>1. Rewritten \in Request /\ orig \in Request
    BY RewrittenIs DEF ReconcileInv
  <2>2. Rewritten.messages = hs /\ hs \in Seq(Message)
    BY <2>1, RequestIs DEF Rewritten, Request
  <2>3. req = [p EXCEPT !.messages = IF stripped # {} THEN Merged(@) ELSE @]
    BY DEF ReconcileInv
  <2>4. req.messages = IF stripped # {} THEN Merged(v) ELSE v
    BY <2>2, <2>3 DEF Parted
  <2>5. v \in Seq(Message)
    BY <2>2, MovedIs
  <2>6. Said(v) = Kept(Said(hs))
    <3>1. StripHistory(hs) \in Seq(Message)
      BY <2>2, StripHistoryIs
    <3>2. Said(StripHistory(hs)) = Only(Said(hs), Plain)
      BY <2>2, StrippedSaid
    <3>3. \A t \in Seq(Message) : Said(SystemToUser(t)) = Said(t)
      BY ConvertedSaid
    <3>4. QED
      BY <2>2, <3>1, <3>2, <3>3 DEF Moved, Kept, Plain
  <2>7. Said(req.messages) = Kept(Said(hs))
    BY <2>4, <2>5, <2>6, MergedSaid
  <2>8. ASSUME "midconv-system" \in stripped, NEW q \in Pairs,
               Paired(WithoutSystem(hs), q), NoSystemCalls(hs, q)
        PROVE  Paired(req.messages, q)
    <3> DEFINE u == q[1]
               r == q[2]
               w == WithoutSystem(hs)
    <3>1. u \in Blocks \ Thinking /\ r \in Blocks \ Thinking
      BY ReconcileConstants
    <3>2. w \in Seq(Message)
      BY <2>2, WithoutSystemIs
    <3>3. \A m \in Range(hs) : m.role = "system" => u \notin Range(m.blocks)
      BY <2>8 DEF NoSystemCalls
    <3> HIDE DEF w
    <3>4. SoFarPaired(w, u, r)
      BY <2>8 DEF Paired, SoFarPaired, w
    <3>5. ~Open(w, u)
      <4>1. w # <<>> => Len(w) \in DOMAIN w /\ ~(Len(w) < Len(w))
        BY <3>2, LenProperties, EmptySeq
      <4>2. QED
        BY <2>8, <4>1 DEF Paired, Open, w
    <3>6. Waits(Merged(v), u, r, Open(w, u))
      BY <2>2, <2>8, <3>1, <3>3, <3>4, HistoryWaits DEF w
    <3>7. req.messages = Merged(v)
      BY <2>4, <2>8
    <3>8. Merged(v) \in Seq(Message)
      BY <2>5, MergedIs
    <3> HIDE DEF v
    <3>9. Len(Merged(v)) \in Nat /\ DOMAIN Merged(v) = 1..Len(Merged(v))
      BY <3>8, LenProperties
    <3>10. QED
      BY <3>5, <3>6, <3>7, <3>9 DEF Waits, Paired
  <2>9. QED
    BY <2>7, <2>8 DEF NothingElseLost
<1>2. QED
  BY <1>1, ReconcileInvHolds, PTL

-----------------------------------------------------------------------------
(***************************************************************************)
(* The order of the features.                                              *)
(***************************************************************************)

\* The name tests of the features share no token of the header.
OneOwner == \A b \in Betas : \A f, g \in Owners[b] : f = g

\* The features of T that the target lacks and the request uses.
Gone(r, T) == {f \in T : Lacks(target, f) /\ Detect(f, r)}

\* The strip brings no system turn.
UnSystem == {m \in Message : m.role # "system"}
LEMMA StripNoSystem ==
    ASSUME NEW s \in Seq(UnSystem)
    PROVE  StripHistory(s) \in Seq(UnSystem)
<1>0. UnSystem \subseteq Message /\ \A t \in Seq(UnSystem) : t \in Seq(Message)
  BY SeqMonotonic DEF UnSystem
<1> DEFINE Q == {t \in Seq(UnSystem) : StripHistory(t) \in Seq(UnSystem)}
<1>1. <<>> \in Q
  BY StripHistoryIs, EmptySeq
<1>2. ASSUME NEW t \in Q, NEW m \in UnSystem PROVE Append(t, m) \in Q
  <2>1. t \in Seq(UnSystem) /\ StripHistory(t) \in Seq(UnSystem)
    OBVIOUS
  <2> HIDE DEF Q
  <2>2. StripHistory(Append(t, m)) = StripTurn(StripHistory(t), m)
    BY <1>0, <2>1, StripHistoryIs
  <2>3. ASSUME m.kind = "blocks" PROVE Bare(m) \in UnSystem
    <3>1. Bare(m) \in Message
          /\ Bare(m) = [role |-> m.role, kind |-> "blocks",
                        blocks |-> Only(m.blocks, Blocks \ Thinking)]
      BY <1>0, <2>3, BareIs
    <3>2. Bare(m).role = m.role
      BY <3>1
    <3>3. QED
      BY <3>1, <3>2 DEF UnSystem
  <2>4. StripTurn(StripHistory(t), m) \in Seq(UnSystem)
    BY <2>1, <2>3, AppendProperties DEF StripTurn
  <2>5. QED
    BY <2>1, <2>2, <2>4, AppendProperties DEF Q
<1>3. \A t \in Seq(UnSystem) : t \in Q
  <2>1. Q \in SUBSET Seq(UnSystem)
    OBVIOUS
  <2> HIDE DEF Q
  <2>2. QED
    BY <1>1, <1>2, <2>1, SequencesAll
<1>4. QED
  BY <1>3

\* The parts of what is left.
LEMMA PartedIs ==
    ASSUME NEW r \in Request, NEW G
    PROVE  LET p == Parted(r, G)
           IN  /\ p = [model |-> p.model, thinking |-> p.thinking, output |-> p.output,
                       edits |-> p.edits, messages |-> p.messages, betas |-> p.betas]
               /\ p.thinking = (IF "thinking" \in G THEN FALSE ELSE r.thinking)
               /\ p.output = (IF "effort" \in G THEN WithoutEffort(r.output) ELSE r.output)
               /\ p.edits = (IF "thinking" \in G THEN WithoutEdits(r.edits) ELSE r.edits)
               /\ p.messages = Moved(r.messages, G) /\ p.messages \in Seq(Message)
               /\ p.betas = {b \in r.betas : Owners[b] \cap G = {}}
<1>1. Moved(r.messages, G) \in Seq(Message)
  BY RequestIs, MovedIs
<1>2. QED
  BY <1>1 DEF Parted

\* A stripped feature is not detected again.
LEMMA NotAgain ==
    ASSUME NEW r \in Request, NEW G \in SUBSET FeatureSet, NEW f \in G
    PROVE  ~Detect(f, Parted(r, G))
<1> DEFINE p == Parted(r, G)
<1>1. /\ p.thinking = (IF "thinking" \in G THEN FALSE ELSE r.thinking)
      /\ p.output = (IF "effort" \in G THEN WithoutEffort(r.output) ELSE r.output)
      /\ p.edits = (IF "thinking" \in G THEN WithoutEdits(r.edits) ELSE r.edits)
      /\ p.messages = Moved(r.messages, G) /\ p.messages \in Seq(Message)
      /\ p.betas = {b \in r.betas : Owners[b] \cap G = {}}
  BY PartedIs
<1> HIDE DEF p
<1>2. ~HasBeta(p, f)
  BY <1>1 DEF HasBeta
<1>3. f = "effort" => ~(p.output # Absent /\ "effort" \in p.output)
  BY <1>1 DEF WithoutEffort
<1>4. f = "thinking" => ~p.thinking /\ ~(p.edits # Absent /\ "thinking" \in p.edits)
  BY <1>1 DEF WithoutEdits
<1>5. f = "midconv-system" => ~(\E m \in Range(p.messages) : m.role = "system")
  <2>1. SUFFICES ASSUME f = "midconv-system", NEW m \in Range(p.messages), m.role = "system"
                 PROVE  FALSE
    OBVIOUS
  <2> DEFINE hs == IF "thinking" \in G THEN StripHistory(r.messages) ELSE r.messages
  <2>2. hs \in Seq(Message)
    BY RequestIs, StripHistoryIs
  <2>3. p.messages = SystemToUser(hs)
    BY <1>1, <2>1 DEF Moved
  <2> HIDE DEF hs
  <2>4. /\ SystemToUser(hs) \in Seq(Message) /\ Len(SystemToUser(hs)) = Len(hs)
        /\ \A i \in 1..Len(hs) : SystemToUser(hs)[i] = ToUser(hs[i])
    BY <2>2, SystemToUserIs
  <2>5. PICK i \in 1..Len(hs) : m = ToUser(hs[i])
    BY <2>1, <2>3, <2>4, RangeEquality
  <2>6. hs[i] \in Message
    BY <2>2, <2>5, ElementOfSeq
  <2>7. QED
    BY <2>1, <2>5, <2>6, ToUserIs
<1>6. QED
  BY <1>2, <1>3, <1>4, <1>5 DEF Detect, p

\* Another feature is detected as before; but a system turn may be gone with the
\* thinking, and then there is nothing left to convert.
LEMMA StillDetected ==
    ASSUME OneOwner, NEW r \in Request, NEW G \in SUBSET FeatureSet,
           NEW f \in FeatureSet, f \notin G
    PROVE  /\ Detect(f, Parted(r, G)) => Detect(f, r)
           /\ f # "midconv-system" /\ Detect(f, r) => Detect(f, Parted(r, G))
           /\ f = "midconv-system" /\ ~Detect(f, Parted(r, G))
                  => Parted(r, G \cup {f}) = Parted(r, G)
<1> DEFINE p == Parted(r, G)
<1>1. /\ p = [model |-> p.model, thinking |-> p.thinking, output |-> p.output,
              edits |-> p.edits, messages |-> p.messages, betas |-> p.betas]
      /\ p.thinking = (IF "thinking" \in G THEN FALSE ELSE r.thinking)
      /\ p.output = (IF "effort" \in G THEN WithoutEffort(r.output) ELSE r.output)
      /\ p.edits = (IF "thinking" \in G THEN WithoutEdits(r.edits) ELSE r.edits)
      /\ p.messages = Moved(r.messages, G) /\ p.messages \in Seq(Message)
      /\ p.betas = {b \in r.betas : Owners[b] \cap G = {}}
  BY PartedIs
<1>2. Strip(f, p) = Parted(r, G \cup {f})
  BY StripParted
<1>3. f \in {"context-1m", "effort", "thinking", "midconv-system"}
  BY FeaturesAre
<1> HIDE DEF p
<1>4. HasBeta(p, f) <=> HasBeta(r, f)
  <2>1. \A b \in r.betas : b \in Betas
    BY RequestIs
  <2>2. \A b \in r.betas : f \in Owners[b] => Owners[b] \cap G = {}
    BY <2>1 DEF OneOwner
  <2>3. QED
    BY <1>1, <2>2 DEF HasBeta
<1>5. f = "effort" => p.output = r.output
  BY <1>1
<1>6. f = "thinking" => p.thinking = r.thinking /\ p.edits = r.edits
  BY <1>1
<1>7. ASSUME f = "midconv-system", NEW m \in Range(p.messages), m.role = "system"
      PROVE  \E n \in Range(r.messages) : n.role = "system"
  <2> SUFFICES ASSUME ~(\E n \in Range(r.messages) : n.role = "system") PROVE FALSE
    OBVIOUS
  <2>1. r.messages \in Seq(Message)
    BY RequestIs
  <2>2. Len(r.messages) \in Nat /\ r.messages \in [1..Len(r.messages) -> Message]
    BY <2>1, LenProperties
  <2>3. \A i \in 1..Len(r.messages) : r.messages[i] \in UnSystem
    BY <2>2 DEF Range, UnSystem
  <2>4. r.messages \in Seq(UnSystem)
    BY <2>2, <2>3, SeqDef
  <2>5. p.messages \in Seq(UnSystem)
    BY <1>1, <1>7, <2>4, StripNoSystem DEF Moved
  <2>6. m \in UnSystem
    BY <1>7, <2>5, RangeOfSeq
  <2>7. QED
    BY <1>7, <2>6 DEF UnSystem
<1>8. f = "context-1m" => (Detect(f, p) <=> Detect(f, r))
  BY <1>4 DEF Detect
<1>9. f = "effort" => (Detect(f, p) <=> Detect(f, r))
  BY <1>4, <1>5 DEF Detect
<1>10. f = "thinking" => (Detect(f, p) <=> Detect(f, r))
  BY <1>4, <1>6 DEF Detect
<1>11. f = "midconv-system" => (Detect(f, p) => Detect(f, r))
  BY <1>4, <1>7 DEF Detect
<1>12. ASSUME f = "midconv-system", ~Detect(f, p) PROVE Strip(f, p) = p
  <2>1. ~HasBeta(p, f) /\ \A m \in Range(p.messages) : m.role # "system"
    BY <1>12 DEF Detect
  <2>2. WithoutBetas(p, f) = p.betas
    BY <2>1 DEF WithoutBetas, HasBeta
  <2>3. SystemToUser(p.messages) = p.messages
    <3> DEFINE u == p.messages
               w == SystemToUser(u)
    <3>1. /\ w \in Seq(Message) /\ Len(w) = Len(u)
          /\ \A i \in 1..Len(u) : w[i] = ToUser(u[i])
      BY <1>1, SystemToUserIs
    <3>2. \A i \in 1..Len(u) : u[i] \in Range(u)
      BY <1>1, RangeEquality
    <3>3. \A i \in 1..Len(u) : w[i] = u[i]
      BY <2>1, <3>1, <3>2 DEF ToUser
    <3> HIDE DEF w
    <3>4. w = u
      BY <1>1, <3>1, <3>3, SeqEqual
    <3>5. QED
      BY <3>4 DEF w
  <2>4. Strip(f, p) =
             [model |-> p.model,
              thinking |-> IF f = "thinking" THEN FALSE ELSE p.thinking,
              output |-> IF f = "effort" THEN WithoutEffort(p.output) ELSE p.output,
              edits |-> IF f = "thinking" THEN WithoutEdits(p.edits) ELSE p.edits,
              messages |-> IF f = "thinking" THEN StripHistory(p.messages)
                           ELSE IF f = "midconv-system" THEN SystemToUser(p.messages)
                           ELSE p.messages,
              betas |-> WithoutBetas(p, f)]
    BY <1>1, StripIs
  <2>5. Strip(f, p) = [model |-> p.model, thinking |-> p.thinking, output |-> p.output,
                       edits |-> p.edits, messages |-> p.messages, betas |-> p.betas]
    BY <1>12, <2>2, <2>3, <2>4
  <2>6. QED
    BY <1>1, <2>5
<1>13. QED
  BY <1>2, <1>3, <1>8, <1>9, <1>10, <1>11, <1>12 DEF p

\* One feature of the table after those of T, in any order: what is left is the
\* request without all that the target lacks and the client used.
LEMMA RunParted ==
    ASSUME OneOwner, NEW r \in Request, NEW T \in SUBSET FeatureSet, NEW f \in FeatureSet
    PROVE  RunFeature(Parted(r, Gone(r, T)), f) = Parted(r, Gone(r, T \cup {f}))
<1> DEFINE G == Gone(r, T)
           p == Parted(r, G)
<1>1. G \in SUBSET FeatureSet
  BY DEF Gone
<1>2. Gone(r, T \cup {f}) = IF Lacks(target, f) /\ Detect(f, r) THEN G \cup {f} ELSE G
  BY DEF Gone
<1>3. f \in G => Lacks(target, f) /\ Detect(f, r)
  BY DEF Gone
<1> HIDE DEF G
<1>4. CASE f \in G
  <2>1. ~Detect(f, p)
    BY <1>1, <1>4, NotAgain
  <2>2. G \cup {f} = G
    BY <1>4
  <2>3. QED
    BY <1>2, <2>1, <2>2 DEF RunFeature, G
<1>5. CASE f \notin G
  <2>1. /\ Detect(f, p) => Detect(f, r)
        /\ f # "midconv-system" /\ Detect(f, r) => Detect(f, p)
        /\ f = "midconv-system" /\ ~Detect(f, p) => Parted(r, G \cup {f}) = p
    BY <1>1, <1>5, StillDetected
  <2>2. Strip(f, p) = Parted(r, G \cup {f})
    BY <1>1, <1>5, StripParted
  <2> HIDE DEF p
  <2>3. RunFeature(p, f) = Parted(r, Gone(r, T \cup {f}))
    <3>1. p = Parted(r, G)
      BY DEF p
    <3>2. CASE Lacks(target, f) /\ Detect(f, p)
      BY <1>2, <2>1, <2>2, <3>2 DEF RunFeature
    <3>3. CASE ~(Lacks(target, f) /\ Detect(f, p))
      BY <1>2, <2>1, <3>1, <3>3 DEF RunFeature
    <3>4. QED
      BY <3>2, <3>3
  <2>4. QED
    BY <2>3 DEF p, G
<1>6. QED
  BY <1>4, <1>5

\* What can be left of a request, and the loop over an order of the features.
Remains(r) == {Parted(r, G) : G \in SUBSET FeatureSet}
RunF(r) == [x \in Remains(r) |-> [f \in FeatureSet |-> RunFeature(x, f)]]
LEMMA RunStays ==
    ASSUME NEW r \in Request
    PROVE  Stays(RunF(r), Remains(r), FeatureSet) /\ r \in Remains(r)
<1>1. ASSUME NEW x \in Remains(r), NEW f \in FeatureSet PROVE RunFeature(x, f) \in Remains(r)
  <2>1. PICK G \in SUBSET FeatureSet : x = Parted(r, G)
    BY DEF Remains
  <2>2. CASE Lacks(target, f) /\ Detect(f, x)
    <3>1. f \notin G
      BY <2>1, <2>2, NotAgain
    <3>2. Strip(f, x) = Parted(r, G \cup {f})
      BY <2>1, <3>1, StripParted
    <3>3. G \cup {f} \in SUBSET FeatureSet
      OBVIOUS
    <3>4. QED
      BY <2>2, <3>2, <3>3 DEF RunFeature, Remains
  <2>3. CASE ~(Lacks(target, f) /\ Detect(f, x))
    BY <2>3 DEF RunFeature
  <2>4. QED
    BY <2>2, <2>3
<1>2. r \in Remains(r)
  <2>1. {} \in SUBSET FeatureSet /\ Parted(r, {}) = r
    BY PartedNone
  <2>2. QED
    BY <2>1 DEF Remains
<1>3. QED
  BY <1>1, <1>2 DEF Stays, RunF

\* The loop is a fold.
LEMMA RunIsFold ==
    ASSUME NEW r \in Request, NEW s \in Seq(FeatureSet)
    PROVE  FoldLeft(RunFeature, r, s) = LeftFold(RunF(r), r, s)
<1> DEFINE P == DOMAIN s
           base == r
           E(hs) == [t \in SUBSET P |->
                       IF t = {} THEN base
                       ELSE RunFeature(hs[t \ {Max(t)}], s[Max(t)])]
           it == CHOOSE hs : hs = E(hs)
<1>1. Stays(RunF(r), Remains(r), FeatureSet) /\ base \in Remains(r)
  BY RunStays
<1>2. Len(s) \in Nat /\ P = 1..Len(s) /\ \A i \in P : s[i] \in FeatureSet
  BY LenProperties, ElementOfSeq
<1>3. \A t \in SUBSET P : t # {} => Max(t) \in P
  BY <1>2, LastPosition
<1> HIDE DEF base
<1>4. PICK hs \in [SUBSET P -> Remains(r)] : Lefts(hs, RunF(r), base, s)
  BY <1>1, LeftsExist
<1>5. ASSUME NEW t \in SUBSET P
      PROVE  hs[t] = IF t = {} THEN base
                    ELSE RunFeature(hs[t \ {Max(t)}], s[Max(t)])
  <2>1. hs[t] = IF t = {} THEN base ELSE RunF(r)[hs[t \ {Max(t)}]][s[Max(t)]]
    BY <1>4 DEF Lefts
  <2>2. QED
    BY <1>2, <1>3, <2>1 DEF RunF
<1>6. it = E(it)
  <2>1. hs = E(hs)
    BY <1>5
  <2> HIDE DEF E
  <2>2. QED
    BY <2>1
<1>7. FoldLeft(RunFeature, r, s) = it[P]
  BY DEF FoldLeft, MapThenFoldSet, base
<1> HIDE DEF it
<1>8. \A t \in SUBSET P : it[t] = IF t = {} THEN base
                                  ELSE RunFeature(it[t \ {Max(t)}], s[Max(t)])
  BY <1>6
<1>9. GoesOn(it, RunF(r), Remains(r), base, s)
  BY <1>2, <1>3, <1>8 DEF GoesOn, RunF
<1>10. it[P] = LeftFold(RunF(r), base, s)
  BY <1>1, <1>9, GoesOnIsFold
<1>11. QED
  BY <1>7, <1>10 DEF base

\* The loop over any features leaves the request without those of them that the
\* target lacks and the client used.
LEMMA RunAll ==
    ASSUME OneOwner, NEW r \in Request, NEW s \in Seq(FeatureSet)
    PROVE  FoldLeft(RunFeature, r, s) = Parted(r, Gone(r, Range(s)))
<1> DEFINE F == RunF(r)
           V == Remains(r)
           Q == {t \in Seq(FeatureSet) : LeftFold(F, r, t) = Parted(r, Gone(r, Range(t)))}
<1>1. Stays(F, V, FeatureSet) /\ r \in V
  BY RunStays
<1>2. \A t \in Seq(FeatureSet) : FoldLeft(RunFeature, r, t) = LeftFold(F, r, t)
  BY RunIsFold
<1>3. \A v \in V, f \in FeatureSet : F[v][f] = RunFeature(v, f)
  BY DEF RunF
<1> HIDE DEF F, V
<1>4. <<>> \in Q
  <2>1. <<>> \in Seq(FeatureSet) /\ DOMAIN <<>> = {}
    BY EmptySeq, LenProperties
  <2>2. LeftFold(F, r, <<>>) = r
    BY <1>1, LeftFoldEmpty
  <2>3. Gone(r, Range(<<>>)) = {}
    BY <2>1 DEF Range, Gone
  <2>4. QED
    BY <2>1, <2>2, <2>3, PartedNone
<1>5. ASSUME NEW t \in Q, NEW f \in FeatureSet PROVE Append(t, f) \in Q
  <2>1. t \in Seq(FeatureSet) /\ LeftFold(F, r, t) = Parted(r, Gone(r, Range(t)))
    OBVIOUS
  <2> HIDE DEF Q
  <2>2. /\ Append(t, f) \in Seq(FeatureSet) /\ Range(Append(t, f)) = Range(t) \cup {f}
        /\ Range(t) \in SUBSET FeatureSet
    BY <2>1, AppendProperties, RangeAppend, RangeOfSeq
  <2>3. LeftFold(F, r, Append(t, f)) = F[LeftFold(F, r, t)][f]
    BY <1>1, <2>1, LeftFoldAppend
  <2>4. LeftFold(F, r, t) \in V
    BY <1>1, <2>1, LeftFoldType
  <2>5. LeftFold(F, r, Append(t, f)) = RunFeature(LeftFold(F, r, t), f)
    BY <1>3, <2>3, <2>4
  <2>6. RunFeature(Parted(r, Gone(r, Range(t))), f) = Parted(r, Gone(r, Range(t) \cup {f}))
    BY <2>2, RunParted
  <2>7. QED
    BY <2>1, <2>2, <2>5, <2>6 DEF Q
<1>6. \A t \in Seq(FeatureSet) : t \in Q
  <2>1. Q \in SUBSET Seq(FeatureSet)
    OBVIOUS
  <2> HIDE DEF Q
  <2>2. QED
    BY <1>4, <1>5, <2>1, SequencesAll
<1>7. QED
  BY <1>2, <1>6

\* The table in its own order leaves the request without the features it has
\* passed that the target lacks and the client used.
OrderInv ==
    at <= Repair => req = Parted(Rewritten, Gone(Rewritten, SoFar))

LEMMA OrderInvHolds ==
    ASSUME OneOwner
    PROVE  ReconcileSpec => [](ReconcileInv /\ OrderInv)
<1>1. ReconcileInit /\ ReconcileInv => OrderInv
  <2> SUFFICES ASSUME ReconcileInit, ReconcileInv PROVE OrderInv
    OBVIOUS
  <2>1. Rewritten \in Request /\ at = 1
    BY RewrittenIs DEF ReconcileInit, ReconcileInv
  <2>2. SoFar = {}
    <3>1. 1..(at - 1) = {}
      BY <2>1
    <3>2. QED
      BY <3>1 DEF SoFar
  <2>3. Gone(Rewritten, SoFar) = {}
    BY <2>2 DEF Gone
  <2>4. QED
    BY <2>1, <2>3, PartedNone DEF OrderInv, ReconcileInit, Rewritten
<1>2. ReconcileInv /\ OrderInv /\ [ReconcileNext]_reconcileVars => OrderInv'
  <2> SUFFICES ASSUME ReconcileInv, OrderInv, [ReconcileNext]_reconcileVars
               PROVE  OrderInv'
    OBVIOUS
  <2>1. CASE StripFeature \/ KeepFeature
    <3> DEFINE f == Features[at]
    <3>1. /\ orig' = orig /\ target' = target /\ at' = at + 1
          /\ at \in 1..(Repair - 1) /\ at <= Repair
      BY <2>1, FeaturesAre DEF StripFeature, KeepFeature, ReconcileInv
    <3>2. req' = RunFeature(req, f)
      BY <2>1 DEF StripFeature, KeepFeature, RunFeature
    <3>3. f \in FeatureSet /\ {Features[i] : i \in 1..at} = SoFar \cup {f}
      BY <3>1, NotSoFar
    <3>4. SoFar \in SUBSET FeatureSet
      <4>1. \A i \in 1..(at - 1) : i \in {1, 2, 3, 4}
        BY <3>1, FeaturesAre
      <4>2. \A i \in {1, 2, 3, 4} : Features[i] \in FeatureSet
        BY FeaturesAre
      <4>3. QED
        BY <4>1, <4>2 DEF SoFar
    <3>5. Rewritten \in Request /\ Rewritten' = Rewritten
      BY <3>1, RewrittenIs DEF Rewritten, ReconcileInv
    <3> HIDE DEF f
    <3>6. req = Parted(Rewritten, Gone(Rewritten, SoFar))
      BY <3>1 DEF OrderInv
    <3>7. req' = Parted(Rewritten, Gone(Rewritten, SoFar \cup {f}))
      BY <3>2, <3>3, <3>4, <3>5, <3>6, RunParted
    <3>8. SoFar' = SoFar \cup {f}
      <4>1. at' - 1 = at
        BY <3>1, FeaturesAre
      <4>2. QED
        BY <3>3, <4>1 DEF SoFar
    <3>9. Parted(Rewritten, Gone(Rewritten, SoFar))'
            = Parted(Rewritten, Gone(Rewritten, SoFar \cup {f}))
      BY <3>1, <3>5, <3>8 DEF Parted, Gone
    <3>10. QED
      BY <3>7, <3>9 DEF OrderInv
  <2>2. CASE RepairTurns
    <3>1. ~(at' <= Repair)
      BY <2>2, FeaturesAre DEF RepairTurns
    <3>2. QED
      BY <3>1 DEF OrderInv
  <2>3. CASE UNCHANGED reconcileVars
    <3>1. orig' = orig /\ target' = target /\ at' = at /\ req' = req
      BY <2>3 DEF reconcileVars
    <3>2. SoFar' = SoFar /\ Rewritten' = Rewritten
      BY <3>1 DEF SoFar, Rewritten
    <3>3. Parted(Rewritten, Gone(Rewritten, SoFar))'
            = Parted(Rewritten, Gone(Rewritten, SoFar))
      BY <3>1, <3>2 DEF Parted, Gone
    <3>4. QED
      BY <3>1, <3>3 DEF OrderInv
  <2>4. QED
    BY <2>1, <2>2, <2>3 DEF ReconcileNext
<1>3. QED
  BY <1>1, <1>2, ReconcileInvHolds, PTL DEF ReconcileSpec

\* Reordering the table cannot change a request, as its comment says, as long as
\* no beta token passes the name tests of two features (reconcile.go).
THEOREM OrderIrrelevantHolds ==
    ASSUME OneOwner
    PROVE  ReconcileSpec => []OrderIrrelevant
<1>1. ReconcileInv /\ OrderInv => OrderIrrelevant
  <2> SUFFICES ASSUME ReconcileInv, OrderInv, at = Repair, NEW s \in Orders
               PROVE  req = FoldLeft(RunFeature, Rewritten, s)
    BY DEF OrderIrrelevant, Rewritten
  <2>1. Rewritten \in Request
    BY RewrittenIs DEF ReconcileInv
  <2>2. s \in Seq(FeatureSet) /\ Range(s) = FeatureSet
    <3>1. s \in [1..4 -> FeatureSet] /\ Range(s) = FeatureSet
      <4>1. s \in [1..Len(Features) -> FeatureSet] /\ Range(s) = FeatureSet
        BY DEF Orders
      <4>2. Len(Features) = 4
        BY FeaturesAre
      <4>3. QED
        BY <4>1, <4>2
    <3>2. s \in Seq(FeatureSet)
      <4>1. 4 \in Nat
        OBVIOUS
      <4>2. QED
        BY <3>1, <4>1, FunctionIsSeq
    <3>3. QED
      BY <3>1, <3>2
  <2>3. SoFar = FeatureSet
    <3>1. at - 1 = 4 /\ 1..4 = {1, 2, 3, 4}
      BY FeaturesAre
    <3>2. SoFar = {Features[i] : i \in {1, 2, 3, 4}}
      BY <3>1 DEF SoFar
    <3>3. QED
      BY <3>2, FeaturesAre
  <2>4. req = Parted(Rewritten, Gone(Rewritten, FeatureSet))
    BY <2>3, FeaturesAre DEF OrderInv
  <2>5. FoldLeft(RunFeature, Rewritten, s) = Parted(Rewritten, Gone(Rewritten, Range(s)))
    BY <2>1, <2>2, RunAll
  <2>6. QED
    BY <2>2, <2>4, <2>5
<1>2. QED
  BY <1>1, OrderInvHolds, PTL

-----------------------------------------------------------------------------
(***************************************************************************)
(* The condition trees: what the recursive definitions over them are.      *)
(***************************************************************************)

\* A node and the nodes under it.
LEMMA RuleIs ==
    /\ Height \in [Rules -> Nat]
    /\ \A r \in Rules :
           /\ r.all = Unset \/ r.all \in Seq(Rules)
           /\ r.any = Unset \/ r.any \in Seq(Rules)
           /\ r.not = Unset \/ r.not \in Rules
           /\ r.leaves \in Seq(Leaf)
           /\ \A q \in Parts(r) : q \in Rules /\ Height[q] < Height[r]
<1>1. \A r \in Rules : /\ r.all = Unset \/ r.all \in Seq(Rules)
                       /\ r.any = Unset \/ r.any \in Seq(Rules)
                       /\ r.not = Unset \/ r.not \in Rules
                       /\ r.leaves \in Seq(Leaf)
  BY RuleTrees DEF Rule
<1>2. \A s \in Seq(Rules) : Range(s) \subseteq Rules
  BY RangeOfSeq
<1>3. \A r \in Rules : Parts(r) \subseteq Rules
  BY <1>1, <1>2 DEF Parts, Sequel
<1>4. QED
  BY <1>1, <1>3, RuleTrees

\* A sequence of the nodes under r, by what it is made of.
LEMMA KidsAre ==
    ASSUME NEW r \in Rules
    PROVE  /\ r.all # Unset => r.all \in Seq(Parts(r)) /\ Range(r.all) \subseteq Parts(r)
           /\ r.any # Unset => r.any \in Seq(Parts(r)) /\ Range(r.any) \subseteq Parts(r)
           /\ r.not # Unset => r.not \in Parts(r)
<1>1. \A s \in Seq(Rules) : s \in Seq(Range(s))
  BY SeqOfRange
<1>2. /\ r.all # Unset => Range(r.all) \subseteq Parts(r)
      /\ r.any # Unset => Range(r.any) \subseteq Parts(r)
      /\ r.not # Unset => r.not \in Parts(r)
  BY DEF Parts, Sequel
<1>3. /\ r.all # Unset => r.all \in Seq(Rules)
      /\ r.any # Unset => r.any \in Seq(Rules)
  BY RuleIs
<1>4. ASSUME NEW s \in Seq(Rules), Range(s) \subseteq Parts(r) PROVE s \in Seq(Parts(r))
  BY <1>1, <1>4, SeqMonotonic
<1>5. QED
  BY <1>2, <1>3, <1>4

\* LeavesOf at r, from f under it.
LeavesAt(f, r) == Range(r.leaves) \cup UNION {f[q] : q \in Parts(r)}

\* What it is made of: leaves, if those under r have leaves, and nothing else of f.
LEMMA LeavesAtIs ==
    ASSUME NEW r \in Rules
    PROVE  /\ \A f : (\A q \in Parts(r) : f[q] \in SUBSET Leaf)
                         => LeavesAt(f, r) \in SUBSET Leaf
           /\ \A f, g : (\A q \in Parts(r) : f[q] = g[q])
                         => LeavesAt(f, r) = LeavesAt(g, r)
<1>1. Range(r.leaves) \subseteq Leaf
  BY RuleIs, RangeOfSeq
<1>2. QED
  BY <1>1 DEF LeavesAt

\* The leaves of a node are its own and those of the nodes under it.
LEMMA LeavesIs ==
    /\ LeavesOf \in [Rules -> SUBSET Leaf]
    /\ \A r \in Rules : LeavesOf[r] = LeavesAt(LeavesOf, r)
<1> DEFINE V == SUBSET Leaf
           F == [f \in [Rules -> V] |-> [r \in Rules |-> LeavesAt(f, r)]]
           E(f) == [r \in Rules |-> LeavesAt(f, r)]
           it == CHOOSE f : f = E(f)
<1>1. /\ Height \in [Rules -> Nat]
      /\ \A r \in Rules : \A q \in Parts(r) : q \in Rules /\ Height[q] < Height[r]
  BY RuleIs
<1>2. \A f \in [Rules -> V], r \in Rules : LeavesAt(f, r) \in V
  BY <1>1, LeavesAtIs
<1>3. ASSUME NEW f \in [Rules -> V], NEW g \in [Rules -> V], NEW r \in Rules,
             \A q \in Rules : Height[q] < Height[r] => f[q] = g[q]
      PROVE  LeavesAt(f, r) = LeavesAt(g, r)
  BY <1>1, <1>3, LeavesAtIs
<1> HIDE DEF V
<1>4. Lowers(F, Rules, Height, V)
  <2>1. \A f \in [Rules -> V] : F[f] = [r \in Rules |-> LeavesAt(f, r)]
    OBVIOUS
  <2>2. F \in [[Rules -> V] -> [Rules -> V]]
    BY <1>2
  <2>3. \A f \in [Rules -> V], r \in Rules : F[f][r] = LeavesAt(f, r)
    BY <2>1
  <2> HIDE DEF F
  <2>4. ASSUME NEW f \in [Rules -> V], NEW g \in [Rules -> V], NEW r \in Rules,
               \A q \in Rules : Height[q] < Height[r] => f[q] = g[q]
        PROVE  F[f][r] = F[g][r]
    BY <1>3, <2>3, <2>4
  <2>5. QED
    BY <2>2, <2>4 DEF Lowers
<1>5. PICK f \in [Rules -> V] : f = F[f]
  <2>1. PICK v : v \in V
    <3>1. {} \in SUBSET Leaf
      OBVIOUS
    <3>2. QED
      BY <3>1 DEF V
  <2>2. [Rules -> V] # {}
    <3>1. [r \in Rules |-> v] \in [Rules -> V]
      BY <2>1
    <3>2. QED
      BY <3>1
  <2> HIDE DEF F
  <2>3. QED
    BY <1>1, <1>4, <2>2, TreeRecursion
<1>6. it = E(it)
  <2>1. f = E(f)
    BY <1>5
  <2> HIDE DEF E
  <2>2. QED
    BY <2>1
<1>7. LeavesOf = it
  BY DEF LeavesOf, LeavesAt
<1> HIDE DEF it
<1>8. LeavesOf = [r \in Rules |-> LeavesAt(LeavesOf, r)]
  BY <1>6, <1>7
<1> HIDE DEF F, E
<1>9. ASSUME NEW r \in Rules, \A q \in Rules : Height[q] < Height[r] => LeavesOf[q] \in V
      PROVE  LeavesOf[r] \in V
  <2>1. \A q \in Parts(r) : LeavesOf[q] \in V
    BY <1>1, <1>9
  <2>2. LeavesOf[r] = LeavesAt(LeavesOf, r)
    BY <1>8
  <2>3. QED
    <3>1. LeavesOf[r] \in SUBSET Leaf
      <4>1. \A q \in Parts(r) : LeavesOf[q] \in SUBSET Leaf
        BY <2>1 DEF V
      <4>2. LeavesAt(LeavesOf, r) \in SUBSET Leaf
        BY <4>1, LeavesAtIs
      <4>3. QED
        BY <2>2, <4>2
    <3>2. QED
      BY <3>1 DEF V
<1> DEFINE Q == {r \in Rules : LeavesOf[r] \in V}
<1>10. \A r \in Rules : (\A q \in Rules : Height[q] < Height[r] => q \in Q) => r \in Q
  BY <1>9
<1>11. \A r \in Rules : r \in Q
  <2> HIDE DEF Q
  <2>1. QED
    BY <1>1, <1>10, HeightInduction
<1>12. \A r \in Rules : LeavesOf[r] \in V
  BY <1>11
<1>13. QED
  BY <1>8, <1>12 DEF V

\* Valid at r, from f under it.
ValidAt(f, r) ==
    [depth \in Nat |->
        /\ depth <= MaxRuleDepth
        /\ OneShape(r)
        /\ r.all # <<>> /\ r.any # <<>>
        /\ \A q \in Parts(r) : f[q][depth + 1]
        /\ Range(r.leaves) \subseteq Defined]

\* A verdict per depth, from those of the nodes under r only.
LEMMA ValidAtIs ==
    ASSUME NEW r \in Rules
    PROVE  /\ \A f : (\A q \in Parts(r) : f[q] \in [Nat -> BOOLEAN])
                         => ValidAt(f, r) \in [Nat -> BOOLEAN]
           /\ \A f, g : (\A q \in Parts(r) : f[q] = g[q])
                         => ValidAt(f, r) = ValidAt(g, r)
<1>1. ASSUME NEW f, NEW g, \A q \in Parts(r) : f[q] = g[q]
      PROVE  ValidAt(f, r) = ValidAt(g, r)
  <2>1. \A depth : (\A q \in Parts(r) : f[q][depth + 1])
                       <=> (\A q \in Parts(r) : g[q][depth + 1])
    BY <1>1
  <2>2. QED
    BY <2>1 DEF ValidAt
<1>2. \A f : ValidAt(f, r) \in [Nat -> BOOLEAN]
  BY DEF ValidAt
<1>3. QED
  BY <1>1, <1>2

\* A valid node is one by itself and the nodes under it are valid one deeper.
LEMMA ValidIs ==
    /\ Valid \in [Rules -> [Nat -> BOOLEAN]]
    /\ \A r \in Rules : Valid[r] = ValidAt(Valid, r)
<1> DEFINE V == [Nat -> BOOLEAN]
           F == [f \in [Rules -> V] |-> [r \in Rules |-> ValidAt(f, r)]]
           E(f) == [r \in Rules |-> ValidAt(f, r)]
           it == CHOOSE f : f = E(f)
<1>1. /\ Height \in [Rules -> Nat]
      /\ \A r \in Rules : \A q \in Parts(r) : q \in Rules /\ Height[q] < Height[r]
  BY RuleIs
<1>2. \A f \in [Rules -> V], r \in Rules : ValidAt(f, r) \in V
  BY <1>1, ValidAtIs
<1>3. ASSUME NEW f \in [Rules -> V], NEW g \in [Rules -> V], NEW r \in Rules,
             \A q \in Rules : Height[q] < Height[r] => f[q] = g[q]
      PROVE  ValidAt(f, r) = ValidAt(g, r)
  BY <1>1, <1>3, ValidAtIs
<1> HIDE DEF V
<1>4. Lowers(F, Rules, Height, V)
  <2>1. \A f \in [Rules -> V] : F[f] = [r \in Rules |-> ValidAt(f, r)]
    OBVIOUS
  <2>2. F \in [[Rules -> V] -> [Rules -> V]]
    BY <1>2
  <2>3. \A f \in [Rules -> V], r \in Rules : F[f][r] = ValidAt(f, r)
    BY <2>1
  <2> HIDE DEF F
  <2>4. ASSUME NEW f \in [Rules -> V], NEW g \in [Rules -> V], NEW r \in Rules,
               \A q \in Rules : Height[q] < Height[r] => f[q] = g[q]
        PROVE  F[f][r] = F[g][r]
    BY <1>3, <2>3, <2>4
  <2>5. QED
    BY <2>2, <2>4 DEF Lowers
<1>5. PICK f \in [Rules -> V] : f = F[f]
  <2>1. PICK v : v \in V
    <3>1. [depth \in Nat |-> TRUE] \in [Nat -> BOOLEAN]
      OBVIOUS
    <3>2. QED
      BY <3>1 DEF V
  <2>2. [Rules -> V] # {}
    <3>1. [r \in Rules |-> v] \in [Rules -> V]
      BY <2>1
    <3>2. QED
      BY <3>1
  <2> HIDE DEF F
  <2>3. QED
    BY <1>1, <1>4, <2>2, TreeRecursion
<1>6. it = E(it)
  <2>1. f = E(f)
    BY <1>5
  <2> HIDE DEF E
  <2>2. QED
    BY <2>1
<1>7. Valid = it
  BY DEF Valid, ValidAt
<1> HIDE DEF it
<1>8. Valid = [r \in Rules |-> ValidAt(Valid, r)]
  BY <1>6, <1>7
<1> HIDE DEF F, E
<1>9. ASSUME NEW r \in Rules, \A q \in Rules : Height[q] < Height[r] => Valid[q] \in V
      PROVE  Valid[r] \in V
  <2>1. \A q \in Parts(r) : Valid[q] \in V
    BY <1>1, <1>9
  <2>2. Valid[r] = ValidAt(Valid, r)
    BY <1>8
  <2>3. QED
    <3>1. Valid[r] \in [Nat -> BOOLEAN]
      <4>1. \A q \in Parts(r) : Valid[q] \in [Nat -> BOOLEAN]
        BY <2>1 DEF V
      <4>2. ValidAt(Valid, r) \in [Nat -> BOOLEAN]
        BY <4>1, ValidAtIs
      <4>3. QED
        BY <2>2, <4>2
    <3>2. QED
      BY <3>1 DEF V
<1> DEFINE Q == {r \in Rules : Valid[r] \in V}
<1>10. \A r \in Rules : (\A q \in Rules : Height[q] < Height[r] => q \in Q) => r \in Q
  BY <1>9
<1>11. \A r \in Rules : r \in Q
  <2> HIDE DEF Q
  <2>1. QED
    BY <1>1, <1>10, HeightInduction
<1>12. \A r \in Rules : Valid[r] \in V
  BY <1>11
<1>13. QED
  BY <1>8, <1>12 DEF V

\* Holds at r, from f under it.
HoldsAt(f, r) ==
    [says \in [ML -> BOOLEAN] |->
        /\ r.all # Unset => \A q \in Sequel(r.all) : f[q][says]
        /\ r.any # Unset => \E q \in Sequel(r.any) : f[q][says]
        /\ r.not # Unset => ~f[r.not][says]
        /\ \A l \in Range(r.leaves) :
              IF l \in Heuristic THEN turn.heur[l] ELSE says[l]]

\* A verdict per answer of the ML leaves, from those of the nodes under r only.
LEMMA HoldsAtIs ==
    ASSUME NEW r \in Rules
    PROVE  /\ \A f : (\A q \in Parts(r) : f[q] \in [[ML -> BOOLEAN] -> BOOLEAN])
                         => HoldsAt(f, r) \in [[ML -> BOOLEAN] -> BOOLEAN]
           /\ \A f, g : (\A q \in Parts(r) : f[q] = g[q])
                         => HoldsAt(f, r) = HoldsAt(g, r)
<1>1. ASSUME NEW f, NEW g, \A q \in Parts(r) : f[q] = g[q]
      PROVE  HoldsAt(f, r) = HoldsAt(g, r)
  <2>1. Sequel(r.all) \subseteq Parts(r) /\ Sequel(r.any) \subseteq Parts(r)
        /\ (r.not # Unset => r.not \in Parts(r))
    BY DEF Parts
  <2>2. /\ \A says : (\A q \in Sequel(r.all) : f[q][says])
                          <=> (\A q \in Sequel(r.all) : g[q][says])
        /\ \A says : (\E q \in Sequel(r.any) : f[q][says])
                          <=> (\E q \in Sequel(r.any) : g[q][says])
        /\ r.not # Unset => f[r.not] = g[r.not]
    BY <1>1, <2>1
  <2>3. QED
    BY <2>2 DEF HoldsAt
<1>2. \A f : HoldsAt(f, r) \in [[ML -> BOOLEAN] -> BOOLEAN]
  BY DEF HoldsAt
<1>3. QED
  BY <1>1, <1>2

\* The meaning of a node comes from that of the nodes under it.
LEMMA HoldsIs ==
    /\ Holds \in [Rules -> [[ML -> BOOLEAN] -> BOOLEAN]]
    /\ \A r \in Rules : Holds[r] = HoldsAt(Holds, r)
<1> DEFINE V == [[ML -> BOOLEAN] -> BOOLEAN]
           F == [f \in [Rules -> V] |-> [r \in Rules |-> HoldsAt(f, r)]]
           E(f) == [r \in Rules |-> HoldsAt(f, r)]
           it == CHOOSE f : f = E(f)
<1>1. /\ Height \in [Rules -> Nat]
      /\ \A r \in Rules : \A q \in Parts(r) : q \in Rules /\ Height[q] < Height[r]
  BY RuleIs
<1>2. \A f \in [Rules -> V], r \in Rules : HoldsAt(f, r) \in V
  BY <1>1, HoldsAtIs
<1>3. ASSUME NEW f \in [Rules -> V], NEW g \in [Rules -> V], NEW r \in Rules,
             \A q \in Rules : Height[q] < Height[r] => f[q] = g[q]
      PROVE  HoldsAt(f, r) = HoldsAt(g, r)
  BY <1>1, <1>3, HoldsAtIs
<1> HIDE DEF V
<1>4. Lowers(F, Rules, Height, V)
  <2>1. \A f \in [Rules -> V] : F[f] = [r \in Rules |-> HoldsAt(f, r)]
    OBVIOUS
  <2>2. F \in [[Rules -> V] -> [Rules -> V]]
    BY <1>2
  <2>3. \A f \in [Rules -> V], r \in Rules : F[f][r] = HoldsAt(f, r)
    BY <2>1
  <2> HIDE DEF F
  <2>4. ASSUME NEW f \in [Rules -> V], NEW g \in [Rules -> V], NEW r \in Rules,
               \A q \in Rules : Height[q] < Height[r] => f[q] = g[q]
        PROVE  F[f][r] = F[g][r]
    BY <1>3, <2>3, <2>4
  <2>5. QED
    BY <2>2, <2>4 DEF Lowers
<1>5. PICK f \in [Rules -> V] : f = F[f]
  <2>1. PICK v : v \in V
    <3>1. [says \in [ML -> BOOLEAN] |-> TRUE] \in [[ML -> BOOLEAN] -> BOOLEAN]
      OBVIOUS
    <3>2. QED
      BY <3>1 DEF V
  <2>2. [Rules -> V] # {}
    <3>1. [r \in Rules |-> v] \in [Rules -> V]
      BY <2>1
    <3>2. QED
      BY <3>1
  <2> HIDE DEF F
  <2>3. QED
    BY <1>1, <1>4, <2>2, TreeRecursion
<1>6. it = E(it)
  <2>1. f = E(f)
    BY <1>5
  <2> HIDE DEF E
  <2>2. QED
    BY <2>1
<1>7. Holds = it
  BY DEF Holds, HoldsAt
<1> HIDE DEF it
<1>8. Holds = [r \in Rules |-> HoldsAt(Holds, r)]
  BY <1>6, <1>7
<1> HIDE DEF F, E
<1>9. ASSUME NEW r \in Rules, \A q \in Rules : Height[q] < Height[r] => Holds[q] \in V
      PROVE  Holds[r] \in V
  <2>1. \A q \in Parts(r) : Holds[q] \in V
    BY <1>1, <1>9
  <2>2. Holds[r] = HoldsAt(Holds, r)
    BY <1>8
  <2>3. QED
    <3>1. Holds[r] \in [[ML -> BOOLEAN] -> BOOLEAN]
      <4>1. \A q \in Parts(r) : Holds[q] \in [[ML -> BOOLEAN] -> BOOLEAN]
        BY <2>1 DEF V
      <4>2. HoldsAt(Holds, r) \in [[ML -> BOOLEAN] -> BOOLEAN]
        BY <4>1, HoldsAtIs
      <4>3. QED
        BY <2>2, <4>2
    <3>2. QED
      BY <3>1 DEF V
<1> DEFINE Q == {r \in Rules : Holds[r] \in V}
<1>10. \A r \in Rules : (\A q \in Rules : Height[q] < Height[r] => q \in Q) => r \in Q
  BY <1>9
<1>11. \A r \in Rules : r \in Q
  <2> HIDE DEF Q
  <2>1. QED
    BY <1>1, <1>10, HeightInduction
<1>12. \A r \in Rules : Holds[r] \in V
  BY <1>11
<1>13. QED
  BY <1>8, <1>12 DEF V

-----------------------------------------------------------------------------
(***************************************************************************)
(* The evaluation of a condition.                                          *)
(***************************************************************************)
Verdicts == [val : BOOLEAN, st : EvalState]

\* An evaluation state by its parts.
LEMMA EvalStateIs ==
    ASSUME NEW st
    PROVE  st \in EvalState <=>
              /\ st = [asked |-> st.asked, calls |-> st.calls, mlErr |-> st.mlErr,
                       anyMLErr |-> st.anyMLErr]
              /\ st.asked \in SUBSET Signals /\ st.calls \in [Signals -> Nat]
              /\ st.mlErr \in BOOLEAN /\ st.anyMLErr \in BOOLEAN
  BY DEF EvalState

\* Asking records the signal, and counts the call if it is the first.
LEMMA AskIs ==
    ASSUME NEW st \in EvalState, NEW s \in Signals
    PROVE  /\ Ask(s, st) \in EvalState
           /\ Ask(s, st).asked = st.asked \cup {s}
           /\ \A u \in Signals : Ask(s, st).calls[u] =
                  IF u = s /\ s \notin st.asked THEN st.calls[u] + 1 ELSE st.calls[u]
           /\ Ask(s, st).mlErr = st.mlErr /\ Ask(s, st).anyMLErr = st.anyMLErr
<1>1. /\ st = [asked |-> st.asked, calls |-> st.calls, mlErr |-> st.mlErr,
               anyMLErr |-> st.anyMLErr]
      /\ st.asked \in SUBSET Signals /\ st.calls \in [Signals -> Nat]
      /\ st.mlErr \in BOOLEAN /\ st.anyMLErr \in BOOLEAN
  BY EvalStateIs
<1> DEFINE c == IF s \in st.asked THEN st.calls[s] ELSE st.calls[s] + 1
           cs == [st.calls EXCEPT ![s] = c]
           more == st.asked \cup {s}
           q1 == [st EXCEPT !.asked = more]
<1>2. c \in Nat /\ cs \in [Signals -> Nat] /\ more \in SUBSET Signals
  BY <1>1
<1>3. \A u \in Signals : cs[u] =
          IF u = s /\ s \notin st.asked THEN st.calls[u] + 1 ELSE st.calls[u]
  BY <1>1
<1>4. q1 = [asked |-> more, calls |-> st.calls, mlErr |-> st.mlErr,
            anyMLErr |-> st.anyMLErr]
  <2> HIDE DEF more, cs, c
  <2>1. QED
    BY <1>1
<1>5. Ask(s, st) = [q1 EXCEPT !.calls[s] = c]
  <2>1. q1.calls = st.calls
    BY <1>4
  <2>2. QED
    BY <1>1, <2>1 DEF Ask
<1> HIDE DEF more, c, q1
<1>6. Ask(s, st) = [asked |-> more, calls |-> cs, mlErr |-> st.mlErr,
                    anyMLErr |-> st.anyMLErr]
  BY <1>4, <1>5
<1> HIDE DEF cs
<1>7. QED
  BY <1>1, <1>2, <1>3, <1>6 DEF EvalState, more

\* A failure is remembered; it counts as a degradation if a sidecar is configured.
LEMMA FailedIs ==
    ASSUME turn \in Turn, NEW st \in EvalState
    PROVE  /\ Failed(st) \in EvalState
           /\ Failed(st).asked = st.asked /\ Failed(st).calls = st.calls
           /\ Failed(st).mlErr = TRUE
           /\ Failed(st).anyMLErr = (st.anyMLErr \/ turn.smart)
<1>1. /\ st = [asked |-> st.asked, calls |-> st.calls, mlErr |-> st.mlErr,
               anyMLErr |-> st.anyMLErr]
      /\ st.asked \in SUBSET Signals /\ st.calls \in [Signals -> Nat]
      /\ st.mlErr \in BOOLEAN /\ st.anyMLErr \in BOOLEAN
  BY EvalStateIs
<1> DEFINE yes == TRUE
           any == st.anyMLErr \/ turn.smart
           q1 == [st EXCEPT !.mlErr = yes]
<1>2. yes \in BOOLEAN /\ any \in BOOLEAN
  OBVIOUS
<1>3. Failed(st) = [q1 EXCEPT !.anyMLErr = any]
  <2>1. q1.anyMLErr = st.anyMLErr
    BY <1>1
  <2>2. QED
    BY <1>1, <2>1 DEF Failed
<1> HIDE DEF yes, any
<1>4. q1 = [asked |-> st.asked, calls |-> st.calls, mlErr |-> yes,
            anyMLErr |-> st.anyMLErr]
  BY <1>1
<1> HIDE DEF q1
<1>5. Failed(st) = [asked |-> st.asked, calls |-> st.calls, mlErr |-> yes,
                    anyMLErr |-> any]
  BY <1>3, <1>4
<1>6. Failed(st) \in EvalState
  BY <1>1, <1>2, <1>5 DEF EvalState
<1>7. /\ Failed(st).asked = st.asked /\ Failed(st).calls = st.calls
      /\ Failed(st).mlErr = yes /\ Failed(st).anyMLErr = any
  BY <1>5
<1>8. QED
  BY <1>6, <1>7 DEF yes, any

\* An answer by its parts.
LEMMA AnswerIs ==
    /\ \A e \in Verdicts : e = [val |-> e.val, st |-> e.st] /\ e.val \in BOOLEAN
                         /\ e.st \in EvalState
    /\ \A v \in BOOLEAN, st \in EvalState : [val |-> v, st |-> st] \in Verdicts
  BY DEF Verdicts

\* What a leaf answers, by whether it needs a model and whether that fails.
LEMMA EvalLeafIs ==
    ASSUME turn \in Turn, NEW l \in Leaf, NEW st \in EvalState
    PROVE  /\ EvalLeaf(l, st) \in Verdicts
           /\ l \in Heuristic => EvalLeaf(l, st) = [val |-> turn.heur[l], st |-> st]
           /\ l \notin Heuristic => l \in ML
           /\ l \notin Heuristic /\ l \in Defined /\ Fails(Signal[l]) =>
                  EvalLeaf(l, st) = [val |-> FALSE, st |-> Failed(Ask(Signal[l], st))]
           /\ l \notin Heuristic /\ l \in Defined /\ ~Fails(Signal[l]) =>
                  EvalLeaf(l, st) = [val |-> turn.says[l], st |-> Ask(Signal[l], st)]
<1>1. turn.heur \in [Heuristic -> BOOLEAN] /\ turn.says \in [ML -> BOOLEAN]
  BY DEF Turn
<1>2. l \in Heuristic \/ (l \in ML /\ Signal[l] \in Signals)
  BY DEF Leaf, Signals
<1>3. Signal[l] \in Signals => Ask(Signal[l], st) \in EvalState
                               /\ Failed(Ask(Signal[l], st)) \in EvalState
  BY AskIs, FailedIs
<1>4. FALSE \in BOOLEAN
  OBVIOUS
<1>5. l \in Heuristic => turn.heur[l] \in BOOLEAN
  BY <1>1
<1>6. l \in ML => turn.says[l] \in BOOLEAN
  BY <1>1
<1>7. EvalLeaf(l, st) \in Verdicts
  <2>1. CASE l \in Heuristic
    BY <1>5, <2>1, AnswerIs DEF EvalLeaf
  <2>2. CASE l \notin Heuristic /\ l \notin Defined
    BY <1>4, <2>2, AnswerIs DEF EvalLeaf
  <2>3. CASE l \notin Heuristic /\ l \in Defined /\ Fails(Signal[l])
    BY <1>2, <1>3, <1>4, <2>3, AnswerIs DEF EvalLeaf
  <2>4. CASE l \notin Heuristic /\ l \in Defined /\ ~Fails(Signal[l])
    BY <1>2, <1>3, <1>6, <2>4, AnswerIs DEF EvalLeaf
  <2>5. QED
    BY <2>1, <2>2, <2>3, <2>4
<1>8. QED
  BY <1>2, <1>7 DEF EvalLeaf

\* The order of evaluation: the same children, those without a model first.
LEMMA CheapFirstIs ==
    ASSUME NEW K \in SUBSET Rules, NEW kids \in Seq(K)
    PROVE  /\ CheapFirst(kids) \in Seq(K)
           /\ Range(CheapFirst(kids)) = Range(kids)
           /\ \E m \in 0..Len(CheapFirst(kids)) :
                  {CheapFirst(kids)[i] : i \in 1..m} = Range(kids) \cap Cheap
<1> DEFINE a == Only(kids, Cheap)
           b == Only(kids, Costly)
<1>1. a \in Seq(K) /\ b \in Seq(K)
  BY OnlyIs
<1>2. Range(a) = Range(kids) \cap Cheap /\ Range(b) = Range(kids) \cap Costly
  BY OnlyRange
<1>3. Range(kids) \subseteq Rules /\ Cheap \cup Costly = Rules
  BY RangeOfSeq DEF Cheap, Costly
<1>4. CheapFirst(kids) = a \o b
  BY DEF CheapFirst
<1> HIDE DEF a, b
<1>5. /\ a \o b \in Seq(K) /\ Len(a \o b) = Len(a) + Len(b)
      /\ Range(a \o b) = Range(a) \cup Range(b)
  BY <1>1, ConcatProperties, RangeConcatenation
<1>6. Len(a) \in Nat /\ Len(b) \in Nat
  BY <1>1, LenProperties
<1>7. \A i \in 1..Len(a) : (a \o b)[i] = a[i]
  BY <1>1, <1>6, ConcatProperties
<1>8. Range(a) = {a[i] : i \in 1..Len(a)}
  BY <1>1, RangeEquality
<1>9. {(a \o b)[i] : i \in 1..Len(a)} = Range(a)
  BY <1>7, <1>8
<1>10. Len(a) \in 0..Len(a \o b)
  BY <1>5, <1>6
<1>11. {(a \o b)[i] : i \in 1..Len(a)} = Range(kids) \cap Cheap
  BY <1>2, <1>9
<1>12. Range(a \o b) = Range(kids)
  BY <1>2, <1>3, <1>5
<1> DEFINE c == a \o b
<1>13. \E m \in 0..Len(c) : {c[i] : i \in 1..m} = Range(kids) \cap Cheap
  BY <1>10, <1>11
<1>14. QED
  BY <1>4, <1>5, <1>12, <1>13

\* The round of evalGroup's loop.
GroupStep(eval, isAny, acc, k) == IF acc.val = isAny THEN acc ELSE eval[k][acc.st]
GroupF(K, eval, isAny) ==
    [acc \in Verdicts |-> [k \in K |-> GroupStep(eval, isAny, acc, k)]]

\* eval answers for every node of K.
Evals(eval, K) == \A k \in K : eval[k] \in [EvalState -> Verdicts]

\* Every round answers.
LEMMA GroupStays ==
    ASSUME NEW K, NEW eval, Evals(eval, K), NEW isAny \in BOOLEAN
    PROVE  Stays(GroupF(K, eval, isAny), Verdicts, K)
<1>1. \A acc \in Verdicts, k \in K : GroupStep(eval, isAny, acc, k) \in Verdicts
  BY AnswerIs DEF Evals, GroupStep
<1>2. QED
  BY <1>1 DEF Stays, GroupF

\* The answer of a group without children.
LEMMA GroupStart ==
    ASSUME NEW isAny \in BOOLEAN, NEW st \in EvalState
    PROVE  [val |-> ~isAny, st |-> st] \in Verdicts
<1>1. (~isAny) \in BOOLEAN
  OBVIOUS
<1> DEFINE v == ~isAny
<1> HIDE DEF v
<1>2. v \in BOOLEAN => [val |-> v, st |-> st] \in Verdicts
  BY AnswerIs
<1>3. QED
  BY <1>1, <1>2 DEF v

\* evalGroup's loop over the children in their order.
LEMMA GroupLoopIs ==
    ASSUME NEW K, NEW eval, Evals(eval, K), NEW isAny \in BOOLEAN,
           NEW st \in EvalState, NEW s \in Seq(K)
    PROVE  FoldLeft(LAMBDA acc, k : IF acc.val = isAny THEN acc ELSE eval[k][acc.st],
                    [val |-> ~isAny, st |-> st], s) =
               LeftFold(GroupF(K, eval, isAny), [val |-> ~isAny, st |-> st], s)
<1> DEFINE P == DOMAIN s
           base == [val |-> ~isAny, st |-> st]
           E(hs) == [t \in SUBSET P |->
                       IF t = {} THEN base
                       ELSE GroupStep(eval, isAny, hs[t \ {Max(t)}], s[Max(t)])]
           it == CHOOSE hs : hs = E(hs)
<1>1. Stays(GroupF(K, eval, isAny), Verdicts, K) /\ base \in Verdicts
  BY GroupStays, GroupStart
<1>2. Len(s) \in Nat /\ P = 1..Len(s) /\ \A i \in P : s[i] \in K
  BY LenProperties, ElementOfSeq
<1>3. \A t \in SUBSET P : t # {} => Max(t) \in P
  BY <1>2, LastPosition
<1> HIDE DEF base
<1>4. PICK hs \in [SUBSET P -> Verdicts] : Lefts(hs, GroupF(K, eval, isAny), base, s)
  BY <1>1, LeftsExist
<1>5. ASSUME NEW t \in SUBSET P
      PROVE  hs[t] = IF t = {} THEN base
                    ELSE GroupStep(eval, isAny, hs[t \ {Max(t)}], s[Max(t)])
  <2>1. hs[t] = IF t = {} THEN base ELSE GroupF(K, eval, isAny)[hs[t \ {Max(t)}]][s[Max(t)]]
    BY <1>4 DEF Lefts
  <2>2. QED
    BY <1>2, <1>3, <2>1 DEF GroupF
<1>6. it = E(it)
  <2>1. hs = E(hs)
    BY <1>5
  <2> HIDE DEF E
  <2>2. QED
    BY <2>1
<1>7. FoldLeft(LAMBDA acc, k : IF acc.val = isAny THEN acc ELSE eval[k][acc.st],
                    [val |-> ~isAny, st |-> st], s) = it[P]
  BY DEF GroupStep, FoldLeft, MapThenFoldSet, base
<1> HIDE DEF it
<1>8. \A t \in SUBSET P : it[t] = IF t = {} THEN base
                                  ELSE GroupStep(eval, isAny, it[t \ {Max(t)}], s[Max(t)])
  BY <1>6
<1>9. GoesOn(it, GroupF(K, eval, isAny), Verdicts, base, s)
  BY <1>2, <1>3, <1>8 DEF GoesOn, GroupF
<1>10. it[P] = LeftFold(GroupF(K, eval, isAny), base, s)
  BY <1>1, <1>9, GoesOnIsFold
<1>11. QED
  BY <1>7, <1>10 DEF base

\* A group is that loop over its children, heuristics first.
LEMMA GroupIsFold ==
    ASSUME NEW K \in SUBSET Rules, NEW eval, Evals(eval, K), NEW isAny \in BOOLEAN,
           NEW st \in EvalState, NEW kids \in Seq(K)
    PROVE  EvalGroup(eval, kids, isAny, st) =
               LeftFold(GroupF(K, eval, isAny), [val |-> ~isAny, st |-> st],
                        CheapFirst(kids))
<1>1. CheapFirst(kids) \in Seq(K)
  BY CheapFirstIs
<1> DEFINE c == CheapFirst(kids)
<1> HIDE DEF c
<1>2. FoldLeft(LAMBDA acc, k : IF acc.val = isAny THEN acc ELSE eval[k][acc.st],
               [val |-> ~isAny, st |-> st], c)
          = LeftFold(GroupF(K, eval, isAny), [val |-> ~isAny, st |-> st], c)
  BY <1>1, GroupLoopIs DEF c
<1>3. QED
  BY <1>2 DEF EvalGroup, c

\* Eval at r, from f under it.
EvalAt(f, r) == [st \in EvalState |-> EvalNode(f, r, st)]

\* A group answers, from what its children answer.
LEMMA GroupAnswers ==
    ASSUME NEW K \in SUBSET Rules, NEW eval, Evals(eval, K), NEW isAny \in BOOLEAN,
           NEW st \in EvalState, NEW kids \in Seq(K)
    PROVE  /\ EvalGroup(eval, kids, isAny, st) \in Verdicts
           /\ \A f : (\A k \in K : f[k] = eval[k]) =>
                  EvalGroup(f, kids, isAny, st) = EvalGroup(eval, kids, isAny, st)
<1>1. CheapFirst(kids) \in Seq(K)
  BY CheapFirstIs
<1>2. [val |-> ~isAny, st |-> st] \in Verdicts
  BY GroupStart
<1>3. Stays(GroupF(K, eval, isAny), Verdicts, K)
  BY GroupStays
<1>4. EvalGroup(eval, kids, isAny, st) \in Verdicts
  BY <1>1, <1>2, <1>3, GroupIsFold, LeftFoldType
<1>5. ASSUME NEW f, \A k \in K : f[k] = eval[k]
      PROVE  EvalGroup(f, kids, isAny, st) = EvalGroup(eval, kids, isAny, st)
  <2>1. Evals(f, K)
    BY <1>5 DEF Evals
  <2>2. \A acc \in Verdicts, k \in K : GroupStep(f, isAny, acc, k) = GroupStep(eval, isAny, acc, k)
    BY <1>5 DEF GroupStep
  <2>3. GroupF(K, f, isAny) = GroupF(K, eval, isAny)
    <3> DEFINE A(acc) == [k \in K |-> GroupStep(f, isAny, acc, k)]
               B(acc) == [k \in K |-> GroupStep(eval, isAny, acc, k)]
    <3>1. \A acc \in Verdicts : A(acc) = B(acc)
      BY <2>2
    <3>2. /\ GroupF(K, f, isAny) = [acc \in Verdicts |-> A(acc)]
          /\ GroupF(K, eval, isAny) = [acc \in Verdicts |-> B(acc)]
      BY DEF GroupF
    <3> HIDE DEF A, B
    <3>3. QED
      BY <3>1, <3>2
  <2>4. EvalGroup(f, kids, isAny, st) =
            LeftFold(GroupF(K, f, isAny), [val |-> ~isAny, st |-> st], CheapFirst(kids))
    BY <2>1, GroupIsFold
  <2>5. EvalGroup(eval, kids, isAny, st) =
            LeftFold(GroupF(K, eval, isAny), [val |-> ~isAny, st |-> st], CheapFirst(kids))
    BY GroupIsFold
  <2>6. QED
    BY <2>3, <2>4, <2>5
<1>6. QED
  BY <1>4, <1>5

\* A node answers if the nodes under it do.
LEMMA EvalAtType ==
    ASSUME turn \in Turn, NEW r \in Rules, NEW f,
           \A q \in Parts(r) : f[q] \in [EvalState -> Verdicts]
    PROVE  EvalAt(f, r) \in [EvalState -> Verdicts]
<1>1. SUFFICES ASSUME NEW st \in EvalState PROVE EvalNode(f, r, st) \in Verdicts
  BY DEF EvalAt
<1>2. Parts(r) \in SUBSET Rules /\ Evals(f, Parts(r))
  BY RuleIs DEF Evals
<1>3. TRUE \in BOOLEAN /\ FALSE \in BOOLEAN
  OBVIOUS
<1>4. CASE r.all # Unset
  <2>1. r.all \in Seq(Parts(r))
    BY <1>4, KidsAre
  <2>2. EvalGroup(f, r.all, FALSE, st) \in Verdicts
    BY <1>2, <1>3, <2>1, GroupAnswers
  <2>3. QED
    BY <1>4, <2>2 DEF EvalNode
<1>5. CASE r.all = Unset /\ r.any # Unset
  <2>1. r.any \in Seq(Parts(r))
    BY <1>5, KidsAre
  <2>2. EvalGroup(f, r.any, TRUE, st) \in Verdicts
    BY <1>2, <1>3, <2>1, GroupAnswers
  <2>3. QED
    BY <1>5, <2>2 DEF EvalNode
<1>6. CASE r.all = Unset /\ r.any = Unset /\ r.not # Unset
  <2>1. f[r.not][st] \in Verdicts
    BY <1>6, KidsAre
  <2> DEFINE v == ~f[r.not][st].val
             after == f[r.not][st].st
  <2>2. v \in BOOLEAN /\ after \in EvalState
    BY <2>1, AnswerIs
  <2>3. EvalNode(f, r, st) = [val |-> v, st |-> after]
    BY <1>6 DEF EvalNode
  <2> HIDE DEF v, after
  <2>4. QED
    BY <2>2, <2>3, AnswerIs
<1>7. CASE r.all = Unset /\ r.any = Unset /\ r.not = Unset /\ r.leaves = <<>>
  BY <1>3, <1>7, AnswerIs DEF EvalNode
<1>8. CASE r.all = Unset /\ r.any = Unset /\ r.not = Unset /\ r.leaves # <<>>
  <2>1. Head(r.leaves) \in Leaf
    BY <1>8, RuleIs, HeadTailProperties
  <2>2. EvalLeaf(Head(r.leaves), st) \in Verdicts
    BY <2>1, EvalLeafIs
  <2>3. QED
    BY <1>8, <2>2 DEF EvalNode
<1>9. QED
  BY <1>4, <1>5, <1>6, <1>7, <1>8

\* A node answers from the nodes under it only.
LEMMA EvalAtLow ==
    ASSUME NEW r \in Rules, NEW f, NEW g, \A q \in Parts(r) : f[q] = g[q],
           \A q \in Parts(r) : f[q] \in [EvalState -> Verdicts]
    PROVE  EvalAt(f, r) = EvalAt(g, r)
<1>1. SUFFICES ASSUME NEW st \in EvalState PROVE EvalNode(f, r, st) = EvalNode(g, r, st)
  BY DEF EvalAt
<1>2. Parts(r) \in SUBSET Rules /\ Evals(f, Parts(r)) /\ \A q \in Parts(r) : g[q] = f[q]
  BY RuleIs DEF Evals
<1>3. CASE r.all # Unset
  <2>1. r.all \in Seq(Parts(r))
    BY <1>3, KidsAre
  <2> DEFINE no == FALSE
             kids == r.all
  <2>2. no \in BOOLEAN
    OBVIOUS
  <2> HIDE DEF no, kids
  <2>3. kids \in Seq(Parts(r)) => EvalGroup(g, kids, no, st) = EvalGroup(f, kids, no, st)
    BY <1>2, <2>2, GroupAnswers
  <2>4. EvalGroup(g, r.all, FALSE, st) = EvalGroup(f, r.all, FALSE, st)
    BY <2>1, <2>3 DEF no, kids
  <2>5. QED
    BY <1>3, <2>4 DEF EvalNode
<1>4. CASE r.all = Unset /\ r.any # Unset
  <2>1. r.any \in Seq(Parts(r))
    BY <1>4, KidsAre
  <2> DEFINE yes == TRUE
             kids == r.any
  <2>2. yes \in BOOLEAN
    OBVIOUS
  <2> HIDE DEF yes, kids
  <2>3. kids \in Seq(Parts(r)) => EvalGroup(g, kids, yes, st) = EvalGroup(f, kids, yes, st)
    BY <1>2, <2>2, GroupAnswers
  <2>4. EvalGroup(g, r.any, TRUE, st) = EvalGroup(f, r.any, TRUE, st)
    BY <2>1, <2>3 DEF yes, kids
  <2>5. QED
    BY <1>4, <2>4 DEF EvalNode
<1>5. CASE r.all = Unset /\ r.any = Unset /\ r.not # Unset
  <2>1. f[r.not] = g[r.not]
    BY <1>5, KidsAre
  <2>2. QED
    BY <1>5, <2>1 DEF EvalNode
<1>6. CASE r.all = Unset /\ r.any = Unset /\ r.not = Unset
  BY <1>6 DEF EvalNode
<1>7. QED
  BY <1>3, <1>4, <1>5, <1>6

\* Both, as the recursion needs them.
LEMMA EvalAtIs ==
    ASSUME turn \in Turn, NEW r \in Rules
    PROVE  /\ \A f : (\A q \in Parts(r) : f[q] \in [EvalState -> Verdicts])
                         => EvalAt(f, r) \in [EvalState -> Verdicts]
           /\ \A f, g : (\A q \in Parts(r) : f[q] = g[q]
                                             /\ f[q] \in [EvalState -> Verdicts])
                         => EvalAt(f, r) = EvalAt(g, r)
<1>1. \A f : (\A q \in Parts(r) : f[q] \in [EvalState -> Verdicts])
                 => EvalAt(f, r) \in [EvalState -> Verdicts]
  BY EvalAtType
<1>2. ASSUME NEW f, NEW g, \A q \in Parts(r) : f[q] = g[q] /\ f[q] \in [EvalState -> Verdicts]
      PROVE  EvalAt(f, r) = EvalAt(g, r)
  BY <1>2, EvalAtLow
<1>3. QED
  BY <1>1, <1>2

\* Evaluating a node is what the switch makes of evaluating the nodes under it.
LEMMA EvalIs ==
    ASSUME turn \in Turn
    PROVE  /\ Eval \in [Rules -> [EvalState -> Verdicts]]
           /\ \A r \in Rules : Eval[r] = EvalAt(Eval, r)
<1> DEFINE V == [EvalState -> Verdicts]
           F == [f \in [Rules -> V] |-> [r \in Rules |-> EvalAt(f, r)]]
           E(f) == [r \in Rules |-> EvalAt(f, r)]
           it == CHOOSE f : f = E(f)
<1>1. /\ Height \in [Rules -> Nat]
      /\ \A r \in Rules : \A q \in Parts(r) : q \in Rules /\ Height[q] < Height[r]
  BY RuleIs
<1>2. \A f \in [Rules -> V], r \in Rules : EvalAt(f, r) \in V
  BY <1>1, EvalAtIs
<1>3. ASSUME NEW f \in [Rules -> V], NEW g \in [Rules -> V], NEW r \in Rules,
             \A q \in Rules : Height[q] < Height[r] => f[q] = g[q]
      PROVE  EvalAt(f, r) = EvalAt(g, r)
  <2>1. \A q \in Parts(r) : f[q] = g[q] /\ f[q] \in [EvalState -> Verdicts]
    BY <1>1, <1>3
  <2>2. QED
    BY <2>1, EvalAtIs
<1> HIDE DEF V
<1>4. Lowers(F, Rules, Height, V)
  <2>1. \A f \in [Rules -> V] : F[f] = [r \in Rules |-> EvalAt(f, r)]
    OBVIOUS
  <2>2. F \in [[Rules -> V] -> [Rules -> V]]
    BY <1>2
  <2>3. \A f \in [Rules -> V], r \in Rules : F[f][r] = EvalAt(f, r)
    BY <2>1
  <2> HIDE DEF F
  <2>4. ASSUME NEW f \in [Rules -> V], NEW g \in [Rules -> V], NEW r \in Rules,
               \A q \in Rules : Height[q] < Height[r] => f[q] = g[q]
        PROVE  F[f][r] = F[g][r]
    BY <1>3, <2>3, <2>4
  <2>5. QED
    BY <2>2, <2>4 DEF Lowers
<1>5. PICK f \in [Rules -> V] : f = F[f]
  <2>1. PICK v : v \in V
    <3>1. [st \in EvalState |-> [val |-> TRUE, st |-> st]] \in [EvalState -> Verdicts]
      BY AnswerIs
    <3>2. QED
      BY <3>1 DEF V
  <2>2. [Rules -> V] # {}
    <3>1. [r \in Rules |-> v] \in [Rules -> V]
      BY <2>1
    <3>2. QED
      BY <3>1
  <2> HIDE DEF F
  <2>3. QED
    BY <1>1, <1>4, <2>2, TreeRecursion
<1>6. it = E(it)
  <2>1. f = E(f)
    BY <1>5
  <2> HIDE DEF E
  <2>2. QED
    BY <2>1
<1>7. Eval = it
  BY DEF Eval, EvalAt
<1> HIDE DEF it
<1>8. Eval = [r \in Rules |-> EvalAt(Eval, r)]
  BY <1>6, <1>7
<1> HIDE DEF F, E
<1>9. ASSUME NEW r \in Rules, \A q \in Rules : Height[q] < Height[r] => Eval[q] \in V
      PROVE  Eval[r] \in V
  <2>1. \A q \in Parts(r) : Eval[q] \in V
    BY <1>1, <1>9
  <2>2. Eval[r] = EvalAt(Eval, r)
    BY <1>8
  <2>3. QED
    <3>1. Eval[r] \in [EvalState -> Verdicts]
      <4>1. \A q \in Parts(r) : Eval[q] \in [EvalState -> Verdicts]
        BY <2>1 DEF V
      <4>2. EvalAt(Eval, r) \in [EvalState -> Verdicts]
        BY <4>1, EvalAtIs
      <4>3. QED
        BY <2>2, <4>2
    <3>2. QED
      BY <3>1 DEF V
<1> DEFINE Q == {r \in Rules : Eval[r] \in V}
<1>10. \A r \in Rules : (\A q \in Rules : Height[q] < Height[r] => q \in Q) => r \in Q
  BY <1>9
<1>11. \A r \in Rules : r \in Q
  <2> HIDE DEF Q
  <2>1. QED
    BY <1>1, <1>10, HeightInduction
<1>12. \A r \in Rules : Eval[r] \in V
  BY <1>11
<1>13. QED
  BY <1>8, <1>12 DEF V

-----------------------------------------------------------------------------
(***************************************************************************)
(* What evaluating a valid condition tells.                                *)
(***************************************************************************)

\* A node of a tree that was accepted at some depth.
Sound(r) == \E depth \in Nat : Valid[r][depth]

\* A sound node is a group, a negation or a leaf, over sound nodes.
LEMMA SoundIs ==
    ASSUME NEW r \in Rules, Sound(r)
    PROVE  /\ OneShape(r) /\ Range(r.leaves) \subseteq Defined
           /\ \A q \in Parts(r) : Sound(q)
<1>1. PICK depth \in Nat : Valid[r][depth]
  BY DEF Sound
<1>2. Valid[r] = ValidAt(Valid, r)
  BY ValidIs
<1>3. /\ OneShape(r) /\ Range(r.leaves) \subseteq Defined
      /\ \A q \in Parts(r) : Valid[q][depth + 1]
  BY <1>1, <1>2 DEF ValidAt
<1>4. depth + 1 \in Nat
  OBVIOUS
<1>5. QED
  BY <1>3, <1>4 DEF Sound

\* The four shapes of a node that validateRule accepts.
LEMMA ShapeIs ==
    ASSUME NEW r \in Rules, OneShape(r)
    PROVE  \/ /\ r.all # Unset /\ r.any = Unset /\ r.not = Unset
              /\ Range(r.leaves) = {}
           \/ /\ r.all = Unset /\ r.any # Unset /\ r.not = Unset
              /\ Range(r.leaves) = {}
           \/ /\ r.all = Unset /\ r.any = Unset /\ r.not # Unset
              /\ Range(r.leaves) = {}
           \/ /\ r.all = Unset /\ r.any = Unset /\ r.not = Unset
              /\ r.leaves # <<>> /\ Range(r.leaves) = {Head(r.leaves)}
              /\ Head(r.leaves) \in Leaf
<1> DEFINE S == {f \in {"all", "any", "not"} : r[f] # Unset}
<1>1. IsFiniteSet(S)
  <2>1. IsFiniteSet({"all", "any", "not"})
    <3>1. IsFiniteSet({}) /\ {"all"} = {} \cup {"all"}
          /\ {"all", "any"} = {"all"} \cup {"any"}
          /\ {"all", "any", "not"} = {"all", "any"} \cup {"not"}
      BY FS_EmptySet
    <3>2. IsFiniteSet({"all"})
      BY FS_Singleton
    <3>3. IsFiniteSet({"all", "any"})
      BY <3>1, <3>2, FS_AddElement
    <3>4. QED
      BY <3>1, <3>3, FS_AddElement
  <2>2. S \subseteq {"all", "any", "not"}
    OBVIOUS
  <2> HIDE DEF S
  <2>3. QED
    BY <2>1, <2>2, FS_Subset
<1>2. /\ "all" \in S <=> r.all # Unset
      /\ "any" \in S <=> r.any # Unset
      /\ "not" \in S <=> r.not # Unset
      /\ S \subseteq {"all", "any", "not"}
  OBVIOUS
<1>3. Combinators(r) = Cardinality(S)
  BY DEF Combinators
<1> HIDE DEF S
<1>4. ASSUME Combinators(r) = 1
      PROVE  \/ r.all # Unset /\ r.any = Unset /\ r.not = Unset
             \/ r.all = Unset /\ r.any # Unset /\ r.not = Unset
             \/ r.all = Unset /\ r.any = Unset /\ r.not # Unset
  <2>1. PICK f : S = {f}
    BY <1>1, <1>3, <1>4, FS_Singleton
  <2>2. f \in {"all", "any", "not"}
    BY <1>2, <2>1
  <2>3. "all" # "any" /\ "all" # "not" /\ "any" # "not"
    OBVIOUS
  <2>4. QED
    BY <1>2, <2>1, <2>2, <2>3
<1>5. ASSUME Combinators(r) = 0 PROVE r.all = Unset /\ r.any = Unset /\ r.not = Unset
  <2>1. S = {}
    BY <1>1, <1>3, <1>5, FS_EmptySet
  <2>2. QED
    BY <1>2, <2>1
<1>6. r.leaves \in Seq(Leaf)
  BY RuleIs
<1>7. r.leaves = <<>> => Range(r.leaves) = {}
  <2>1. <<>> \in Seq(Leaf) /\ Len(<<>>) = 0
    BY EmptySeq
  <2>2. Range(<<>>) = {<<>>[i] : i \in 1..Len(<<>>)}
    BY <2>1, RangeEquality
  <2>3. QED
    BY <2>1, <2>2
<1>8. ASSUME Len(r.leaves) = 1
      PROVE  r.leaves # <<>> /\ Range(r.leaves) = {Head(r.leaves)} /\ Head(r.leaves) \in Leaf
  <2>1. r.leaves # <<>>
    BY <1>8, EmptySeq
  <2>2. Range(r.leaves) = {r.leaves[i] : i \in 1..1}
    BY <1>6, <1>8, RangeEquality
  <2>3. Head(r.leaves) = r.leaves[1] /\ Head(r.leaves) \in Leaf
    BY <1>6, <2>1, HeadTailProperties
  <2>4. QED
    BY <2>1, <2>2, <2>3
<1>9. QED
  BY <1>4, <1>5, <1>7, <1>8 DEF OneShape

\* The signals a node names.
Named(r) == {Signal[l] : l \in LeavesOf[r] \cap ML}

\* Each signal that was asked was called once, the others never.
Counted(st) == \A s \in Signals : st.calls[s] = IF s \in st.asked THEN 1 ELSE 0

\* A degradation is noted exactly when a signal that was asked failed.
Told(st) == st.anyMLErr <=> turn.smart /\ st.asked \cap turn.down # {}

\* From st to e: only signals of N were asked, and what failed is remembered.
Moves(N, st, e) ==
    /\ st.asked \subseteq e.asked /\ e.asked \subseteq st.asked \cup N
    /\ Counted(st) => Counted(e)
    /\ Told(st) => Told(e)
    /\ st.mlErr => e.mlErr
    /\ e.mlErr => st.mlErr \/ \E s \in e.asked : Fails(s)

\* Evaluating r asks only what r names; an answer for which nothing failed is the
\* meaning of r; a node without a model is its meaning and asks nothing.
Good(r) ==
    \A st \in EvalState :
        LET e == Eval[r][st] IN
        /\ Moves(Named(r), st, e.st)
        /\ ~e.st.mlErr => \A says \in Completions : e.val = Holds[r][says]
        /\ r \in Cheap => e.st = st /\ \A says \in [ML -> BOOLEAN] : e.val = Holds[r][says]

\* Good at one state.
LEMMA GoodIs ==
    ASSUME NEW r, Good(r), NEW st \in EvalState, NEW e, e = Eval[r][st]
    PROVE  /\ Moves(Named(r), st, e.st)
           /\ ~e.st.mlErr => \A says \in Completions : e.val = Holds[r][says]
           /\ r \in Cheap => /\ e.st = st
                             /\ \A says \in [ML -> BOOLEAN] : e.val = Holds[r][says]
  BY DEF Good

\* One move after another is a move.
LEMMA MovesAfter ==
    ASSUME NEW N, NEW a, NEW b, NEW c, Moves(N, a, b), Moves(N, b, c)
    PROVE  Moves(N, a, c)
  BY DEF Moves

\* Standing still is a move, and a move within fewer signals one within more.
LEMMA MovesLaws ==
    ASSUME NEW N
    PROVE  /\ \A st \in EvalState : Moves(N, st, st)
           /\ \A M \in SUBSET N : \A a, b \in EvalState : Moves(M, a, b) => Moves(N, a, b)
<1>1. \A st \in EvalState : Moves(N, st, st)
  BY DEF Moves
<1>2. \A M \in SUBSET N : \A a, b \in EvalState : Moves(M, a, b) => Moves(N, a, b)
  BY DEF Moves
<1>3. QED
  BY <1>1, <1>2

\* The names of a node are those of the nodes under it and of its leaves.
LEMMA NamedIs ==
    ASSUME NEW r \in Rules
    PROVE  /\ \A q \in Parts(r) : Named(q) \subseteq Named(r)
           /\ \A l \in Range(r.leaves) \cap ML : Signal[l] \in Named(r)
           /\ r \in Cheap => /\ \A q \in Parts(r) : q \in Cheap
                             /\ Range(r.leaves) \cap ML = {}
<1>1. LeavesOf[r] = LeavesAt(LeavesOf, r)
  BY LeavesIs
<1>2. /\ \A q \in Parts(r) : LeavesOf[q] \subseteq LeavesOf[r]
      /\ Range(r.leaves) \subseteq LeavesOf[r]
  BY <1>1 DEF LeavesAt
<1>3. \A q \in Parts(r) : q \in Rules
  BY RuleIs
<1>4. QED
  BY <1>2, <1>3 DEF Named, Cheap, UsesML

\* What might have been said includes what would be.
LEMMA CompletionsAre ==
    ASSUME turn \in Turn
    PROVE  turn.says \in Completions /\ Completions \subseteq [ML -> BOOLEAN]
  BY DEF Completions, Turn

\* A leaf.
LEMMA LeafGood ==
    ASSUME turn \in Turn, NEW l \in Leaf, l \in Defined, NEW st \in EvalState, NEW N,
           l \in ML => Signal[l] \in N
    PROVE  LET e == EvalLeaf(l, st) IN
           /\ Moves(N, st, e.st)
           /\ ~e.st.mlErr => \A says \in Completions :
                  e.val = IF l \in Heuristic THEN turn.heur[l] ELSE says[l]
           /\ l \notin ML => e.st = st /\ e.val = turn.heur[l] /\ l \in Heuristic
<1>1. CASE l \in Heuristic
  <2>1. EvalLeaf(l, st) = [val |-> turn.heur[l], st |-> st]
    BY <1>1, EvalLeafIs
  <2>2. EvalLeaf(l, st).val = turn.heur[l] /\ EvalLeaf(l, st).st = st
    BY <2>1
  <2>3. QED
    BY <1>1, <2>2, MovesLaws
<1>2. CASE l \notin Heuristic
  <2>1. l \in ML /\ Signal[l] \in Signals /\ Signal[l] \in N
    BY <1>2 DEF Leaf, Signals
  <2> DEFINE s == Signal[l]
             a == Ask(s, st)
  <2>2. /\ a \in EvalState /\ a.asked = st.asked \cup {s}
        /\ \A u \in Signals : a.calls[u] =
               IF u = s /\ s \notin st.asked THEN st.calls[u] + 1 ELSE st.calls[u]
        /\ a.mlErr = st.mlErr /\ a.anyMLErr = st.anyMLErr
    BY <2>1, AskIs
  <2>3. /\ Failed(a) \in EvalState /\ Failed(a).asked = a.asked
        /\ Failed(a).calls = a.calls /\ Failed(a).mlErr = TRUE
        /\ Failed(a).anyMLErr = (a.anyMLErr \/ turn.smart)
    BY <2>2, FailedIs
  <2>4. st.asked \in SUBSET Signals /\ st.calls \in [Signals -> Nat]
        /\ st.mlErr \in BOOLEAN /\ st.anyMLErr \in BOOLEAN
    BY EvalStateIs
  <2>5. turn.smart \in BOOLEAN
    BY DEF Turn
  <2>6. Fails(s) => EvalLeaf(l, st) = [val |-> FALSE, st |-> Failed(a)]
    BY <1>2, EvalLeafIs
  <2>7. ~Fails(s) => EvalLeaf(l, st) = [val |-> turn.says[l], st |-> a]
    BY <1>2, EvalLeafIs
  <2> HIDE DEF a
  <2>8. s \in N
    BY <2>1
  <2> HIDE DEF s
  <2>9. Counted(st) => Counted(a)
    <3>1. SUFFICES ASSUME Counted(st), NEW u \in Signals
                   PROVE  a.calls[u] = IF u \in a.asked THEN 1 ELSE 0
      BY DEF Counted
    <3>2. st.calls[u] = IF u \in st.asked THEN 1 ELSE 0
      BY <3>1 DEF Counted
    <3>3. QED
      BY <2>2, <3>2
  <2>10. CASE Fails(s)
    <3>1. EvalLeaf(l, st).st = Failed(a)
      BY <2>6, <2>10
    <3>2. Counted(st) => Counted(Failed(a))
      BY <2>3, <2>9 DEF Counted
    <3>3. Told(st) => Told(Failed(a))
      BY <2>2, <2>3, <2>10 DEF Told, Fails
    <3>4. Moves(N, st, Failed(a))
      BY <2>2, <2>3, <2>8, <2>10, <3>2, <3>3 DEF Moves
    <3>5. QED
      BY <2>1, <2>3, <3>1, <3>4
  <2>11. CASE ~Fails(s)
    <3>1. EvalLeaf(l, st).st = a /\ EvalLeaf(l, st).val = turn.says[l]
      BY <2>7, <2>11
    <3>2. Told(st) => Told(a)
      BY <2>2, <2>11 DEF Told, Fails
    <3>3. Moves(N, st, a)
      BY <2>2, <2>8, <2>9, <3>2 DEF Moves
    <3>4. \A says \in Completions : says[l] = turn.says[l]
      BY <2>1, <2>11 DEF Completions, s
    <3>5. QED
      BY <1>2, <2>1, <3>1, <3>3, <3>4
  <2>12. QED
    BY <2>10, <2>11
<1>3. QED
  BY <1>1, <1>2

\* A group asks what its children ask; its answer is decided by a child that
\* equals isAny; a heuristic child that does keeps every model from being asked.
GroupTells(N, kids, isAny, st) ==
    LET e == EvalGroup(Eval, kids, isAny, st) IN
    /\ Moves(N, st, e.st)
    /\ ~e.st.mlErr => \A says \in Completions :
           e.val = isAny <=> \E k \in Range(kids) : Holds[k][says] = isAny
    /\ Range(kids) \subseteq Cheap =>
           /\ e.st = st
           /\ \A says \in [ML -> BOOLEAN] :
                  e.val = isAny <=> \E k \in Range(kids) : Holds[k][says] = isAny
    /\ (\E k \in Range(kids) \cap Cheap : Holds[k][turn.says] = isAny) => e.st = st

\* So it is if its children are good.
LEMMA GroupGood ==
    ASSUME turn \in Turn, NEW K \in SUBSET Rules, \A k \in K : Good(k),
           NEW kids \in Seq(K), NEW isAny \in BOOLEAN, NEW st \in EvalState,
           NEW N, \A k \in K : Named(k) \subseteq N
    PROVE  GroupTells(N, kids, isAny, st)
<1> DEFINE s == CheapFirst(kids)
           n == Len(s)
           F == GroupF(K, Eval, isAny)
           base == [val |-> ~isAny, st |-> st]
           Hit(i, says) == \E j \in 1..i : Holds[s[j]][says] = isAny
<1>1. /\ s \in Seq(K) /\ Range(s) = Range(kids)
      /\ \E m \in 0..n : {s[i] : i \in 1..m} = Range(kids) \cap Cheap
  BY CheapFirstIs
<1>2. /\ n \in Nat /\ DOMAIN s = 1..n /\ \A i \in 1..n : s[i] \in K
      /\ Range(s) = {s[i] : i \in 1..n}
  BY <1>1, LenProperties, ElementOfSeq, RangeEquality
<1>3. Evals(Eval, K)
  BY EvalIs DEF Evals
<1>4. base \in Verdicts /\ Stays(F, Verdicts, K)
  BY <1>3, GroupStart, GroupStays
<1>5. EvalGroup(Eval, kids, isAny, st) = LeftFold(F, base, s)
  BY <1>3, GroupIsFold
<1>6. base.val = (~isAny) /\ base.st = st
  OBVIOUS
<1>7. \A acc \in Verdicts, k \in K : F[acc][k] = GroupStep(Eval, isAny, acc, k)
  BY DEF GroupF
<1> HIDE DEF s, F, base
<1>8. PICK acc \in [0..n -> Verdicts] :
          IsLoop(acc, F, base, s) /\ LeftFold(F, base, s) = acc[n]
  BY <1>1, <1>4, LeftFoldLoop
<1>9. PICK m \in 0..n : {s[i] : i \in 1..m} = Range(kids) \cap Cheap
  BY <1>1
<1> HIDE DEF n
<1>10. acc[0] = base /\ 0 \in 0..n
  BY <1>2, <1>8 DEF IsLoop
<1>11. ASSUME NEW i \in 1..n
       PROVE  /\ i \in 0..n /\ i - 1 \in 0..n
              /\ acc[i - 1] \in Verdicts /\ acc[i] \in Verdicts
              /\ acc[i - 1].st \in EvalState /\ acc[i].st \in EvalState
              /\ s[i] \in K
              /\ acc[i - 1].val = isAny => acc[i] = acc[i - 1]
              /\ acc[i - 1].val # isAny => acc[i] = Eval[s[i]][acc[i - 1].st]
  <2>1. i \in 0..n /\ i - 1 \in 0..n
    BY <1>2
  <2>2. acc[i - 1] \in Verdicts /\ acc[i] \in Verdicts /\ s[i] \in K
    BY <1>2, <2>1
  <2>3. acc[i] = F[acc[i - 1]][s[i]]
    BY <1>8 DEF IsLoop, n
  <2>4. acc[i] = GroupStep(Eval, isAny, acc[i - 1], s[i])
    BY <1>7, <2>2, <2>3
  <2>5. QED
    BY <2>1, <2>2, <2>4, AnswerIs DEF GroupStep
<1>12. \A says : ~Hit(0, says)
  OBVIOUS
<1>13. ASSUME NEW i \in 1..n, NEW says
       PROVE  Hit(i, says) <=> Hit(i - 1, says) \/ Holds[s[i]][says] = isAny
  <2>1. 1..i = (1..(i - 1)) \cup {i}
    BY <1>2
  <2>2. QED
    BY <2>1
<1>14. \A says : Hit(n, says) <=> \E k \in Range(kids) : Holds[k][says] = isAny
  BY <1>1, <1>2
<1> HIDE DEF Hit
<1>15. acc[0].val # isAny /\ acc[0].st = st
  <2>1. (~isAny) # isAny
    OBVIOUS
  <2>2. QED
    BY <1>6, <1>10, <2>1
\* Every round moves within N.
<1> DEFINE Q1 == {i \in 0..n : Moves(N, st, acc[i].st)}
<1>16. \A i \in 0..n : i \in Q1
  <2>1. 0 \in Q1
    BY <1>10, <1>15, MovesLaws
  <2>2. ASSUME NEW i \in 1..n, i - 1 \in Q1 PROVE i \in Q1
    <3>1. Moves(N, st, acc[i - 1].st)
      BY <2>2
    <3>2. CASE acc[i - 1].val = isAny
      BY <1>11, <3>1, <3>2
    <3>3. CASE acc[i - 1].val # isAny
      <4>1. Moves(Named(s[i]), acc[i - 1].st, acc[i].st)
        <5>1. Good(s[i]) /\ acc[i - 1].st \in EvalState /\ acc[i] = Eval[s[i]][acc[i - 1].st]
          BY <1>11, <3>3
        <5>2. QED
          BY <5>1, GoodIs
      <4>2. Moves(N, acc[i - 1].st, acc[i].st)
        BY <1>11, <4>1, MovesLaws
      <4>3. Moves(N, st, acc[i].st)
        BY <3>1, <4>2, MovesAfter
      <4>4. QED
        BY <1>11, <4>3
    <3>4. QED
      BY <3>2, <3>3
  <2> HIDE DEF Q1
  <2>3. QED
    BY <1>2, <2>1, <2>2, UpTo
\* While nothing failed, isAny was answered if some child so far means it.
<1> DEFINE Q2 == {i \in 0..n : ~acc[i].st.mlErr =>
                      \A says \in Completions : acc[i].val = isAny <=> Hit(i, says)}
<1>17. \A i \in 0..n : i \in Q2
  <2>1. 0 \in Q2
    BY <1>10, <1>12, <1>15
  <2>2. ASSUME NEW i \in 1..n, i - 1 \in Q2 PROVE i \in Q2
    <3>1. ~acc[i - 1].st.mlErr =>
              \A says \in Completions : acc[i - 1].val = isAny <=> Hit(i - 1, says)
      BY <2>2
    <3>2. CASE acc[i - 1].val = isAny
      BY <1>11, <1>13, <3>1, <3>2
    <3>3. CASE acc[i - 1].val # isAny
      <4>1. /\ Moves(Named(s[i]), acc[i - 1].st, acc[i].st)
            /\ ~acc[i].st.mlErr => \A says \in Completions : acc[i].val = Holds[s[i]][says]
        <5>1. Good(s[i]) /\ acc[i - 1].st \in EvalState /\ acc[i] = Eval[s[i]][acc[i - 1].st]
          BY <1>11, <3>3
        <5>2. QED
          BY <5>1, GoodIs
      <4>2. acc[i - 1].st.mlErr => acc[i].st.mlErr
        BY <4>1 DEF Moves
      <4>3. QED
        BY <1>11, <1>13, <3>1, <3>3, <4>1, <4>2
    <3>4. QED
      BY <3>2, <3>3
  <2> HIDE DEF Q2
  <2>3. QED
    BY <1>2, <2>1, <2>2, UpTo
\* The heuristic children come first and ask nothing.
<1>18. ASSUME NEW i \in 1..n, i <= m PROVE s[i] \in Cheap
  BY <1>2, <1>9, <1>18
<1> DEFINE Q3 == {i \in 0..n : i <= m =>
                      /\ acc[i].st = st
                      /\ \A says \in [ML -> BOOLEAN] : acc[i].val = isAny <=> Hit(i, says)}
<1>19. \A i \in 0..n : i \in Q3
  <2>1. 0 \in Q3
    BY <1>10, <1>12, <1>15
  <2>2. ASSUME NEW i \in 1..n, i - 1 \in Q3 PROVE i \in Q3
    <3>1. SUFFICES ASSUME i <= m
                   PROVE  /\ acc[i].st = st
                          /\ \A says \in [ML -> BOOLEAN] : acc[i].val = isAny <=> Hit(i, says)
      BY <1>11
    <3>2. i - 1 <= m
      BY <1>2, <3>1
    <3>3. /\ acc[i - 1].st = st
          /\ \A says \in [ML -> BOOLEAN] : acc[i - 1].val = isAny <=> Hit(i - 1, says)
      BY <2>2, <3>2
    <3>4. CASE acc[i - 1].val = isAny
      BY <1>11, <1>13, <3>3, <3>4
    <3>5. CASE acc[i - 1].val # isAny
      <4>1. /\ acc[i].st = acc[i - 1].st
            /\ \A says \in [ML -> BOOLEAN] : acc[i].val = Holds[s[i]][says]
        <5>1. /\ Good(s[i]) /\ acc[i - 1].st \in EvalState /\ s[i] \in Cheap
              /\ acc[i] = Eval[s[i]][acc[i - 1].st]
          BY <1>11, <1>18, <3>1, <3>5
        <5>2. QED
          BY <5>1, GoodIs
      <4>2. QED
        BY <1>13, <3>3, <3>5, <4>1
    <3>6. QED
      BY <3>4, <3>5
  <2> HIDE DEF Q3
  <2>3. QED
    BY <1>2, <2>1, <2>2, UpTo
\* If one of them decides, the rounds after them change nothing.
<1> DEFINE One == \E k \in Range(kids) \cap Cheap : Holds[k][turn.says] = isAny
           Q4 == {i \in 0..n : One => acc[i].st = st /\ (m <= i => acc[i].val = isAny)}
<1>20. One => Hit(m, turn.says)
  BY <1>9 DEF Hit
<1>21. turn.says \in [ML -> BOOLEAN]
  BY DEF Turn
<1>22. \A i \in 0..n : i <= m => acc[i].st = st
  BY <1>19
<1>23. One => acc[m].val = isAny
  BY <1>19, <1>20, <1>21
<1> HIDE DEF One
<1>24. \A i \in 0..n : i \in Q4
  <2>1. 0 \in Q4
    <3>1. m <= 0 => m = 0
      BY <1>2
    <3>2. QED
      BY <1>10, <1>15, <1>23, <3>1
  <2>2. ASSUME NEW i \in 1..n, i - 1 \in Q4 PROVE i \in Q4
    <3>1. SUFFICES ASSUME One PROVE acc[i].st = st /\ (m <= i => acc[i].val = isAny)
      BY <1>11
    <3>2. CASE i <= m
      <4>1. acc[i].st = st
        BY <1>11, <1>22, <3>2
      <4>2. m <= i => m = i
        BY <1>2, <3>2
      <4>3. QED
        BY <1>23, <3>1, <4>1, <4>2
    <3>3. CASE ~(i <= m)
      <4>1. m <= i - 1
        BY <1>2, <3>3
      <4>2. acc[i - 1].st = st /\ acc[i - 1].val = isAny
        BY <2>2, <3>1, <4>1
      <4>3. QED
        BY <1>11, <4>2
    <3>4. QED
      BY <3>2, <3>3
  <2> HIDE DEF Q4
  <2>3. QED
    BY <1>2, <2>1, <2>2, UpTo
<1>25. n \in 0..n
  BY <1>2
<1>26. Range(kids) \subseteq Cheap =>
           /\ acc[n].st = st
           /\ \A says \in [ML -> BOOLEAN] :
                  acc[n].val = isAny <=> \E k \in Range(kids) : Holds[k][says] = isAny
  <2>1. SUFFICES ASSUME Range(kids) \subseteq Cheap
                 PROVE  /\ acc[n].st = st
                        /\ \A says \in [ML -> BOOLEAN] : acc[n].val = isAny
                               <=> \E k \in Range(kids) : Holds[k][says] = isAny
    OBVIOUS
  <2> DEFINE Q5 == {i \in 0..n : acc[i].st = st /\ \A says \in [ML -> BOOLEAN] :
                                     acc[i].val = isAny <=> Hit(i, says)}
  <2>2. \A i \in 1..n : s[i] \in Cheap
    BY <1>1, <1>2, <2>1
  <2>3. \A i \in 0..n : i \in Q5
    <3>1. 0 \in Q5
      BY <1>10, <1>12, <1>15
    <3>2. ASSUME NEW i \in 1..n, i - 1 \in Q5 PROVE i \in Q5
      <4>1. /\ acc[i - 1].st = st
            /\ \A says \in [ML -> BOOLEAN] : acc[i - 1].val = isAny <=> Hit(i - 1, says)
        BY <3>2
      <4>2. CASE acc[i - 1].val = isAny
        BY <1>11, <1>13, <4>1, <4>2
      <4>3. CASE acc[i - 1].val # isAny
        <5>1. /\ acc[i].st = acc[i - 1].st
              /\ \A says \in [ML -> BOOLEAN] : acc[i].val = Holds[s[i]][says]
          <6>1. /\ Good(s[i]) /\ acc[i - 1].st \in EvalState /\ s[i] \in Cheap
                /\ acc[i] = Eval[s[i]][acc[i - 1].st]
            BY <1>11, <2>2, <4>3
          <6>2. QED
            BY <6>1, GoodIs
        <5>2. QED
          BY <1>11, <1>13, <4>1, <4>3, <5>1
      <4>4. QED
        BY <4>2, <4>3
    <3> HIDE DEF Q5
    <3>3. QED
      BY <1>2, <3>1, <3>2, UpTo
  <2>4. QED
    BY <1>14, <1>25, <2>3
<1>27. EvalGroup(Eval, kids, isAny, st) = acc[n]
  BY <1>5, <1>8
<1>28. Moves(N, st, acc[n].st)
  BY <1>16, <1>25
<1>29. ~acc[n].st.mlErr => \A says \in Completions :
           acc[n].val = isAny <=> \E k \in Range(kids) : Holds[k][says] = isAny
  BY <1>14, <1>17, <1>25
<1>30. One => acc[n].st = st
  BY <1>24, <1>25
<1>31. QED
  BY <1>26, <1>27, <1>28, <1>29, <1>30 DEF GroupTells, One

\* The answer of a group as the connective it stands for.
LEMMA Connective ==
    ASSUME NEW v \in BOOLEAN, NEW K, NEW f \in [K -> BOOLEAN]
    PROVE  /\ (v = FALSE <=> \E k \in K : f[k] = FALSE) => v = (\A k \in K : f[k])
           /\ (v = TRUE <=> \E k \in K : f[k] = TRUE) => v = (\E k \in K : f[k])
<1>1. \A k \in K : f[k] \in BOOLEAN
  OBVIOUS
<1>2. QED
  BY <1>1

\* The meaning of a node of each of the four shapes.
LEMMA MeaningIs ==
    ASSUME turn \in Turn, NEW r \in Rules, NEW says \in [ML -> BOOLEAN]
    PROVE  /\ Holds[r][says] \in BOOLEAN
           /\ r.all # Unset /\ r.any = Unset /\ r.not = Unset /\ Range(r.leaves) = {} =>
                  Holds[r][says] = (\A q \in Range(r.all) : Holds[q][says])
           /\ r.all = Unset /\ r.any # Unset /\ r.not = Unset /\ Range(r.leaves) = {} =>
                  Holds[r][says] = (\E q \in Range(r.any) : Holds[q][says])
           /\ r.all = Unset /\ r.any = Unset /\ r.not # Unset /\ Range(r.leaves) = {} =>
                  Holds[r][says] = ~Holds[r.not][says]
<1>1. Holds[r] = HoldsAt(Holds, r) /\ Holds[r] \in [[ML -> BOOLEAN] -> BOOLEAN]
  BY HoldsIs
<1>2. Holds[r][says] =
        /\ r.all # Unset => \A q \in Sequel(r.all) : Holds[q][says]
        /\ r.any # Unset => \E q \in Sequel(r.any) : Holds[q][says]
        /\ r.not # Unset => ~Holds[r.not][says]
        /\ \A l \in Range(r.leaves) :
              IF l \in Heuristic THEN turn.heur[l] ELSE says[l]
  BY <1>1 DEF HoldsAt
<1>3. /\ r.all # Unset => Sequel(r.all) = Range(r.all)
      /\ r.any # Unset => Sequel(r.any) = Range(r.any)
  BY DEF Sequel
<1>4. Holds[r][says] \in BOOLEAN
  BY <1>1
<1>5. QED
  BY <1>2, <1>3, <1>4

\* A node that is one leaf means what the leaf says.
LEMMA LeafMeans ==
    ASSUME turn \in Turn, NEW r \in Rules, NEW says \in [ML -> BOOLEAN], NEW l \in Leaf,
           r.all = Unset, r.any = Unset, r.not = Unset, Range(r.leaves) = {l}
    PROVE  Holds[r][says] = IF l \in Heuristic THEN turn.heur[l] ELSE says[l]
<1>1. Holds[r] = HoldsAt(Holds, r)
  BY HoldsIs
<1>2. Holds[r][says] = \A k \in {l} : IF k \in Heuristic THEN turn.heur[k] ELSE says[k]
  <2>1. Holds[r][says] =
          /\ r.all # Unset => \A q \in Sequel(r.all) : Holds[q][says]
          /\ r.any # Unset => \E q \in Sequel(r.any) : Holds[q][says]
          /\ r.not # Unset => ~Holds[r.not][says]
          /\ \A k \in Range(r.leaves) :
                IF k \in Heuristic THEN turn.heur[k] ELSE says[k]
    BY <1>1 DEF HoldsAt
  <2>2. QED
    BY <2>1
<1>3. IF l \in Heuristic THEN turn.heur[l] \in BOOLEAN ELSE says[l] \in BOOLEAN
  BY DEF Turn, Leaf
<1>4. Holds[r][says] \in BOOLEAN
  BY MeaningIs
<1>5. CASE l \in Heuristic
  BY <1>2, <1>3, <1>4, <1>5
<1>6. CASE l \notin Heuristic
  BY <1>2, <1>3, <1>4, <1>6
<1>7. QED
  BY <1>5, <1>6

\* A group of good children is good.
LEMMA GroupNodeGood ==
    ASSUME turn \in Turn, NEW r \in Rules, \A q \in Parts(r) : Good(q),
           NEW isAny \in BOOLEAN, NEW kids \in Seq(Parts(r)),
           \A st \in EvalState : Eval[r][st] = EvalGroup(Eval, kids, isAny, st),
           \A says \in [ML -> BOOLEAN] :
               Holds[r][says] = IF isAny THEN \E q \in Range(kids) : Holds[q][says]
                                ELSE \A q \in Range(kids) : Holds[q][says]
    PROVE  Good(r)
<1>1. /\ Parts(r) \in SUBSET Rules /\ \A q \in Parts(r) : q \in Rules
      /\ \A q \in Parts(r) : Named(q) \subseteq Named(r)
      /\ r \in Cheap => \A q \in Parts(r) : q \in Cheap
  BY RuleIs, NamedIs
<1>2. Range(kids) \subseteq Parts(r)
  BY RangeOfSeq
<1>3. ASSUME NEW st \in EvalState
      PROVE  LET e == Eval[r][st] IN
             /\ e.val \in BOOLEAN
             /\ Moves(Named(r), st, e.st)
             /\ ~e.st.mlErr => \A says \in Completions :
                    e.val = isAny <=> \E k \in Range(kids) : Holds[k][says] = isAny
             /\ Range(kids) \subseteq Cheap =>
                    /\ e.st = st
                    /\ \A says \in [ML -> BOOLEAN] :
                           e.val = isAny <=> \E k \in Range(kids) : Holds[k][says] = isAny
  <2> DEFINE N == Named(r)
             K == Parts(r)
             e == Eval[r][st]
  <2>1. e = EvalGroup(Eval, kids, isAny, st)
    OBVIOUS
  <2>2. e.val \in BOOLEAN
    <3>1. e \in Verdicts
      BY EvalIs
    <3>2. QED
      BY <3>1, AnswerIs
  <2>3. \A k \in K : Named(k) \subseteq N
    BY <1>1
  <2>4. K \in SUBSET Rules /\ kids \in Seq(K) /\ \A k \in K : Good(k)
    BY <1>1
  <2> HIDE DEF N, K, e
  <2>5. /\ Moves(N, st, e.st)
        /\ ~e.st.mlErr => \A says \in Completions :
               e.val = isAny <=> \E k \in Range(kids) : Holds[k][says] = isAny
        /\ Range(kids) \subseteq Cheap =>
               /\ e.st = st
               /\ \A says \in [ML -> BOOLEAN] :
                      e.val = isAny <=> \E k \in Range(kids) : Holds[k][says] = isAny
    <3>1. GroupTells(N, kids, isAny, st)
      BY <2>3, <2>4, GroupGood
    <3>2. QED
      BY <2>1, <3>1 DEF GroupTells
  <2>6. QED
    BY <2>2, <2>5 DEF N, e
<1>4. ASSUME NEW v \in BOOLEAN, NEW says \in [ML -> BOOLEAN],
             v = isAny <=> \E k \in Range(kids) : Holds[k][says] = isAny
      PROVE  v = Holds[r][says]
  <2> DEFINE f == [k \in Range(kids) |-> Holds[k][says]]
  <2>1. \A k \in Range(kids) : Holds[k][says] \in BOOLEAN
    BY <1>1, <1>2, MeaningIs
  <2>2. f \in [Range(kids) -> BOOLEAN] /\ \A k \in Range(kids) : f[k] = Holds[k][says]
    BY <2>1
  <2> HIDE DEF f
  <2>3. CASE isAny = TRUE
    <3>1. v = TRUE <=> \E k \in Range(kids) : f[k] = TRUE
      BY <1>4, <2>2, <2>3
    <3>2. v = (\E k \in Range(kids) : f[k])
      BY <2>2, <3>1, Connective
    <3>3. Holds[r][says] = \E k \in Range(kids) : f[k]
      BY <2>2, <2>3
    <3>4. QED
      BY <3>2, <3>3
  <2>4. CASE isAny = FALSE
    <3>1. v = FALSE <=> \E k \in Range(kids) : f[k] = FALSE
      BY <1>4, <2>2, <2>4
    <3>2. v = (\A k \in Range(kids) : f[k])
      BY <2>2, <3>1, Connective
    <3>3. Holds[r][says] = \A k \in Range(kids) : f[k]
      BY <2>2, <2>4
    <3>4. QED
      BY <3>2, <3>3
  <2>5. QED
    BY <2>3, <2>4
<1>5. SUFFICES ASSUME NEW st \in EvalState
               PROVE  LET e == Eval[r][st] IN
                      /\ Moves(Named(r), st, e.st)
                      /\ ~e.st.mlErr => \A says \in Completions : e.val = Holds[r][says]
                      /\ r \in Cheap => /\ e.st = st
                                        /\ \A says \in [ML -> BOOLEAN] :
                                               e.val = Holds[r][says]
  BY DEF Good
<1> DEFINE e == Eval[r][st]
<1>6. Completions \subseteq [ML -> BOOLEAN]
  BY CompletionsAre
<1>7. r \in Cheap => Range(kids) \subseteq Cheap
  BY <1>1, <1>2
<1>8. e.val \in BOOLEAN /\ Moves(Named(r), st, e.st)
  BY <1>3
<1>9. ~e.st.mlErr => \A says \in Completions : e.val = Holds[r][says]
  <2>1. ASSUME ~e.st.mlErr, NEW says \in Completions PROVE e.val = Holds[r][says]
    <3>1. e.val = isAny <=> \E k \in Range(kids) : Holds[k][says] = isAny
      BY <1>3, <2>1
    <3>2. says \in [ML -> BOOLEAN]
      BY <1>6
    <3> HIDE DEF e
    <3>3. QED
      BY <1>4, <1>8, <3>1, <3>2
  <2>2. QED
    BY <2>1
<1>10. ASSUME r \in Cheap
       PROVE  e.st = st /\ \A says \in [ML -> BOOLEAN] : e.val = Holds[r][says]
  <2>1. /\ e.st = st
        /\ \A says \in [ML -> BOOLEAN] :
               e.val = isAny <=> \E k \in Range(kids) : Holds[k][says] = isAny
    BY <1>3, <1>7, <1>10
  <2> HIDE DEF e
  <2>2. QED
    BY <1>4, <1>8, <2>1
<1>11. QED
  BY <1>8, <1>9, <1>10

\* Every sound node is good.
LEMMA AllGood ==
    ASSUME turn \in Turn
    PROVE  \A r \in Rules : Sound(r) => Good(r)
<1> DEFINE Q == {r \in Rules : Sound(r) => Good(r)}
<1>1. Height \in [Rules -> Nat]
  BY RuleIs
<1>2. ASSUME NEW r \in Rules, \A q \in Rules : Height[q] < Height[r] => q \in Q
      PROVE  r \in Q
  <2>1. SUFFICES ASSUME Sound(r) PROVE Good(r)
    OBVIOUS
  <2>2. /\ OneShape(r) /\ Range(r.leaves) \subseteq Defined
        /\ \A q \in Parts(r) : Sound(q)
    BY <2>1, SoundIs
  <2>3. \A q \in Parts(r) : q \in Rules /\ Good(q)
    BY <1>2, <2>2, RuleIs
  <2>4. \A st \in EvalState : Eval[r][st] = EvalNode(Eval, r, st)
    BY EvalIs DEF EvalAt
  <2>5. TRUE \in BOOLEAN /\ FALSE \in BOOLEAN
    OBVIOUS
  <2>6. CASE r.all # Unset /\ r.any = Unset /\ r.not = Unset /\ Range(r.leaves) = {}
    <3> DEFINE no == FALSE
    <3>1. r.all \in Seq(Parts(r)) /\ no \in BOOLEAN
      BY <2>6, KidsAre
    <3>2. \A st \in EvalState : Eval[r][st] = EvalGroup(Eval, r.all, no, st)
      BY <2>4, <2>6 DEF EvalNode
    <3>3. \A says \in [ML -> BOOLEAN] :
              Holds[r][says] = IF no THEN \E q \in Range(r.all) : Holds[q][says]
                               ELSE \A q \in Range(r.all) : Holds[q][says]
      BY <2>6, MeaningIs
    <3> HIDE DEF no
    <3>4. QED
      BY <2>3, <3>1, <3>2, <3>3, GroupNodeGood
  <2>7. CASE r.all = Unset /\ r.any # Unset /\ r.not = Unset /\ Range(r.leaves) = {}
    <3> DEFINE yes == TRUE
    <3>1. r.any \in Seq(Parts(r)) /\ yes \in BOOLEAN
      BY <2>7, KidsAre
    <3>2. \A st \in EvalState : Eval[r][st] = EvalGroup(Eval, r.any, yes, st)
      BY <2>4, <2>7 DEF EvalNode
    <3>3. \A says \in [ML -> BOOLEAN] :
              Holds[r][says] = IF yes THEN \E q \in Range(r.any) : Holds[q][says]
                               ELSE \A q \in Range(r.any) : Holds[q][says]
      BY <2>7, MeaningIs
    <3> HIDE DEF yes
    <3>4. QED
      BY <2>3, <3>1, <3>2, <3>3, GroupNodeGood
  <2>8. CASE r.all = Unset /\ r.any = Unset /\ r.not # Unset /\ Range(r.leaves) = {}
    <3> DEFINE q == r.not
    <3>1. q \in Parts(r) /\ q \in Rules /\ Good(q)
      BY <2>3, <2>8, KidsAre
    <3>2. Named(q) \subseteq Named(r) /\ (r \in Cheap => q \in Cheap)
      BY <3>1, NamedIs
    <3>3. \A says \in [ML -> BOOLEAN] : Holds[r][says] = ~Holds[q][says]
      BY <2>8, MeaningIs
    <3>4. Completions \subseteq [ML -> BOOLEAN]
      BY CompletionsAre
    <3>5. SUFFICES ASSUME NEW st \in EvalState
                   PROVE  LET e == Eval[r][st] IN
                          /\ Moves(Named(r), st, e.st)
                          /\ ~e.st.mlErr => \A says \in Completions : e.val = Holds[r][says]
                          /\ r \in Cheap => /\ e.st = st
                                            /\ \A says \in [ML -> BOOLEAN] :
                                                   e.val = Holds[r][says]
      BY DEF Good
    <3> DEFINE d == Eval[q][st]
    <3>6. Eval[r][st] = [val |-> ~d.val, st |-> d.st]
      BY <2>4, <2>8 DEF EvalNode
    <3>7. d \in Verdicts
      BY <3>1, EvalIs
    <3>8. d.val \in BOOLEAN /\ d.st \in EvalState
      BY <3>7, AnswerIs
    <3>9. /\ Moves(Named(q), st, d.st)
          /\ ~d.st.mlErr => \A says \in Completions : d.val = Holds[q][says]
          /\ q \in Cheap => /\ d.st = st
                            /\ \A says \in [ML -> BOOLEAN] : d.val = Holds[q][says]
      BY <3>1, GoodIs
    <3>10. Moves(Named(r), st, d.st)
      BY <3>2, <3>8, <3>9, MovesLaws
    <3>11. Eval[r][st].val = (~d.val) /\ Eval[r][st].st = d.st
      BY <3>6
    <3> HIDE DEF d, q
    <3>12. ~d.st.mlErr => \A says \in Completions : Eval[r][st].val = Holds[r][says]
      BY <3>3, <3>4, <3>8, <3>9, <3>11
    <3>13. r \in Cheap => /\ d.st = st
                          /\ \A says \in [ML -> BOOLEAN] : Eval[r][st].val = Holds[r][says]
      BY <3>2, <3>3, <3>8, <3>9, <3>11
    <3>14. QED
      BY <3>10, <3>11, <3>12, <3>13
  <2>9. CASE /\ r.all = Unset /\ r.any = Unset /\ r.not = Unset
             /\ r.leaves # <<>> /\ Range(r.leaves) = {Head(r.leaves)}
             /\ Head(r.leaves) \in Leaf
    <3> DEFINE l == Head(r.leaves)
    <3>1. l \in Leaf /\ l \in Defined /\ Range(r.leaves) = {l}
      BY <2>2, <2>9
    <3>2. /\ l \in ML => Signal[l] \in Named(r)
          /\ r \in Cheap => l \notin ML
      BY <3>1, NamedIs
    <3>3. \A st \in EvalState : Eval[r][st] = EvalLeaf(l, st)
      BY <2>4, <2>9 DEF EvalNode
    <3>4. Completions \subseteq [ML -> BOOLEAN]
      BY CompletionsAre
    <3>5. \A says \in [ML -> BOOLEAN] :
              Holds[r][says] = IF l \in Heuristic THEN turn.heur[l] ELSE says[l]
      BY <2>9, <3>1, LeafMeans
    <3> HIDE DEF l
    <3>6. SUFFICES ASSUME NEW st \in EvalState
                   PROVE  LET e == EvalLeaf(l, st) IN
                          /\ Moves(Named(r), st, e.st)
                          /\ ~e.st.mlErr => \A says \in Completions : e.val = Holds[r][says]
                          /\ r \in Cheap => /\ e.st = st
                                            /\ \A says \in [ML -> BOOLEAN] :
                                                   e.val = Holds[r][says]
      BY <3>3 DEF Good
    <3> DEFINE N == Named(r)
               e == EvalLeaf(l, st)
    <3>7. l \in ML => Signal[l] \in N
      BY <3>2
    <3> HIDE DEF N
    <3>8. /\ Moves(N, st, e.st)
          /\ ~e.st.mlErr => \A says \in Completions :
                 e.val = IF l \in Heuristic THEN turn.heur[l] ELSE says[l]
          /\ l \notin ML => e.st = st /\ e.val = turn.heur[l] /\ l \in Heuristic
      BY <3>1, <3>7, LeafGood
    <3> HIDE DEF e
    <3>9. QED
      BY <3>2, <3>4, <3>5, <3>8 DEF e, N
  <2>10. QED
    BY <2>2, <2>6, <2>7, <2>8, <2>9, ShapeIs
<1>3. \A r \in Rules : r \in Q
  <2> HIDE DEF Q
  <2>1. QED
    BY <1>1, <1>2, HeightInduction
<1>4. QED
  BY <1>3

\* A group that a heuristic child decides asks nothing.
LEMMA GroupSettles ==
    ASSUME turn \in Turn, NEW K \in SUBSET Rules, \A k \in K : Good(k),
           NEW kids \in Seq(K), NEW isAny \in BOOLEAN, NEW st \in EvalState,
           \E k \in Range(kids) \cap Cheap : Holds[k][turn.says] = isAny
    PROVE  EvalGroup(Eval, kids, isAny, st).st = st
<1> DEFINE N == UNION {Named(k) : k \in K}
<1>1. \A k \in K : Named(k) \subseteq N
  OBVIOUS
<1> DEFINE e == EvalGroup(Eval, kids, isAny, st)
           one == \E k \in Range(kids) \cap Cheap : Holds[k][turn.says] = isAny
<1> HIDE DEF N
<1>2. GroupTells(N, kids, isAny, st)
  BY <1>1, GroupGood
<1>3. one => e.st = st
  BY <1>2 DEF GroupTells
<1>4. QED
  BY <1>3

\* A condition whose top group a heuristic child decides asks nothing.
LEMMA SettledAsksNothing ==
    ASSUME turn \in Turn, NEW r \in Rules, Sound(r), Settled(r), NEW st \in EvalState
    PROVE  Eval[r][st].st = st
<1>1. PICK kid \in Range(Kids(r)) :
          ~UsesML(kid) /\ Holds[kid][turn.says] = (r.any # Unset)
  BY DEF Settled
<1>2. /\ OneShape(r) /\ \A q \in Parts(r) : Sound(q)
  BY SoundIs
<1>3. \A q \in Parts(r) : q \in Rules /\ Good(q)
  BY <1>2, AllGood, RuleIs
<1>4. Eval[r][st] = EvalNode(Eval, r, st)
  BY EvalIs DEF EvalAt
<1> DEFINE K == Parts(r)
<1>5. K \in SUBSET Rules /\ \A k \in K : Good(k)
  BY <1>3
<1>6. Range(<<>>) = {}
  <2>1. <<>> \in Seq(Leaf) /\ Len(<<>>) = 0
    BY EmptySeq
  <2>2. Range(<<>>) = {<<>>[i] : i \in 1..Len(<<>>)}
    BY <2>1, RangeEquality
  <2>3. QED
    BY <2>1, <2>2
<1>7. r.all # Unset \/ r.any # Unset
  BY <1>1, <1>6 DEF Kids
<1>8. CASE r.all # Unset /\ r.any = Unset
  <2> DEFINE no == FALSE
  <2>1. /\ r.all \in Seq(K) /\ Range(r.all) \subseteq K /\ no \in BOOLEAN
    BY <1>8, KidsAre
  <2>2. EvalNode(Eval, r, st) = EvalGroup(Eval, r.all, no, st)
    BY <1>8 DEF EvalNode
  <2>3. kid \in Range(r.all) /\ kid \in Cheap /\ Holds[kid][turn.says] = no
    BY <1>1, <1>3, <1>8, <2>1 DEF Kids, Cheap
  <2> DEFINE kids == r.all
             one == \E k \in Range(kids) \cap Cheap : Holds[k][turn.says] = no
  <2> HIDE DEF no, K
  <2>4. kids \in Seq(K) /\ one
    BY <2>1, <2>3
  <2> HIDE DEF kids
  <2>5. EvalGroup(Eval, kids, no, st).st = st
    BY <1>5, <2>1, <2>4, GroupSettles
  <2>6. QED
    BY <1>4, <2>2, <2>5 DEF kids
<1>9. CASE r.all = Unset /\ r.any # Unset
  <2> DEFINE yes == TRUE
  <2>1. /\ r.any \in Seq(K) /\ Range(r.any) \subseteq K /\ yes \in BOOLEAN
    BY <1>9, KidsAre
  <2>2. EvalNode(Eval, r, st) = EvalGroup(Eval, r.any, yes, st)
    BY <1>9 DEF EvalNode
  <2>3. kid \in Range(r.any) /\ kid \in Cheap /\ Holds[kid][turn.says] = yes
    BY <1>1, <1>3, <1>9, <2>1 DEF Kids, Cheap
  <2> DEFINE kids == r.any
             one == \E k \in Range(kids) \cap Cheap : Holds[k][turn.says] = yes
  <2> HIDE DEF yes, K
  <2>4. kids \in Seq(K) /\ one
    BY <2>1, <2>3
  <2> HIDE DEF kids
  <2>5. EvalGroup(Eval, kids, yes, st).st = st
    BY <1>5, <2>1, <2>4, GroupSettles
  <2>6. QED
    BY <1>4, <2>2, <2>5 DEF kids
<1>10. QED
  BY <1>2, <1>7, <1>8, <1>9, ShapeIs

-----------------------------------------------------------------------------
(***************************************************************************)
(* The waterfall.                                                          *)
(***************************************************************************)

\* What is known of a route that was tried and left.
Passed(k) ==
    /\ (\A s \in asked : ~Fails(s)) => \A says \in Completions : ~Holds[pol[k]][says]
    /\ pol[k] \in Cheap => ~Holds[pol[k]][turn.says]

\* A signal was asked for a route that was reached, names it and was not settled.
Grounded(s) ==
    \E k \in DOMAIN pol : k <= route /\ ~Settled(pol[k]) /\ s \in Named(pol[k])

RuleTypes ==
    /\ pol \in Seq(Rules) /\ turn \in Turn
    /\ route \in 1..(Len(pol) + 1)
    /\ Before \in EvalState

\* The inductive invariant of the waterfall.
RuleInv ==
    /\ RuleTypes
    /\ outcome \notin {"loading", "refused"} => \A k \in DOMAIN pol : Sound(pol[k])
    /\ Counted(Before) /\ Told(Before)
    /\ \A k \in 1..(route - 1) : Passed(k)
    /\ outcome = "routed" => /\ route <= Len(pol)
                             /\ \A says \in Completions : Holds[pol[route]][says]
    /\ outcome = "default" => route = Len(pol) + 1
    /\ \A s \in asked : Grounded(s)

\* A route starts from what was asked, with a clean mlErr.
LEMMA BeforeIs ==
    /\ Before.asked = asked /\ Before.calls = calls
    /\ Before.mlErr = FALSE /\ Before.anyMLErr = anyMLErr
  BY DEF Before

\* A route of the policy, its number and its condition.
LEMMA RouteIs ==
    ASSUME RuleTypes
    PROVE  /\ Len(pol) \in Nat /\ DOMAIN pol = 1..Len(pol) /\ route \in Nat
           /\ \A k \in 1..Len(pol) : pol[k] \in Rules
<1>1. pol \in Seq(Rules) /\ route \in 1..(Len(pol) + 1)
  BY DEF RuleTypes
<1>2. QED
  BY <1>1, LenProperties, ElementOfSeq

\* The request starts with nothing asked.
LEMMA RuleStarts == RuleInit => RuleInv
<1> SUFFICES ASSUME RuleInit PROVE RuleInv
  OBVIOUS
<1>1. /\ pol \in Seq(Rules) /\ turn \in Turn
      /\ route = 1 /\ asked = {} /\ calls = [s \in Signals |-> 0] /\ anyMLErr = FALSE
      /\ outcome = "loading"
  BY RuleTrees, RuleConstants DEF RuleInit
<1>2. Len(pol) \in Nat
  BY <1>1, LenProperties
<1>3. 1 \in 1..(Len(pol) + 1)
  BY <1>2
<1>4. Before \in EvalState
  <2>1. calls \in [Signals -> Nat] /\ asked \in SUBSET Signals
    BY <1>1
  <2> DEFINE no == FALSE
  <2>2. no \in BOOLEAN /\ anyMLErr = no
    BY <1>1
  <2>3. Before = [asked |-> asked, calls |-> calls, mlErr |-> no, anyMLErr |-> anyMLErr]
    BY DEF Before
  <2> HIDE DEF no
  <2>4. QED
    BY <2>1, <2>2, <2>3 DEF EvalState
<1>5. RuleTypes
  BY <1>1, <1>3, <1>4 DEF RuleTypes
<1>6. Counted(Before)
  BY <1>1, BeforeIs DEF Counted
<1>7. Told(Before)
  BY <1>1, BeforeIs DEF Told
<1>8. \A k \in 1..(route - 1) : Passed(k)
  BY <1>1
<1>9. QED
  BY <1>1, <1>5, <1>6, <1>7, <1>8 DEF RuleInv

\* What the evaluation of the next route tells.
LEMMA RouteTells ==
    ASSUME RuleInv, outcome = "deciding", route <= Len(pol), NEW r, r = pol[route],
           NEW e, e = Eval[r][Before]
    PROVE  /\ r \in Rules /\ Sound(r) /\ route \in DOMAIN pol
           /\ e.val \in BOOLEAN /\ e.st \in EvalState
           /\ Moves(Named(r), Before, e.st)
           /\ ~e.st.mlErr => \A says \in Completions : e.val = Holds[r][says]
           /\ r \in Cheap => e.st = Before /\ e.val = Holds[r][turn.says]
           /\ Settled(r) => e.st = Before
<1>1. turn \in Turn /\ Before \in EvalState /\ route \in 1..(Len(pol) + 1)
  BY DEF RuleInv, RuleTypes
<1>2. Len(pol) \in Nat /\ DOMAIN pol = 1..Len(pol) /\ \A k \in 1..Len(pol) : pol[k] \in Rules
  BY RouteIs DEF RuleInv
<1>3. route \in 1..Len(pol)
  BY <1>1, <1>2
<1>4. r \in Rules /\ Sound(r)
  BY <1>2, <1>3 DEF RuleInv
<1>5. Good(r)
  BY <1>1, <1>4, AllGood
<1>6. e \in Verdicts
  BY <1>1, <1>4, EvalIs
<1>7. turn.says \in [ML -> BOOLEAN]
  BY <1>1 DEF Turn
<1>8. /\ Moves(Named(r), Before, e.st)
      /\ ~e.st.mlErr => \A says \in Completions : e.val = Holds[r][says]
      /\ r \in Cheap => /\ e.st = Before
                        /\ \A says \in [ML -> BOOLEAN] : e.val = Holds[r][says]
  BY <1>1, <1>5, GoodIs
<1>9. Settled(r) => e.st = Before
  BY <1>1, <1>4, SettledAsksNothing
<1>10. QED
  BY <1>2, <1>3, <1>4, <1>6, <1>7, <1>8, <1>9, AnswerIs

\* What depends on the request and the policy only stays.
LEMMA RequestStays ==
    ASSUME turn' = turn, pol' = pol
    PROVE  /\ Holds' = Holds /\ Completions' = Completions
           /\ \A s : Fails(s)' <=> Fails(s)
           /\ \A r : Settled(r)' <=> Settled(r)
           /\ \A st : Told(st)' <=> Told(st)
<1>1. Holds' = Holds
  BY DEF Holds
<1>2. \A s : Fails(s)' <=> Fails(s)
  BY DEF Fails
<1>3. Completions' = Completions
  BY <1>2 DEF Completions
<1>4. \A r : Settled(r)' <=> Settled(r)
  BY <1>1 DEF Settled
<1>5. QED
  BY <1>1, <1>2, <1>3, <1>4 DEF Told

\* Loading a policy accepts sound conditions only.
LEMMA LoadKeeps ==
    ASSUME RuleInv, Load
    PROVE  RuleInv'
<1>1. /\ pol' = pol /\ turn' = turn /\ route' = route /\ asked' = asked
      /\ calls' = calls /\ anyMLErr' = anyMLErr /\ outcome = "loading"
      /\ outcome' = IF \A k \in DOMAIN pol : Valid[pol[k]][1] THEN "deciding" ELSE "refused"
  BY DEF Load
<1>2. /\ Holds' = Holds /\ Completions' = Completions
      /\ \A s : Fails(s)' <=> Fails(s)
      /\ \A r : Settled(r)' <=> Settled(r)
  BY <1>1, RequestStays
<1>3. Before' = Before
  BY <1>1 DEF Before
<1>4. RuleTypes'
  BY <1>1, <1>3 DEF RuleInv, RuleTypes
<1>5. outcome' \notin {"loading", "refused"} => \A k \in DOMAIN pol' : Sound(pol'[k])
  BY <1>1 DEF Sound
<1>6. Counted(Before)' /\ Told(Before)'
  BY <1>1, <1>3 DEF RuleInv, Counted, Told
<1>7. \A k \in 1..(route' - 1) : Passed(k)'
  BY <1>1, <1>2 DEF RuleInv, Passed
<1>8. \A s \in asked' : Grounded(s)'
  BY <1>1, <1>2 DEF RuleInv, Grounded
<1>9. outcome' # "routed" /\ outcome' # "default"
  BY <1>1
<1>10. QED
  BY <1>4, <1>5, <1>6, <1>7, <1>8, <1>9 DEF RuleInv

\* Trying a route keeps what is known of those before it, and learns of this one.
LEMMA TryRouteKeeps ==
    ASSUME RuleInv, TryRoute
    PROVE  RuleInv'
<1> DEFINE r == pol[route]
           e == Eval[r][Before]
<1>1. /\ pol' = pol /\ turn' = turn /\ outcome = "deciding" /\ route <= Len(pol)
      /\ asked' = e.st.asked /\ calls' = e.st.calls /\ anyMLErr' = e.st.anyMLErr
      /\ outcome' = (IF Fires(e) THEN "routed" ELSE outcome)
      /\ route' = (IF Fires(e) THEN route ELSE route + 1)
  BY DEF TryRoute, Leave
<1>2. /\ Holds' = Holds /\ Completions' = Completions
      /\ \A s : Fails(s)' <=> Fails(s)
      /\ \A q : Settled(q)' <=> Settled(q)
  BY <1>1, RequestStays
<1>3. /\ r \in Rules /\ Sound(r) /\ route \in DOMAIN pol
      /\ e.val \in BOOLEAN /\ e.st \in EvalState
      /\ Moves(Named(r), Before, e.st)
      /\ ~e.st.mlErr => \A says \in Completions : e.val = Holds[r][says]
      /\ r \in Cheap => e.st = Before /\ e.val = Holds[r][turn.says]
      /\ Settled(r) => e.st = Before
  BY <1>1, RouteTells
<1>4. /\ Len(pol) \in Nat /\ DOMAIN pol = 1..Len(pol) /\ route \in Nat
      /\ \A k \in 1..Len(pol) : pol[k] \in Rules
  BY RouteIs DEF RuleInv
<1>5. /\ Before.asked = asked /\ Before.calls = calls
      /\ Before.mlErr = FALSE /\ Before.anyMLErr = anyMLErr
  BY BeforeIs
<1>6. r = pol[route]
  OBVIOUS
<1>7. Fires(e) <=> e.val /\ ~e.st.mlErr
  BY DEF Fires
<1> HIDE DEF r, e
<1>8. /\ Before'.asked = asked' /\ Before'.calls = calls'
      /\ Before'.mlErr = FALSE /\ Before'.anyMLErr = anyMLErr'
  BY DEF Before
<1>9. asked \subseteq asked' /\ asked' \subseteq asked \cup Named(r)
  BY <1>1, <1>3, <1>5 DEF Moves
<1>10. Before' \in EvalState
  <2>1. e.st.asked \in SUBSET Signals /\ e.st.calls \in [Signals -> Nat]
        /\ e.st.anyMLErr \in BOOLEAN
    BY <1>3, EvalStateIs
  <2> DEFINE no == FALSE
  <2>2. no \in BOOLEAN
    OBVIOUS
  <2>3. Before' = [asked |-> asked', calls |-> calls', mlErr |-> no, anyMLErr |-> anyMLErr']
    BY DEF Before
  <2> HIDE DEF no
  <2>4. QED
    BY <1>1, <2>1, <2>2, <2>3 DEF EvalState
<1>11. route' \in 1..(Len(pol) + 1) /\ route <= route'
  BY <1>1, <1>3, <1>4
<1>12. RuleTypes'
  BY <1>1, <1>10, <1>11 DEF RuleInv, RuleTypes
<1>13. outcome' \notin {"loading", "refused"} => \A k \in DOMAIN pol' : Sound(pol'[k])
  BY <1>1 DEF RuleInv
<1>14. Counted(Before)'
  <2>1. Counted(e.st)
    BY <1>3 DEF RuleInv, Moves
  <2>2. QED
    BY <1>1, <1>8, <2>1 DEF Counted
<1>15. Told(Before)'
  <2>1. Told(e.st)
    BY <1>3 DEF RuleInv, Moves
  <2>2. QED
    BY <1>1, <1>8, <2>1 DEF Told
<1>16. ASSUME NEW k \in 1..(route' - 1) PROVE Passed(k)'
  <2>1. SUFFICES /\ (\A s \in asked' : ~Fails(s)) =>
                        \A says \in Completions : ~Holds[pol[k]][says]
                 /\ pol[k] \in Cheap => ~Holds[pol[k]][turn.says]
    BY <1>1, <1>2 DEF Passed, Cheap
  <2>2. CASE k \in 1..(route - 1)
    BY <1>9, <2>2 DEF RuleInv, Passed
  <2>3. CASE k \notin 1..(route - 1)
    <3>1. k = route /\ ~Fires(e)
      BY <1>1, <1>4, <1>11, <2>3
    <3>2. pol[k] = r
      BY <1>6, <3>1
    <3>3. ASSUME \A s \in asked' : ~Fails(s)
          PROVE  \A says \in Completions : ~Holds[r][says]
      <4>1. ~e.st.mlErr
        BY <1>1, <1>3, <1>5, <3>3 DEF Moves
      <4>2. QED
        BY <1>3, <1>7, <3>1, <4>1
    <3>4. r \in Cheap => ~Holds[r][turn.says]
      BY <1>3, <1>5, <1>7, <3>1
    <3>5. QED
      BY <3>2, <3>3, <3>4
  <2>4. QED
    BY <2>2, <2>3
<1>17. outcome' = "routed" => /\ route' <= Len(pol')
                              /\ \A says \in Completions' : Holds'[pol'[route']][says]
  <2>1. SUFFICES ASSUME outcome' = "routed"
                 PROVE  /\ route' <= Len(pol)
                        /\ \A says \in Completions : Holds[pol[route']][says]
    BY <1>1, <1>2
  <2>2. Fires(e) /\ route' = route
    BY <1>1, <2>1
  <2>3. \A says \in Completions : Holds[r][says]
    BY <1>3, <1>7, <2>2
  <2>4. QED
    BY <1>1, <1>6, <2>2, <2>3
<1>18. outcome' # "default"
  BY <1>1
<1>19. ASSUME NEW s \in asked' PROVE Grounded(s)'
  <2>1. SUFFICES \E k \in DOMAIN pol : k <= route' /\ ~Settled(pol[k]) /\ s \in Named(pol[k])
    BY <1>1, <1>2 DEF Grounded
  <2>2. CASE s \in asked
    <3>1. PICK k \in DOMAIN pol : k <= route /\ ~Settled(pol[k]) /\ s \in Named(pol[k])
      BY <2>2 DEF RuleInv, Grounded
    <3>2. k <= route'
      BY <1>1, <1>4, <3>1
    <3>3. QED
      BY <3>1, <3>2
  <2>3. CASE s \notin asked
    <3>1. s \in Named(r)
      BY <1>9, <2>3
    <3>2. ~Settled(r)
      BY <1>1, <1>3, <1>5, <2>3
    <3>3. QED
      BY <1>3, <1>6, <1>11, <3>1, <3>2
  <2>4. QED
    BY <2>2, <2>3
<1>20. QED
  BY <1>12, <1>13, <1>14, <1>15, <1>16, <1>17, <1>18, <1>19 DEF RuleInv

\* The default is taken when every route was tried.
LEMMA DefaultKeeps ==
    ASSUME RuleInv, Default
    PROVE  RuleInv'
<1>1. /\ pol' = pol /\ turn' = turn /\ route' = route /\ asked' = asked
      /\ calls' = calls /\ anyMLErr' = anyMLErr /\ outcome = "deciding"
      /\ outcome' = "default" /\ route > Len(pol)
  BY DEF Default
<1>2. /\ Holds' = Holds /\ Completions' = Completions
      /\ \A s : Fails(s)' <=> Fails(s)
      /\ \A r : Settled(r)' <=> Settled(r)
  BY <1>1, RequestStays
<1>3. Before' = Before
  BY <1>1 DEF Before
<1>4. RuleTypes'
  BY <1>1, <1>3 DEF RuleInv, RuleTypes
<1>5. outcome' \notin {"loading", "refused"} => \A k \in DOMAIN pol' : Sound(pol'[k])
  BY <1>1 DEF RuleInv
<1>6. Counted(Before)' /\ Told(Before)'
  BY <1>1, <1>3 DEF RuleInv, Counted, Told
<1>7. \A k \in 1..(route' - 1) : Passed(k)'
  BY <1>1, <1>2 DEF RuleInv, Passed
<1>8. \A s \in asked' : Grounded(s)'
  BY <1>1, <1>2 DEF RuleInv, Grounded
<1>9. route' = Len(pol') + 1
  BY <1>1, RouteIs DEF RuleInv, RuleTypes
<1>10. QED
  BY <1>1, <1>4, <1>5, <1>6, <1>7, <1>8, <1>9 DEF RuleInv

\* Every step keeps the invariant.
LEMMA RuleInvStays == RuleInv /\ [RuleNext]_ruleVars => RuleInv'
<1> SUFFICES ASSUME RuleInv, [RuleNext]_ruleVars PROVE RuleInv'
  OBVIOUS
<1>1. CASE Load
  BY <1>1, LoadKeeps
<1>2. CASE TryRoute
  BY <1>2, TryRouteKeeps
<1>3. CASE Default
  BY <1>3, DefaultKeeps
<1>4. CASE UNCHANGED ruleVars
  <2>1. /\ pol' = pol /\ turn' = turn /\ route' = route /\ asked' = asked
        /\ calls' = calls /\ anyMLErr' = anyMLErr /\ outcome' = outcome
    BY <1>4 DEF ruleVars
  <2>2. /\ Holds' = Holds /\ Completions' = Completions
        /\ \A s : Fails(s)' <=> Fails(s)
        /\ \A r : Settled(r)' <=> Settled(r)
    BY <2>1, RequestStays
  <2>3. Before' = Before
    BY <2>1 DEF Before
  <2>4. RuleTypes' /\ Counted(Before)' /\ Told(Before)'
    BY <2>1, <2>3 DEF RuleInv, RuleTypes, Counted, Told
  <2>5. (\A k \in 1..(route - 1) : Passed(k)') /\ \A s \in asked : Grounded(s)'
    BY <2>1, <2>2 DEF RuleInv, Passed, Grounded
  <2>6. QED
    BY <2>1, <2>2, <2>4, <2>5 DEF RuleInv
<1>5. QED
  BY <1>1, <1>2, <1>3, <1>4 DEF RuleNext

\* So it holds throughout.
LEMMA RuleInvHolds == RuleSpec => []RuleInv
<1>1. QED
  BY RuleStarts, RuleInvStays, PTL DEF RuleSpec

\* The first of the routes that mean says, if the request took a route that does
\* and none before it does, or none does and it took the default.
LEMMA FirstMatchIs ==
    ASSUME RuleTypes, NEW says,
           \A k \in 1..(route - 1) : ~Holds[pol[k]][says],
           \/ route <= Len(pol) /\ Holds[pol[route]][says]
           \/ route = Len(pol) + 1
    PROVE  Chosen = FirstMatch(says)
<1> DEFINE ms == {k \in DOMAIN pol : Holds[pol[k]][says]}
<1>1. Len(pol) \in Nat /\ DOMAIN pol = 1..Len(pol) /\ route \in 1..(Len(pol) + 1)
  BY RouteIs DEF RuleTypes
<1>2. FirstMatch(says) = IF ms = {} THEN Len(pol) + 1
                         ELSE CHOOSE k \in ms : \A j \in ms : k <= j
  BY DEF FirstMatch
<1>3. CASE route <= Len(pol) /\ Holds[pol[route]][says]
  <2>1. route \in ms
    BY <1>1, <1>3
  <2>2. \A j \in ms : route <= j
    BY <1>1
  <2>3. ms \subseteq Nat
    BY <1>1
  <2> HIDE DEF ms
  <2>4. PICK k \in ms : \A j \in ms : k <= j
    BY <2>1, <2>2
  <2>5. ASSUME NEW k1 \in ms, \A j \in ms : k1 <= j PROVE k1 = route
    <3>1. k1 <= route /\ route <= k1
      BY <2>1, <2>2, <2>5
    <3>2. k1 \in Nat /\ route \in Nat
      BY <2>1, <2>3
    <3>3. QED
      BY <3>1, <3>2
  <2>6. (CHOOSE k1 \in ms : \A j \in ms : k1 <= j) = route
    BY <2>1, <2>2, <2>5
  <2>7. QED
    BY <1>2, <2>1, <2>6 DEF Chosen
<1>4. CASE route = Len(pol) + 1
  <2>1. ms = {}
    BY <1>1, <1>4
  <2>2. QED
    BY <1>2, <1>4, <2>1 DEF Chosen
<1>5. QED
  BY <1>3, <1>4

\* First match wins: engine.go's waterfall, with its evaluation order, its short
\* circuits and its memo, takes the first route whose condition plainly holds, as
\* long as no signal it consulted failed.
THEOREM FirstMatchWinsHolds == RuleSpec => []FirstMatchWins
<1>1. RuleInv => FirstMatchWins
  <2>1. SUFFICES ASSUME RuleInv, Concluded, \A s \in asked : ~Fails(s),
                        NEW says \in Completions
                 PROVE  Chosen = FirstMatch(says)
    BY DEF FirstMatchWins
  <2>2. \A k \in 1..(route - 1) : ~Holds[pol[k]][says]
    BY <2>1 DEF RuleInv, Passed
  <2>3. \/ route <= Len(pol) /\ Holds[pol[route]][says]
        \/ route = Len(pol) + 1
    BY <2>1 DEF RuleInv, Concluded
  <2>4. RuleTypes
    BY <2>1 DEF RuleInv
  <2>5. QED
    BY <2>2, <2>3, <2>4, FirstMatchIs
<1>2. QED
  BY <1>1, RuleInvHolds, PTL

\* A failed signal never makes a route fire and never hides a route that needs
\* none, and a degradation is reported exactly when there was one (engine.go's
\* mlErr veto and anyMLErr).
THEOREM FiresDefinitelyHolds == RuleSpec => []FiresDefinitely
<1>1. RuleInv => FiresDefinitely
  <2> SUFFICES ASSUME RuleInv PROVE FiresDefinitely
    OBVIOUS
  <2>1. outcome = "routed" => \A says \in Completions : Holds[pol[route]][says]
    BY DEF RuleInv
  <2>2. ASSUME Concluded, NEW k \in DOMAIN pol, ~UsesML(pol[k]), Holds[pol[k]][turn.says]
        PROVE  Chosen <= k
    <3>1. /\ Len(pol) \in Nat /\ DOMAIN pol = 1..Len(pol) /\ route \in Nat
          /\ \A j \in 1..Len(pol) : pol[j] \in Rules
      BY RouteIs DEF RuleInv
    <3>2. pol[k] \in Cheap
      BY <2>2, <3>1 DEF Cheap
    <3>3. k \notin 1..(route - 1)
      BY <2>2, <3>2 DEF RuleInv, Passed
    <3>4. QED
      BY <2>2, <3>1, <3>3 DEF Chosen
  <2>3. anyMLErr <=> turn.smart /\ asked \cap turn.down # {}
    BY BeforeIs DEF RuleInv, Told
  <2>4. QED
    BY <2>1, <2>2, <2>3 DEF FiresDefinitely
<1>2. QED
  BY <1>1, RuleInvHolds, PTL

\* A signal is computed at most once per request, and only for a route that was
\* reached, names it and was not decided by a heuristic child (engine.go's memo
\* and evalGroup's order).
THEOREM AskedSparinglyHolds == RuleSpec => []AskedSparingly
<1>1. RuleInv => AskedSparingly
  <2>1. SUFFICES ASSUME RuleInv, NEW s \in asked
                 PROVE  /\ calls[s] <= 1
                        /\ \E k \in DOMAIN pol :
                              /\ k <= route
                              /\ ~Settled(pol[k])
                              /\ \E l \in LeavesOf[pol[k]] \cap ML : Signal[l] = s
    BY DEF AskedSparingly
  <2>2. s \in Signals
    BY <2>1, BeforeIs, EvalStateIs DEF RuleInv, RuleTypes
  <2>3. calls[s] = 1
    BY <2>1, <2>2, BeforeIs DEF RuleInv, Counted
  <2>4. PICK k \in DOMAIN pol : k <= route /\ ~Settled(pol[k]) /\ s \in Named(pol[k])
    BY <2>1 DEF RuleInv, Grounded
  <2>5. \E l \in LeavesOf[pol[k]] \cap ML : Signal[l] = s
    BY <2>4 DEF Named
  <2>6. QED
    BY <2>3, <2>4, <2>5
<1>2. QED
  BY <1>1, RuleInvHolds, PTL
=============================================================================
