-------------------------- MODULE HookDaemonProofs --------------------------
(***************************************************************************)
(* Proofs about HookDaemon for any texts, kinds of lines, limits, answers  *)
(* of the model, aliases and tool calls.                                   *)
(*   1. Nothing grows, and the reply is honest.  What the layers compute   *)
(*      does not matter here: it is the work of the two guards, the        *)
(*      pipeline's and the one on the hint, and of the order of the        *)
(*      stages, which keeps what they compared in place until the reply.   *)
(*   2. What the log compressor keeps, drops and tells.  Its loops over    *)
(*      texts and lines are folds; FoldTheorems makes them sequences of    *)
(*      accumulators, about which one proves by counting up.               *)
(*   3. Tables.  Building, flattening and factoring each keep what a row   *)
(*      tells; the renderings keep its cells, and the decoder gathers them *)
(*      again.                                                             *)
(*   4. Documents.  The lines that are segmented are tagged as they are in *)
(*      the document; what is masked is what was segmented, and of it the  *)
(*      model sees the prose and nothing else.  What was taken out is put  *)
(*      back where it was.                                                 *)
(***************************************************************************)
EXTENDS HookDaemon, FoldTheorems

\* What was extracted is what goes through the pipeline.
InputOK ==
    /\ in = [text |-> in.text, nature |-> call.nature, klass |-> call.klass,
             table |-> call.table]
    /\ at \in Stages \ {"idle", "over"} => in.text = HookText(call)

\* Nothing is decided before the call was read.
FreshOK == at = "idle" => outcome = NoOutcome /\ final = NoFinal

Event == [strategy |-> done, digits |-> final.digits,
          in |-> Tokens(in.text), out |-> Tokens(final.text)]

\* One event is written, before the reply, if the log can be.
LogOK ==
    /\ at \in Stages \ {"recorded", "over"} => log = <<>>
    /\ at = "recorded" => log \in {<<>>, <<Event>>}

\* A reply puts a smaller text in the place of the one that was extracted, and
\* the event log holds this reduction, if it could be written, and nothing else.
ReplyInPlace ==
    /\ at # "over" => reply = NoReply
    /\ reply # NoReply =>
          /\ in.text = HookText(call)
          /\ reply = Rebuilt(call.response, final.text)
          /\ Smaller(final.text, in.text)
          /\ log \in {<<>>, <<Event>>}

\* The inductive invariant.
IInv == at \in Stages /\ InputOK /\ FreshOK /\ LogOK /\ NeverLonger /\ ReplyInPlace

\* No call has been read yet.
LEMMA InitHolds == Init => IInv
<1> SUFFICES ASSUME Init PROVE IInv
  OBVIOUS
<1>1. at = "idle" /\ outcome = NoOutcome /\ final = NoFinal /\ reply = NoReply
  BY DEF Init
<1>2. InputOK /\ FreshOK /\ LogOK
  BY <1>1 DEF Init, InputOK, FreshOK, LogOK, Stages
<1>3. NeverLonger /\ ReplyInPlace
  BY <1>1 DEF NeverLonger, ReplyInPlace, NoOutcome, NoFinal
<1> QED
  BY <1>1, <1>2, <1>3 DEF IInv, Stages

\* A step inside the pipeline: it leaves the call and the hook alone, and
\* either goes on or has an outcome that passed the guard.
Working == {"gate", "chain", "model"}

InPipeline ==
    /\ at \in Working
    /\ UNCHANGED <<in, hookVars>>
    /\ \/ at' \in Working /\ UNCHANGED outcome
       \/ at' = "out" /\ outcome'.action = "skipped" /\ outcome'.output = in.text
       \/ at' = "out" /\ outcome'.action = "compressed"
          /\ Smaller(outcome'.output, in.text)

\* A skipped text is given back as it came.
LEMMA SkipEnds ==
    ASSUME NEW reason, Skip(reason)
    PROVE  /\ UNCHANGED in
           /\ at' = "out" /\ outcome'.action = "skipped" /\ outcome'.output = in.text
BY DEF Skip

\* A layer that ran decides nothing yet.
LEMMA ProducedGoesOn ==
    ASSUME NEW out, Produced(out)
    PROVE  UNCHANGED <<in, outcome>> /\ at' = "chain"
BY DEF Produced

\* Every step of the pipeline is of that kind.
LEMMA PipelineStep == Compress => InPipeline
<1> SUFFICES ASSUME Compress PROVE InPipeline
  OBVIOUS
<1>h. UNCHANGED hookVars
  BY DEF Compress
<1>1. CASE Gate
  BY <1>1, <1>h, SkipEnds DEF Gate, InPipeline, Working
<1>2. CASE Transform
  BY <1>2, <1>h, ProducedGoesOn DEF Transform, AtLayer, InPipeline, Working
<1>3. CASE CrushJSON
  BY <1>3, <1>h, ProducedGoesOn DEF CrushJSON, AtLayer, InPipeline, Working
<1>4. CASE Collide
  BY <1>4, <1>h, SkipEnds DEF Collide, AtLayer, InPipeline, Working
<1>5. CASE AskModel
  BY <1>5, <1>h DEF AskModel, AtLayer, InPipeline, Working
<1>6. CASE ModelAnswers
  <2>1. at = "model"
    BY <1>6 DEF ModelAnswers
  <2>2. (\E out : Produced(out)) \/ (\E reason : Skip(reason))
    BY <1>6 DEF ModelAnswers
  <2> QED
    BY <2>1, <2>2, <1>h, SkipEnds, ProducedGoesOn DEF InPipeline, Working
<1>7. CASE ModelFails
  BY <1>7, <1>h, SkipEnds DEF ModelFails, InPipeline, Working
<1>8. CASE Panic
  BY <1>8, <1>h, SkipEnds DEF Panic, InPipeline, Working
<1>9. CASE Guard
  <2>1. at = "chain"
    BY <1>9 DEF Guard
  <2>2. \/ \E reason : Skip(reason)
        \/ /\ Smaller(cur, in.text) /\ at' = "out" /\ UNCHANGED in
           /\ outcome' = [action |-> "compressed", reason |-> "", output |-> cur]
    BY <1>9 DEF Guard
  <2>3. CASE \E reason : Skip(reason)
    BY <2>1, <2>3, <1>h, SkipEnds DEF InPipeline, Working
  <2>4. CASE /\ Smaller(cur, in.text) /\ at' = "out" /\ UNCHANGED in
             /\ outcome' = [action |-> "compressed", reason |-> "", output |-> cur]
    BY <2>1, <2>4, <1>h DEF InPipeline, Working
  <2> QED
    BY <2>2, <2>3, <2>4
<1> QED
  BY <1>1, <1>2, <1>3, <1>4, <1>5, <1>6, <1>7, <1>8, <1>9
  DEF Compress, PipelineNext

\* The text that is kept, with the hint or without, passed a comparison.
LEMMA ReplacementFits ==
    ASSUME NEW text, NEW output, NEW digits, NEW hint \in BOOLEAN,
           Smaller(output, text)
    PROVE  LET r == Replacement(text, output, digits, hint)
           IN  /\ Smaller(r.text, text)
               /\ r.digits # 0 => hint
BY DEF Replacement

\* Whoever gives up leaves everything as it is.
LEMMA LeaveKeeps == IInv /\ at # "over" /\ Leave => IInv'
<1> SUFFICES ASSUME IInv, at # "over", Leave PROVE IInv'
  OBVIOUS
<1>1. at' = "over" /\ reply = NoReply /\ UNCHANGED <<in, done, outcome, hookVars>>
  BY DEF Leave, IInv, ReplyInPlace
<1>2. UNCHANGED <<call, final, stored, log, reply>>
  BY <1>1 DEF hookVars
<1>3. InputOK' /\ FreshOK' /\ LogOK'
  BY <1>1, <1>2 DEF IInv, InputOK, FreshOK, LogOK
<1>4. NeverLonger' /\ ReplyInPlace'
  BY <1>1, <1>2 DEF IInv, NeverLonger, ReplyInPlace
<1> QED
  BY <1>1, <1>3, <1>4 DEF IInv, Stages

\* Every step keeps the invariant.
LEMMA NextKeeps == IInv /\ [Next]_vars => IInv'
<1> SUFFICES ASSUME IInv, [Next]_vars PROVE IInv'
  OBVIOUS
<1> USE DEF IInv
<1>1. CASE Receive
  <2>1. /\ at = "idle" /\ at' = "gate"
        /\ in' = [in EXCEPT !.text = HookText(call)]
        /\ UNCHANGED <<outcome, call, final, stored, log, reply>>
    BY <1>1 DEF Receive, hookVars
  <2>2. /\ in'.text = HookText(call)
        /\ in' = [text |-> in'.text, nature |-> call.nature,
                  klass |-> call.klass, table |-> call.table]
    BY <2>1 DEF InputOK
  <2>3. outcome = NoOutcome /\ final = NoFinal /\ log = <<>> /\ reply = NoReply
    BY <2>1 DEF FreshOK, LogOK, ReplyInPlace, Stages
  <2>4. InputOK'
    BY <2>1, <2>2 DEF InputOK
  <2>5. FreshOK' /\ LogOK'
    BY <2>1, <2>3 DEF FreshOK, LogOK
  <2>6. NeverLonger'
    BY <2>1, <2>3 DEF NeverLonger, NoOutcome, NoFinal
  <2>7. ReplyInPlace'
    BY <2>1, <2>3 DEF ReplyInPlace
  <2> QED
    BY <2>1, <2>4, <2>5, <2>6, <2>7 DEF Stages
<1>2. CASE Decline
  BY <1>2, LeaveKeeps DEF Decline
<1>3. CASE Compress
  <2>1. InPipeline
    BY <1>3, PipelineStep
  <2>2. /\ at \in Working /\ at' \in Working \cup {"out"}
        /\ UNCHANGED <<in, call, final, stored, log, reply>>
    BY <2>1 DEF InPipeline, hookVars
  <2>3. reply = NoReply /\ log = <<>>
    BY <2>2 DEF ReplyInPlace, LogOK, Working, Stages
  <2>4. InputOK'
    BY <2>2 DEF InputOK, Working, Stages
  <2>5. FreshOK' /\ LogOK' /\ ReplyInPlace'
    BY <2>2, <2>3 DEF FreshOK, LogOK, ReplyInPlace, Working
  <2>6. NeverLonger'
    BY <2>1, <2>2 DEF InPipeline, NeverLonger, Working
  <2> QED
    BY <2>2, <2>4, <2>5, <2>6 DEF Working, Stages
<1>4. CASE Skipped
  BY <1>4, LeaveKeeps DEF Skipped
<1>5. CASE Finalize
  <2>1. /\ at = "out" /\ outcome.action = "compressed" /\ at' = "final"
        /\ UNCHANGED <<in, outcome, call, log, reply>>
    BY <1>5 DEF Finalize
  <2>2. PICK hint \in BOOLEAN : \E digits \in AliasDigits :
           /\ stored' = IF hint THEN in.text ELSE stored
           /\ final' = Replacement(in.text, outcome.output, digits, hint)
    BY <1>5 DEF Finalize
  <2>3. Smaller(outcome.output, in.text)
    BY <2>1 DEF NeverLonger
  <2>4. Smaller(final'.text, in.text) /\ (final'.digits # 0 => stored' = in.text)
    BY <2>2, <2>3, ReplacementFits
  <2>5. reply = NoReply /\ log = <<>>
    BY <2>1 DEF ReplyInPlace, LogOK, Stages
  <2>6. InputOK'
    BY <2>1 DEF InputOK, Stages
  <2>7. FreshOK' /\ LogOK' /\ ReplyInPlace'
    BY <2>1, <2>5 DEF FreshOK, LogOK, ReplyInPlace
  <2>8. NeverLonger'
    BY <2>1, <2>4 DEF NeverLonger
  <2> QED
    BY <2>1, <2>6, <2>7, <2>8 DEF Stages
<1>6. CASE Fetch
  <2>1. /\ at = "out" /\ outcome.action = "compressed" /\ at' = "final"
        /\ final' = [text |-> outcome.output, digits |-> 0]
        /\ UNCHANGED <<in, outcome, call, stored, log, reply>>
    BY <1>6 DEF Fetch
  <2>2. reply = NoReply /\ log = <<>>
    BY <2>1 DEF ReplyInPlace, LogOK, Stages
  <2>3. InputOK'
    BY <2>1 DEF InputOK, Stages
  <2>4. FreshOK' /\ LogOK' /\ ReplyInPlace'
    BY <2>1, <2>2 DEF FreshOK, LogOK, ReplyInPlace
  <2>5. NeverLonger'
    BY <2>1 DEF NeverLonger
  <2> QED
    BY <2>1, <2>3, <2>4, <2>5 DEF Stages
<1>7. CASE Record
  <2>1. /\ at = "final" /\ at' = "recorded" /\ log' \in {log, Append(log, Event)}
        /\ UNCHANGED <<in, outcome, call, final, stored, reply, done>>
    BY <1>7 DEF Record, Event
  <2>2. reply = NoReply /\ log = <<>>
    BY <2>1 DEF ReplyInPlace, LogOK, Stages
  <2>3. log' \in {<<>>, <<Event>>} /\ Event' = Event
    BY <2>1, <2>2 DEF Event
  <2>4. InputOK'
    BY <2>1 DEF InputOK, Stages
  <2>5. FreshOK' /\ LogOK' /\ ReplyInPlace'
    BY <2>1, <2>2, <2>3 DEF FreshOK, LogOK, ReplyInPlace
  <2>6. NeverLonger'
    BY <2>1 DEF NeverLonger
  <2> QED
    BY <2>1, <2>4, <2>5, <2>6 DEF Stages
<1>8. CASE Reply
  <2>1. /\ at = "recorded" /\ at' = "over"
        /\ reply' = Rebuilt(call.response, final.text)
        /\ UNCHANGED <<in, outcome, call, final, stored, log, done>>
    BY <1>8 DEF Reply
  <2>2. /\ log \in {<<>>, <<Event>>} /\ Event' = Event
        /\ Smaller(final.text, in.text)
        /\ in.text = HookText(call)
    BY <2>1 DEF LogOK, Event, NeverLonger, InputOK, Stages
  <2>3. InputOK'
    BY <2>1 DEF InputOK
  <2>4. FreshOK' /\ LogOK' /\ NeverLonger'
    BY <2>1 DEF FreshOK, LogOK, NeverLonger
  <2>5. ReplyInPlace'
    BY <2>1, <2>2 DEF ReplyInPlace
  <2> QED
    BY <2>1, <2>3, <2>4, <2>5 DEF Stages
<1>9. CASE Die
  BY <1>9, LeaveKeeps DEF Die
<1>10. CASE UNCHANGED vars
  BY <1>10 DEF vars, pipelineVars, hookVars, InputOK, FreshOK, LogOK, Event,
     NeverLonger, ReplyInPlace
<1> QED
  BY <1>1, <1>2, <1>3, <1>4, <1>5, <1>6, <1>7, <1>8, <1>9, <1>10 DEF Next

\* The invariant holds at all times.
LEMMA InvariantHolds == Spec => []IInv
BY InitHolds, NextKeeps, PTL DEF Spec

\* What leaves the pipeline compressed, and what replaces the original with or
\* without its hint, is smaller on both axes; what is skipped is the original
\* (pipeline.go:195-218, hook.go:128-158).
THEOREM NothingGrows == Spec => []NeverLonger
<1>1. IInv => NeverLonger
  BY DEF IInv
<1> QED
  BY <1>1, InvariantHolds, PTL

\* Claude Code is only ever told to use a smaller text in the place of the one
\* that was extracted from this very response, and the event log holds this
\* reduction and nothing else, or nothing if it could not be written, whatever
\* fails or dies on the way (hook.go:34-81, 111-119).
THEOREM RepliesInPlace == Spec => []ReplyInPlace
<1>1. IInv => ReplyInPlace
  BY DEF IInv
<1> QED
  BY <1>1, InvariantHolds, PTL

\* The text that is told, and its alias, are what Replacement made of what came
\* out of the pipeline; an alias was spent on the original of a lossy result.
Told ==
    \/ final.digits = 0 /\ final.text = outcome.output
    \/ /\ final.digits \in AliasDigits /\ final.digits # 0
       /\ final.text = Hinted(outcome.output, final.digits)
       /\ stored = in.text /\ Lossy(done)

ToldOK ==
    /\ call \in Calls
    /\ at \in {"final", "recorded"} \/ reply # NoReply => Told

\* From the hint's guard to the reply nothing touches what is told.
LEMMA ToldStep == IInv /\ ToldOK /\ [Next]_vars => ToldOK'
<1> SUFFICES ASSUME IInv, ToldOK, [Next]_vars PROVE ToldOK'
  OBVIOUS
<1>1. at # "over" => reply = NoReply
  BY DEF IInv, ReplyInPlace
<1>2. ASSUME at # "over", Leave PROVE ToldOK'
  BY <1>1, <1>2 DEF Leave, hookVars, ToldOK
<1>3. CASE Receive
  BY <1>1, <1>3 DEF Receive, hookVars, ToldOK
<1>4. CASE Compress
  <2>1. at \in Working /\ at' \in Working \cup {"out"} /\ UNCHANGED <<call, reply>>
    BY <1>4, PipelineStep DEF InPipeline, hookVars
  <2>2. QED
    BY <1>1, <2>1 DEF ToldOK, Working
<1>5. CASE Finalize
  <2>1. /\ at' = "final" /\ UNCHANGED <<in, done, outcome, call>>
    BY <1>5 DEF Finalize
  <2>2. PICK hint \in BOOLEAN, digits \in AliasDigits :
           /\ hint => Lossy(done)
           /\ stored' = IF hint THEN in.text ELSE stored
           /\ final' = Replacement(in.text, outcome.output, digits, hint)
    BY <1>5 DEF Finalize
  <2>3. digits # 0
    BY HookAssumption
  <2>4. Lossy(done)' = Lossy(done)
    BY <2>1
  <2>5. CASE hint /\ Smaller(Hinted(outcome.output, digits), in.text)
    <3>1. final' = [text |-> Hinted(outcome.output, digits), digits |-> digits]
      BY <2>2, <2>5 DEF Replacement
    <3>2. /\ final'.digits = digits /\ final'.digits \in AliasDigits
          /\ final'.text = Hinted(outcome'.output, digits)
      BY <2>1, <3>1
    <3>3. stored' = in'.text /\ Lossy(done)'
      BY <2>1, <2>2, <2>4, <2>5
    <3>4. Told'
      BY <2>3, <3>2, <3>3 DEF Told
    <3>5. QED
      BY <2>1, <3>4 DEF ToldOK
  <2>6. CASE ~(hint /\ Smaller(Hinted(outcome.output, digits), in.text))
    <3>1. final' = [text |-> outcome.output, digits |-> 0]
      BY <2>2, <2>6 DEF Replacement
    <3>2. QED
      BY <2>1, <3>1 DEF ToldOK, Told
  <2>7. QED
    BY <2>5, <2>6
<1>6. CASE Fetch
  BY <1>6 DEF Fetch, ToldOK, Told
<1>7. CASE Record
  BY <1>7 DEF Record, ToldOK, Told
<1>8. CASE Reply
  BY <1>8 DEF Reply, ToldOK, Told
<1>9. CASE UNCHANGED vars
  BY <1>9 DEF vars, pipelineVars, hookVars, ToldOK, Told
<1>10. QED
  BY <1>2, <1>3, <1>4, <1>5, <1>6, <1>7, <1>8, <1>9
  DEF Next, Decline, Skipped, Die

\* The field a text was taken from is one of the response's.
LEMMA CarrierHolds ==
    ASSUME NEW response, Carriers(response) # {}
    PROVE  Carrier(response) \in DOMAIN response.fields
<1> DEFINE T == Carriers(response)
<1>1. T \in SUBSET (1..5) /\ T # {}
  BY DEF Carriers, Fields
<1>2. \A i \in T : Fields[i] \in DOMAIN response.fields
  BY DEF Carriers
<1> HIDE DEF T
<1>3. PICK n \in T : \A m \in T : n <= m
  BY <1>1, SmallestNat
<1>4. Min(T) \in T
  BY <1>3 DEF Min
<1>5. QED
  BY <1>2, <1>4 DEF Carrier, T

\* Whatever the tool's response looks like and whatever the layers, the model
\* and the store did, a reply has the response's shape and differs from it in
\* the one field the text came from; it shows what left the pipeline, or that
\* and one hint if something was lost and the alias it names stands for the
\* original; it is smaller on both axes, and the log has one event at most,
\* with the numbers of this very text, hint included: it may be that the log
\* could not be opened or written (hook.go:66-158, toolresponse.go:55-102).
THEOREM RepliesHonest == Spec => []ReplyHonest
<1>1. Init => ToldOK
  BY DEF Init, ToldOK
<1>2. ASSUME IInv, ToldOK, reply # NoReply PROVE ReplyHonest
  <2> DEFINE text == final.text
             response == call.response
  <2>1. /\ in.text = HookText(call)
        /\ reply = Rebuilt(response, text)
        /\ Smaller(text, in.text)
        /\ log \in {<<>>, <<[strategy |-> done, digits |-> final.digits,
                              in |-> Tokens(in.text), out |-> Tokens(text)]>>}
    BY <1>2 DEF IInv, ReplyInPlace, Event
  <2>2. final.digits \in AliasDigits \cup {0}
    BY <1>2 DEF ToldOK, Told
  <2>3. Told
    BY <1>2 DEF ToldOK
  <2>4. \E f \in DOMAIN reply.fields :
           /\ reply.fields[f] = text
           /\ \/ f = "itself" /\ reply.shape = "string" /\ call.legacy = in.text
              \/ /\ reply = [response EXCEPT !.fields[f] = text]
                 /\ response.fields[f] = in.text
    <3>1. CASE Carriers(response) = {}
      <4>1. /\ reply = [shape |-> "string", fields |-> [itself |-> text]]
            /\ call.legacy = in.text
        BY <2>1, <3>1 DEF Rebuilt, HookText
      <4>2. /\ "itself" \in DOMAIN reply.fields /\ reply.fields["itself"] = text
            /\ reply.shape = "string"
        BY <4>1
      <4>3. QED
        BY <4>1, <4>2
    <3>2. CASE Carriers(response) # {}
      <4> DEFINE f == Carrier(response)
      <4>1. f \in DOMAIN response.fields
        BY <3>2, CarrierHolds
      <4>2. /\ reply = [response EXCEPT !.fields[f] = text]
            /\ response.fields[f] = in.text
        BY <2>1, <3>2 DEF Rebuilt, HookText
      <4>3. /\ response = [shape |-> response.shape, fields |-> response.fields]
            /\ response.fields = [g \in DOMAIN response.fields |-> response.fields[g]]
        BY <1>2, HookAssumption DEF ToldOK
      <4> HIDE DEF f, text, response
      <4>4. reply.fields = [response.fields EXCEPT ![f] = text]
        BY <4>2, <4>3
      <4>5. f \in DOMAIN reply.fields /\ reply.fields[f] = text
        BY <4>1, <4>3, <4>4
      <4>6. QED
        BY <4>2, <4>5
    <3>3. QED
      BY <3>1, <3>2
  <2> HIDE DEF text
  <2>5. QED
    BY <2>1, <2>2, <2>3, <2>4, ZenonT(60) DEF ReplyHonest, Told, text
<1>3. IInv /\ ToldOK => ReplyHonest
  BY <1>2 DEF ReplyHonest
<1>4. QED
  BY <1>1, <1>3, ToldStep, InvariantHolds, PTL DEF Spec

(***************************************************************************)
(* The loops of the log compressor.                                        *)
(***************************************************************************)

\* Spaces and one more item at the end of a text.
LEMMA OneMore ==
    ASSUME NEW S, NEW out \in Seq(S), NEW gap \in Seq(S), NEW x \in S,
           WordsDiffer(out), \A i \in DOMAIN gap : ~IsWord(gap[i]),
           IsWord(x) => \A i \in DOMAIN out : out[i] # x
    PROVE  /\ Append(out \o gap, x) \in Seq(S)
           /\ WordsDiffer(Append(out \o gap, x))
           /\ \A i \in DOMAIN Append(out \o gap, x) :
                  IsWord(Append(out \o gap, x)[i]) =>
                      \/ Append(out \o gap, x)[i] = x
                      \/ \E j \in DOMAIN out : Append(out \o gap, x)[i] = out[j]
<1> DEFINE r == Append(out \o gap, x)
           n == Len(out)
           m == Len(gap)
<1>1. n \in Nat /\ m \in Nat /\ DOMAIN out = 1..n /\ DOMAIN gap = 1..m
  BY LenProperties
<1>2. /\ out \o gap \in Seq(S) /\ Len(out \o gap) = n + m
      /\ \A i \in 1..(n + m) : (out \o gap)[i] = IF i <= n THEN out[i] ELSE gap[i - n]
  BY ConcatProperties
<1>3. /\ r \in Seq(S) /\ Len(r) = n + m + 1 /\ r[n + m + 1] = x
      /\ \A i \in 1..(n + m) : r[i] = (out \o gap)[i]
  BY <1>2, AppendProperties
<1>4. DOMAIN r = 1..(n + m + 1)
  BY <1>3, LenProperties
<1> HIDE DEF r, n, m
<1>5. ASSUME NEW i \in DOMAIN r, IsWord(r[i])
      PROVE  (i \in 1..n /\ r[i] = out[i]) \/ (i = n + m + 1 /\ r[i] = x)
  <2>1. CASE i \in 1..n
    <3>1. i \in 1..(n + m) /\ i <= n
      BY <1>1, <2>1
    <3>2. r[i] = (out \o gap)[i] /\ (out \o gap)[i] = out[i]
      BY <1>2, <1>3, <3>1
    <3>3. QED
      BY <2>1, <3>2
  <2>2. CASE i \in (n + 1)..(n + m)
    <3>1. i - n \in DOMAIN gap /\ ~(i <= n) /\ i \in 1..(n + m)
      BY <1>1, <2>2
    <3>2. r[i] = gap[i - n]
      BY <1>2, <1>3, <3>1
    <3>3. QED
      BY <1>5, <3>1, <3>2
  <2>3. QED
    BY <1>1, <1>3, <1>4, <2>1, <2>2
<1>6. WordsDiffer(r)
  <2> SUFFICES ASSUME NEW i \in DOMAIN r, NEW j \in DOMAIN r, IsWord(r[i]), r[i] = r[j]
               PROVE  i = j
    BY DEF WordsDiffer
  <2>1. IsWord(r[j])
    OBVIOUS
  <2>2. QED
    BY <1>1, <1>5, <2>1 DEF WordsDiffer
<1>7. QED
  BY <1>1, <1>3, <1>5, <1>6 DEF r

\* CollapseBlankRuns, item by item: `run` is the white space in question.
RunStep(acc, x) ==
    IF x = Newline \/ (x = Indent /\ acc.run # <<>>)
    THEN [acc EXCEPT !.run = Append(@, x)]
    ELSE [out |-> Append(acc.out \o Collapsed(acc.run), x), run |-> <<>>]
Runs(S) == [out : Seq(S), run : Seq(S \cap {Newline, Indent})]
RunF(S) == [acc \in Runs(S) |-> [x \in S |-> RunStep(acc, x)]]

\* What one item does: it joins the white space, or ends it.
LEMMA RunStepIs ==
    ASSUME NEW S, Newline \in S, NEW acc \in Runs(S), NEW x \in S
    PROVE  /\ RunStep(acc, x) \in Runs(S)
           /\ acc.out \in Seq(S) /\ acc.run \in Seq(S \cap {Newline, Indent})
           /\ Collapsed(acc.run) \in Seq(S \cap {Newline, Indent})
           /\ \/ RunStep(acc, x).out = acc.out /\ ~IsWord(x)
              \/ RunStep(acc, x).out = Append(acc.out \o Collapsed(acc.run), x)
<1> DEFINE W == S \cap {Newline, Indent}
           c == Collapsed(acc.run)
           u == Append(acc.out \o c, x)
<1>1. acc.out \in Seq(S) /\ acc.run \in Seq(W)
  BY DEF Runs
<1>2. c \in Seq(W)
  <2>1. <<Newline, Newline>> \in Seq(W)
    OBVIOUS
  <2> HIDE DEF W
  <2>2. QED
    BY <1>1, <2>1 DEF Collapsed
<1>3. CASE x = Newline \/ (x = Indent /\ acc.run # <<>>)
  <2>1. x \in W /\ ~IsWord(x)
    BY <1>3 DEF IsWord, Newline, Indent, Item
  <2> HIDE DEF W
  <2>2. Append(acc.run, x) \in Seq(W)
    BY <1>1, <2>1, AppendProperties
  <2>3. [acc EXCEPT !.run = Append(@, x)] \in Runs(S)
        /\ [acc EXCEPT !.run = Append(@, x)].out = acc.out
    BY <2>2 DEF Runs, W
  <2>4. QED
    BY <1>1, <1>2, <1>3, <2>1, <2>3 DEF RunStep, W
<1>4. CASE ~(x = Newline \/ (x = Indent /\ acc.run # <<>>))
  <2>1. c \in Seq(S)
    <3>1. W \in SUBSET S
      OBVIOUS
    <3>2. QED
      BY <1>2, <3>1, SeqMonotonic
  <2>2. u \in Seq(S)
    BY <1>1, <2>1, ConcatProperties, AppendProperties
  <2>3. RunStep(acc, x) = [out |-> u, run |-> <<>>]
    BY <1>4 DEF RunStep
  <2>4. <<>> \in Seq(W)
    BY EmptySeq
  <2> HIDE DEF W, c, u
  <2>5. RunStep(acc, x).out = u /\ RunStep(acc, x) \in Runs(S)
    BY <2>2, <2>3, <2>4 DEF Runs, W
  <2>6. QED
    BY <1>1, <1>2, <2>5 DEF W, u, c
<1>5. QED
  BY <1>3, <1>4

\* CollapseBlankRuns is that loop, with the last white space added.
LEMMA CollapseLoop ==
    ASSUME NEW S, Newline \in S, NEW text \in Seq(S)
    PROVE  \E acc \in [0..Len(text) -> Runs(S)] :
               /\ acc[0] = [out |-> <<>>, run |-> <<>>]
               /\ \A i \in 1..Len(text) : acc[i] = RunStep(acc[i - 1], text[i])
               /\ CollapseBlankRuns(text) = acc[Len(text)].out \o Collapsed(acc[Len(text)].run)
<1> DEFINE D == DOMAIN text
           base == [out |-> <<>>, run |-> <<>>]
           E(h) == [t \in SUBSET D |->
                       IF t = {} THEN base
                       ELSE RunStep(h[t \ {Max(t)}], text[Max(t)])]
           it == CHOOSE h : h = E(h)
<1>1. Stays(RunF(S), Runs(S), S) /\ base \in Runs(S)
  <2>1. base \in Runs(S)
    BY EmptySeq DEF Runs
  <2>2. QED
    BY <2>1, RunStepIs DEF Stays, RunF
<1>2. Len(text) \in Nat /\ D = 1..Len(text) /\ \A i \in D : text[i] \in S
  BY LenProperties, ElementOfSeq
<1>3. \A t \in SUBSET D : t # {} => Max(t) \in D
  BY <1>2, LastPosition
<1> HIDE DEF base
<1>4. PICK h \in [SUBSET D -> Runs(S)] : Lefts(h, RunF(S), base, text)
  BY <1>1, LeftsExist
<1>5. ASSUME NEW t \in SUBSET D
      PROVE  h[t] = IF t = {} THEN base
                    ELSE RunStep(h[t \ {Max(t)}], text[Max(t)])
  <2>1. h[t] = IF t = {} THEN base ELSE RunF(S)[h[t \ {Max(t)}]][text[Max(t)]]
    BY <1>4 DEF Lefts
  <2>2. QED
    BY <1>2, <1>3, <2>1 DEF RunF
<1>6. it = E(it)
  <2>1. h = E(h)
    BY <1>5
  <2> HIDE DEF E
  <2>2. QED
    BY <2>1
<1>7. CollapseBlankRuns(text) = it[D].out \o Collapsed(it[D].run)
  BY DEF CollapseBlankRuns, FoldLeft, MapThenFoldSet, RunStep, base
<1> HIDE DEF it
<1>8. \A t \in SUBSET D : it[t] = IF t = {} THEN base
                                 ELSE RunStep(it[t \ {Max(t)}], text[Max(t)])
  BY <1>6
<1>9. GoesOn(it, RunF(S), Runs(S), base, text)
  BY <1>2, <1>3, <1>8 DEF GoesOn, RunF
<1>10. PICK acc \in [0..Len(text) -> Runs(S)] :
              IsLoop(acc, RunF(S), base, text) /\ it[D] = acc[Len(text)]
  BY <1>1, <1>9, FoldIsLoop
<1>11. \A i \in 1..Len(text) : i \in D /\ acc[i - 1] \in Runs(S)
  BY <1>2
<1>12. \A i \in 1..Len(text) : acc[i] = RunStep(acc[i - 1], text[i])
  BY <1>2, <1>10, <1>11 DEF IsLoop, RunF
<1>13. QED
  BY <1>7, <1>10, <1>12 DEF base, IsLoop

\* Of the words of a text up to n, each at most once.
Drawn(out, text, n) ==
    /\ WordsDiffer(out)
    /\ \A i \in DOMAIN out : IsWord(out[i]) => \E j \in 1..n : out[i] = text[j]

\* A text grows by its next item, or does not.
LEMMA DrawnOn ==
    ASSUME NEW S, NEW text \in Seq(S), WordsDiffer(text), NEW i \in 1..Len(text),
           NEW out \in Seq(S), Drawn(out, text, i - 1), NEW next,
           \/ next = out
           \/ \E gap \in Seq(S) : /\ \A k \in DOMAIN gap : ~IsWord(gap[k])
                                  /\ next = Append(out \o gap, text[i])
    PROVE  Drawn(next, text, i)
<1>1. /\ Len(text) \in Nat /\ DOMAIN text = 1..Len(text) /\ text[i] \in S
      /\ \A j \in 1..(i - 1) : j \in 1..i /\ j \in 1..Len(text) /\ j # i
      /\ i \in 1..i
  BY LenProperties, ElementOfSeq
<1>2. CASE next = out
  BY <1>1, <1>2 DEF Drawn
<1>3. CASE next # out
  <2>1. PICK gap \in Seq(S) : /\ \A k \in DOMAIN gap : ~IsWord(gap[k])
                              /\ next = Append(out \o gap, text[i])
    BY <1>3
  <2>2. IsWord(text[i]) => \A k \in DOMAIN out : out[k] # text[i]
    <3> SUFFICES ASSUME IsWord(text[i]), NEW k \in DOMAIN out, out[k] = text[i]
                 PROVE  FALSE
      OBVIOUS
    <3>1. PICK j \in 1..(i - 1) : out[k] = text[j]
      BY DEF Drawn
    <3>2. QED
      BY <1>1, <3>1 DEF WordsDiffer
  <2>3. WordsDiffer(out)
    BY DEF Drawn
  <2>4. /\ WordsDiffer(next)
        /\ \A k \in DOMAIN next : IsWord(next[k]) =>
               next[k] = text[i] \/ \E j \in DOMAIN out : next[k] = out[j]
    <3> DEFINE x == text[i]
               r == Append(out \o gap, x)
    <3> HIDE DEF x
    <3>1. x \in S /\ (IsWord(x) => \A k \in DOMAIN out : out[k] # x)
      BY <1>1, <2>2 DEF x
    <3>2. /\ WordsDiffer(r)
          /\ \A k \in DOMAIN r : IsWord(r[k]) =>
                 r[k] = x \/ \E j \in DOMAIN out : r[k] = out[j]
      BY <2>1, <2>3, <3>1, OneMore
    <3>3. next = r
      BY <2>1 DEF x
    <3> HIDE DEF r
    <3>4. QED
      BY <3>2, <3>3 DEF x
  <2>5. QED
    BY <1>1, <2>4 DEF Drawn
<1>4. QED
  BY <1>2, <1>3

\* A text stays what a tool may have written when items are left out.
LEMMA OnlyKeepsGiven ==
    ASSUME NEW text, IsGiven(text), NEW D
    PROVE  IsGiven(Only(text, D))
<1> DEFINE t == Only(text, D)
<1>1. text \in Seq(Raw) /\ WordsDiffer(text)
  BY DEF IsGiven
<1>2. t \in Seq(Raw) /\ \E h : Sifted(text, D, t, h)
  BY <1>1, OnlyPlaces
<1> HIDE DEF t
<1>3. PICK h : Sifted(text, D, t, h)
  BY <1>2
<1>4. Len(t) \in Nat /\ DOMAIN t = 1..Len(t)
  BY <1>2, LenProperties
<1>5. ASSUME NEW i \in DOMAIN t, NEW j \in DOMAIN t, IsWord(t[i]), t[i] = t[j] PROVE i = j
  <2>1. h[i] \in DOMAIN text /\ h[j] \in DOMAIN text /\ t[i] = text[h[i]] /\ t[j] = text[h[j]]
    BY <1>3 DEF Sifted
  <2>2. h[i] = h[j]
    BY <1>1, <1>5, <2>1 DEF WordsDiffer
  <2>3. ~(h[i] < h[j]) /\ ~(h[j] < h[i])
    <3>1. Len(text) \in Nat /\ DOMAIN text = 1..Len(text)
      BY <1>1, LenProperties
    <3>2. h[i] \in Int
      BY <2>1, <3>1
    <3>3. QED
      BY <2>2, <3>2
  <2>4. ~(i < j) /\ ~(j < i)
    BY <1>3, <2>3 DEF Sifted
  <2>5. QED
    BY <1>4, <2>4
<1>6. QED
  BY <1>2, <1>5 DEF IsGiven, WordsDiffer, t

\* So without its escapes.
LEMMA StripKeepsGiven ==
    ASSUME NEW text, IsGiven(text)
    PROVE  IsGiven(StripANSI(text))
BY OnlyKeepsGiven DEF StripANSI

\* And when runs of blank lines are made one.
LEMMA CollapseKeepsGiven ==
    ASSUME NEW text, IsGiven(text)
    PROVE  IsGiven(CollapseBlankRuns(text))
<1>1. text \in Seq(Raw) /\ WordsDiffer(text) /\ Len(text) \in Nat
      /\ Newline \in Raw /\ \A i \in 1..Len(text) : text[i] \in Raw
  BY LenProperties, ElementOfSeq DEF IsGiven, Raw
<1>2. PICK acc \in [0..Len(text) -> Runs(Raw)] :
             /\ acc[0] = [out |-> <<>>, run |-> <<>>]
             /\ \A i \in 1..Len(text) : acc[i] = RunStep(acc[i - 1], text[i])
             /\ CollapseBlankRuns(text)
                    = acc[Len(text)].out \o Collapsed(acc[Len(text)].run)
  BY <1>1, CollapseLoop
<1> DEFINE Q == {i \in 0..Len(text) : Drawn(acc[i].out, text, i)}
           W == Raw \cap {Newline, Indent}
<1>3. ASSUME NEW gap \in Seq(W)
      PROVE  gap \in Seq(Raw) /\ \A k \in DOMAIN gap : ~IsWord(gap[k])
  <2>1. \A x \in W : ~IsWord(x)
    BY DEF IsWord, Newline, Indent, Item
  <2>2. W \in SUBSET Raw
    OBVIOUS
  <2> HIDE DEF W
  <2>3. QED
    BY <2>1, <2>2, SeqMonotonic, ElementOfSeq, LenProperties
<1>4. 0 \in Q
  <2>1. DOMAIN <<>> = {}
    BY EmptySeq
  <2>2. QED
    BY <1>1, <1>2, <2>1 DEF Drawn, WordsDiffer
<1>5. ASSUME NEW i \in 1..Len(text), i - 1 \in Q PROVE i \in Q
  <2> DEFINE a == acc[i - 1]
             gap == Collapsed(a.run)
  <2>1. i \in 0..Len(text) /\ i - 1 \in 0..Len(text) /\ a \in Runs(Raw)
        /\ text[i] \in Raw /\ acc[i] = RunStep(a, text[i])
    BY <1>1, <1>2
  <2>2. Drawn(a.out, text, i - 1)
    BY <1>5
  <2> HIDE DEF a
  <2>3. /\ a.out \in Seq(Raw) /\ gap \in Seq(W)
        /\ acc[i].out = a.out \/ acc[i].out = Append(a.out \o gap, text[i])
    <3> DEFINE x == text[i]
    <3> HIDE DEF x
    <3>1. x \in Raw /\ acc[i] = RunStep(a, x)
      BY <2>1 DEF x
    <3>2. /\ a.out \in Seq(Raw) /\ gap \in Seq(W)
          /\ RunStep(a, x).out = a.out \/ RunStep(a, x).out = Append(a.out \o gap, x)
      BY <1>1, <2>1, <3>1, RunStepIs
    <3>3. QED
      BY <3>1, <3>2 DEF x
  <2> HIDE DEF gap, Q, W
  <2>4. gap \in Seq(Raw) /\ \A k \in DOMAIN gap : ~IsWord(gap[k])
    BY <1>3, <2>3
  <2>5. Drawn(acc[i].out, text, i)
    BY <1>1, <2>2, <2>3, <2>4, DrawnOn
  <2>6. QED
    BY <2>1, <2>5 DEF Q
<1> HIDE DEF Q
<1>6. Len(text) \in Q
  <2>1. \A i \in 0..Len(text) : i \in Q
    BY <1>1, <1>4, <1>5, UpTo
  <2>2. QED
    BY <1>1, <2>1
<1> DEFINE out == acc[Len(text)].out
           gap == Collapsed(acc[Len(text)].run)
<1>7. acc[Len(text)] \in Runs(Raw)
  BY <1>1, <1>2
<1>8. out \in Seq(Raw) /\ gap \in Seq(W) /\ WordsDiffer(out)
  <2>1. Drawn(out, text, Len(text))
    BY <1>6 DEF Q
  <2>2. QED
    BY <1>1, <1>7, <2>1, RunStepIs DEF Drawn
<1> HIDE DEF out, gap, W
<1>9. WordsDiffer(out \o gap) /\ out \o gap \in Seq(Raw)
  <2>1. gap \in Seq(Raw) /\ \A k \in DOMAIN gap : ~IsWord(gap[k])
    BY <1>3, <1>8
  <2>2. Newline \in Raw /\ ~IsWord(Newline)
    BY <1>1 DEF IsWord, Newline, Item
  <2> DEFINE r == Append(out \o gap, Newline)
  <2>3. WordsDiffer(r)
    BY <1>8, <2>1, <2>2, OneMore
  <2>4. out \o gap \in Seq(Raw)
    BY <1>8, <2>1, ConcatProperties
  <2>5. \A i \in DOMAIN (out \o gap) : i \in DOMAIN r /\ r[i] = (out \o gap)[i]
    BY <2>2, <2>4, AppendProperties, LenProperties
  <2> HIDE DEF r
  <2>6. QED
    BY <2>3, <2>4, <2>5 DEF WordsDiffer
<1>10. QED
  BY <1>2, <1>9 DEF out, gap, IsGiven

\* ANSIStrip leaves what a tool may have written.
LEMMA ANSIStripKeepsGiven ==
    ASSUME NEW text, IsGiven(text)
    PROVE  IsGiven(ANSIStrip(text))
BY StripKeepsGiven, CollapseKeepsGiven DEF ANSIStrip

\* strings.Split, item by item.
LineStep(ls, x) ==
    IF x = Newline THEN Append(ls, <<>>) ELSE [ls EXCEPT ![Len(ls)] = Append(@, x)]
Pages(S) == {ls \in Seq(Seq(S)) : ls # <<>>}
LineF(S) == [ls \in Pages(S) |-> [x \in S |-> LineStep(ls, x)]]

\* What one item does to the lines: it ends the last one or is its end.
LEMMA LineStepIs ==
    ASSUME NEW S, NEW ls \in Pages(S), NEW x \in S
    PROVE  /\ LineStep(ls, x) \in Pages(S) /\ Len(ls) \in Nat /\ Len(ls) >= 1
           /\ x = Newline => /\ Len(LineStep(ls, x)) = Len(ls) + 1
                             /\ LineStep(ls, x)[Len(ls) + 1] = <<>>
                             /\ \A i \in 1..Len(ls) : LineStep(ls, x)[i] = ls[i]
           /\ x # Newline => /\ Len(LineStep(ls, x)) = Len(ls)
                             /\ LineStep(ls, x)[Len(ls)] = Append(ls[Len(ls)], x)
                             /\ \A i \in 1..(Len(ls) - 1) : LineStep(ls, x)[i] = ls[i]
<1>1. ls \in Seq(Seq(S)) /\ ls # <<>>
  BY DEF Pages
<1>2. Len(ls) \in Nat /\ Len(ls) >= 1 /\ DOMAIN ls = 1..Len(ls)
      /\ ls[Len(ls)] \in Seq(S)
  BY <1>1, EmptySeq, LenProperties, ElementOfSeq
<1>3. CASE x = Newline
  <2>1. <<>> \in Seq(S)
    BY EmptySeq
  <2>2. QED
    BY <1>1, <1>2, <1>3, <2>1, AppendProperties DEF LineStep, Pages
<1>4. CASE x # Newline
  <2> DEFINE n == Len(ls)
             u == Append(ls[n], x)
             r == [ls EXCEPT ![n] = u]
  <2>1. u \in Seq(S) /\ LineStep(ls, x) = r /\ n \in DOMAIN ls
    BY <1>2, <1>4, AppendProperties DEF LineStep
  <2>2. r \in Seq(Seq(S)) /\ Len(r) = n
    BY <1>1, <1>2, <2>1, ExceptSeq
  <2>3. r[n] = u /\ \A i \in 1..(n - 1) : r[i] = ls[i]
    <3>1. \A j \in 1..n : r[j] = IF j = n THEN u ELSE ls[j]
      BY <1>1, <1>2, <2>1, ExceptSeq
    <3> HIDE DEF n, u, r
    <3>2. n \in Nat /\ n >= 1
      BY <1>2 DEF n
    <3>3. QED
      BY <3>1, <3>2
  <2>4. r # <<>>
    BY <1>2, <2>2, EmptySeq
  <2>5. QED
    BY <1>2, <1>4, <2>1, <2>2, <2>3, <2>4, Zenon DEF Pages
<1>5. QED
  BY <1>3, <1>4

\* Lines is that loop.
LEMMA LinesLoop ==
    ASSUME NEW S, NEW text \in Seq(S)
    PROVE  \E acc \in [0..Len(text) -> Pages(S)] :
               /\ acc[0] = << <<>> >>
               /\ \A i \in 1..Len(text) : acc[i] = LineStep(acc[i - 1], text[i])
               /\ Lines(text) = acc[Len(text)]
<1> DEFINE D == DOMAIN text
           base == << <<>> >>
           E(h) == [t \in SUBSET D |->
                       IF t = {} THEN base
                       ELSE LineStep(h[t \ {Max(t)}], text[Max(t)])]
           it == CHOOSE h : h = E(h)
<1>1. Stays(LineF(S), Pages(S), S) /\ base \in Pages(S)
  <2>1. <<>> \in Seq(S)
    BY EmptySeq
  <2>2. base \in Seq(Seq(S)) /\ base # <<>>
    BY <2>1
  <2>3. QED
    BY <2>2, LineStepIs DEF Stays, LineF, Pages
<1>2. Len(text) \in Nat /\ D = 1..Len(text) /\ \A i \in D : text[i] \in S
  BY LenProperties, ElementOfSeq
<1>3. \A t \in SUBSET D : t # {} => Max(t) \in D
  BY <1>2, LastPosition
<1> HIDE DEF base
<1>4. PICK h \in [SUBSET D -> Pages(S)] : Lefts(h, LineF(S), base, text)
  BY <1>1, LeftsExist
<1>5. ASSUME NEW t \in SUBSET D
      PROVE  h[t] = IF t = {} THEN base ELSE LineStep(h[t \ {Max(t)}], text[Max(t)])
  <2>1. h[t] = IF t = {} THEN base ELSE LineF(S)[h[t \ {Max(t)}]][text[Max(t)]]
    BY <1>4 DEF Lefts
  <2>2. QED
    BY <1>2, <1>3, <2>1 DEF LineF
<1>6. it = E(it)
  <2>1. h = E(h)
    BY <1>5
  <2> HIDE DEF E
  <2>2. QED
    BY <2>1
<1>7. Lines(text) = it[D]
  BY DEF Lines, FoldLeft, MapThenFoldSet, LineStep, base
<1> HIDE DEF it
<1>8. \A t \in SUBSET D : it[t] = IF t = {} THEN base
                                 ELSE LineStep(it[t \ {Max(t)}], text[Max(t)])
  BY <1>6
<1>9. GoesOn(it, LineF(S), Pages(S), base, text)
  BY <1>2, <1>3, <1>8 DEF GoesOn, LineF
<1>10. PICK acc \in [0..Len(text) -> Pages(S)] :
              IsLoop(acc, LineF(S), base, text) /\ it[D] = acc[Len(text)]
  BY <1>1, <1>9, FoldIsLoop
<1>11. \A i \in 1..Len(text) : i \in D /\ acc[i - 1] \in Pages(S)
  BY <1>2
<1>12. \A i \in 1..Len(text) : acc[i] = LineStep(acc[i - 1], text[i])
  BY <1>2, <1>10, <1>11 DEF IsLoop, LineF
<1>13. QED
  BY <1>7, <1>10, <1>12 DEF base, IsLoop

\* The lines hold what the text up to n does, without its newlines.
Cut(ls, text, n) ==
    \A i \in DOMAIN ls : \A x \in Range(ls[i]) :
        x # Newline /\ \E k \in 1..n : x = text[k]

\* No word is in two lines.
Apart(ls) ==
    \A i, k \in DOMAIN ls : \A x \in Range(ls[i]) \cap Range(ls[k]) :
        IsWord(x) => i = k

\* Where an item goes.
LEMMA LineStepRange ==
    ASSUME NEW S, NEW ls \in Pages(S), NEW x \in S, NEW i \in DOMAIN LineStep(ls, x),
           NEW y \in Range(LineStep(ls, x)[i])
    PROVE  \/ i \in DOMAIN ls /\ y \in Range(ls[i])
           \/ y = x /\ x # Newline /\ i = Len(LineStep(ls, x))
<1> DEFINE n == Len(ls)
           r == LineStep(ls, x)
<1>1. /\ r \in Pages(S) /\ n \in Nat /\ n >= 1
      /\ x = Newline => /\ Len(r) = n + 1 /\ r[n + 1] = <<>>
                        /\ \A k \in 1..n : r[k] = ls[k]
      /\ x # Newline => /\ Len(r) = n /\ r[n] = Append(ls[n], x)
                        /\ \A k \in 1..(n - 1) : r[k] = ls[k]
  BY LineStepIs
<1>2. DOMAIN ls = 1..n /\ ls[n] \in Seq(S) /\ DOMAIN r = 1..Len(r)
  BY <1>1, LenProperties, ElementOfSeq DEF Pages
<1>3. Range(<<>>) = {}
  <2>1. DOMAIN <<>> = {}
    BY EmptySeq
  <2>2. QED
    BY <2>1 DEF Range
<1>4. y \in Range(r[i]) /\ i \in DOMAIN r
  OBVIOUS
<1> HIDE DEF n, r
<1>5. CASE x = Newline
  <2>1. i \in 1..n \/ i = n + 1
    BY <1>1, <1>2, <1>4, <1>5
  <2>2. QED
    BY <1>1, <1>2, <1>3, <1>4, <1>5, <2>1
<1>6. CASE x # Newline
  <2>1. i \in 1..(n - 1) \/ i = n
    BY <1>1, <1>2, <1>4, <1>6
  <2>2. CASE i \in 1..(n - 1)
    BY <1>1, <1>2, <1>4, <1>6, <2>2
  <2>3. CASE i = n
    <3>1. Range(r[i]) = Range(ls[n]) \cup {x}
      <4> DEFINE last == ls[n]
      <4> HIDE DEF last
      <4>1. last \in Seq(S) /\ r[i] = Append(last, x)
        BY <1>1, <1>2, <1>6, <2>3 DEF last
      <4>2. Range(Append(last, x)) = Range(last) \cup {x}
        BY <4>1, RangeAppend, RangeOfSeq
      <4>3. QED
        BY <4>1, <4>2 DEF last
    <3>2. QED
      BY <1>1, <1>2, <1>4, <1>6, <2>3, <3>1 DEF r
  <2>4. QED
    BY <2>1, <2>2, <2>3
<1>7. QED
  BY <1>5, <1>6

\* The lines of a text hold its items and no newline; if its words differ, each
\* is in one line.
LEMMA LinesAre ==
    ASSUME NEW S, NEW text \in Seq(S)
    PROVE  /\ Lines(text) \in Pages(S)
           /\ Cut(Lines(text), text, Len(text))
           /\ WordsDiffer(text) => Apart(Lines(text))
<1>1. /\ Len(text) \in Nat /\ DOMAIN text = 1..Len(text)
      /\ \A i \in 1..Len(text) : text[i] \in S
  BY LenProperties, ElementOfSeq
<1>2. PICK acc \in [0..Len(text) -> Pages(S)] :
             /\ acc[0] = << <<>> >>
             /\ \A i \in 1..Len(text) : acc[i] = LineStep(acc[i - 1], text[i])
             /\ Lines(text) = acc[Len(text)]
  BY LinesLoop
<1> DEFINE Q == {i \in 0..Len(text) : /\ Cut(acc[i], text, i)
                                      /\ WordsDiffer(text) => Apart(acc[i])}
<1>3. 0 \in Q
  <2>1. DOMAIN << <<>> >> = {1} /\ << <<>> >>[1] = <<>> /\ Range(<<>>) = {}
    BY EmptySeq DEF Range
  <2>2. Cut(<< <<>> >>, text, 0) /\ Apart(<< <<>> >>)
    BY <2>1 DEF Cut, Apart
  <2>3. QED
    BY <1>1, <1>2, <2>2
<1>4. ASSUME NEW i \in 1..Len(text), i - 1 \in Q PROVE i \in Q
  <2> DEFINE ls == acc[i - 1]
             x == text[i]
             r == LineStep(ls, x)
  <2>1. /\ i \in 0..Len(text) /\ i - 1 \in 0..Len(text) /\ ls \in Pages(S) /\ x \in S
        /\ acc[i] = r
        /\ \A j \in 1..(i - 1) : j \in 1..i /\ j \in DOMAIN text /\ j # i
        /\ i \in 1..i /\ i \in DOMAIN text
    BY <1>1, <1>2
  <2>2. Cut(ls, text, i - 1) /\ (WordsDiffer(text) => Apart(ls))
    BY <1>4
  <2> HIDE DEF ls, Q
  <2>3. \A k \in DOMAIN r : \A y \in Range(r[k]) :
           \/ k \in DOMAIN ls /\ y \in Range(ls[k])
           \/ y = x /\ x # Newline /\ k = Len(r)
    BY <2>1, LineStepRange
  <2> HIDE DEF r
  <2>4. Cut(r, text, i)
    BY <2>1, <2>2, <2>3 DEF Cut
  <2>5. ASSUME WordsDiffer(text) PROVE Apart(r)
    <3>1. ASSUME NEW k \in DOMAIN ls, x \in Range(ls[k]), IsWord(x) PROVE FALSE
      <4>1. PICK j \in 1..(i - 1) : x = text[j]
        BY <2>2, <3>1 DEF Cut
      <4>2. QED
        BY <2>1, <2>5, <3>1, <4>1 DEF WordsDiffer
    <3>2. QED
      BY <2>2, <2>3, <2>5, <3>1 DEF Apart
  <2>6. QED
    BY <2>1, <2>4, <2>5 DEF Q
<1> HIDE DEF Q
<1>5. Len(text) \in Q
  <2>1. \A i \in 0..Len(text) : i \in Q
    BY <1>1, <1>3, <1>4, UpTo
  <2>2. QED
    BY <1>1, <2>1
<1>6. Len(text) \in 0..Len(text)
  BY <1>1
<1>7. QED
  BY <1>2, <1>5, <1>6 DEF Q

\* strings.Join, line by line.
JoinStep(lines, s, i) == s \o (IF i = 1 THEN <<>> ELSE <<Newline>>) \o lines[i]
JoinF(lines, S) ==
    [s \in Seq(S) |-> [i \in DOMAIN lines |-> JoinStep(lines, s, i)]]

\* Join is that loop.
LEMMA JoinLoop ==
    ASSUME NEW S, Newline \in S, NEW lines \in Seq(Seq(S))
    PROVE  \E acc \in [0..Len(lines) -> Seq(S)] :
               /\ acc[0] = <<>>
               /\ \A i \in 1..Len(lines) : acc[i] = JoinStep(lines, acc[i - 1], i)
               /\ Join(lines) = acc[Len(lines)]
<1> DEFINE ks == Numbers(lines)
           D == DOMAIN ks
           B == DOMAIN lines
           V == Seq(S)
           F == JoinF(lines, S)
           base == <<>>
           E(h) == [t \in SUBSET D |->
                       IF t = {} THEN base
                       ELSE JoinStep(lines, h[t \ {Max(t)}], ks[Max(t)])]
           it == CHOOSE h : h = E(h)
<1>1. Stays(F, V, B) /\ base \in V
  <2>1. <<>> \in Seq(S) /\ <<Newline>> \in Seq(S)
    BY EmptySeq
  <2>2. \A i \in DOMAIN lines : lines[i] \in Seq(S)
    BY NumbersAre
  <2>3. \A s \in Seq(S), i \in DOMAIN lines : JoinStep(lines, s, i) \in Seq(S)
    BY <2>1, <2>2, ConcatProperties DEF JoinStep
  <2>4. QED
    BY <2>1, <2>3 DEF Stays, JoinF
<1>2. /\ ks \in Seq(B) /\ Len(ks) = Len(lines) /\ Len(lines) \in Nat
      /\ B = 1..Len(lines) /\ \A i \in 1..Len(lines) : ks[i] = i
  BY NumbersAre
<1>3. Join(lines) = it[D]
  BY DEF Join, Numbers, FoldLeft, MapThenFoldSet, JoinStep, base
<1>4. \A v \in V, i \in B : F[v][i] = JoinStep(lines, v, i)
  BY DEF JoinF
<1> HIDE DEF base, ks, B, V, F
<1>5. D = 1..Len(lines) /\ \A t \in SUBSET D : t # {} => Max(t) \in D
  BY <1>2, LenProperties, LastPosition
<1>6. PICK h \in [SUBSET D -> V] : Lefts(h, F, base, ks)
  BY <1>1, <1>2, LeftsExist
<1>7. ASSUME NEW t \in SUBSET D
      PROVE  h[t] = IF t = {} THEN base ELSE JoinStep(lines, h[t \ {Max(t)}], ks[Max(t)])
  <2>1. h[t] = IF t = {} THEN base ELSE F[h[t \ {Max(t)}]][ks[Max(t)]]
    BY <1>6 DEF Lefts
  <2>2. QED
    BY <1>2, <1>4, <1>5, <2>1
<1>8. it = E(it)
  <2>1. h = E(h)
    BY <1>7
  <2> HIDE DEF E
  <2>2. QED
    BY <2>1
<1> HIDE DEF it
<1>9. \A t \in SUBSET D : it[t] = IF t = {} THEN base
                                 ELSE JoinStep(lines, it[t \ {Max(t)}], ks[Max(t)])
  BY <1>8
<1>10. GoesOn(it, F, V, base, ks)
  <2>1. it[{}] = base
    BY <1>9
  <2>2. ASSUME NEW t \in SUBSET D, t # {}, it[t \ {Max(t)}] \in V
        PROVE  it[t] = F[it[t \ {Max(t)}]][ks[Max(t)]]
    <3>1. ks[Max(t)] \in B
      BY <1>2, <1>5, <2>2
    <3>2. it[t] = JoinStep(lines, it[t \ {Max(t)}], ks[Max(t)])
      BY <1>9, <2>2
    <3>3. QED
      BY <1>4, <2>2, <3>1, <3>2
  <2>3. QED
    BY <2>1, <2>2 DEF GoesOn
<1>11. PICK acc \in [0..Len(ks) -> V] : IsLoop(acc, F, base, ks) /\ it[D] = acc[Len(ks)]
  BY <1>1, <1>2, <1>10, FoldIsLoop
<1>12. ASSUME NEW i \in 1..Len(lines) PROVE acc[i] = JoinStep(lines, acc[i - 1], i)
  <2>1. i \in B /\ i - 1 \in 0..Len(ks) /\ i \in 1..Len(ks) /\ ks[i] = i
    BY <1>2
  <2>2. acc[i - 1] \in V
    BY <2>1
  <2>3. acc[i] = F[acc[i - 1]][i]
    BY <1>11, <2>1 DEF IsLoop
  <2>4. QED
    BY <1>4, <2>1, <2>2, <2>3
<1>13. QED
  BY <1>2, <1>3, <1>11, <1>12 DEF base, V, IsLoop

(***************************************************************************)
(* What the layers made of the text.                                       *)
(***************************************************************************)

\* The layers that ran decide what the text is now.
Passed ==
    /\ done = <<>> => cur = in.text
    /\ done = <<"ansi_strip">> => cur = ANSIStrip(in.text)
    /\ done = <<"ansi_strip", "log_compressor">> => cur = LogCompress(ANSIStrip(in.text))

LayersOK ==
    /\ call \in Calls
    /\ done \in Seq(Layers)
    /\ at = "idle" => done = <<>>
    /\ at \in {"gate", "chain"} => Passed
    /\ at = "model" => /\ Len(done) < Len(Chain(detected))
                       /\ Layer \in {"llmlingua", "md_structured"}

\* Every chain begins alike, and has at most one more layer before the model.
LEMMA ChainIs ==
    ASSUME NEW type
    PROVE  Chain(type) \in {<<>>, <<"ansi_strip", "log_compressor">>,
                            <<"ansi_strip", "json_crusher">>, <<"ansi_strip">>,
                            <<"ansi_strip", "llmlingua">>,
                            <<"ansi_strip", "linenum_strip", "md_structured">>}
BY DEF Chain

\* One layer more.
LEMMA LayerStep ==
    ASSUME done \in Seq(Layers), Len(done) < Len(Chain(detected))
    PROVE  /\ Layer \in Layers /\ Append(done, Layer) \in Seq(Layers)
           /\ Append(done, Layer) # <<>>
           /\ Append(done, Layer) = <<"ansi_strip">> => done = <<>> /\ Layer = "ansi_strip"
           /\ Append(done, Layer) = <<"ansi_strip", "log_compressor">> =>
                  done = <<"ansi_strip">> /\ Layer = "log_compressor"
           /\ done = <<>> => Layer = "ansi_strip"
<1> DEFINE c == Chain(detected)
           n == Len(done)
<1>1. c \in {<<>>, <<"ansi_strip", "log_compressor">>,
             <<"ansi_strip", "json_crusher">>, <<"ansi_strip">>,
             <<"ansi_strip", "llmlingua">>,
             <<"ansi_strip", "linenum_strip", "md_structured">>}
  BY ChainIs
<1>2. n \in Nat /\ n < Len(c) /\ Layer = c[n + 1]
  BY LenProperties DEF Layer
<1>3. Layer \in Layers /\ (n = 0 => Layer = "ansi_strip")
  <2>1. (\A i \in 1..Len(c) : c[i] \in Layers) /\ (Len(c) > 0 => c[1] = "ansi_strip")
    <3> HIDE DEF c
    <3>1. CASE c = <<>>
      BY <3>1
    <3>2. CASE c = <<"ansi_strip">>
      BY <3>2 DEF Layers
    <3>3. CASE c = <<"ansi_strip", "linenum_strip", "md_structured">>
      BY <3>3 DEF Layers
    <3>4. CASE \E layer \in {"log_compressor", "json_crusher", "llmlingua"} :
                  c = <<"ansi_strip", layer>>
      BY <3>4 DEF Layers
    <3>5. QED
      BY <1>1, <3>1, <3>2, <3>3, <3>4
  <2>2. Len(c) \in Nat /\ n + 1 \in 1..Len(c)
    <3>1. Len(c) \in Nat
      <4> HIDE DEF c
      <4>1. QED
        BY <1>1
    <3> HIDE DEF c, n
    <3>2. QED
      BY <1>2, <3>1
  <2> HIDE DEF c, n
  <2>3. QED
    BY <1>2, <2>1, <2>2
<1>4. n = 0 <=> done = <<>>
  BY EmptySeq
<1> HIDE DEF c
<1>5. /\ <<"ansi_strip">> = Append(<<>>, "ansi_strip") /\ <<>> \in Seq(Layers)
      /\ <<"ansi_strip", "log_compressor">> = Append(<<"ansi_strip">>, "log_compressor")
      /\ <<"ansi_strip">> \in Seq(Layers)
      /\ "ansi_strip" \in Layers /\ "log_compressor" \in Layers
  BY DEF Layers
<1>6. Append(done, Layer) \in Seq(Layers) /\ Append(done, Layer) # <<>>
  BY <1>3, AppendProperties
<1>7. \A s \in Seq(Layers), f \in Layers :
          Append(done, Layer) = Append(s, f) => done = s /\ Layer = f
  <2> DEFINE layer == Layer
  <2> HIDE DEF layer
  <2>1. layer \in Layers
    BY <1>3 DEF layer
  <2>2. \A s \in Seq(Layers), f \in Layers :
            Append(done, layer) = Append(s, f) => done = s /\ layer = f
    BY <2>1, AppendInjective
  <2>3. QED
    BY <2>2 DEF layer
<1>8. QED
  BY <1>3, <1>4, <1>5, <1>6, <1>7

\* No layer has run at first.
LEMMA InitLayers == Init => LayersOK
<1>1. Init => call \in Calls /\ at = "idle" /\ done = <<>>
  BY DEF Init
<1>2. <<>> \in Seq(Layers)
  BY EmptySeq
<1>3. QED
  BY <1>1, <1>2 DEF LayersOK

\* Each layer does to the text what Passed says.
LEMMA LayersStep == IInv /\ LayersOK /\ [Next]_vars => LayersOK'
<1> SUFFICES ASSUME IInv, LayersOK, [Next]_vars PROVE LayersOK'
  OBVIOUS
<1>1. call \in Calls /\ done \in Seq(Layers)
  BY DEF LayersOK
<1>2. ASSUME Leave PROVE LayersOK'
  BY <1>1, <1>2 DEF Leave, hookVars, LayersOK
<1>3. CASE Receive
  <2>1. /\ at = "idle" /\ at' = "gate" /\ cur' = in'.text
        /\ UNCHANGED <<done, call>>
    BY <1>3 DEF Receive, hookVars
  <2>2. done = <<>>
    BY <2>1 DEF LayersOK
  <2>3. QED
    BY <1>1, <2>1, <2>2 DEF LayersOK, Passed
<1>4. CASE Compress
  <2>0. UNCHANGED call
    BY <1>4 DEF Compress, hookVars
  <2>1. ASSUME NEW reason, Skip(reason) PROVE LayersOK'
    BY <1>1, <2>0, <2>1 DEF Skip, LayersOK
  <2>2. ASSUME NEW out, Produced(out), Len(done) < Len(Chain(detected)),
               Layer = "ansi_strip" => at = "chain" /\ out = ANSIStrip(cur),
               Layer = "log_compressor" => at = "chain" /\ out = LogCompress(cur)
        PROVE  LayersOK'
    <3>1. /\ cur' = out /\ done' = Append(done, Layer) /\ at' = "chain"
          /\ UNCHANGED in
      BY <2>2 DEF Produced
    <3>2. at = "chain" => Passed
      BY DEF LayersOK
    <3>3. done' \in Seq(Layers) /\ done' # <<>>
      BY <1>1, <2>2, <3>1, LayerStep
    <3>4. done' = <<"ansi_strip">> => cur' = ANSIStrip(in'.text)
      BY <1>1, <2>2, <3>1, <3>2, LayerStep DEF Passed
    <3>5. done' = <<"ansi_strip", "log_compressor">> =>
              cur' = LogCompress(ANSIStrip(in'.text))
      BY <1>1, <2>2, <3>1, <3>2, LayerStep DEF Passed
    <3>6. Passed'
      BY <3>3, <3>4, <3>5 DEF Passed
    <3>7. QED
      BY <1>1, <2>0, <3>1, <3>3, <3>6 DEF LayersOK
  <2>3. CASE Gate
    <3>1. \/ \E reason : Skip(reason)
          \/ at = "gate" /\ at' = "chain" /\ UNCHANGED <<in, cur, done>>
      BY <2>3 DEF Gate
    <3>2. CASE at = "gate" /\ at' = "chain" /\ UNCHANGED <<in, cur, done>>
      BY <1>1, <2>0, <3>2 DEF LayersOK, Passed
    <3>3. QED
      BY <2>1, <3>1, <3>2
  <2>4. CASE Transform
    <3> DEFINE out == CASE Layer = "ansi_strip" -> ANSIStrip(cur)
                        [] Layer = "log_compressor" -> LogCompress(cur)
                        [] Layer = "linenum_strip" -> StripLineNumbers(cur)
    <3>1. Produced(out) /\ at = "chain" /\ Len(done) < Len(Chain(detected))
      BY <2>4 DEF Transform, AtLayer
    <3>2. /\ Layer = "ansi_strip" => out = ANSIStrip(cur)
          /\ Layer = "log_compressor" => out = LogCompress(cur)
      OBVIOUS
    <3> HIDE DEF out
    <3>3. QED
      BY <2>2, <3>1, <3>2
  <2>5. CASE CrushJSON
    <3>1. Len(done) < Len(Chain(detected)) /\ Layer = "json_crusher"
      BY <2>5 DEF CrushJSON, AtLayer
    <3>2. PICK out : Produced(out)
      BY <2>5 DEF CrushJSON
    <3>3. QED
      BY <2>2, <3>1, <3>2
  <2>6. CASE Collide
    BY <2>1, <2>6 DEF Collide
  <2>7. CASE AskModel
    BY <1>1, <2>0, <2>7 DEF AskModel, AtLayer, LayersOK, Layer
  <2>8. CASE ModelAnswers
    <3>1. (\E out : Produced(out)) \/ (\E reason : Skip(reason))
      BY <2>8 DEF ModelAnswers
    <3>2. Len(done) < Len(Chain(detected)) /\ Layer \in {"llmlingua", "md_structured"}
      BY <2>8 DEF ModelAnswers, LayersOK
    <3>3. QED
      BY <2>1, <2>2, <3>1, <3>2
  <2>9. CASE ModelFails
    BY <2>1, <2>9 DEF ModelFails
  <2>10. CASE Panic
    BY <2>1, <2>10 DEF Panic
  <2>11. CASE Guard
    <3>1. (\E reason : Skip(reason)) \/ (at' = "out" /\ UNCHANGED done)
      BY <2>11 DEF Guard
    <3>2. CASE at' = "out" /\ UNCHANGED done
      BY <1>1, <2>0, <3>2 DEF LayersOK
    <3>3. QED
      BY <2>1, <3>1, <3>2
  <2>12. QED
    BY <1>4, <2>3, <2>4, <2>5, <2>6, <2>7, <2>8, <2>9, <2>10, <2>11
    DEF Compress, PipelineNext
<1>5. CASE Finalize
  BY <1>1, <1>5 DEF Finalize, LayersOK
<1>6. CASE Fetch
  BY <1>1, <1>6 DEF Fetch, LayersOK
<1>7. CASE Record
  BY <1>1, <1>7 DEF Record, LayersOK
<1>8. CASE Reply
  BY <1>1, <1>8 DEF Reply, LayersOK
<1>9. CASE UNCHANGED vars
  BY <1>9 DEF vars, pipelineVars, hookVars, LayersOK, Passed, Layer
<1>10. QED
  BY <1>2, <1>3, <1>4, <1>5, <1>6, <1>7, <1>8, <1>9
  DEF Next, Decline, Skipped, Die

\* The log compressor was given a text as a tool writes it, without its escapes.
LEMMA ReducedIs ==
    ASSUME IInv, LayersOK, LogReduced
    PROVE  /\ cur = LogCompress(ANSIStrip(in.text))
           /\ IsGiven(ANSIStrip(in.text))
<1>1. at = "chain" /\ done = <<"ansi_strip", "log_compressor">>
  BY DEF LogReduced
<1>2. cur = LogCompress(ANSIStrip(in.text))
  BY <1>1 DEF LayersOK, Passed
<1>3. in.text = HookText(call) /\ call \in Calls
  BY <1>1 DEF IInv, InputOK, LayersOK, Stages
<1>4. IsGiven(in.text)
  BY <1>3, HookAssumption
<1>5. QED
  BY <1>2, <1>4, ANSIStripKeepsGiven

\* A joined text holds what its lines hold, and newlines.
LEMMA JoinHolds ==
    ASSUME NEW S, Newline \in S, NEW lines \in Seq(Seq(S))
    PROVE  /\ Join(lines) \in Seq(S)
           /\ \A k \in DOMAIN lines : Range(lines[k]) \subseteq Range(Join(lines))
           /\ \A x \in Range(Join(lines)) :
                  x = Newline \/ \E k \in DOMAIN lines : x \in Range(lines[k])
<1>1. Len(lines) \in Nat /\ DOMAIN lines = 1..Len(lines)
      /\ \A i \in 1..Len(lines) : lines[i] \in Seq(S)
  BY NumbersAre
<1>2. PICK acc \in [0..Len(lines) -> Seq(S)] :
             /\ acc[0] = <<>>
             /\ \A i \in 1..Len(lines) : acc[i] = JoinStep(lines, acc[i - 1], i)
             /\ Join(lines) = acc[Len(lines)]
  BY JoinLoop
<1> DEFINE In(i, x) == \E k \in 1..i : x \in Range(lines[k])
           Q == {i \in 0..Len(lines) :
                    /\ \A k \in 1..i : Range(lines[k]) \subseteq Range(acc[i])
                    /\ \A x \in Range(acc[i]) : x = Newline \/ In(i, x)}
<1>3. 0 \in Q
  <2>1. Range(<<>>) = {}
    BY EmptySeq DEF Range
  <2>2. QED
    BY <1>1, <1>2, <2>1
<1>4. ASSUME NEW i \in 1..Len(lines), i - 1 \in Q PROVE i \in Q
  <2> DEFINE a == acc[i - 1]
             b == IF i = 1 THEN <<>> ELSE <<Newline>>
             c == lines[i]
  <2>0. /\ i \in 0..Len(lines) /\ i - 1 \in 0..Len(lines)
        /\ \A k \in 1..i : k \in 1..(i - 1) \/ k = i
        /\ i \in 1..i /\ \A k \in 1..(i - 1) : k \in 1..i
    BY <1>1
  <2>1. a \in Seq(S) /\ c \in Seq(S) /\ acc[i] = (a \o b) \o c
    BY <1>1, <1>2, <2>0 DEF JoinStep
  <2>2. b \in Seq(S) /\ Range(b) \subseteq {Newline}
    <3>1. <<>> \in Seq(S) /\ Range(<<>>) = {}
      BY EmptySeq DEF Range
    <3>2. <<Newline>> \in Seq(S) /\ Range(<<Newline>>) = {Newline}
      <4>1. DOMAIN <<Newline>> = {1} /\ <<Newline>>[1] = Newline
        OBVIOUS
      <4>2. QED
        BY <4>1 DEF Range
    <3>3. QED
      BY <3>1, <3>2
  <2>3. /\ \A k \in 1..(i - 1) : Range(lines[k]) \subseteq Range(a)
        /\ \A x \in Range(a) : x = Newline \/ In(i - 1, x)
    BY <1>4
  <2> HIDE DEF a, b
  <2>4. Range(acc[i]) = Range(a) \cup Range(b) \cup Range(c)
    <3> DEFINE ab == a \o b
    <3> HIDE DEF c
    <3>1. ab \in Seq(S) /\ Range(ab) = Range(a) \cup Range(b)
      BY <2>1, <2>2, ConcatProperties, RangeConcatenation
    <3>2. acc[i] = ab \o c
      BY <2>1
    <3> HIDE DEF ab
    <3>3. Range(ab \o c) = Range(ab) \cup Range(c)
      BY <2>1, <3>1, RangeConcatenation
    <3>4. QED
      BY <3>1, <3>2, <3>3
  <2>5. \A k \in 1..i : Range(lines[k]) \subseteq Range(acc[i])
    BY <2>0, <2>3, <2>4
  <2>6. \A x \in Range(acc[i]) : x = Newline \/ In(i, x)
    BY <2>0, <2>2, <2>3, <2>4
  <2>7. QED
    BY <2>0, <2>5, <2>6
<1> HIDE DEF Q
<1>5. Len(lines) \in Q
  <2>1. \A i \in 0..Len(lines) : i \in Q
    BY <1>1, <1>3, <1>4, UpTo
  <2>2. QED
    BY <1>1, <2>1
<1>6. Len(lines) \in 0..Len(lines)
  BY <1>1
<1>7. QED
  BY <1>1, <1>2, <1>5, <1>6 DEF Q

\* Emitted, line by line.
EmitStep(lines, kept, acc, i) ==
    IF i \in kept THEN [Flushed(acc) EXCEPT !.out = Append(@, lines[i])]
    ELSE [acc EXCEPT !.gap = @ + 1]
Emits(S) == [out : Seq(Seq(S)), gap : Nat]
EmitF(lines, kept, S) ==
    [acc \in Emits(S) |-> [i \in DOMAIN lines |-> EmitStep(lines, kept, acc, i)]]
Marks == {<<Marker(n)>> : n \in Nat}
HasMarks(S) == \A n \in Nat : Marker(n) \in S

\* What one line does: it follows the count of the dropped ones, or is dropped.
OneEmitted(lines, kept, acc, i, S) ==
    /\ Flushed(acc) \in Emits(S) /\ EmitStep(lines, kept, acc, i) \in Emits(S)
    /\ acc.gap \in Nat /\ acc.out \in Seq(Seq(S))
    /\ Flushed(acc).out = IF acc.gap = 0 THEN acc.out
                          ELSE Append(acc.out, <<Marker(acc.gap)>>)
    /\ Range(acc.out) \subseteq Range(Flushed(acc).out)
    /\ Range(Flushed(acc).out) \subseteq Range(acc.out) \cup Marks
    /\ i \in kept =>
         /\ EmitStep(lines, kept, acc, i)
                = [out |-> Append(Flushed(acc).out, lines[i]), gap |-> 0]
         /\ Range(EmitStep(lines, kept, acc, i).out)
                = Range(Flushed(acc).out) \cup {lines[i]}
    /\ i \notin kept =>
         EmitStep(lines, kept, acc, i) = [out |-> acc.out, gap |-> acc.gap + 1]

\* It is so for every line.
LEMMA EmitStepIs ==
    ASSUME NEW S, HasMarks(S), NEW lines \in Seq(Seq(S)),
           NEW kept, NEW acc \in Emits(S), NEW i \in DOMAIN lines
    PROVE  OneEmitted(lines, kept, acc, i, S)
<1> DEFINE f == Flushed(acc)
           line == lines[i]
           mark == <<Marker(acc.gap)>>
<1>1. /\ acc.out \in Seq(Seq(S)) /\ acc.gap \in Nat /\ line \in Seq(S)
      /\ acc = [out |-> acc.out, gap |-> acc.gap]
  BY NumbersAre DEF Emits
<1>2. mark \in Seq(S) /\ mark \in Marks
  BY <1>1 DEF Marks, HasMarks
<1> HIDE DEF line, mark
<1>3. /\ Append(acc.out, mark) \in Seq(Seq(S))
      /\ Range(Append(acc.out, mark)) = Range(acc.out) \cup {mark}
  BY <1>1, <1>2, AppendProperties, RangeAppend, RangeOfSeq
<1>4. /\ f.out = IF acc.gap = 0 THEN acc.out ELSE Append(acc.out, mark)
      /\ f.gap = 0 /\ f = [out |-> f.out, gap |-> 0]
  <2>1. CASE acc.gap = 0
    BY <1>1, <2>1 DEF Flushed
  <2>2. CASE acc.gap # 0
    BY <2>2 DEF Flushed, mark
  <2>3. QED
    BY <2>1, <2>2
<1>5. f.out \in Seq(Seq(S)) /\ f \in Emits(S)
      /\ Range(acc.out) \subseteq Range(f.out)
      /\ Range(f.out) \subseteq Range(acc.out) \cup Marks
  <2>1. CASE acc.gap = 0
    BY <1>1, <1>4, <2>1 DEF Emits
  <2>2. CASE acc.gap # 0
    <3> DEFINE u == f.out
    <3>1. u \in Seq(Seq(S)) /\ Range(u) = Range(acc.out) \cup {mark}
      BY <1>3, <1>4, <2>2
    <3>2. f = [out |-> u, gap |-> 0]
      BY <1>4
    <3> HIDE DEF u
    <3>3. f \in Emits(S)
      BY <3>1, <3>2 DEF Emits
    <3> HIDE DEF f
    <3>4. QED
      BY <1>2, <3>1, <3>3 DEF u
  <2>3. QED
    BY <2>1, <2>2
<1>6. /\ Append(f.out, line) \in Seq(Seq(S))
      /\ Range(Append(f.out, line)) = Range(f.out) \cup {line}
  BY <1>1, <1>5, AppendProperties, RangeAppend, RangeOfSeq
<1> HIDE DEF f
<1>7. CASE i \in kept
  <2>1. EmitStep(lines, kept, acc, i) = [f EXCEPT !.out = Append(@, line)]
    BY <1>7 DEF EmitStep, f, line
  <2>2. EmitStep(lines, kept, acc, i) = [out |-> Append(f.out, line), gap |-> 0]
    BY <1>4, <2>1
  <2> DEFINE r == EmitStep(lines, kept, acc, i)
  <2>3. r \in Emits(S) /\ Range(r.out) = Range(f.out) \cup {line}
    BY <1>6, <2>2 DEF Emits
  <2> HIDE DEF r
  <2>4. QED
    BY <1>1, <1>4, <1>5, <1>7, <2>2, <2>3 DEF r, f, line, mark, OneEmitted
<1>8. CASE i \notin kept
  <2>1. EmitStep(lines, kept, acc, i) = [acc EXCEPT !.gap = @ + 1]
    BY <1>8 DEF EmitStep
  <2>2. EmitStep(lines, kept, acc, i) = [out |-> acc.out, gap |-> acc.gap + 1]
    BY <1>1, <2>1
  <2> DEFINE r == EmitStep(lines, kept, acc, i)
  <2>3. r \in Emits(S)
    BY <1>1, <2>2 DEF Emits
  <2> HIDE DEF r
  <2>4. QED
    BY <1>1, <1>4, <1>5, <1>8, <2>2, <2>3 DEF r, f, mark, OneEmitted
<1>9. QED
  BY <1>7, <1>8

\* The accumulators of that loop.
IsEmit(acc, lines, kept, S) ==
    /\ acc \in [0..Len(lines) -> Emits(S)]
    /\ acc[0] = [out |-> <<>>, gap |-> 0]
    /\ \A i \in 1..Len(lines) : acc[i] = EmitStep(lines, kept, acc[i - 1], i)
    /\ Emitted(lines, kept) = Join(Flushed(acc[Len(lines)]).out)

\* Emitted is that loop, with the last count added.
LEMMA EmitLoop ==
    ASSUME NEW S, HasMarks(S), NEW lines \in Seq(Seq(S)), NEW kept
    PROVE  \E acc : IsEmit(acc, lines, kept, S)
<1> DEFINE ks == Numbers(lines)
           D == DOMAIN ks
           B == DOMAIN lines
           V == Emits(S)
           F == EmitF(lines, kept, S)
           base == [out |-> <<>>, gap |-> 0]
           E(h) == [t \in SUBSET D |->
                       IF t = {} THEN base
                       ELSE EmitStep(lines, kept, h[t \ {Max(t)}], ks[Max(t)])]
           it == CHOOSE h : h = E(h)
<1>1. Stays(F, V, B) /\ base \in V
  <2>1. base \in V
    BY EmptySeq DEF Emits
  <2>2. \A acc \in V, i \in B : EmitStep(lines, kept, acc, i) \in V
    BY EmitStepIs DEF OneEmitted
  <2>3. QED
    BY <2>1, <2>2 DEF Stays, EmitF
<1>2. /\ ks \in Seq(B) /\ Len(ks) = Len(lines) /\ Len(lines) \in Nat
      /\ B = 1..Len(lines) /\ \A i \in 1..Len(lines) : ks[i] = i
  BY NumbersAre
<1>3. Emitted(lines, kept) = Join(Flushed(it[D]).out)
  BY DEF Emitted, Numbers, FoldLeft, MapThenFoldSet, EmitStep, base
<1>4. \A v \in V, i \in B : F[v][i] = EmitStep(lines, kept, v, i)
  BY DEF EmitF
<1> HIDE DEF base, ks, B, V, F
<1>5. D = 1..Len(lines) /\ \A t \in SUBSET D : t # {} => Max(t) \in D
  BY <1>2, LenProperties, LastPosition
<1>6. PICK h \in [SUBSET D -> V] : Lefts(h, F, base, ks)
  BY <1>1, <1>2, LeftsExist
<1>7. ASSUME NEW t \in SUBSET D
      PROVE  h[t] = IF t = {} THEN base
                    ELSE EmitStep(lines, kept, h[t \ {Max(t)}], ks[Max(t)])
  <2>1. h[t] = IF t = {} THEN base ELSE F[h[t \ {Max(t)}]][ks[Max(t)]]
    BY <1>6 DEF Lefts
  <2>2. QED
    BY <1>2, <1>4, <1>5, <2>1
<1>8. it = E(it)
  <2>1. h = E(h)
    BY <1>7
  <2> HIDE DEF E
  <2>2. QED
    BY <2>1
<1> HIDE DEF it
<1>9. \A t \in SUBSET D : it[t] = IF t = {} THEN base
                            ELSE EmitStep(lines, kept, it[t \ {Max(t)}], ks[Max(t)])
  BY <1>8
<1>10. GoesOn(it, F, V, base, ks)
  <2>1. it[{}] = base
    BY <1>9
  <2>2. ASSUME NEW t \in SUBSET D, t # {}, it[t \ {Max(t)}] \in V
        PROVE  it[t] = F[it[t \ {Max(t)}]][ks[Max(t)]]
    <3>1. ks[Max(t)] \in B
      BY <1>2, <1>5, <2>2
    <3>2. it[t] = EmitStep(lines, kept, it[t \ {Max(t)}], ks[Max(t)])
      BY <1>9, <2>2
    <3>3. QED
      BY <1>4, <2>2, <3>1, <3>2
  <2>3. QED
    BY <2>1, <2>2 DEF GoesOn
<1>11. PICK acc \in [0..Len(ks) -> V] : IsLoop(acc, F, base, ks) /\ it[D] = acc[Len(ks)]
  BY <1>1, <1>2, <1>10, FoldIsLoop
<1>12. ASSUME NEW i \in 1..Len(lines)
       PROVE  acc[i] = EmitStep(lines, kept, acc[i - 1], i)
  <2>1. i \in B /\ i - 1 \in 0..Len(ks) /\ i \in 1..Len(ks) /\ ks[i] = i
    BY <1>2
  <2>2. acc[i - 1] \in V
    BY <2>1
  <2>3. acc[i] = F[acc[i - 1]][i]
    BY <1>11, <2>1 DEF IsLoop
  <2>4. QED
    BY <1>4, <2>1, <2>2, <2>3
<1>13. IsEmit(acc, lines, kept, S)
  BY <1>2, <1>3, <1>11, <1>12 DEF base, V, IsLoop, IsEmit
<1>14. QED
  BY <1>13

\* The kept lines are there, and nothing else but counts.
LEMMA EmittedHolds ==
    ASSUME NEW S, Newline \in S, HasMarks(S),
           NEW lines \in Seq(Seq(S)), NEW kept
    PROVE  /\ Emitted(lines, kept) \in Seq(S)
           /\ \A k \in DOMAIN lines : k \in kept =>
                  Range(lines[k]) \subseteq Range(Emitted(lines, kept))
           /\ \A x \in Range(Emitted(lines, kept)) :
                  \/ x = Newline
                  \/ \E n \in Nat : x = Marker(n)
                  \/ \E k \in DOMAIN lines : k \in kept /\ x \in Range(lines[k])
<1>1. Len(lines) \in Nat /\ DOMAIN lines = 1..Len(lines)
  BY NumbersAre
<1>a. PICK acc : IsEmit(acc, lines, kept, S)
  BY EmitLoop
<1>2. /\ acc \in [0..Len(lines) -> Emits(S)]
      /\ acc[0] = [out |-> <<>>, gap |-> 0]
      /\ \A i \in 1..Len(lines) : acc[i] = EmitStep(lines, kept, acc[i - 1], i)
      /\ Emitted(lines, kept) = Join(Flushed(acc[Len(lines)]).out)
  BY <1>a DEF IsEmit
<1> DEFINE Heads(i) == {lines[k] : k \in {j \in 1..i : j \in kept}}
           Holds(out, i) == Heads(i) \subseteq Range(out)
                            /\ Range(out) \subseteq Heads(i) \cup Marks
           Q == {i \in 0..Len(lines) : Holds(acc[i].out, i)}
<1>3. 0 \in Q
  <2>1. acc[0].out = <<>> /\ Range(<<>>) = {}
    BY <1>2, EmptySeq DEF Range
  <2>2. 1..0 = {} /\ 0 \in 0..Len(lines)
    BY <1>1
  <2>3. QED
    BY <2>1, <2>2
<1>4. ASSUME NEW i \in 1..Len(lines), i - 1 \in Q PROVE i \in Q
  <2> DEFINE a == acc[i - 1]
             r == EmitStep(lines, kept, a, i)
             f == Flushed(a)
  <2>1. /\ i \in 0..Len(lines) /\ i - 1 \in 0..Len(lines) /\ i \in DOMAIN lines
        /\ \A k \in 1..i : k \in 1..(i - 1) \/ k = i
        /\ i \in 1..i /\ \A k \in 1..(i - 1) : k \in 1..i
    BY <1>1
  <2>2. a \in Emits(S) /\ acc[i] = r
    BY <1>2, <2>1
  <2>3. Holds(a.out, i - 1)
    BY <1>4
  <2> HIDE DEF a
  <2>4. /\ Range(a.out) \subseteq Range(f.out)
        /\ Range(f.out) \subseteq Range(a.out) \cup Marks
        /\ i \in kept => Range(r.out) = Range(f.out) \cup {lines[i]}
        /\ i \notin kept => r.out = a.out
    <3>1. OneEmitted(lines, kept, a, i, S)
      BY <2>1, <2>2, EmitStepIs
    <3>2. i \notin kept => r.out = a.out
      BY <3>1 DEF OneEmitted
    <3>3. QED
      BY <3>1, <3>2 DEF OneEmitted
  <2> HIDE DEF r, f
  <2>5. CASE i \in kept
    <3>1. Heads(i) = Heads(i - 1) \cup {lines[i]}
      BY <2>1, <2>5
    <3> HIDE DEF Heads
    <3>2. Holds(r.out, i)
      BY <2>3, <2>4, <2>5, <3>1
    <3>3. QED
      BY <2>1, <2>2, <3>2
  <2>6. CASE i \notin kept
    <3>1. Heads(i) = Heads(i - 1)
      BY <2>1, <2>6
    <3> HIDE DEF Heads
    <3>2. Holds(r.out, i)
      BY <2>3, <2>4, <2>6, <3>1
    <3>3. QED
      BY <2>1, <2>2, <3>2
  <2>7. QED
    BY <2>5, <2>6
<1> HIDE DEF Q
<1>5. Len(lines) \in Q
  <2>1. \A i \in 0..Len(lines) : i \in Q
    BY <1>1, <1>3, <1>4, UpTo
  <2>2. QED
    BY <1>1, <2>1
<1> DEFINE last == acc[Len(lines)]
           out == Flushed(last).out
<1>6. last \in Emits(S) /\ Holds(last.out, Len(lines))
  <2>1. Len(lines) \in 0..Len(lines)
    BY <1>1
  <2>2. QED
    BY <1>2, <1>5, <2>1 DEF Q
<1> HIDE DEF last
<1>7. /\ out \in Seq(Seq(S))
      /\ Range(last.out) \subseteq Range(out)
      /\ Range(out) \subseteq Range(last.out) \cup Marks
  <2>1. CASE lines = <<>>
    <3>1. last = [out |-> <<>>, gap |-> 0]
      BY <1>2, <2>1, EmptySeq DEF last
    <3>2. last.out = <<>> /\ out = <<>>
      BY <3>1 DEF Flushed
    <3>3. <<>> \in Seq(Seq(S)) /\ Range(<<>>) = {}
      BY EmptySeq DEF Range
    <3>4. QED
      BY <3>1, <3>2, <3>3
  <2>2. CASE lines # <<>>
    <3>1. Len(lines) \in DOMAIN lines
      BY <1>1, <2>2, EmptySeq
    <3>2. QED
      BY <1>6, <3>1, EmitStepIs DEF OneEmitted, Emits
  <2>3. QED
    BY <2>1, <2>2
<1> HIDE DEF out
<1>8. Holds(out, Len(lines))
  <2> HIDE DEF Heads
  <2>1. QED
    BY <1>6, <1>7
<1>9. Emitted(lines, kept) = Join(out)
  BY <1>2 DEF out, last
<1>10. /\ Join(out) \in Seq(S)
       /\ \A m \in DOMAIN out : Range(out[m]) \subseteq Range(Join(out))
       /\ \A x \in Range(Join(out)) :
              x = Newline \/ \E m \in DOMAIN out : x \in Range(out[m])
  BY <1>7, JoinHolds
<1>11. ASSUME NEW k \in DOMAIN lines, k \in kept
       PROVE  Range(lines[k]) \subseteq Range(Join(out))
  <2>1. lines[k] \in Range(out)
    BY <1>1, <1>8, <1>11
  <2>2. PICK m \in DOMAIN out : out[m] = lines[k]
    BY <2>1 DEF Range
  <2>3. QED
    BY <1>10, <2>2
<1>12. ASSUME NEW x \in Range(Join(out)), x # Newline
       PROVE  \/ \E n \in Nat : x = Marker(n)
              \/ \E k \in DOMAIN lines : k \in kept /\ x \in Range(lines[k])
  <2>1. PICK m \in DOMAIN out : x \in Range(out[m])
    BY <1>10, <1>12
  <2>2. out[m] \in Heads(Len(lines)) \cup Marks
    BY <1>8 DEF Range
  <2>3. CASE out[m] \in Heads(Len(lines))
    BY <1>1, <2>1, <2>3
  <2>4. CASE out[m] \in Marks
    <3>1. PICK n \in Nat : out[m] = <<Marker(n)>>
      BY <2>4 DEF Marks
    <3>2. DOMAIN <<Marker(n)>> = {1} /\ <<Marker(n)>>[1] = Marker(n)
      OBVIOUS
    <3>3. x = Marker(n)
      BY <2>1, <3>1, <3>2 DEF Range
    <3>4. QED
      BY <3>3
  <2>5. QED
    BY <2>2, <2>3, <2>4
<1>13. QED
  BY <1>9, <1>10, <1>11, <1>12

(***************************************************************************)
(* What the log compressor selects.                                        *)
(***************************************************************************)

\* The word of a line is one of its items.
LEMMA WordIs ==
    ASSUME NEW line \in Seq(Raw), HasWord(line)
    PROVE  /\ TheWord(line) \in Range(line) /\ IsWord(TheWord(line))
           /\ TheWord(line).kind \in Kinds
<1> DEFINE T == {i \in DOMAIN line : IsWord(line[i])}
<1>1. Len(line) \in Nat /\ DOMAIN line = 1..Len(line)
      /\ \A i \in DOMAIN line : line[i] \in Raw
  BY LenProperties, ElementOfSeq
<1>2. T \in SUBSET Nat /\ T # {}
  BY <1>1 DEF HasWord
<1>3. PICK n \in T : \A m \in T : n <= m
  <2> HIDE DEF T
  <2>1. QED
    BY <1>2, SmallestNat
<1>4. Min(T) \in T
  <2> HIDE DEF T
  <2>1. QED
    BY <1>3 DEF Min
<1>5. TheWord(line) = line[Min(T)]
  BY DEF TheWord
<1>6. \A x \in Raw : IsWord(x) => x.kind \in Kinds
  BY DEF Raw, IsWord, Newline, Indent, Escape, Number, Sentinel, Item
<1> DEFINE k == Min(T)
<1>7. k \in DOMAIN line /\ IsWord(line[k])
  BY <1>4
<1> HIDE DEF k
<1>8. QED
  BY <1>1, <1>5, <1>6, <1>7 DEF Range, k

\* A score is at most a hundred, and that of an error is a hundred.
LEMMA JudgedIs ==
    ASSUME NEW c, c.level \in Levels, NEW indented
    PROVE  /\ Judged(c, indented).level = c.level
           /\ Judged(c, indented).summary = c.summary
           /\ Judged(c, indented).score \in 0..100
           /\ c.level \in {"error", "fail"} => Judged(c, indented).score = 100
<1> DEFINE stack == c.stack = "yes" \/ (c.stack = "indented" /\ indented)
           a == BaseScore[c.level]
           b == IF stack THEN 30 ELSE 0
           d == IF c.summary THEN 40 ELSE 0
<1>1. /\ Judged(c, indented).level = c.level
      /\ Judged(c, indented).summary = c.summary
      /\ Judged(c, indented).score = Score(c, stack)
  BY DEF Judged
<1>2. Score(c, stack) = IF a + b + d > 100 THEN 100 ELSE a + b + d
  BY DEF Score
<1>3. a \in 2..100 /\ (c.level \in {"error", "fail"} => a = 100)
  <2>1. /\ BaseScore["error"] = 100 /\ BaseScore["fail"] = 100 /\ BaseScore["warn"] = 50
        /\ BaseScore["info"] = 10 /\ BaseScore["debug"] = 5 /\ BaseScore["trace"] = 2
        /\ BaseScore["unknown"] = 10
    BY DEF BaseScore
  <2>2. QED
    BY <2>1 DEF Levels
<1>4. b \in {0, 30} /\ d \in {0, 40}
  OBVIOUS
<1> HIDE DEF stack, a, b, d
<1>5. QED
  BY <1>1, <1>2, <1>3, <1>4

\* The numbers of a log's lines and what is known of each.
Rated(meta, lines) ==
    /\ Len(lines) \in Nat /\ DOMAIN meta = 1..Len(lines) /\ Len(meta) = Len(lines)
    /\ \A i \in 1..Len(lines) :
          /\ meta[i].score \in 0..100 /\ meta[i].stack \in BOOLEAN
          /\ meta[i].level \in {"error", "fail"} => meta[i].score = 100
          /\ meta[i].level \in {"error", "fail", "warn"} \/ meta[i].summary
                 => HasWord(lines[i])

\* So MetaOf rates them.
LEMMA MetaIsRated ==
    ASSUME NEW text \in Seq(Raw)
    PROVE  Rated(MetaOf(text), Lines(text))
<1> DEFINE L == Lines(text)
           base == [i \in DOMAIN L |-> Meta(L[i])]
           M == MetaOf(text)
<1>1. L \in Seq(Seq(Raw))
  BY LinesAre DEF Pages
<1> HIDE DEF L
<1>2. Len(L) \in Nat /\ DOMAIN L = 1..Len(L) /\ \A i \in 1..Len(L) : L[i] \in Seq(Raw)
  BY <1>1, LenProperties, ElementOfSeq
<1>3. /\ DOMAIN M = 1..Len(L)
      /\ \A i \in 1..Len(L) : \E stack \in BOOLEAN :
            M[i] = [Meta(L[i]) EXCEPT !.stack = stack]
  BY <1>2 DEF MetaOf, Extended, L
<1>a. Len(M) = Len(L)
  <2> DEFINE n == Len(L)
             R == {M[i] : i \in 1..n}
  <2>1. M = [i \in 1..n |-> M[i]]
    BY <1>2 DEF MetaOf, Extended, L
  <2> HIDE DEF n, M
  <2>2. n \in Nat /\ M \in [1..n -> R]
    BY <1>2, <2>1 DEF n
  <2> HIDE DEF R
  <2>3. M \in Seq(R) /\ DOMAIN M = 1..n
    BY <2>2, SeqDef
  <2>4. Len(M) \in Nat /\ DOMAIN M = 1..Len(M)
    BY <2>3, LenProperties
  <2>5. QED
    BY <2>2, <2>3, <2>4 DEF n
<1> HIDE DEF M
<1>4. ASSUME NEW i \in 1..Len(L)
      PROVE  /\ M[i].score \in 0..100 /\ M[i].stack \in BOOLEAN
             /\ M[i].level \in {"error", "fail"} => M[i].score = 100
             /\ M[i].level \in {"error", "fail", "warn"} \/ M[i].summary => HasWord(L[i])
  <2> DEFINE line == L[i]
             c == IF HasWord(line) THEN ClassOf(line) ELSE Plain
             m == Judged(c, IsIndented(line))
  <2>1. line \in Seq(Raw)
    BY <1>2
  <2>2. HasWord(line) => c.level \in Levels
    BY <2>1, WordIs, TextAssumption DEF ClassOf, Classes
  <2>3. ~HasWord(line) => c.level = "unknown" /\ c.summary = FALSE
    BY DEF Plain
  <2>4. c.level \in Levels
    BY <2>2, <2>3 DEF Levels
  <2>5. /\ m.level = c.level /\ m.summary = c.summary /\ m.score \in 0..100
        /\ c.level \in {"error", "fail"} => m.score = 100
    <3> HIDE DEF c
    <3>1. QED
      BY <2>4, JudgedIs
  <2>6. PICK stack \in BOOLEAN : M[i] = [m EXCEPT !.stack = stack]
    BY <1>3 DEF Meta
  <2>7. M[i].level = m.level /\ M[i].summary = m.summary /\ M[i].score = m.score
        /\ M[i].stack \in BOOLEAN
    BY <2>6 DEF Judged
  <2> HIDE DEF m, c
  <2>8. QED
    BY <2>3, <2>5, <2>7 DEF line
<1>5. QED
  BY <1>2, <1>3, <1>a, <1>4 DEF Rated, L, M

\* Which line goes first when there is not room for both.
Before(meta, j, i) ==
    meta[j].score > meta[i].score \/ (meta[j].score = meta[i].score /\ j < i)

\* Top by that order.
LEMMA TopIs ==
    ASSUME NEW meta, NEW S, NEW n
    PROVE  Top(meta, S, n) = {i \in S : Cardinality({j \in S : Before(meta, j, i)}) < n}
BY DEF Top, Before

\* The first and the last of some lines.
LEMMA EndsAre ==
    ASSUME NEW n \in Nat, NEW S \in SUBSET (1..n), S # {}
    PROVE  /\ Min(S) \in S /\ Max(S) \in S
           /\ \A i \in S : Min(S) <= i /\ i <= Max(S)
           /\ \A i \in S : (\A j \in S : i <= j) => i = Min(S)
           /\ \A i \in S : (\A j \in S : i >= j) => i = Max(S)
<1>1. PICK k \in S : \A m \in S : k <= m
  <2>1. S \in SUBSET Nat
    OBVIOUS
  <2>2. QED
    BY <2>1, SmallestNat
<1>2. Min(S) \in S /\ \A i \in S : Min(S) <= i
  BY <1>1 DEF Min
<1>3. Max(S) \in S /\ \A i \in S : Max(S) >= i
  BY LastPosition
<1>4. \A i \in S : i \in Int
  OBVIOUS
<1> DEFINE lo == Min(S)
           hi == Max(S)
<1> HIDE DEF lo, hi
<1>5. /\ lo \in S /\ hi \in S /\ \A i \in S : lo <= i /\ hi >= i
  BY <1>2, <1>3 DEF lo, hi
<1>6. /\ \A i \in S : (\A j \in S : i <= j) => i = lo
      /\ \A i \in S : (\A j \in S : i >= j) => i = hi
  <2>1. ASSUME NEW i \in S, \A j \in S : i <= j PROVE i = lo
    <3>1. i <= lo /\ lo <= i
      BY <1>5, <2>1
    <3>2. QED
      BY <1>4, <1>5, <3>1
  <2>2. ASSUME NEW i \in S, \A j \in S : i >= j PROVE i = hi
    <3>1. i >= hi /\ hi >= i
      BY <1>5, <2>2
    <3>2. QED
      BY <1>4, <1>5, <3>1
  <2>3. QED
    BY <2>1, <2>2
<1>7. QED
  BY <1>2, <1>3, <1>4, <1>6 DEF lo, hi

\* Errors are kept while there is room for them, and the first and the last.
LEMMA EndsAreKept ==
    ASSUME NEW n \in Nat, NEW meta, \A i \in 1..n : meta[i].score \in 0..100,
           NEW S \in SUBSET (1..n), MaxErrors > 0, NEW i \in S,
           \/ Cardinality(S) <= MaxErrors
           \/ \A j \in S : i <= j
           \/ \A j \in S : i >= j
    PROVE  i \in FirstLastTop(meta, S)
<1> DEFINE ends == {Min(S), Max(S)}
           rest == S \ ends
           room == MaxErrors - Cardinality(ends)
<1>1. MaxErrors \in Nat
  BY LogAssumption
<1>2. FirstLastTop(meta, S) = ends \cup Top(meta, rest, room)
  BY <1>1 DEF FirstLastTop
<1>3. ends \subseteq S /\ Min(S) \in S
      /\ ((\A j \in S : i <= j) => i \in ends)
      /\ ((\A j \in S : i >= j) => i \in ends)
  BY EndsAre
<1> HIDE DEF ends
<1>4. ASSUME i \notin ends, Cardinality(S) <= MaxErrors
      PROVE  i \in Top(meta, rest, room)
  <2> DEFINE before == {j \in rest : Before(meta, j, i)}
  <2>1. IsFiniteSet(S) /\ IsFiniteSet(rest) /\ i \in rest
    <3>1. IsFiniteSet(1..n)
      BY FS_Interval
    <3>2. IsFiniteSet(S)
      BY <3>1, FS_Subset
    <3>3. QED
      BY <1>4, <3>2, FS_Subset
  <2>2. /\ Cardinality(rest) = Cardinality(S) - Cardinality(ends)
        /\ Cardinality(S) \in Nat /\ Cardinality(ends) \in Nat
    <3>1. S \cap ends = ends
      BY <1>3
    <3>2. IsFiniteSet(ends)
      BY <1>3, <2>1, FS_Subset
    <3>3. QED
      BY <2>1, <3>1, <3>2, FS_Difference, FS_CardinalityType
  <2>3. before \subseteq rest \ {i}
    BY DEF Before
  <2>4. Cardinality(before) <= Cardinality(rest) - 1 /\ Cardinality(before) \in Nat
    <3>1. IsFiniteSet(rest \ {i}) /\ Cardinality(rest \ {i}) = Cardinality(rest) - 1
      BY <2>1, FS_RemoveElement
    <3> HIDE DEF before, rest
    <3>2. QED
      BY <2>3, <3>1, FS_Subset, FS_CardinalityType
  <2>5. Cardinality(before) < room
    <3> HIDE DEF before, rest
    <3>1. QED
      BY <1>1, <1>4, <2>2, <2>4
  <2>6. QED
    BY <2>1, <2>5, TopIs
<1>5. QED
  BY <1>2, <1>3, <1>4

\* The lines of the highest score stay while the cap has room for all of them.
LEMMA LoudStay ==
    ASSUME NEW n \in Nat, NEW meta, \A i \in 1..n : meta[i].score \in 0..100,
           NEW S \in SUBSET (1..n), NEW i \in S, meta[i].score = 100,
           Cardinality({j \in 1..n : meta[j].score = 100}) <= MaxTotalLines
    PROVE  i \in Capped(meta, S)
<1> DEFINE loud == {j \in 1..n : meta[j].score = 100}
           before == {j \in S : Before(meta, j, i)}
<1>1. IsFiniteSet(loud)
  <2>1. loud \in SUBSET (1..n)
    OBVIOUS
  <2> HIDE DEF loud
  <2>2. IsFiniteSet(1..n)
    BY FS_Interval
  <2>3. QED
    BY <2>1, <2>2, FS_Subset
<1>2. MaxTotalLines \in Nat
  BY LogAssumption
<1>3. before \subseteq loud \ {i} /\ i \in loud
  <2>1. ASSUME NEW j \in S, Before(meta, j, i) PROVE j \in loud \ {i}
    <3>1. j \in 1..n /\ meta[j].score \in 0..100
      OBVIOUS
    <3>2. meta[j].score = 100 /\ j < i
      BY <2>1, <3>1 DEF Before
    <3>3. QED
      BY <3>1, <3>2
  <2>2. QED
    BY <2>1
<1>4. Cardinality(before) < MaxTotalLines
  <2>1. Cardinality(loud) <= MaxTotalLines
    OBVIOUS
  <2> HIDE DEF loud, before
  <2>2. IsFiniteSet(loud \ {i}) /\ Cardinality(loud \ {i}) = Cardinality(loud) - 1
    BY <1>1, <1>3, FS_RemoveElement
  <2>3. Cardinality(before) <= Cardinality(loud) - 1 /\ Cardinality(before) \in Nat
        /\ Cardinality(loud) \in Nat
    <3> DEFINE other == loud \ {i}
    <3>1. before \in SUBSET other
      BY <1>3
    <3>2. IsFiniteSet(other) /\ Cardinality(other) = Cardinality(loud) - 1
      BY <2>2
    <3> HIDE DEF other
    <3>3. IsFiniteSet(before) /\ Cardinality(before) <= Cardinality(other)
      BY <3>1, <3>2, FS_Subset
    <3>4. QED
      BY <1>1, <3>2, <3>3, FS_CardinalityType
  <2>4. QED
    BY <1>2, <2>1, <2>3
<1>5. i \in Top(meta, S, MaxTotalLines)
  BY <1>4, TopIs
<1>6. QED
  BY <1>5 DEF Capped

\* What is selected of the loud lines comes through.
LEMMA LoudSelected ==
    ASSUME NEW n \in Nat, NEW meta, DOMAIN meta = 1..n,
           \A i \in 1..n : meta[i].score \in 0..100,
           NEW level \in {"error", "fail"},
           NEW i \in FirstLastTop(meta, OfLevel(meta, level)), i \in 1..n,
           meta[i].score = 100,
           Cardinality({j \in 1..n : meta[j].score = 100}) <= MaxTotalLines
    PROVE  i \in Selection(meta)
<1>1. i \in Signals(meta)
  BY DEF Signals
<1> DEFINE S == WithNeighbors(meta, Signals(meta))
<1>2. i \in S /\ S \in SUBSET (1..n)
  BY <1>1 DEF WithNeighbors
<1> HIDE DEF S
<1>3. i \in Capped(meta, S)
  BY <1>2, LoudStay
<1>4. QED
  BY <1>3 DEF Selection, Floored, S

\* While a log has no more lines of the highest score than the total cap, its
\* first and last error and its first and last failure come through, and all of
\* them while they are within their own cap, whatever warnings, traces,
\* summaries and context lines compete for the room (selectFirstLastTop,
\* addNeighbors, enforceCap in logcompress.go).
THEOREM FailuresComeThrough == Spec => []FailuresKept
<1>1. Init => LayersOK
  BY InitLayers
<1>2. ASSUME IInv, LayersOK, LogReduced, MaxErrors > 0,
             Cardinality({i \in DOMAIN LogMeta : LogMeta[i].score = 100}) <= MaxTotalLines,
             NEW level \in {"error", "fail"},
             NEW i \in DOMAIN LogMeta, LogMeta[i].score = 100, LogMeta[i].level = level,
             LET S == {j \in {k \in DOMAIN LogMeta : LogMeta[k].score = 100} :
                          LogMeta[j].level = level}
             IN  Cardinality(S) <= MaxErrors \/ (\A j \in S : i <= j) \/ (\A j \in S : i >= j)
      PROVE  KeptLine(i)
  <2> DEFINE T == ANSIStrip(in.text)
             L == Lines(T)
             M == MetaOf(T)
             n == Len(L)
             S == OfLevel(M, level)
  <2>1. cur = LogCompress(T) /\ T \in Seq(Raw)
    BY <1>2, ReducedIs DEF IsGiven
  <2>2. LogLines = L /\ LogMeta = M
    BY DEF LogLines, LogMeta, MetaOf
  <2> HIDE DEF T
  <2>3. Rated(M, L) /\ L \in Seq(Seq(Raw)) /\ Cut(L, T, Len(T))
    BY <2>1, MetaIsRated, LinesAre DEF Pages
  <2> HIDE DEF L, M
  <2>4. /\ n \in Nat /\ DOMAIN M = 1..n
        /\ \A k \in 1..n : M[k].score \in 0..100
        /\ \A k \in 1..n : M[k].level \in {"error", "fail"} => M[k].score = 100
        /\ i \in 1..n /\ M[i].level = level /\ M[i].score = 100 /\ HasWord(L[i])
        /\ L[i] \in Seq(Raw) /\ DOMAIN L = 1..n
    BY <1>2, <2>2, <2>3, LenProperties, ElementOfSeq DEF Rated
  <2> HIDE DEF n
  <2>5. S \in SUBSET (1..n) /\ i \in S
        /\ S = {j \in {k \in DOMAIN LogMeta : LogMeta[k].score = 100} :
                    LogMeta[j].level = level}
    BY <2>2, <2>4 DEF OfLevel
  <2>6. \/ Cardinality(S) <= MaxErrors
        \/ \A j \in S : i <= j
        \/ \A j \in S : i >= j
    BY <1>2, <2>5
  <2>7. i \in FirstLastTop(M, S)
    <3> HIDE DEF S
    <3>1. QED
      BY <1>2, <2>4, <2>5, <2>6, EndsAreKept
  <2>8. i \in Selection(M)
    <3>1. Cardinality({j \in 1..n : M[j].score = 100}) <= MaxTotalLines
      BY <1>2, <2>2, <2>4
    <3>2. i \in FirstLastTop(M, OfLevel(M, level))
      BY <2>7
    <3>3. QED
      BY <2>4, <3>1, <3>2, LoudSelected
  <2> DEFINE out == Emitted(L, Selection(M))
             w == TheWord(L[i])
             B == Raw \cup {Marker(k) : k \in Nat}
  <2>9. w \in Range(L[i])
    BY <2>4, WordIs
  <2> HIDE DEF w
  <2>10. w \in Range(T)
    <3>1. i \in DOMAIN L /\ DOMAIN T = 1..Len(T)
      BY <2>1, <2>4, LenProperties
    <3>2. PICK k \in 1..Len(T) : w = T[k]
      BY <2>3, <2>9, <3>1 DEF Cut
    <3>3. QED
      BY <3>1, <3>2 DEF Range
  <2>11. L \in Seq(Seq(B)) /\ Newline \in B /\ HasMarks(B)
    <3>1. Raw \in SUBSET B /\ Newline \in B /\ HasMarks(B)
      BY DEF Raw, HasMarks
    <3> HIDE DEF B
    <3>2. Seq(Raw) \in SUBSET Seq(B)
      BY <3>1, SeqMonotonic
    <3>3. QED
      BY <2>3, <3>1, <3>2, SeqMonotonic
  <2> HIDE DEF B
  <2>12. w \in Range(out) /\ out \in Seq(B)
    BY <2>4, <2>8, <2>9, <2>11, EmittedHolds, ZenonT(60)
  <2>13. cur = T \/ cur = out
    BY <2>1 DEF LogCompress, Shorter, L, M
  <2> HIDE DEF out
  <2>14. \E k \in 1..Len(cur) : cur[k] = w
    BY <2>1, <2>10, <2>12, <2>13, LenProperties DEF Range
  <2>15. QED
    BY <2>2, <2>4, <2>14 DEF KeptLine, Contains, w
<1>3. IInv /\ LayersOK => FailuresKept
  BY <1>2 DEF FailuresKept
<1>4. QED
  BY <1>1, <1>3, LayersStep, InvariantHolds, PTL DEF Spec

\* Of some lines one goes before all others, and one after them.
LEMMA RanksEnd ==
    ASSUME NEW n \in Nat, NEW meta, \A i \in 1..n : meta[i].score \in 0..100,
           NEW S \in SUBSET (1..n), S # {}
    PROVE  /\ \E i \in S : \A j \in S : ~Before(meta, j, i)
           /\ \E i \in S : \A j \in S : j # i => Before(meta, j, i)
<1>1. \A i \in S : i \in 1..n /\ meta[i].score \in 0..100
  OBVIOUS
<1>2. \E i \in S : \A j \in S : ~Before(meta, j, i)
  <2> DEFINE T == {100 - meta[i].score : i \in S}
  <2>1. T \in SUBSET Nat /\ T # {}
    <3>1. \A i \in S : 100 - meta[i].score \in Nat
      BY <1>1
    <3>2. QED
      BY <3>1
  <2> HIDE DEF T
  <2>2. PICK t \in T : \A m \in T : t <= m
    BY <2>1, SmallestNat
  <2> DEFINE B == {i \in S : t = 100 - meta[i].score}
  <2>3. B \in SUBSET (1..n) /\ B # {}
    BY DEF T
  <2>4. PICK k \in B : \A j \in B : k <= j
    <3> HIDE DEF B
    <3>1. QED
      BY <2>3, EndsAre
  <2>5. ASSUME NEW j \in S PROVE ~Before(meta, j, k)
    <3>1. t <= 100 - meta[j].score
      BY <2>2 DEF T
    <3>2. t = 100 - meta[j].score => k <= j
      BY <2>4
    <3>3. k \in S /\ t = 100 - meta[k].score
      OBVIOUS
    <3> HIDE DEF B
    <3>s. k \in 1..n /\ j \in 1..n
      BY <3>3
    <3>4. k \in Nat /\ j \in Nat
          /\ meta[k].score \in 0..100 /\ meta[j].score \in 0..100
      BY <3>s
    <3> DEFINE a == meta[j].score
               b == meta[k].score
    <3>5. Before(meta, j, k) <=> (a > b \/ (a = b /\ j < k))
      BY DEF Before
    <3>6. t <= 100 - a /\ (t = 100 - a => k <= j) /\ t = 100 - b
      BY <3>1, <3>2, <3>3
    <3>7. a \in 0..100 /\ b \in 0..100
      BY <3>4
    <3> HIDE DEF B, a, b
    <3>8. QED
      BY <3>4, <3>5, <3>6, <3>7
  <2>6. QED
    BY <2>5
<1>3. \E i \in S : \A j \in S : j # i => Before(meta, j, i)
  <2> DEFINE T == {meta[i].score : i \in S}
  <2>1. T \in SUBSET Nat /\ T # {}
    <3>1. \A i \in S : meta[i].score \in Nat
      BY <1>1
    <3>2. QED
      BY <3>1
  <2> HIDE DEF T
  <2>2. PICK t \in T : \A m \in T : t <= m
    BY <2>1, SmallestNat
  <2> DEFINE B == {i \in S : t = meta[i].score}
  <2>3. B \in SUBSET (1..n) /\ B # {}
    BY DEF T
  <2>4. PICK k \in B : \A j \in B : j <= k
    <3> HIDE DEF B
    <3>1. QED
      BY <2>3, EndsAre
  <2>5. ASSUME NEW j \in S, j # k PROVE Before(meta, j, k)
    <3>1. t <= meta[j].score
      BY <2>2 DEF T
    <3>2. t = meta[j].score => j <= k
      BY <2>4
    <3>3. k \in S /\ t = meta[k].score
      OBVIOUS
    <3> HIDE DEF B
    <3>s. k \in 1..n /\ j \in 1..n
      BY <3>3
    <3>4. k \in Nat /\ j \in Nat
          /\ meta[k].score \in 0..100 /\ meta[j].score \in 0..100
      BY <3>s
    <3> DEFINE a == meta[j].score
               b == meta[k].score
    <3>5. Before(meta, j, k) <=> (a > b \/ (a = b /\ j < k))
      BY DEF Before
    <3>6. t <= a /\ (t = a => j <= k) /\ t = b
      BY <3>1, <3>2, <3>3
    <3>7. a \in 0..100 /\ b \in 0..100
      BY <3>4
    <3> HIDE DEF B, a, b
    <3>8. QED
      BY <2>5, <3>4, <3>5, <3>6, <3>7
  <2>6. QED
    BY <2>5
<1>4. QED
  BY <1>2, <1>3

\* Top takes no more than it may, and something if it may.
LEMMA TopFits ==
    ASSUME NEW n \in Nat, NEW meta, \A i \in 1..n : meta[i].score \in 0..100,
           NEW S \in SUBSET (1..n), NEW cap \in Nat
    PROVE  /\ Cardinality(Top(meta, S, cap)) <= cap
           /\ S # {} /\ cap > 0 => Top(meta, S, cap) # {}
<1> DEFINE before(i) == {j \in S : Before(meta, j, i)}
           T == Top(meta, S, cap)
<1>1. T = {i \in S : Cardinality(before(i)) < cap}
  BY TopIs
<1>2. IsFiniteSet(S)
  <2>1. IsFiniteSet(1..n)
    BY FS_Interval
  <2>2. QED
    BY <2>1, FS_Subset
<1>3. T \in SUBSET S
  BY <1>1
<1>4. IsFiniteSet(T) /\ Cardinality(T) \in Nat
  <2> HIDE DEF T
  <2>1. QED
    BY <1>2, <1>3, FS_Subset, FS_CardinalityType
<1>5. \A i \in S : IsFiniteSet(before(i)) /\ Cardinality(before(i)) \in Nat
  <2> SUFFICES ASSUME NEW i \in S
               PROVE  IsFiniteSet(before(i)) /\ Cardinality(before(i)) \in Nat
    OBVIOUS
  <2> DEFINE b == before(i)
  <2>1. b \in SUBSET S
    OBVIOUS
  <2> HIDE DEF b
  <2>2. IsFiniteSet(b) /\ Cardinality(b) \in Nat
    BY <1>2, <2>1, FS_Subset, FS_CardinalityType
  <2>3. QED
    BY <2>2 DEF b
<1> HIDE DEF T
<1>6. Cardinality(T) <= cap
  <2>1. CASE T = {}
    BY <2>1, FS_EmptySet
  <2>2. CASE T # {}
    <3>1. T \in SUBSET (1..n)
      BY <1>3
    <3>2. PICK i \in T : \A j \in T : j # i => Before(meta, j, i)
      BY <2>2, <3>1, RanksEnd
    <3> DEFINE b == before(i)
               r == T \ {i}
    <3>3. r \in SUBSET b /\ i \in S
      BY <1>3, <3>2
    <3>4. Cardinality(b) < cap /\ IsFiniteSet(b) /\ Cardinality(b) \in Nat
      BY <1>1, <1>5, <3>3
    <3>5. Cardinality(r) = Cardinality(T) - 1
      BY <1>4, FS_RemoveElement
    <3> HIDE DEF b, r
    <3>6. Cardinality(r) <= Cardinality(b)
      BY <3>3, <3>4, FS_Subset
    <3>7. QED
      BY <1>4, <3>4, <3>5, <3>6
  <2>3. QED
    BY <2>1, <2>2
<1>7. ASSUME S # {}, cap > 0 PROVE T # {}
  <2>1. PICK i \in S : \A j \in S : ~Before(meta, j, i)
    BY <1>7, RanksEnd
  <2>2. before(i) = {}
    BY <2>1
  <2>3. Cardinality(before(i)) = 0
    BY <2>2, FS_EmptySet
  <2>4. QED
    BY <1>1, <1>7, <2>3
<1>8. QED
  BY <1>6, <1>7 DEF T

\* A limit of zero turns the errors off; otherwise their first is taken.
LEMMA FirstLastTopIs ==
    ASSUME NEW n \in Nat, NEW meta, NEW S \in SUBSET (1..n)
    PROVE  /\ FirstLastTop(meta, S) \subseteq S
           /\ FirstLastTop(meta, S) # {} => MaxErrors > 0
           /\ S # {} /\ MaxErrors > 0 => FirstLastTop(meta, S) # {}
<1>1. MaxErrors \in Nat
  BY LogAssumption
<1>2. CASE S = {} \/ MaxErrors = 0
  <2>1. FirstLastTop(meta, S) = {}
    BY <1>2 DEF FirstLastTop
  <2>2. MaxErrors > 0 => MaxErrors # 0
    BY <1>1
  <2>3. QED
    BY <1>2, <2>1, <2>2
<1>3. CASE S # {} /\ MaxErrors # 0
  <2> DEFINE ends == {Min(S), Max(S)}
             rest == Top(meta, S \ ends, MaxErrors - Cardinality(ends))
  <2>1. FirstLastTop(meta, S) = ends \cup rest
    BY <1>3 DEF FirstLastTop
  <2>2. ends \subseteq S /\ ends # {}
    BY <1>3, EndsAre
  <2>3. rest \subseteq S
    BY DEF Top
  <2> HIDE DEF ends, rest
  <2>4. QED
    BY <1>1, <1>3, <2>1, <2>2, <2>3
<1>4. QED
  BY <1>2, <1>3

\* So do the warnings.
LEMMA WarningsAre ==
    ASSUME NEW n \in Nat, NEW meta, DOMAIN meta = 1..n
    PROVE  /\ Warnings(meta) \subseteq OfLevel(meta, "warn")
           /\ Warnings(meta) # {} => MaxWarnings > 0
           /\ OfLevel(meta, "warn") # {} /\ MaxWarnings > 0 => Warnings(meta) # {}
<1> DEFINE W == OfLevel(meta, "warn")
           firsts == {i \in W : \A j \in W : j < i => meta[j].key # meta[i].key}
           before(i) == {j \in firsts : j < i}
<1>1. Warnings(meta) = {i \in firsts : Cardinality(before(i)) < MaxWarnings}
  BY DEF Warnings
<1>2. MaxWarnings \in Nat
  BY LogAssumption
<1>3. W \in SUBSET (1..n)
  BY DEF OfLevel
<1>4. firsts \in SUBSET W
  OBVIOUS
<1> HIDE DEF W
<1>5. ASSUME NEW i PROVE Cardinality(before(i)) \in Nat
  <2> DEFINE b == before(i)
  <2>1. b \in SUBSET (1..n)
    BY <1>3, <1>4
  <2>2. IsFiniteSet(1..n)
    BY FS_Interval
  <2> HIDE DEF b
  <2>3. Cardinality(b) \in Nat
    BY <2>1, <2>2, FS_Subset, FS_CardinalityType
  <2>4. QED
    BY <2>3 DEF b
<1>6. ASSUME W # {}, MaxWarnings > 0 PROVE Warnings(meta) # {}
  <2>1. PICK k \in W : \A j \in W : k <= j
    BY <1>3, <1>6, EndsAre
  <2>2. \A j \in W : ~(j < k)
    BY <1>3, <2>1
  <2>3. k \in firsts /\ before(k) = {}
    BY <1>4, <2>2
  <2>4. Cardinality(before(k)) = 0
    BY <2>3, FS_EmptySet
  <2> HIDE DEF firsts, before
  <2>5. QED
    BY <1>1, <1>6, <2>3, <2>4
<1>7. ASSUME Warnings(meta) # {} PROVE MaxWarnings > 0
  <2> HIDE DEF firsts, before
  <2>1. PICK i : Cardinality(before(i)) < MaxWarnings
    BY <1>1, <1>7
  <2>2. Cardinality(before(i)) \in Nat
    BY <1>5
  <2>3. QED
    BY <1>2, <2>1, <2>2
<1>8. Warnings(meta) \subseteq W
  BY <1>1, <1>4
<1>9. QED
  BY <1>6, <1>7, <1>8 DEF W

\* And the stack traces: every line of one comes after a first.
LEMMA StacksAre ==
    ASSUME NEW n \in Nat, NEW meta, DOMAIN meta = 1..n,
           \A i \in 1..n : meta[i].stack \in BOOLEAN
    PROVE  /\ \A i \in Stacks(meta) : i \in 1..n /\ meta[i].stack
           /\ Stacks(meta) # {} => MaxStackTraces > 0
           /\ (\E i \in 1..n : meta[i].stack) /\ MaxStackTraces > 0 => Stacks(meta) # {}
<1> DEFINE traces == {i \in 1..n : meta[i].stack}
           starts == {i \in 1..n : meta[i].stack /\ (i = 1 \/ ~meta[i - 1].stack)}
           upTo(i) == {s \in starts : s <= i}
<1>1. Stacks(meta) = {i \in 1..n :
                         /\ meta[i].stack
                         /\ Cardinality(upTo(i)) <= MaxStackTraces
                         /\ StackTraceMaxLines = 0
                            \/ i < Max(upTo(i)) + StackTraceMaxLines}
  BY DEF Stacks
<1>2. MaxStackTraces \in Nat /\ StackTraceMaxLines \in Nat
  BY LogAssumption
<1>3. traces \in SUBSET (1..n)
  OBVIOUS
<1>4. ASSUME traces # {}
      PROVE  \E k \in starts : (\A j \in traces : k <= j) /\ upTo(k) = {k}
  <2>1. PICK k \in traces : \A j \in traces : k <= j
    <3> HIDE DEF traces
    <3>1. QED
      BY <1>3, <1>4, EndsAre
  <2>2. k \in 1..n /\ meta[k].stack
    OBVIOUS
  <2>3. k = 1 \/ ~meta[k - 1].stack
    <3> SUFFICES ASSUME k # 1, meta[k - 1].stack PROVE FALSE
      OBVIOUS
    <3>1. k - 1 \in 1..n /\ ~(k <= k - 1)
      BY <2>2
    <3>2. QED
      BY <2>1, <3>1
  <2>4. k \in starts
    BY <2>2, <2>3
  <2>5. \A s \in starts : s \in traces /\ s \in Nat
    OBVIOUS
  <2>6. upTo(k) = {k}
    <3> HIDE DEF starts, traces
    <3>1. \A s \in starts : s <= k => s = k
      BY <2>1, <2>2, <2>5
    <3>2. k <= k
      BY <2>2
    <3>3. \A s : s \in upTo(k) <=> s \in starts /\ s <= k
      OBVIOUS
    <3> HIDE DEF upTo
    <3>4. QED
      BY <2>4, <3>1, <3>2, <3>3
  <2> HIDE DEF starts, traces, upTo
  <2>7. QED
    BY <2>1, <2>4, <2>6
<1>5. ASSUME traces # {}, MaxStackTraces > 0 PROVE Stacks(meta) # {}
  <2>1. PICK k \in starts : (\A j \in traces : k <= j) /\ upTo(k) = {k}
    BY <1>4, <1>5
  <2>2. k \in 1..n /\ meta[k].stack
    OBVIOUS
  <2>3. Cardinality(upTo(k)) = 1
    <3> HIDE DEF upTo, starts
    <3>1. QED
      BY <2>1, FS_Singleton
  <2>4. Max(upTo(k)) = k
    <3> DEFINE u == upTo(k)
    <3>1. u \in SUBSET (1..n) /\ u = {k} /\ u # {}
      BY <2>1, <2>2
    <3> HIDE DEF u
    <3>2. Max(u) \in u
      BY <3>1, EndsAre
    <3>3. QED
      BY <3>1, <3>2 DEF u
  <2> HIDE DEF upTo, starts
  <2>5. k \in Stacks(meta)
    BY <1>1, <1>2, <1>5, <2>2, <2>3, <2>4
  <2>6. QED
    BY <2>5
<1>6. ASSUME Stacks(meta) # {} PROVE MaxStackTraces > 0
  <2>1. PICK i \in 1..n : meta[i].stack /\ Cardinality(upTo(i)) <= MaxStackTraces
    BY <1>1, <1>6
  <2>2. PICK k \in starts : \A j \in traces : k <= j
    BY <1>4, <2>1
  <2>3. k \in upTo(i)
    BY <2>1, <2>2
  <2> DEFINE u == upTo(i)
  <2>4. u \in SUBSET (1..n) /\ u # {}
    BY <2>3
  <2>5. Cardinality(u) <= MaxStackTraces
    BY <2>1
  <2> HIDE DEF u
  <2>6. IsFiniteSet(1..n)
    BY FS_Interval
  <2>7. IsFiniteSet(u) /\ Cardinality(u) \in Nat
    BY <2>4, <2>6, FS_Subset, FS_CardinalityType
  <2>8. Cardinality(u) # 0
    BY <2>4, <2>7, FS_EmptySet
  <2>9. QED
    BY <1>2, <2>5, <2>7, <2>8
<1>7. QED
  BY <1>1, <1>5, <1>6

\* What counts as a signal: what ContextOnly calls so.
Signalled(meta) ==
    {i \in DOMAIN meta : \/ MaxErrors > 0 /\ meta[i].level \in {"error", "fail"}
                         \/ MaxWarnings > 0 /\ meta[i].level = "warn"
                         \/ MaxStackTraces > 0 /\ meta[i].stack
                         \/ meta[i].summary}

\* Only signals are selected, and some if there are any.
LEMMA SignalsAre ==
    ASSUME NEW n \in Nat, NEW meta, DOMAIN meta = 1..n,
           \A i \in 1..n : meta[i].stack \in BOOLEAN
    PROVE  /\ Signals(meta) \subseteq Signalled(meta)
           /\ Signalled(meta) # {} => Signals(meta) # {}
<1> DEFINE E == OfLevel(meta, "error")
           F == OfLevel(meta, "fail")
           W == OfLevel(meta, "warn")
           ee == FirstLastTop(meta, E)
           ff == FirstLastTop(meta, F)
           ww == Warnings(meta)
           ss == Stacks(meta)
           mm == Summaries(meta)
<1>1. Signals(meta) = UNION {ee, ff, ww, ss, mm}
  BY DEF Signals
<1>2. E \in SUBSET (1..n) /\ F \in SUBSET (1..n) /\ W \in SUBSET (1..n)
  BY DEF OfLevel
<1>3. /\ ee \subseteq E /\ (ee # {} => MaxErrors > 0) /\ (E # {} /\ MaxErrors > 0 => ee # {})
      /\ ff \subseteq F /\ (ff # {} => MaxErrors > 0) /\ (F # {} /\ MaxErrors > 0 => ff # {})
  <2> HIDE DEF E, F
  <2>1. QED
    BY <1>2, FirstLastTopIs
<1>4. /\ ww \subseteq W /\ (ww # {} => MaxWarnings > 0)
      /\ W # {} /\ MaxWarnings > 0 => ww # {}
  BY WarningsAre
<1>5. /\ \A i \in ss : i \in 1..n /\ meta[i].stack
      /\ ss # {} => MaxStackTraces > 0
      /\ (\E i \in 1..n : meta[i].stack) /\ MaxStackTraces > 0 => ss # {}
  BY StacksAre
<1>6. /\ \A i : i \in E <=> i \in 1..n /\ meta[i].level = "error"
      /\ \A i : i \in F <=> i \in 1..n /\ meta[i].level = "fail"
      /\ \A i : i \in W <=> i \in 1..n /\ meta[i].level = "warn"
      /\ \A i : i \in mm <=> i \in 1..n /\ meta[i].summary
  BY DEF OfLevel, Summaries
<1>7. \A i : i \in Signalled(meta) <=>
          /\ i \in 1..n
          /\ \/ MaxErrors > 0 /\ (meta[i].level = "error" \/ meta[i].level = "fail")
             \/ MaxWarnings > 0 /\ meta[i].level = "warn"
             \/ MaxStackTraces > 0 /\ meta[i].stack
             \/ meta[i].summary
  BY DEF Signalled
<1> HIDE DEF E, F, W, ee, ff, ww, ss, mm
<1>8. ASSUME NEW i \in Signals(meta) PROVE i \in Signalled(meta)
  <2>1. CASE i \in ee
    BY <1>3, <1>6, <1>7, <2>1
  <2>2. CASE i \in ff
    BY <1>3, <1>6, <1>7, <2>2
  <2>3. CASE i \in ww
    BY <1>4, <1>6, <1>7, <2>3
  <2>4. CASE i \in ss
    BY <1>5, <1>7, <2>4
  <2>5. CASE i \in mm
    BY <1>6, <1>7, <2>5
  <2>6. QED
    BY <1>1, <2>1, <2>2, <2>3, <2>4, <2>5
<1>9. ASSUME NEW i \in Signalled(meta) PROVE Signals(meta) # {}
  <2>1. CASE MaxErrors > 0 /\ meta[i].level = "error"
    <3>1. ee # {}
      BY <1>3, <1>6, <1>7, <2>1
    <3>2. QED
      BY <1>1, <3>1
  <2>2. CASE MaxErrors > 0 /\ meta[i].level = "fail"
    <3>1. ff # {}
      BY <1>3, <1>6, <1>7, <2>2
    <3>2. QED
      BY <1>1, <3>1
  <2>3. CASE MaxWarnings > 0 /\ meta[i].level = "warn"
    <3>1. ww # {}
      BY <1>4, <1>6, <1>7, <2>3
    <3>2. QED
      BY <1>1, <3>1
  <2>4. CASE MaxStackTraces > 0 /\ meta[i].stack
    <3>1. ss # {}
      BY <1>5, <1>7, <2>4
    <3>2. QED
      BY <1>1, <3>1
  <2>5. CASE meta[i].summary
    <3>1. mm # {}
      BY <1>6, <1>7, <2>5
    <3>2. QED
      BY <1>1, <3>1
  <2>6. QED
    BY <1>7, <2>1, <2>2, <2>3, <2>4, <2>5
<1>10. QED
  BY <1>8, <1>9

\* The first and the last lines are no more than twice the floor.
LEMMA FloorFits ==
    ASSUME NEW n \in Nat, NEW S \in SUBSET (1..n),
           \A i \in S : i <= FloorLines \/ i > n - FloorLines
    PROVE  Cardinality(S) <= 2 * FloorLines
<1> DEFINE A == 1..FloorLines
           B == (n - FloorLines + 1)..n
           U == A \cup B
<1>1. FloorLines \in Nat
  BY LogAssumption
<1>2. IsFiniteSet(A) /\ Cardinality(A) = FloorLines
  BY <1>1, FS_Interval
<1>3. IsFiniteSet(B) /\ Cardinality(B) = FloorLines
  <2> DEFINE a == n - FloorLines + 1
  <2>1. a \in Int /\ (a > n => FloorLines = 0) /\ n - a + 1 = FloorLines
    BY <1>1
  <2> HIDE DEF a
  <2>2. IsFiniteSet(a..n) /\ Cardinality(a..n) = IF a > n THEN 0 ELSE n - a + 1
    BY <2>1, FS_Interval
  <2>3. IsFiniteSet(a..n) /\ Cardinality(a..n) = FloorLines
    BY <2>1, <2>2
  <2>4. QED
    BY <2>3 DEF a
<1>4. S \in SUBSET U
  BY <1>1
<1> HIDE DEF A, B
<1>5. IsFiniteSet(U) /\ Cardinality(U) <= 2 * FloorLines
  <2>1. Cardinality(U) = Cardinality(A) + Cardinality(B) - Cardinality(A \cap B)
        /\ IsFiniteSet(U)
    BY <1>2, <1>3, FS_Union
  <2>2. Cardinality(A \cap B) \in Nat
    BY <1>2, FS_Intersection, FS_CardinalityType
  <2> HIDE DEF U
  <2>3. QED
    BY <1>1, <1>2, <1>3, <2>1, <2>2
<1> HIDE DEF U
<1>6. Cardinality(S) <= Cardinality(U) /\ Cardinality(S) \in Nat /\ Cardinality(U) \in Nat
  BY <1>4, <1>5, FS_Subset, FS_CardinalityType
<1>7. QED
  BY <1>1, <1>5, <1>6

\* The selection: without signals the floor, otherwise within the cap and next
\* to a signal.
LEMMA SelectionIs ==
    ASSUME NEW n \in Nat, NEW meta, DOMAIN meta = 1..n, Len(meta) = n,
           \A i \in 1..n : meta[i].score \in 0..100 /\ meta[i].stack \in BOOLEAN
    PROVE  /\ Selection(meta) \in SUBSET (1..n)
           /\ Signalled(meta) = {} => Cardinality(Selection(meta)) <= 2 * FloorLines
           /\ Signalled(meta) # {} =>
                /\ MaxTotalLines > 0 => Cardinality(Selection(meta)) <= MaxTotalLines
                /\ Selection(meta) \subseteq WithNeighbors(meta, Signals(meta))
<1> DEFINE G == Signals(meta)
           N == WithNeighbors(meta, G)
           C == Capped(meta, N)
<1>1. Selection(meta) = Floored(meta, C)
  BY DEF Selection
<1>2. /\ G \subseteq Signalled(meta) /\ (Signalled(meta) # {} => G # {})
      /\ Signalled(meta) \subseteq 1..n
  BY SignalsAre DEF Signalled
<1> HIDE DEF G
<1>3. /\ N \in SUBSET (1..n) /\ G \subseteq N
      /\ G = {} => N = {}
  BY <1>2 DEF WithNeighbors
<1>4. MaxTotalLines \in Nat
  BY LogAssumption
<1> HIDE DEF N
<1>5. /\ C \subseteq N /\ (N # {} => C # {})
      /\ MaxTotalLines > 0 => Cardinality(C) <= MaxTotalLines
  <2>1. CASE MaxTotalLines = 0 \/ Cardinality(N) <= MaxTotalLines
    <3>1. C = N
      BY <2>1 DEF Capped
    <3>2. MaxTotalLines > 0 => MaxTotalLines # 0
      BY <1>4
    <3> HIDE DEF C
    <3>3. QED
      BY <2>1, <3>1, <3>2
  <2>2. CASE ~(MaxTotalLines = 0 \/ Cardinality(N) <= MaxTotalLines)
    <3>1. C = Top(meta, N, MaxTotalLines)
      BY <2>2 DEF Capped
    <3>2. Top(meta, N, MaxTotalLines) \subseteq N
      BY DEF Top
    <3>3. MaxTotalLines > 0
      BY <1>4, <2>2
    <3> HIDE DEF C
    <3>4. /\ Cardinality(Top(meta, N, MaxTotalLines)) <= MaxTotalLines
          /\ N # {} => Top(meta, N, MaxTotalLines) # {}
      BY <1>3, <1>4, <3>3, TopFits
    <3>5. QED
      BY <3>1, <3>2, <3>4
  <2>3. QED
    BY <2>1, <2>2
<1> HIDE DEF C
<1>6. CASE Signalled(meta) = {}
  <2>1. C = {}
    BY <1>2, <1>3, <1>5, <1>6
  <2>2. Selection(meta) = {i \in 1..n : i <= FloorLines \/ i > n - FloorLines}
    BY <1>1, <2>1 DEF Floored
  <2> DEFINE sel == Selection(meta)
  <2>3. sel \in SUBSET (1..n) /\ \A i \in sel : i <= FloorLines \/ i > n - FloorLines
    BY <2>2
  <2> HIDE DEF sel
  <2>4. Cardinality(sel) <= 2 * FloorLines
    BY <2>3, FloorFits
  <2>5. QED
    BY <1>6, <2>3, <2>4 DEF sel
<1>7. CASE Signalled(meta) # {}
  <2>1. C # {}
    BY <1>2, <1>3, <1>5, <1>7
  <2>2. Selection(meta) = C
    BY <1>1, <2>1 DEF Floored
  <2>3. QED
    BY <1>3, <1>5, <1>7, <2>2 DEF N, G
<1>8. QED
  BY <1>6, <1>7

\* A text of a tool holds no counts of dropped lines.
LEMMA RawIsUnmarked ==
    /\ \A x \in Raw : x.t # "marker"
    /\ \A k : Marker(k).t = "marker" /\ ~IsWord(Marker(k))
    /\ ~IsWord(Newline) /\ Newline.t # "marker" /\ Newline \in Raw
BY DEF Raw, Marker, IsWord, Newline, Indent, Escape, Number, Sentinel, Item

\* What the log compressor writes where it dropped something.
LEMMA ReducedHolds ==
    ASSUME NEW text, IsGiven(text), NEW out, out = LogCompress(text),
           \E i \in DOMAIN out : out[i].t = "marker"
    PROVE  /\ out = Emitted(Lines(text), Selection(MetaOf(text)))
           /\ \A i \in DOMAIN Lines(text) :
                  HasWord(Lines(text)[i]) /\ Contains(out, TheWord(Lines(text)[i]))
                      => i \in Selection(MetaOf(text))
<1> DEFINE L == Lines(text)
           sel == Selection(MetaOf(text))
           B == Raw \cup {Marker(k) : k \in Nat}
<1>1. text \in Seq(Raw) /\ WordsDiffer(text)
  BY DEF IsGiven
<1>2. L \in Seq(Seq(Raw)) /\ Apart(L)
  BY <1>1, LinesAre DEF Pages
<1>3. out = text \/ out = Emitted(L, sel)
  BY DEF LogCompress, Shorter
<1>4. out # text
  <2>1. PICK i \in DOMAIN out : out[i].t = "marker"
    OBVIOUS
  <2>2. ASSUME out = text PROVE FALSE
    <3>1. i \in 1..Len(text)
      BY <1>1, <2>2, LenProperties
    <3>2. text[i] \in Raw
      BY <1>1, <3>1, ElementOfSeq
    <3>3. QED
      BY <2>1, <2>2, <3>2, RawIsUnmarked
  <2>3. QED
    BY <2>2
<1> HIDE DEF L, sel
<1>5. L \in Seq(Seq(B)) /\ Newline \in B /\ HasMarks(B)
  <2>1. Raw \in SUBSET B /\ Newline \in B /\ HasMarks(B)
    BY RawIsUnmarked DEF HasMarks
  <2> HIDE DEF B
  <2>2. Seq(Raw) \in SUBSET Seq(B)
    BY <2>1, SeqMonotonic
  <2>3. QED
    BY <1>2, <2>1, <2>2, SeqMonotonic
<1> HIDE DEF B
<1>6. out = Emitted(L, sel)
  BY <1>3, <1>4
<1>7. /\ out \in Seq(B)
      /\ \A x \in Range(out) :
            \/ x = Newline
            \/ \E k \in Nat : x = Marker(k)
            \/ \E k \in DOMAIN L : k \in sel /\ x \in Range(L[k])
  BY <1>5, <1>6, EmittedHolds
<1>8. ASSUME NEW i \in DOMAIN L, HasWord(L[i]), Contains(out, TheWord(L[i]))
      PROVE  i \in sel
  <2> DEFINE w == TheWord(L[i])
  <2>1. L[i] \in Seq(Raw)
    BY <1>2, LenProperties, ElementOfSeq
  <2>2. w \in Range(L[i]) /\ IsWord(w)
    BY <1>8, <2>1, WordIs
  <2>3. \E k \in 1..Len(out) : out[k] = w
    BY <1>8 DEF Contains
  <2> HIDE DEF w
  <2>4. w \in Range(out)
    BY <1>7, <2>3, LenProperties DEF Range
  <2>5. w # Newline /\ \A k \in Nat : w # Marker(k)
    BY <2>2, RawIsUnmarked
  <2>6. PICK k \in DOMAIN L : k \in sel /\ w \in Range(L[k])
    BY <1>7, <2>4, <2>5
  <2>7. i = k
    BY <1>2, <2>2, <2>6 DEF Apart
  <2>8. QED
    BY <2>6, <2>7
<1>9. QED
  BY <1>6, <1>8 DEF L, sel

\* Once a line of a log was dropped, a line that comes through is a signal or
\* stands next to one, and there are no more of them than the total cap allows;
\* if the log has no signal at all, at most its head and tail come through
\* (addNeighbors does not cascade; enforceCap, floorSelection).
THEOREM OnlyContextComes == Spec => []ContextOnly
<1>1. ASSUME IInv, LayersOK, LogReduced, \E i \in DOMAIN cur : cur[i].t = "marker"
      PROVE  LET signals == Signalled(LogMeta)
                 kept == {i \in DOMAIN LogMeta : KeptLine(i)}
             IN  IF signals = {} THEN Cardinality(kept) <= 2 * FloorLines
                 ELSE /\ MaxTotalLines > 0 => Cardinality(kept) <= MaxTotalLines
                      /\ \A i \in kept : {i - 1, i, i + 1} \cap signals # {}
  <2> DEFINE T == ANSIStrip(in.text)
             L == Lines(T)
             M == MetaOf(T)
             n == Len(L)
             sel == Selection(M)
             signals == Signalled(M)
             kept == {i \in DOMAIN M : KeptLine(i)}
  <2>1. cur = LogCompress(T) /\ IsGiven(T)
    BY <1>1, ReducedIs
  <2>2. LogLines = L /\ LogMeta = M
    BY DEF LogLines, LogMeta, MetaOf
  <2> HIDE DEF T
  <2>3. T \in Seq(Raw)
    BY <2>1 DEF IsGiven
  <2>4. Rated(M, L) /\ L \in Seq(Seq(Raw))
    BY <2>3, MetaIsRated, LinesAre DEF Pages
  <2>5. \A i \in DOMAIN L : HasWord(L[i]) /\ Contains(cur, TheWord(L[i])) => i \in sel
    BY <1>1, <2>1, ReducedHolds
  <2> HIDE DEF L, M
  <2>6. /\ n \in Nat /\ DOMAIN M = 1..n /\ Len(M) = n /\ DOMAIN L = 1..n
        /\ \A i \in 1..n : M[i].score \in 0..100 /\ M[i].stack \in BOOLEAN
    BY <2>4, LenProperties DEF Rated
  <2>7. kept \subseteq sel
    BY <2>2, <2>5, <2>6 DEF KeptLine
  <2> HIDE DEF n
  <2>8. /\ sel \in SUBSET (1..n)
        /\ signals = {} => Cardinality(sel) <= 2 * FloorLines
        /\ signals # {} =>
             /\ MaxTotalLines > 0 => Cardinality(sel) <= MaxTotalLines
             /\ sel \subseteq WithNeighbors(M, Signals(M))
    BY <2>6, SelectionIs
  <2>9. Signals(M) \subseteq signals
    BY <2>6, SignalsAre
  <2> HIDE DEF kept, sel, signals
  <2>10. /\ Cardinality(kept) <= Cardinality(sel)
         /\ Cardinality(kept) \in Nat /\ Cardinality(sel) \in Nat
    <3>1. IsFiniteSet(1..n)
      BY <2>6, FS_Interval
    <3>2. IsFiniteSet(sel)
      BY <2>8, <3>1, FS_Subset
    <3>3. kept \in SUBSET sel
      BY <2>7
    <3>4. QED
      BY <3>2, <3>3, FS_Subset, FS_CardinalityType
  <2>11. MaxTotalLines \in Nat /\ FloorLines \in Nat
    BY LogAssumption
  <2>12. CASE signals = {}
    <3>1. Cardinality(kept) <= 2 * FloorLines
      BY <2>8, <2>10, <2>11, <2>12
    <3>2. QED
      BY <2>2, <2>12, <3>1 DEF signals, kept
  <2>13. CASE signals # {}
    <3>1. MaxTotalLines > 0 => Cardinality(kept) <= MaxTotalLines
      BY <2>8, <2>10, <2>11, <2>13
    <3>2. ASSUME NEW i \in kept PROVE {i - 1, i, i + 1} \cap signals # {}
      <4>1. PICK j \in Signals(M) : j \in {i - 1, i, i + 1}
        BY <2>7, <2>8, <2>13 DEF WithNeighbors
      <4>2. QED
        BY <2>9, <4>1
    <3>3. QED
      BY <2>2, <2>13, <3>1, <3>2 DEF signals, kept
  <2>14. QED
    BY <2>12, <2>13
<1>2. IInv /\ LayersOK => ContextOnly
  BY <1>1 DEF ContextOnly, Signalled
<1>3. Init => LayersOK
  BY InitLayers
<1>4. QED
  BY <1>2, <1>3, LayersStep, InvariantHolds, PTL DEF Spec

(***************************************************************************)
(* What a reader of the result is told.                                    *)
(***************************************************************************)

\* A text split, with one item more.
LEMMA LinesAppend ==
    ASSUME NEW S, NEW s \in Seq(S), NEW x \in S
    PROVE  Lines(Append(s, x)) = LineStep(Lines(s), x)
<1> DEFINE r == Append(s, x)
           n == Len(s)
<1>1. /\ r \in Seq(S) /\ Len(r) = n + 1 /\ r[n + 1] = x /\ n \in Nat
      /\ \A i \in 1..n : r[i] = s[i]
  BY AppendProperties, LenProperties
<1> HIDE DEF r
<1>2. PICK a \in [0..n -> Pages(S)] :
             /\ a[0] = << <<>> >>
             /\ \A i \in 1..n : a[i] = LineStep(a[i - 1], s[i])
             /\ Lines(s) = a[n]
  BY LinesLoop
<1>3. PICK b \in [0..Len(r) -> Pages(S)] :
             /\ b[0] = << <<>> >>
             /\ \A i \in 1..Len(r) : b[i] = LineStep(b[i - 1], r[i])
             /\ Lines(r) = b[Len(r)]
  BY <1>1, LinesLoop
<1> HIDE DEF n
<1> DEFINE Q == {i \in 0..n : a[i] = b[i]}
<1>4. 0 \in Q
  <2>1. 0 \in 0..n /\ a[0] = b[0]
    BY <1>1, <1>2, <1>3
  <2>2. QED
    BY <2>1
<1>5. ASSUME NEW i \in 1..n, i - 1 \in Q PROVE i \in Q
  <2>1. i \in 1..Len(r) /\ i \in 0..n /\ r[i] = s[i] /\ a[i - 1] = b[i - 1]
    BY <1>1, <1>5
  <2>2. QED
    BY <1>2, <1>3, <2>1
<1> HIDE DEF Q
<1>6. n \in Q
  <2>1. \A i \in 0..n : i \in Q
    BY <1>1, <1>4, <1>5, UpTo
  <2>2. QED
    BY <1>1, <2>1
<1>7. b[n + 1] = LineStep(b[n], x)
  <2>1. n + 1 \in 1..Len(r) /\ (n + 1) - 1 = n
    BY <1>1
  <2>2. QED
    BY <1>1, <1>3, <2>1
<1>8. QED
  BY <1>1, <1>2, <1>3, <1>6, <1>7 DEF Q, r

\* The last line has grown by a text without newlines, the others have not.
Grown(pages, ls, l) ==
    /\ Len(pages) = Len(ls)
    /\ pages[Len(ls)] = ls[Len(ls)] \o l
    /\ \A i \in 1..(Len(ls) - 1) : pages[i] = ls[i]

\* Such a text is added to the last line.
LEMMA LinesGrow ==
    ASSUME NEW S, NEW s \in Seq(S), NEW l \in Seq(S \ {Newline})
    PROVE  Grown(Lines(s \o l), Lines(s), l)
<1> DEFINE B == S \ {Newline}
           ls == Lines(s)
           Q == {t \in Seq(B) : Grown(Lines(s \o t), ls, t)}
<1>1. /\ ls \in Seq(Seq(S)) /\ Len(ls) \in Nat /\ Len(ls) >= 1
      /\ ls[Len(ls)] \in Seq(S)
  <2>1. ls \in Pages(S)
    BY LinesAre
  <2> HIDE DEF ls
  <2>2. QED
    BY <2>1, EmptySeq, LenProperties, ElementOfSeq DEF Pages
<1>2. <<>> \in Q
  <2>1. s \o <<>> = s
    BY ConcatEmptySeq
  <2>2. ls[Len(ls)] \o <<>> = ls[Len(ls)]
    <3> HIDE DEF ls
    <3>1. QED
      BY <1>1, ConcatEmptySeq
  <2>3. <<>> \in Seq(B)
    BY EmptySeq
  <2>4. Grown(Lines(s \o <<>>), ls, <<>>)
    BY <2>1, <2>2 DEF Grown
  <2>5. QED
    BY <2>3, <2>4
<1>3. ASSUME NEW t \in Q, NEW x \in B PROVE Append(t, x) \in Q
  <2> DEFINE st == s \o t
             pages == Lines(st)
             last == ls[Len(ls)]
  <2>1. t \in Seq(B) /\ Grown(pages, ls, t)
    OBVIOUS
  <2>2. t \in Seq(S) /\ x \in S /\ x # Newline /\ Append(t, x) \in Seq(B)
    <3>1. B \in SUBSET S
      OBVIOUS
    <3>2. t \in Seq(S)
      BY <2>1, <3>1, SeqMonotonic
    <3>3. Append(t, x) \in Seq(B)
      BY <2>1, AppendProperties
    <3>4. QED
      BY <3>2, <3>3
  <2>3. st \in Seq(S) /\ s \o Append(t, x) = Append(st, x)
    <3>1. <<x>> \in Seq(S) /\ st \in Seq(S)
      BY <2>2, ConcatProperties
    <3>2. Append(t, x) = t \o <<x>> /\ Append(st, x) = st \o <<x>>
      BY <2>2, <3>1, AppendIsConcat
    <3>3. s \o (t \o <<x>>) = (s \o t) \o <<x>>
      BY <2>2, <3>1, ConcatAssociative
    <3>4. QED
      BY <3>1, <3>2, <3>3
  <2>4. pages \in Pages(S)
    BY <2>3, LinesAre
  <2>5. Lines(s \o Append(t, x)) = LineStep(pages, x)
    BY <2>2, <2>3, LinesAppend
  <2> HIDE DEF st, pages, Q
  <2>6. /\ Len(LineStep(pages, x)) = Len(pages)
        /\ LineStep(pages, x)[Len(pages)] = Append(pages[Len(pages)], x)
        /\ \A i \in 1..(Len(pages) - 1) : LineStep(pages, x)[i] = pages[i]
    BY <2>2, <2>4, LineStepIs
  <2>7. Append(last \o t, x) = last \o Append(t, x)
    <3>1. last \in Seq(S)
      BY <1>1
    <3> HIDE DEF last
    <3>2. <<x>> \in Seq(S) /\ last \o t \in Seq(S)
      BY <2>2, <3>1, ConcatProperties
    <3>3. Append(t, x) = t \o <<x>> /\ Append(last \o t, x) = (last \o t) \o <<x>>
      BY <2>2, <3>2, AppendIsConcat
    <3>4. last \o (t \o <<x>>) = (last \o t) \o <<x>>
      BY <2>2, <3>1, <3>2, ConcatAssociative
    <3>5. QED
      BY <3>3, <3>4
  <2>8. Grown(LineStep(pages, x), ls, Append(t, x))
    <3> HIDE DEF ls
    <3>1. QED
      BY <2>1, <2>6, <2>7 DEF Grown
  <2>9. QED
    BY <2>2, <2>5, <2>8 DEF Q
<1> HIDE DEF B, Q
<1>4. \A t \in Seq(B) : t \in Q
  <2>1. Q \in SUBSET Seq(B)
    BY DEF Q
  <2>2. QED
    BY <1>2, <1>3, <2>1, SequencesAll
<1>5. QED
  BY <1>4 DEF Q, B

\* A line break starts an empty line.
LEMMA LinesBreak ==
    ASSUME NEW S, Newline \in S, NEW s \in Seq(S)
    PROVE  /\ Len(Lines(s \o <<Newline>>)) = Len(Lines(s)) + 1
           /\ Lines(s \o <<Newline>>)[Len(Lines(s)) + 1] = <<>>
           /\ \A i \in 1..Len(Lines(s)) : Lines(s \o <<Newline>>)[i] = Lines(s)[i]
<1> DEFINE ls == Lines(s)
<1>1. ls \in Pages(S)
  BY LinesAre
<1>2. Lines(s \o <<Newline>>) = LineStep(ls, Newline)
  BY LinesAppend, AppendIsConcat
<1> HIDE DEF ls
<1>3. QED
  BY <1>1, <1>2, LineStepIs DEF ls

\* Lines without newlines come back when the joined text is split.
LEMMA JoinedSplits ==
    ASSUME NEW S, Newline \in S, NEW ls \in Seq(Seq(S \ {Newline})), ls # <<>>
    PROVE  Lines(Join(ls)) = ls
<1> DEFINE B == S \ {Newline}
           n == Len(ls)
<1>1. /\ n \in Nat /\ n >= 1 /\ DOMAIN ls = 1..n
      /\ \A i \in 1..n : ls[i] \in Seq(B)
  BY EmptySeq, LenProperties, ElementOfSeq
<1>2. Seq(B) \in SUBSET Seq(S) /\ ls \in Seq(Seq(S))
  <2>1. B \in SUBSET S /\ ls \in Seq(Seq(B))
    OBVIOUS
  <2> HIDE DEF B
  <2>2. Seq(B) \in SUBSET Seq(S)
    BY <2>1, SeqMonotonic
  <2>3. QED
    BY <2>1, <2>2, SeqMonotonic
<1> HIDE DEF n, B
<1>3. PICK acc \in [0..n -> Seq(S)] :
             /\ acc[0] = <<>>
             /\ \A i \in 1..n : acc[i] = JoinStep(ls, acc[i - 1], i)
             /\ Join(ls) = acc[n]
  BY <1>2, JoinLoop DEF n
<1> DEFINE Done(i) == /\ Len(Lines(acc[i])) = i
                      /\ \A k \in 1..i : Lines(acc[i])[k] = ls[k]
           Q == {i \in 0..n : i = 0 \/ Done(i)}
<1>4. 0 \in Q
  BY <1>1
<1>5. ASSUME NEW i \in 1..n, i - 1 \in Q PROVE i \in Q
  <2> DEFINE a == acc[i - 1]
             l == ls[i]
  <2>1. /\ i \in 0..n /\ i - 1 \in 0..n /\ a \in Seq(S) /\ l \in Seq(B)
        /\ acc[i] = JoinStep(ls, a, i)
    <3>1. i \in 0..n /\ i - 1 \in 0..n
      BY <1>1
    <3>2. acc[i - 1] \in Seq(S) /\ ls[i] \in Seq(B)
      BY <1>1, <1>3, <3>1
    <3>3. acc[i] = JoinStep(ls, acc[i - 1], i)
      BY <1>3
    <3>4. QED
      BY <3>1, <3>2, <3>3
  <2>2. l \in Seq(S \ {Newline}) /\ l \in Seq(S)
    BY <1>2, <2>1 DEF B
  <2>3. CASE i = 1
    <3>1. a = <<>> /\ acc[i] = (<<>> \o <<>>) \o l
      BY <1>3, <2>1, <2>3 DEF JoinStep
    <3>2. <<>> \in Seq(S) /\ <<>> \o <<>> = <<>>
      BY EmptySeq, ConcatEmptySeq
    <3> HIDE DEF l
    <3>3. Lines(<<>>) = << <<>> >>
      <4>1. PICK e \in [0..Len(<<>>) -> Pages(S)] :
                   e[0] = << <<>> >> /\ Lines(<<>>) = e[Len(<<>>)]
        BY <3>2, LinesLoop
      <4>2. Len(<<>>) = 0
        BY EmptySeq
      <4>3. QED
        BY <4>1, <4>2
    <3>4. Grown(Lines(<<>> \o l), << <<>> >>, l)
      BY <2>2, <3>2, <3>3, LinesGrow
    <3>5. Len(Lines(acc[i])) = 1 /\ Lines(acc[i])[1] = <<>> \o l
      <4>1. Len(<< <<>> >>) = 1 /\ << <<>> >>[1] = <<>>
        OBVIOUS
      <4>2. acc[i] = <<>> \o l
        BY <3>1, <3>2
      <4>3. QED
        BY <3>4, <4>1, <4>2 DEF Grown
    <3>6. <<>> \o l = l
      BY <2>2, ConcatEmptySeq
    <3>7. Done(i)
      BY <2>3, <3>5, <3>6 DEF l
    <3>8. QED
      BY <2>1, <3>7
  <2>4. CASE i # 1
    <3> DEFINE b == a \o <<Newline>>
               old == Lines(a)
               mid == Lines(b)
               new == Lines(acc[i])
    <3>1. acc[i] = b \o l /\ b \in Seq(S)
      <4>1. <<Newline>> \in Seq(S)
        OBVIOUS
      <4>2. b \in Seq(S)
        BY <2>1, <4>1, ConcatProperties
      <4>3. acc[i] = b \o l
        BY <2>1, <2>4 DEF JoinStep
      <4>4. QED
        BY <4>2, <4>3
    <3>2. Len(old) = i - 1 /\ \A k \in 1..(i - 1) : old[k] = ls[k]
      BY <1>5, <2>4
    <3>3. /\ Len(mid) = Len(old) + 1 /\ mid[Len(old) + 1] = <<>>
          /\ \A k \in 1..Len(old) : mid[k] = old[k]
      BY <2>1, LinesBreak
    <3>4. Grown(new, mid, l)
      BY <2>2, <3>1, LinesGrow
    <3> HIDE DEF b, old, mid, new, a
    <3>5. Len(mid) = i /\ mid[i] = <<>> /\ \A k \in 1..(i - 1) : mid[k] = ls[k]
      BY <3>2, <3>3
    <3>6. Len(new) = i /\ new[i] = <<>> \o l /\ \A k \in 1..(i - 1) : new[k] = ls[k]
      BY <3>4, <3>5 DEF Grown
    <3>7. <<>> \o l = l
      <4> HIDE DEF l
      <4>1. QED
        BY <2>2, ConcatEmptySeq
    <3>8. \A k \in 1..i : k \in 1..(i - 1) \/ k = i
      OBVIOUS
    <3>9. Done(i)
      BY <3>6, <3>7, <3>8 DEF new
    <3>10. QED
      BY <2>1, <3>9
  <2>5. QED
    BY <2>3, <2>4
<1> HIDE DEF Q
<1>6. n \in Q
  <2>1. \A i \in 0..n : i \in Q
    BY <1>1, <1>4, <1>5, UpTo
  <2>2. QED
    BY <1>1, <2>1
<1>7. Done(n)
  BY <1>1, <1>6 DEF Q
<1>8. Lines(Join(ls)) \in Seq(Seq(S))
  <2>1. Join(ls) \in Seq(S)
    BY <1>1, <1>3
  <2>2. QED
    BY <2>1, LinesAre DEF Pages
<1>9. QED
  BY <1>2, <1>3, <1>7, <1>8, SeqEqual DEF n

\* What a line of the result tells a reader who has read n lines of the log: it
\* is the next one, or the count of those left out there; else he is lost.
ReadStep(lines, n, l) ==
    IF l # <<>> /\ l[1].t = "marker" THEN n + l[1].n
    ELSE IF n < Len(lines) /\ lines[n + 1] = l THEN n + 1
    ELSE Len(lines) + 1
Reading(lines, pages) == FoldLeft(LAMBDA n, l : ReadStep(lines, n, l), 0, pages)

\* The items of what the log compressor writes.
Printed == Raw \cup {Marker(k) : k \in Nat}
ReadF(lines) ==
    [n \in Nat |-> [l \in Seq(Printed) |-> ReadStep(lines, n, l)]]

\* A count is read as such, and nothing else is.
LEMMA ReadStepIs ==
    ASSUME NEW lines, Len(lines) \in Nat, NEW n \in Nat
    PROVE  /\ \A l \in Seq(Printed) : ReadStep(lines, n, l) \in Nat
           /\ \A k \in Nat : ReadStep(lines, n, <<Marker(k)>>) = n + k
           /\ \A l \in Seq(Raw) :
                  n < Len(lines) /\ lines[n + 1] = l => ReadStep(lines, n, l) = n + 1
<1>1. ASSUME NEW l \in Seq(Printed) PROVE ReadStep(lines, n, l) \in Nat
  <2>1. CASE l # <<>> /\ l[1].t = "marker"
    <3>1. l[1] \in Printed
      BY <2>1, EmptySeq, LenProperties, ElementOfSeq
    <3>2. PICK k \in Nat : l[1] = Marker(k)
      BY <2>1, <3>1, RawIsUnmarked DEF Printed
    <3>3. l[1].n = k
      BY <3>2 DEF Marker, Item
    <3>4. QED
      BY <2>1, <3>3 DEF ReadStep
  <2>2. CASE ~(l # <<>> /\ l[1].t = "marker")
    BY <2>2 DEF ReadStep
  <2>3. QED
    BY <2>1, <2>2
<1>2. ASSUME NEW k \in Nat PROVE ReadStep(lines, n, <<Marker(k)>>) = n + k
  <2>1. Marker(k).t = "marker" /\ Marker(k).n = k
    BY DEF Marker, Item
  <2>2. <<Marker(k)>> # <<>> /\ <<Marker(k)>>[1] = Marker(k)
    OBVIOUS
  <2>3. QED
    BY <2>1, <2>2 DEF ReadStep
<1>3. ASSUME NEW l \in Seq(Raw), n < Len(lines), lines[n + 1] = l
      PROVE  ReadStep(lines, n, l) = n + 1
  <2>1. l # <<>> => l[1] \in Raw
    BY EmptySeq, LenProperties, ElementOfSeq
  <2>2. ~(l # <<>> /\ l[1].t = "marker")
    BY <2>1, RawIsUnmarked
  <2>3. QED
    BY <1>3, <2>2 DEF ReadStep
<1>4. QED
  BY <1>1, <1>2, <1>3

\* The reading is a fold.
LEMMA ReadingIs ==
    ASSUME NEW lines, Len(lines) \in Nat, NEW pages \in Seq(Seq(Printed))
    PROVE  /\ Stays(ReadF(lines), Nat, Seq(Printed))
           /\ Reading(lines, pages) = LeftFold(ReadF(lines), 0, pages)
<1> DEFINE D == DOMAIN pages
           F == ReadF(lines)
           E(h) == [t \in SUBSET D |->
                       IF t = {} THEN 0
                       ELSE ReadStep(lines, h[t \ {Max(t)}], pages[Max(t)])]
           it == CHOOSE h : h = E(h)
<1>1. Stays(F, Nat, Seq(Printed))
  BY ReadStepIs DEF Stays, ReadF
<1>2. /\ Len(pages) \in Nat /\ D = 1..Len(pages)
      /\ \A i \in 1..Len(pages) : pages[i] \in Seq(Printed)
  BY LenProperties, ElementOfSeq
<1>3. \A t \in SUBSET D : t # {} => Max(t) \in D
  BY <1>2, LastPosition
<1>4. PICK h \in [SUBSET D -> Nat] : Lefts(h, F, 0, pages)
  <2> HIDE DEF F
  <2>1. QED
    BY <1>1, LeftsExist
<1>5. ASSUME NEW t \in SUBSET D
      PROVE  h[t] = IF t = {} THEN 0
                    ELSE ReadStep(lines, h[t \ {Max(t)}], pages[Max(t)])
  <2>1. h[t] = IF t = {} THEN 0 ELSE F[h[t \ {Max(t)}]][pages[Max(t)]]
    BY <1>4 DEF Lefts
  <2>2. t # {} => h[t \ {Max(t)}] \in Nat /\ pages[Max(t)] \in Seq(Printed)
    BY <1>2, <1>3
  <2>3. QED
    BY <2>1, <2>2 DEF ReadF
<1>6. it = E(it)
  <2>1. h = E(h)
    BY <1>5
  <2> HIDE DEF E
  <2>2. QED
    BY <2>1
<1>7. Reading(lines, pages) = it[D]
  BY DEF Reading, FoldLeft, MapThenFoldSet
<1> HIDE DEF it, F
<1>8. \A t \in SUBSET D : it[t] = IF t = {} THEN 0
                            ELSE ReadStep(lines, it[t \ {Max(t)}], pages[Max(t)])
  BY <1>6
<1>9. it[D] = h[D]
  <2>1. it[{}] = h[{}]
    BY <1>5, <1>8
  <2>2. \A t \in SUBSET (1..Len(pages)) :
           t # {} /\ it[t \ {Max(t)}] = h[t \ {Max(t)}] => it[t] = h[t]
    BY <1>2, <1>5, <1>8
  <2>3. QED
    BY <1>2, <2>1, <2>2, AgreeOnPositions
<1>10. LeftFold(F, 0, pages) = h[D]
  <2> DEFINE B == Seq(Printed)
             V == Nat
             zero == 0
  <2>1. Stays(F, V, B) /\ zero \in V /\ pages \in Seq(B) /\ Lefts(h, F, zero, pages)
    BY <1>1, <1>4
  <2> HIDE DEF B, V, zero
  <2>2. LeftFold(F, zero, pages) = h[D]
    BY <2>1, LeftFoldIs
  <2>3. QED
    BY <2>2 DEF zero
<1>11. QED
  BY <1>1, <1>7, <1>9, <1>10 DEF F

\* What the reader has read, the lines being left out not yet counted.
ReadSoFar(lines, out) == LeftFold(ReadF(lines), 0, out)

\* The count catches up with what was left out, and the next line is read.
LEMMA ReadOn ==
    ASSUME NEW lines, Len(lines) \in Nat, NEW out \in Seq(Seq(Printed))
    PROVE  /\ ReadSoFar(lines, out) \in Nat
           /\ \A k \in Nat : ReadSoFar(lines, Append(out, <<Marker(k)>>))
                                 = ReadSoFar(lines, out) + k
           /\ \A l \in Seq(Raw) :
                  LET n == ReadSoFar(lines, out)
                  IN  n < Len(lines) /\ lines[n + 1] = l
                          => ReadSoFar(lines, Append(out, l)) = n + 1
<1> DEFINE B == Seq(Printed)
           F == ReadF(lines)
           V == Nat
           zero == 0
           n == ReadSoFar(lines, out)
<1>1. Stays(F, V, B) /\ zero \in V /\ out \in Seq(B)
  BY ReadingIs
<1>2. \A l \in B : F[n][l] = ReadStep(lines, n, l) \/ n \notin Nat
  BY DEF ReadF
<1>3. /\ \A k \in Nat : <<Marker(k)>> \in B
      /\ \A l \in Seq(Raw) : l \in B
  <2>1. Raw \in SUBSET Printed
    BY DEF Printed
  <2>2. \A k \in Nat : Marker(k) \in Printed
    BY DEF Printed
  <2>3. Seq(Raw) \in SUBSET B
    BY <2>1, SeqMonotonic
  <2>4. QED
    BY <2>2, <2>3
<1>4. n \in Nat /\ \A l \in B : ReadSoFar(lines, Append(out, l)) = F[n][l]
  <2> HIDE DEF B, F, V, zero
  <2>1. LeftFold(F, zero, out) \in V
    BY <1>1, LeftFoldType
  <2>2. \A l \in B : LeftFold(F, zero, Append(out, l)) = F[LeftFold(F, zero, out)][l]
    BY <1>1, LeftFoldAppend
  <2>3. QED
    BY <2>1, <2>2 DEF ReadSoFar, F, zero, V
<1> HIDE DEF B, F
<1> HIDE DEF n
<1>5. \A l \in B : ReadSoFar(lines, Append(out, l)) = ReadStep(lines, n, l)
  BY <1>2, <1>4
<1>6. QED
  BY <1>3, <1>4, <1>5, ReadStepIs DEF n

\* Whoever reads what is emitted from the top comes to the end of the log.
LEMMA EmittedReads ==
    ASSUME NEW lines \in Seq(Seq(Raw \ {Newline})), lines # <<>>, NEW kept
    PROVE  Reading(lines, Lines(Emitted(lines, kept))) = Len(lines)
<1> DEFINE P == Printed \ {Newline}
           n == Len(lines)
           R(out) == ReadSoFar(lines, out)
<1>1. /\ n \in Nat /\ n >= 1 /\ DOMAIN lines = 1..n
      /\ \A i \in 1..n : lines[i] \in Seq(Raw \ {Newline})
  BY EmptySeq, LenProperties, ElementOfSeq
<1>2. HasMarks(P) /\ Newline \in Printed
  BY RawIsUnmarked DEF HasMarks, Printed
<1>3. /\ Seq(Raw \ {Newline}) \in SUBSET Seq(P) /\ Seq(P) \in SUBSET Seq(Printed)
      /\ Seq(Raw \ {Newline}) \in SUBSET Seq(Raw)
  <2> DEFINE A == Raw \ {Newline}
  <2>1. A \in SUBSET P /\ P \in SUBSET Printed /\ A \in SUBSET Raw
    BY DEF Printed
  <2> HIDE DEF A, P
  <2>2. Seq(A) \in SUBSET Seq(P) /\ Seq(P) \in SUBSET Seq(Printed) /\ Seq(A) \in SUBSET Seq(Raw)
    BY <2>1, SeqMonotonic
  <2>3. QED
    BY <2>2 DEF A
<1>4. lines \in Seq(Seq(P)) /\ Seq(Seq(P)) \in SUBSET Seq(Seq(Printed))
  <2> DEFINE A == Seq(Raw \ {Newline})
             C == Seq(P)
             E == Seq(Printed)
  <2>1. A \in SUBSET C /\ C \in SUBSET E /\ lines \in Seq(A)
    BY <1>3
  <2> HIDE DEF A, C, E
  <2>2. Seq(A) \in SUBSET Seq(C) /\ Seq(C) \in SUBSET Seq(E)
    BY <2>1, SeqMonotonic
  <2>3. QED
    BY <2>1, <2>2 DEF C, E
<1> HIDE DEF P
<1>5. PICK acc : IsEmit(acc, lines, kept, P)
  BY <1>2, <1>4, EmitLoop
<1>6. /\ acc \in [0..n -> Emits(P)]
      /\ acc[0] = [out |-> <<>>, gap |-> 0]
      /\ \A i \in 1..n : acc[i] = EmitStep(lines, kept, acc[i - 1], i)
      /\ Emitted(lines, kept) = Join(Flushed(acc[n]).out)
  BY <1>5 DEF IsEmit
<1> HIDE DEF n
<1> DEFINE Read(a, i) == /\ R(a.out) + a.gap = i
                         /\ i >= 1 => a.out # <<>> \/ a.gap > 0
           Q == {i \in 0..n : Read(acc[i], i)}
<1>7. ASSUME NEW i \in 0..n, NEW k \in 1..n, acc[i] \in Emits(P), Read(acc[i], i)
      PROVE  LET out == Flushed(acc[i]).out
             IN  /\ out \in Seq(Seq(P)) /\ R(out) = i
                 /\ i >= 1 => out # <<>>
                 /\ OneEmitted(lines, kept, acc[i], k, P)
  <2> DEFINE a == acc[i]
             out == Flushed(a).out
             mark == <<Marker(a.gap)>>
  <2>1. OneEmitted(lines, kept, a, k, P)
    BY <1>1, <1>2, <1>4, <1>7, EmitStepIs
  <2> HIDE DEF a
  <2>2. /\ a.gap \in Nat /\ a.out \in Seq(Seq(P)) /\ Flushed(a) \in Emits(P)
        /\ out = IF a.gap = 0 THEN a.out ELSE Append(a.out, mark)
    BY <2>1 DEF OneEmitted
  <2>3. out \in Seq(Seq(P))
    BY <2>2 DEF Emits
  <2>4. R(a.out) + a.gap = i /\ (i >= 1 => a.out # <<>> \/ a.gap > 0)
    BY <1>7 DEF a
  <2>5. R(a.out) \in Nat /\ R(Append(a.out, mark)) = R(a.out) + a.gap
    <3>1. a.out \in Seq(Seq(Printed)) /\ Len(lines) \in Nat
      BY <1>1, <1>4, <2>2 DEF n
    <3>2. QED
      BY <2>2, <3>1, ReadOn
  <2>6. Append(a.out, mark) # <<>>
    <3>1. mark \in Seq(P)
      BY <1>2, <2>2 DEF HasMarks
    <3> HIDE DEF mark
    <3>2. Append(a.out, mark) \in Seq(Seq(P)) /\ Len(Append(a.out, mark)) = Len(a.out) + 1
      BY <2>2, <3>1, AppendProperties
    <3>3. Len(a.out) \in Nat /\ Len(<<>>) = 0
      BY <2>2, LenProperties
    <3> DEFINE u == Append(a.out, mark)
    <3> HIDE DEF u
    <3>4. Len(u) # Len(<<>>)
      BY <3>2, <3>3 DEF u
    <3>5. u # <<>>
      BY <3>4
    <3>6. QED
      BY <3>5 DEF u
  <2> HIDE DEF mark, out, R
  <2>7. R(out) = i /\ (i >= 1 => out # <<>>)
    <3>1. CASE a.gap = 0
      BY <2>2, <2>4, <2>5, <3>1
    <3>2. CASE a.gap # 0
      BY <2>2, <2>4, <2>5, <2>6, <3>2
    <3>3. QED
      BY <3>1, <3>2
  <2>8. QED
    BY <2>1, <2>3, <2>7 DEF a, out
<1>8. 0 \in Q
  <2>1. R(<<>>) = 0
    <3> DEFINE B == Seq(Printed)
    <3>1. Stays(ReadF(lines), Nat, B) /\ 0 \in Nat
      <4>1. Len(lines) \in Nat /\ <<>> \in Seq(Seq(Printed))
        BY <1>1, EmptySeq DEF n
      <4>2. QED
        BY <4>1, ReadingIs
    <3> HIDE DEF B
    <3>2. QED
      BY <3>1, LeftFoldEmpty DEF ReadSoFar
  <2>2. acc[0].out = <<>> /\ acc[0].gap = 0 /\ 0 \in 0..n
    BY <1>1, <1>6
  <2> HIDE DEF R
  <2>3. QED
    BY <2>1, <2>2
<1>9. ASSUME NEW i \in 1..n, i - 1 \in Q PROVE i \in Q
  <2> DEFINE a == acc[i - 1]
             out == Flushed(a).out
             r == acc[i]
  <2>1. /\ i \in 0..n /\ i - 1 \in 0..n /\ i \in Nat /\ i >= 1
        /\ i - 1 < n /\ (i - 1) + 1 = i
    BY <1>1
  <2>2. a \in Emits(P) /\ Read(a, i - 1)
    BY <1>6, <1>9, <2>1
  <2>3. /\ out \in Seq(Seq(P)) /\ R(out) = i - 1
        /\ OneEmitted(lines, kept, a, i, P)
    BY <1>7, <2>1, <2>2
  <2>4. r = EmitStep(lines, kept, a, i)
    BY <1>6
  <2>5. CASE i \in kept
    <3>1. r = [out |-> Append(out, lines[i]), gap |-> 0]
      BY <2>3, <2>4, <2>5 DEF OneEmitted
    <3>2. r.out = Append(out, lines[i]) /\ r.gap = 0
      BY <3>1
    <3>3. R(Append(out, lines[i])) = i
      <4>1. /\ out \in Seq(Seq(Printed)) /\ Len(lines) \in Nat /\ lines[i] \in Seq(Raw)
            /\ R(out) = i - 1 /\ i - 1 < Len(lines)
        BY <1>1, <1>3, <1>4, <2>1, <2>3 DEF n
      <4>2. R(Append(out, lines[i])) = (i - 1) + 1
        <5> HIDE DEF out
        <5>1. QED
          BY <2>1, <4>1, ReadOn
      <4>3. QED
        BY <2>1, <4>2
    <3>4. Append(out, lines[i]) # <<>>
      <4>1. lines[i] \in Seq(P)
        BY <1>1, <1>3
      <4> DEFINE x == lines[i]
      <4> HIDE DEF x, out
      <4>2. Append(out, x) \in Seq(Seq(P)) /\ Len(Append(out, x)) = Len(out) + 1
        BY <2>3, <4>1, AppendProperties DEF x
      <4>3. Len(out) \in Nat /\ Len(<<>>) = 0
        BY <2>3, LenProperties
      <4> DEFINE u == Append(out, x)
      <4> HIDE DEF u
      <4>4. Len(u) # Len(<<>>)
        BY <4>2, <4>3 DEF u
      <4>5. u # <<>>
        BY <4>4
      <4>6. QED
        BY <4>5 DEF u, x
    <3> HIDE DEF r, R, out
    <3>5. Read(r, i)
      BY <2>1, <3>2, <3>3, <3>4
    <3>6. QED
      BY <2>1, <3>5 DEF r
  <2>6. CASE i \notin kept
    <3>1. r = [out |-> a.out, gap |-> a.gap + 1]
      BY <2>3, <2>4, <2>6 DEF OneEmitted
    <3>2. r.out = a.out /\ r.gap = a.gap + 1
      BY <3>1
    <3>3. a.gap \in Nat /\ R(a.out) \in Nat
      <4>1. a.gap \in Nat /\ a.out \in Seq(Seq(P))
        BY <2>3 DEF OneEmitted
      <4>2. a.out \in Seq(Seq(Printed)) /\ Len(lines) \in Nat
        BY <1>1, <1>4, <4>1 DEF n
      <4>3. QED
        BY <4>1, <4>2, ReadOn
    <3> HIDE DEF r, R, a
    <3>4. Read(r, i)
      BY <2>1, <2>2, <3>2, <3>3
    <3>5. QED
      BY <2>1, <3>4 DEF r
  <2>7. QED
    BY <2>5, <2>6
<1> HIDE DEF Q
<1>10. n \in Q /\ n \in 0..n /\ n \in 1..n
  <2>1. \A i \in 0..n : i \in Q
    BY <1>1, <1>8, <1>9, UpTo
  <2>2. QED
    BY <1>1, <2>1
<1> DEFINE out == Flushed(acc[n]).out
<1>11. out \in Seq(Seq(P)) /\ R(out) = n /\ out # <<>>
  <2>1. acc[n] \in Emits(P) /\ Read(acc[n], n)
    BY <1>6, <1>10 DEF Q
  <2>2. QED
    BY <1>1, <1>7, <1>10, <2>1
<1> HIDE DEF out
<1>12. Lines(Join(out)) = out
  BY <1>2, <1>11, JoinedSplits DEF P
<1>13. Reading(lines, out) = R(out)
  <2>1. out \in Seq(Seq(Printed)) /\ Len(lines) \in Nat
    BY <1>1, <1>4, <1>11 DEF n
  <2>2. QED
    BY <2>1, ReadingIs DEF ReadSoFar
<1>14. QED
  BY <1>6, <1>11, <1>12, <1>13 DEF out, n

\* A log that is left as it is tells its reader everything.
LEMMA WholeReads ==
    ASSUME NEW lines \in Seq(Seq(Raw))
    PROVE  Reading(lines, lines) = Len(lines)
<1> DEFINE B == Seq(Printed)
           V == Nat
           F == ReadF(lines)
           zero == 0
           n == Len(lines)
<1>1. n \in Nat /\ \A i \in 1..n : lines[i] \in Seq(Raw)
  BY LenProperties, ElementOfSeq
<1>2. Seq(Raw) \in SUBSET B /\ lines \in Seq(B)
  <2>1. Raw \in SUBSET Printed
    BY DEF Printed
  <2>2. Seq(Raw) \in SUBSET B
    BY <2>1, SeqMonotonic
  <2> DEFINE A == Seq(Raw)
  <2> HIDE DEF A, B
  <2>3. QED
    BY <2>2, SeqMonotonic DEF A
<1>3. Stays(F, V, B) /\ zero \in V /\ Reading(lines, lines) = LeftFold(F, zero, lines)
  BY <1>1, <1>2, ReadingIs
<1>4. \A m \in V, l \in B : F[m][l] = ReadStep(lines, m, l)
  BY DEF ReadF
<1> HIDE DEF B, F, zero
<1>5. PICK acc \in [0..n -> V] : IsLoop(acc, F, zero, lines)
                                 /\ LeftFold(F, zero, lines) = acc[n]
  <2> HIDE DEF V
  <2>1. QED
    BY <1>2, <1>3, LeftFoldLoop
<1> DEFINE Q == {i \in 0..n : acc[i] = i}
<1>6. 0 \in Q
  <2>1. acc[0] = 0 /\ 0 \in 0..n
    BY <1>1, <1>5 DEF IsLoop, zero
  <2>2. QED
    BY <2>1
<1>7. ASSUME NEW i \in 1..n, i - 1 \in Q PROVE i \in Q
  <2>1. /\ i - 1 \in Nat /\ i \in 0..n /\ acc[i - 1] = i - 1
        /\ i - 1 < n /\ (i - 1) + 1 = i /\ lines[i] \in Seq(Raw)
    BY <1>1, <1>7
  <2>2. acc[i] = F[i - 1][lines[i]]
    BY <1>5, <2>1 DEF IsLoop
  <2>3. acc[i] = ReadStep(lines, i - 1, lines[i])
    BY <1>2, <1>4, <2>1, <2>2
  <2>4. ReadStep(lines, i - 1, lines[i]) = (i - 1) + 1
    BY <1>1, <2>1, ReadStepIs
  <2>5. QED
    BY <2>1, <2>3, <2>4
<1> HIDE DEF Q
<1>8. n \in Q
  <2>1. \A i \in 0..n : i \in Q
    BY <1>1, <1>6, <1>7, UpTo
  <2>2. QED
    BY <1>1, <2>1
<1>9. QED
  BY <1>3, <1>5, <1>8 DEF Q

\* The lines of a text hold no newline.
LEMMA LinesHoldNoBreak ==
    ASSUME NEW S, NEW text \in Seq(S)
    PROVE  Lines(text) \in Seq(Seq(S \ {Newline})) /\ Lines(text) # <<>>
<1> DEFINE L == Lines(text)
           n == Len(L)
           A == Seq(S \ {Newline})
<1>1. L \in Seq(Seq(S)) /\ L # <<>> /\ Cut(L, text, Len(text))
  BY LinesAre DEF Pages
<1> HIDE DEF L
<1>2. /\ n \in Nat /\ DOMAIN L = 1..n /\ L \in [1..n -> Seq(S)]
      /\ \A i \in 1..n : L[i] \in Seq(S)
  BY <1>1, LenProperties, ElementOfSeq
<1> HIDE DEF n
<1>3. ASSUME NEW i \in 1..n PROVE L[i] \in A
  <2> DEFINE l == L[i]
             m == Len(l)
  <2>1. \A x \in Range(l) : x # Newline
    BY <1>1, <1>2 DEF Cut
  <2> HIDE DEF l
  <2>2. l \in Seq(S)
    BY <1>2 DEF l
  <2>3. m \in Nat /\ DOMAIN l = 1..m /\ l \in [1..m -> S] /\ \A k \in 1..m : l[k] \in S
    BY <2>2, LenProperties, ElementOfSeq
  <2> HIDE DEF m
  <2>4. \A k \in 1..m : l[k] \in S \ {Newline}
    BY <2>1, <2>3 DEF Range
  <2>5. l \in [1..m -> S \ {Newline}]
    BY <2>3, <2>4
  <2>6. QED
    BY <2>3, <2>5, SeqDef DEF l
<1>4. L \in [1..n -> A]
  <2> HIDE DEF A
  <2>1. QED
    BY <1>2, <1>3
<1>5. L \in Seq(A)
  <2> HIDE DEF A
  <2>1. QED
    BY <1>2, <1>4, SeqDef
<1>6. QED
  BY <1>1, <1>5 DEF L

\* No line of a log disappears silently: when the log compressor has run, one
\* who reads its result from the top finds in every line the next one of the
\* log or the count of those left out there, and so comes to the end of the log
\* exactly, whatever was selected and whether the result or the log itself was
\* taken for the shorter (logcompress.go: emit, flushGap, the final length
\* comparison).
THEOREM LossIsTold == Spec => []LossIsMarked
<1>1. LossIsMarked <=> (LogReduced => Reading(LogLines, Lines(cur)) = Len(LogLines))
  BY DEF LossIsMarked, Reading, ReadStep
<1>2. ASSUME IInv, LayersOK, LogReduced
      PROVE  Reading(LogLines, Lines(cur)) = Len(LogLines)
  <2> DEFINE T == ANSIStrip(in.text)
             L == Lines(T)
  <2>1. cur = LogCompress(T) /\ IsGiven(T)
    BY <1>2, ReducedIs
  <2>2. LogLines = L
    BY DEF LogLines
  <2> HIDE DEF T
  <2>3. T \in Seq(Raw)
    BY <2>1 DEF IsGiven
  <2>4. L \in Seq(Seq(Raw)) /\ L \in Seq(Seq(Raw \ {Newline})) /\ L # <<>>
    BY <2>3, LinesAre, LinesHoldNoBreak DEF Pages
  <2>5. cur = T \/ cur = Emitted(L, Selection(MetaOf(T)))
    BY <2>1 DEF LogCompress, Shorter
  <2>6. Reading(L, L) = Len(L)
    <3> HIDE DEF L
    <3>1. QED
      BY <2>4, WholeReads
  <2>7. Reading(L, Lines(Emitted(L, Selection(MetaOf(T))))) = Len(L)
    <3> HIDE DEF L
    <3>1. QED
      BY <2>4, EmittedReads
  <2>8. QED
    BY <2>2, <2>5, <2>6, <2>7
<1>3. IInv /\ LayersOK => LossIsMarked
  BY <1>1, <1>2
<1>4. Init => LayersOK
  BY InitLayers
<1>5. QED
  BY <1>3, <1>4, LayersStep, InvariantHolds, PTL DEF Spec

-----------------------------------------------------------------------------
(***************************************************************************)
(* Tables.  An array becomes a table in steps, each of which says the same *)
(* of every row in another way; the decoder goes back through them.        *)
(***************************************************************************)

K == Range(Keys)

\* Keys are distinguished by their rank.
LEMMA KeysAre ==
    /\ IsFiniteSet(K)
    /\ \A k \in K : k \in Seq(STRING) /\ k # <<>> /\ Rank(k) \in Nat
    /\ \A j, k \in K : Rank(j) = Rank(k) => j = k
<1>1. /\ Len(Keys) \in Nat /\ DOMAIN Keys = 1..Len(Keys)
      /\ \A i \in 1..Len(Keys) : Keys[i] \in Seq(STRING) /\ Keys[i] # <<>>
  BY ColumnsAssumption, LenProperties, ElementOfSeq DEF Range
<1>2. \A k \in K : Rank(k) \in DOMAIN Keys /\ Keys[Rank(k)] = k
  BY DEF K, Range, Rank
<1>3. IsFiniteSet(K)
  <2>1. Keys \in Surjection(1..Len(Keys), K)
    <3>1. Keys \in [1..Len(Keys) -> K]
      BY <1>1, ColumnsAssumption DEF K, Range
    <3>2. QED
      BY <1>1, <3>1 DEF Surjection, K, Range
  <2>2. IsFiniteSet(1..Len(Keys))
    BY <1>1, FS_Interval
  <2>3. QED
    BY <2>1, <2>2, FS_Surjection
<1>4. QED
  BY <1>1, <1>2, <1>3

\* Keys in alphabetical order.
LEMMA SortedKeys ==
    ASSUME NEW S \in SUBSET K,
           NEW s, s = InOrder(S, [k \in S |-> {j \in S : Rank(j) < Rank(k)}])
    PROVE  s \in Seq(S) /\ Once(s) /\ Range(s) = S /\ Len(s) = Cardinality(S)
<1> DEFINE before == [k \in S |-> {j \in S : Rank(j) < Rank(k)}]
<1>1. IsFiniteSet(S) /\ \A k \in S : Rank(k) \in Nat
  BY KeysAre, FS_Subset
<1>2. \A j, k \in S : (j \in before[k] <=> Rank(j) < Rank(k)) /\ (Rank(j) = Rank(k) => j = k)
  BY KeysAre
<1>3. s = InOrder(S, before)
  OBVIOUS
<1> HIDE DEF before
<1>4. IsOrder(S, before)
  BY <1>1, <1>2 DEF IsOrder
<1>5. QED
  BY <1>1, <1>3, <1>4, InOrderIs DEF Once

\* What a table says of row i, with g: the columns present there have the
\* values of g under their names, and so have the constants.
Tells(m, i, g) ==
    LET there == DOMAIN m.schema \ m.absent[i]
    IN  /\ DOMAIN g = {m.schema[c] : c \in there} \cup DOMAIN m.consts
        /\ \A c \in there : g[m.schema[c]] = m.rows[i][c]
        /\ \A k \in DOMAIN m.consts : g[k] = m.consts[k]

\* An array of objects.
IsObjects(items) ==
    /\ IsArray(items) /\ IsTabular(items)

\* What the items of such an array are, and their members.
LEMMA ObjectsAre ==
    ASSUME NEW items, IsObjects(items)
    PROVE  /\ Len(items) \in Nat \ {0} /\ DOMAIN items = 1..Len(items)
           /\ items \in Seq(Range(items))
           /\ \A i \in DOMAIN items :
                 /\ items[i] = <<"object", items[i][2]>>
                 /\ DOMAIN items[i][2] \subseteq K
                 /\ items[i][2] = [k \in DOMAIN items[i][2] |-> items[i][2][k]]
                 /\ \A k \in DOMAIN items[i][2] : items[i][2][k] \in Cells(items)
           /\ \A i \in DOMAIN items : \A k \in DOMAIN items[i][2] :
                 items[i][2][k][1] = "object" =>
                     \A j \in DOMAIN items[i][2][k][2] :
                         items[i][2][k][2][j] \in Cells(items)
           /\ \A v \in Cells(items) : IsValue(v)
<1>1. items \in Seq(Range(items)) /\ items # <<>>
  BY DEF IsObjects, IsArray, IsTabular
<1>2. Len(items) \in Nat \ {0} /\ DOMAIN items = 1..Len(items)
  BY <1>1, LenProperties, EmptySeq
<1>3. ASSUME NEW i \in DOMAIN items
      PROVE  /\ items[i] \in Range(items) /\ items[i][1] = "object"
             /\ IsValue(items[i])
  <2>1. items[i] \in Range(items)
    BY DEF Range
  <2>2. QED
    BY <2>1 DEF IsObjects, IsArray, IsTabular
<1>4. ASSUME NEW i \in DOMAIN items, NEW k \in DOMAIN items[i][2]
      PROVE  /\ items[i][2][k] \in UNION {Members(v) : v \in Range(items)}
             /\ items[i][2][k] \in Cells(items)
  <2>1. items[i][2][k] \in Members(items[i])
    BY <1>3 DEF Members, Range
  <2>2. QED
    BY <1>3, <2>1 DEF Cells
<1>5. ASSUME NEW i \in DOMAIN items, NEW k \in DOMAIN items[i][2],
             NEW v, v = items[i][2][k], v[1] = "object", NEW j \in DOMAIN v[2]
      PROVE  v[2][j] \in Cells(items)
  <2>1. v[2][j] \in Members(v)
    BY <1>5 DEF Members, Range
  <2>2. QED
    BY <1>4, <1>5, <2>1 DEF Cells
<1>6. \A i \in DOMAIN items :
         /\ items[i] = <<"object", items[i][2]>>
         /\ DOMAIN items[i][2] \subseteq K
         /\ items[i][2] = [k \in DOMAIN items[i][2] |-> items[i][2][k]]
  BY <1>3 DEF IsValue, K
<1>7. \A v \in Cells(items) : IsValue(v)
  BY DEF IsObjects, IsArray
<1>8. QED
  BY <1>1, <1>2, <1>4, <1>5, <1>6, <1>7

\* A table that has the keys of the array and its rows.
Fits(m, items) ==
    /\ m.schema \in Seq(K) /\ Once(m.schema)
    /\ DOMAIN m.rows = DOMAIN items
    /\ DOMAIN m.consts = {}
    /\ \A i \in DOMAIN items : Tells(m, i, items[i][2])

\* The first table tells each object.
LEMMA BuildFits ==
    ASSUME NEW items, IsObjects(items)
    PROVE  Fits(Build(items), items)
<1> DEFINE keys == UNION {DOMAIN items[i][2] : i \in DOMAIN items}
           freq(k) == Cardinality({i \in DOMAIN items : k \in DOMAIN items[i][2]})
           before == [k \in keys |->
                         {j \in keys : \/ freq(j) > freq(k)
                                       \/ freq(j) = freq(k) /\ Rank(j) < Rank(k)}]
           schema == InOrder(keys, before)
           has(i, c) == schema[c] \in DOMAIN items[i][2]
           rows == [i \in DOMAIN items |->
                       [c \in DOMAIN schema |->
                           IF has(i, c) THEN items[i][2][schema[c]] ELSE Null]]
           absent == [i \in DOMAIN items |-> {c \in DOMAIN schema : ~has(i, c)}]
           m == Build(items)
<1>1. m = [schema |-> schema, rows |-> rows, absent |-> absent,
           nested |-> NoKeys, consts |-> NoKeys]
  BY DEF Build, Table
<1>2. keys \in SUBSET K /\ IsFiniteSet(keys)
  <2>1. keys \in SUBSET K
    <3>1. \A i \in DOMAIN items : DOMAIN items[i][2] \subseteq K
      BY ObjectsAre
    <3>2. QED
      BY <3>1
  <2> HIDE DEF keys
  <2>2. QED
    BY <2>1, KeysAre, FS_Subset
<1>3. \A k \in keys : freq(k) \in Nat
  <2>1. IsFiniteSet(DOMAIN items)
    BY ObjectsAre, FS_Interval
  <2> HIDE DEF keys
  <2>2. ASSUME NEW k \in keys PROVE freq(k) \in Nat
    <3> DEFINE S == {i \in DOMAIN items : k \in DOMAIN items[i][2]}
    <3>1. S \in SUBSET DOMAIN items
      OBVIOUS
    <3> HIDE DEF S
    <3>2. Cardinality(S) \in Nat
      BY <2>1, <3>1, FS_Subset, FS_CardinalityType
    <3>3. QED
      BY <3>2 DEF S
  <2>3. QED
    BY <2>2
<1>4. IsOrder(keys, before)
  <2>1. \A k \in keys : Rank(k) \in Nat
    BY <1>2, KeysAre
  <2>2. \A j, k \in keys : Rank(j) = Rank(k) => j = k
    BY <1>2, KeysAre
  <2>3. \A j, k \in keys : j \in before[k] <=>
            freq(j) > freq(k) \/ (freq(j) = freq(k) /\ Rank(j) < Rank(k))
    OBVIOUS
  <2> HIDE DEF keys, freq, before
  <2>4. QED
    BY <1>3, <2>1, <2>2, <2>3 DEF IsOrder
<1>5. schema \in Seq(keys) /\ Once(schema) /\ Range(schema) = keys
  <2> HIDE DEF keys, before
  <2>1. QED
    BY <1>2, <1>4, InOrderIs DEF Once
<1>6. schema \in Seq(K)
  <2> HIDE DEF keys, schema
  <2>1. QED
    BY <1>2, <1>5, SeqMonotonic
<1>7. DOMAIN NoKeys = {}
  BY DEF NoKeys
<1>8. ASSUME NEW i \in DOMAIN items PROVE Tells(m, i, items[i][2])
  <2>1. DOMAIN items[i][2] \subseteq keys
    OBVIOUS
  <2> HIDE DEF keys, schema
  <2>2. m.schema = schema /\ m.absent[i] = absent[i] /\ m.rows[i] = rows[i] /\ DOMAIN m.consts = {}
    BY <1>1, <1>7
  <2> DEFINE there == DOMAIN schema \ absent[i]
  <2>3. there = {c \in DOMAIN schema : schema[c] \in DOMAIN items[i][2]}
    OBVIOUS
  <2>4. {schema[c] : c \in there} = DOMAIN items[i][2]
    BY <1>5, <2>1, <2>3 DEF Range
  <2>5. \A c \in there : items[i][2][schema[c]] = rows[i][c]
    BY <2>3
  <2> HIDE DEF rows, absent
  <2>6. QED
    BY <2>2, <2>4, <2>5 DEF Tells
<1>9. QED
  <2> HIDE DEF schema
  <2>1. m.schema = schema /\ DOMAIN m.rows = DOMAIN items /\ DOMAIN m.consts = {}
    BY <1>1, <1>7
  <2>2. \A i \in DOMAIN items : Tells(m, i, items[i][2])
    BY <1>8
  <2>3. m.schema \in Seq(K) /\ Once(m.schema)
    BY <1>5, <1>6, <2>1
  <2> HIDE DEF m
  <2>4. Fits(m, items)
    BY <2>1, <2>2, <2>3 DEF Fits
  <2>5. QED
    BY <2>4 DEF m

\* The inner keys of a column that is flattened: those of each object in it.
Shape(m, c) == Range(Inner(m, c))

\* What a row of a table that fits has in a column.
LEMMA PresentIs ==
    ASSUME NEW items, IsObjects(items), NEW m, Fits(m, items), NEW c \in DOMAIN m.schema
    PROVE  /\ m.schema[c] \in K
           /\ \A i \in DOMAIN items :
                 c \notin m.absent[i] =>
                     /\ m.schema[c] \in DOMAIN items[i][2]
                     /\ m.rows[i][c] = items[i][2][m.schema[c]]
                     /\ m.rows[i][c] \in Present(m, c)
           /\ \A v \in Present(m, c) :
                 \E i \in DOMAIN items :
                     /\ c \notin m.absent[i] /\ v = m.rows[i][c]
                     /\ v \in Cells(items) /\ IsValue(v)
<1>1. m.schema \in Seq(K) /\ DOMAIN m.rows = DOMAIN items /\ DOMAIN m.consts = {}
  BY DEF Fits
<1>2. m.schema[c] \in K
  BY <1>1, ElementOfSeq, LenProperties
<1>3. ASSUME NEW i \in DOMAIN items, c \notin m.absent[i]
      PROVE  /\ m.schema[c] \in DOMAIN items[i][2]
             /\ m.rows[i][c] = items[i][2][m.schema[c]]
             /\ m.rows[i][c] \in Present(m, c)
  <2>1. Tells(m, i, items[i][2])
    BY DEF Fits
  <2>2. c \in DOMAIN m.schema \ m.absent[i]
    BY <1>3
  <2>3. /\ DOMAIN items[i][2] = {m.schema[x] : x \in DOMAIN m.schema \ m.absent[i]} \cup DOMAIN m.consts
        /\ items[i][2][m.schema[c]] = m.rows[i][c]
    BY <2>1, <2>2 DEF Tells
  <2>4. m.rows[i][c] \in Present(m, c)
    BY <1>1, <1>3 DEF Present
  <2>5. QED
    BY <2>2, <2>3, <2>4
<1>4. ASSUME NEW v \in Present(m, c)
      PROVE  \E i \in DOMAIN items :
                 /\ c \notin m.absent[i] /\ v = m.rows[i][c]
                 /\ v \in Cells(items) /\ IsValue(v)
  <2>1. PICK i \in DOMAIN items : c \notin m.absent[i] /\ v = m.rows[i][c]
    BY <1>1 DEF Present
  <2>2. v = items[i][2][m.schema[c]] /\ m.schema[c] \in DOMAIN items[i][2]
    BY <1>3, <2>1
  <2>3. v \in Cells(items) /\ IsValue(v)
    BY <2>2, ObjectsAre
  <2>4. QED
    BY <2>1, <2>3
<1>5. QED
  BY <1>2, <1>3, <1>4

\* Every object of a flattened column has the inner keys, and no name made of
\* them is taken.
LEMMA FlattenedIs ==
    ASSUME NEW items, IsObjects(items), NEW m, Fits(m, items), NEW c \in DOMAIN m.schema,
           IsFlattened(m, c)
    PROVE  /\ Len(m.schema[c]) = 1
           /\ Inner(m, c) \in Seq(K) /\ Once(Inner(m, c))
           /\ Shape(m, c) \subseteq K /\ Shape(m, c) # {}
           /\ \A k \in Shape(m, c) : m.schema[c] \o k \notin Range(m.schema)
           /\ \A v \in Present(m, c) :
                 v = <<"object", v[2]>> /\ v[2] = [k \in Shape(m, c) |-> v[2][k]]
<1> DEFINE P == Present(m, c)
           w == CHOOSE v \in P : TRUE
           D == DOMAIN w[2]
           s == Inner(m, c)
<1>1. /\ Len(m.schema[c]) = 1 /\ P # {}
      /\ \A v \in P : v[1] = "object"
      /\ \A v, u \in P : DOMAIN v[2] = DOMAIN u[2]
      /\ Len(s) \in 1..MaxInnerKeys
      /\ \A k \in Range(s) : m.schema[c] \o k \notin Range(m.schema)
  BY DEF IsFlattened, IsUniform
<1>2. w \in P
  BY <1>1
<1>3. \A v \in P : IsValue(v) /\ DOMAIN v[2] = D
  <2>1. \A v \in P : IsValue(v)
    BY PresentIs
  <2> HIDE DEF P, w
  <2>2. QED
    BY <1>1, <1>2, <2>1
<1>4. \A v \in P : v = <<"object", v[2]>> /\ v[2] = [k \in D |-> v[2][k]]
  <2> HIDE DEF P, D
  <2>1. QED
    BY <1>1, <1>3 DEF IsValue
<1>5. D \subseteq K
  <2> HIDE DEF P, w
  <2>1. QED
    BY <1>1, <1>2, <1>3 DEF IsValue, K
<1>6. s = InOrder(D, [k \in D |-> {j \in D : Rank(j) < Rank(k)}])
  BY DEF Inner
<1> HIDE DEF D, s, P, w
<1>7. s \in Seq(D) /\ Once(s) /\ Range(s) = D /\ Len(s) = Cardinality(D)
  BY <1>5, <1>6, SortedKeys
<1>8. D # {}
  <2>1. Len(s) # 0
    BY <1>1, ColumnsAssumption
  <2>2. QED
    BY <1>7, <2>1, FS_EmptySet
<1>9. s \in Seq(K)
  BY <1>5, <1>7, SeqMonotonic
<1>10. Shape(m, c) = D
  BY <1>7 DEF Shape, s
<1>11. QED
  BY <1>1, <1>4, <1>5, <1>7, <1>8, <1>9, <1>10 DEF s, P

\* Where a column of the flattened table may come from.
IsOrigin(m, o) ==
    IF IsFlattened(m, o[1]) THEN o[2] \in Shape(m, o[1]) ELSE o[2] = Whole
Spots(m) == (DOMAIN m.schema) \X (K \cup {Whole})

\* Each origin has one column.
LEMMA OriginsAre ==
    ASSUME NEW items, IsObjects(items), NEW m, Fits(m, items), NEW s, s = Origins(m)
    PROVE  /\ s \in Seq(Spots(m)) /\ Once(s)
           /\ Range(s) = {o \in Spots(m) : IsOrigin(m, o)}
<1> DEFINE D == DOMAIN m.schema
           B == Spots(m)
           part(c) == [n \in DOMAIN Inner(m, c) |-> <<c, Inner(m, c)[n]>>]
           whole(c) == << <<c, Whole>> >>
           ss == [c \in D |-> IF IsFlattened(m, c) THEN part(c) ELSE whole(c)]
<1>1. s = FlattenSeq(ss)
  BY DEF Origins
<1>2. Len(m.schema) \in Nat /\ D = 1..Len(m.schema)
  BY LenProperties DEF Fits
<1>3. ASSUME NEW c \in D
      PROVE  /\ ss[c] \in Seq(B) /\ Once(ss[c])
             /\ Range(ss[c]) = {o \in B : o[1] = c /\ IsOrigin(m, o)}
  <2>1. CASE IsFlattened(m, c)
    <3> DEFINE t == Inner(m, c)
               u == part(c)
    <3>1. t \in Seq(K) /\ Once(t) /\ Range(t) = Shape(m, c) /\ Shape(m, c) \subseteq K
      BY <2>1, FlattenedIs DEF Shape
    <3>2. Len(t) \in Nat /\ DOMAIN t = 1..Len(t) /\ \A n \in 1..Len(t) : t[n] \in K
      BY <3>1, LenProperties, ElementOfSeq
    <3>3. ss[c] = u
      BY <2>1
    <3>4. /\ u = [n \in 1..Len(t) |-> <<c, t[n]>>]
          /\ DOMAIN u = DOMAIN t
      BY <3>2
    <3> HIDE DEF t, u, ss
    <3>5. u \in [1..Len(t) -> B]
      BY <3>2, <3>4 DEF Spots
    <3>6. u \in Seq(B)
      BY <3>2, <3>5, FunctionIsSeq
    <3>7. Once(u)
      BY <3>1, <3>2, <3>4 DEF Once
    <3>8. Range(u) = {<<c, k>> : k \in Range(t)}
      BY <3>2, <3>4 DEF Range
    <3>9. {<<c, k>> : k \in Shape(m, c)} = {o \in B : o[1] = c /\ IsOrigin(m, o)}
      BY <2>1, <3>1 DEF IsOrigin, Spots
    <3>10. QED
      BY <3>1, <3>3, <3>6, <3>7, <3>8, <3>9
  <2>2. CASE ~IsFlattened(m, c)
    <3> DEFINE p == <<c, Whole>>
    <3>1. ss[c] = <<p>>
      BY <2>2
    <3>2. p \in B
      BY DEF Spots
    <3>3. {p} = {o \in B : o[1] = c /\ IsOrigin(m, o)}
      BY <2>2, <3>2 DEF IsOrigin, Spots
    <3> HIDE DEF p, ss
    <3>4. <<p>> \in Seq(B) /\ Once(<<p>>) /\ Range(<<p>>) = {p}
      BY <3>2 DEF Once, Range
    <3>5. QED
      BY <3>1, <3>3, <3>4
  <2>3. QED
    BY <2>1, <2>2
<1>4. ss \in Seq(Seq(B))
  <2>1. ss \in [1..Len(m.schema) -> Seq(B)]
    BY <1>2, <1>3
  <2> HIDE DEF ss
  <2>2. QED
    BY <1>2, <2>1, FunctionIsSeq
<1>5. DOMAIN ss = D
  OBVIOUS
<1> HIDE DEF ss
<1>6. \A i, j \in D : i # j => Range(ss[i]) \cap Range(ss[j]) = {}
  BY <1>3
<1>7. /\ s \in Seq(B)
      /\ Range(s) = UNION {Range(ss[c]) : c \in D}
      /\ Once(s)
  BY <1>1, <1>3, <1>4, <1>5, <1>6, FlattenHolds, ZenonT(60)
<1>8. UNION {Range(ss[c]) : c \in D} = {o \in B : IsOrigin(m, o)}
  <2>1. \A o \in B : o[1] \in D
    BY DEF Spots
  <2> HIDE DEF D, B
  <2>2. QED
    BY <1>3, <2>1
<1>9. QED
  BY <1>7, <1>8

\* A first part and the rest.
LEMMA PartAndRest ==
    ASSUME NEW S, NEW a \in Seq(S), NEW k \in Seq(S), Len(a) = 1
    PROVE  /\ Len(k) \in Nat /\ DOMAIN k = 1..Len(k) /\ DOMAIN a = 1..1
           /\ Len(a \o k) = 1 + Len(k)
           /\ (a \o k)[1] = a[1]
           /\ \A i \in 1..Len(k) : (a \o k)[1 + i] = k[i]
<1>1. /\ Len(k) \in Nat /\ DOMAIN k = 1..Len(k) /\ DOMAIN a = 1..Len(a)
      /\ Len(a \o k) = Len(a) + Len(k)
      /\ \A i \in 1..Len(a) : (a \o k)[i] = a[i]
      /\ \A i \in 1..Len(k) : (a \o k)[Len(a) + i] = k[i]
  BY ConcatItems
<1> DEFINE u == a \o k
           n == Len(k)
<1>2. /\ n \in Nat /\ DOMAIN k = 1..n /\ DOMAIN a = 1..1 /\ Len(u) = 1 + n
      /\ \A i \in 1..1 : u[i] = a[i]
      /\ \A i \in 1..n : u[1 + i] = k[i]
  BY <1>1
<1> HIDE DEF u, n
<1>3. u[1] = a[1]
  BY <1>2
<1>4. QED
  BY <1>2, <1>3 DEF u, n

\* A name is read back as its first part and the rest.
LEMMA OnePart ==
    ASSUME NEW S, NEW a \in Seq(S), NEW b \in Seq(S), NEW k \in Seq(S), NEW l \in Seq(S),
           Len(a) = 1, Len(b) = 1, a \o k = b \o l
    PROVE  a = b /\ k = l
<1>1. /\ Len(k) \in Nat /\ DOMAIN k = 1..Len(k) /\ DOMAIN a = 1..1
      /\ Len(l) \in Nat /\ DOMAIN l = 1..Len(l) /\ DOMAIN b = 1..1
      /\ Len(a \o k) = 1 + Len(k) /\ Len(b \o l) = 1 + Len(l)
      /\ (a \o k)[1] = a[1] /\ (b \o l)[1] = b[1]
      /\ \A i \in 1..Len(k) : (a \o k)[1 + i] = k[i]
      /\ \A i \in 1..Len(l) : (b \o l)[1 + i] = l[i]
  <2>1. /\ Len(k) \in Nat /\ DOMAIN k = 1..Len(k) /\ DOMAIN a = 1..1
        /\ Len(a \o k) = 1 + Len(k) /\ (a \o k)[1] = a[1]
        /\ \A i \in 1..Len(k) : (a \o k)[1 + i] = k[i]
    BY PartAndRest
  <2>2. /\ Len(l) \in Nat /\ DOMAIN l = 1..Len(l) /\ DOMAIN b = 1..1
        /\ Len(b \o l) = 1 + Len(l) /\ (b \o l)[1] = b[1]
        /\ \A i \in 1..Len(l) : (b \o l)[1 + i] = l[i]
    BY PartAndRest
  <2>3. QED
    BY <2>1, <2>2
<1>2. Len(k) = Len(l) /\ a[1] = b[1] /\ \A i \in 1..Len(k) : k[i] = l[i]
  <2>1. Len(k) = Len(l)
    <3>1. Len(a \o k) = Len(b \o l)
      OBVIOUS
    <3>2. 1 + Len(k) = 1 + Len(l)
      BY <1>1, <3>1
    <3>3. \A x, y \in Nat : 1 + x = 1 + y => x = y
      OBVIOUS
    <3>4. Len(k) \in Nat /\ Len(l) \in Nat
      BY <1>1
    <3> DEFINE x == Len(k)
               y == Len(l)
    <3> HIDE DEF x, y
    <3>5. x = y
      BY <3>2, <3>3, <3>4 DEF x, y
    <3>6. QED
      BY <3>5 DEF x, y
  <2>2. a[1] = b[1]
    BY <1>1
  <2>3. QED
    BY <1>1, <2>1, <2>2
<1>3. QED
  BY <1>1, <1>2, SeqEqual

\* What a column of the flattened table is called.
Name(m, o) == m.schema[o[1]] \o o[2]

\* Two origins have two names.
LEMMA NamesDiffer ==
    ASSUME NEW items, IsObjects(items), NEW m, Fits(m, items),
           NEW o \in Spots(m), IsOrigin(m, o), NEW p \in Spots(m), IsOrigin(m, p)
    PROVE  /\ Name(m, o) \in Seq(STRING)
           /\ o[2] = Whole => Name(m, o) = m.schema[o[1]] /\ Name(m, o) \in Range(m.schema)
           /\ o[2] # Whole => Name(m, o) \notin Range(m.schema)
           /\ Name(m, o) = Name(m, p) => o = p
<1>1. \A x \in Spots(m) : /\ x = <<x[1], x[2]>> /\ x[1] \in DOMAIN m.schema
                          /\ m.schema[x[1]] \in K
                          /\ m.schema[x[1]] \in Range(m.schema)
                          /\ m.schema[x[1]] \in Seq(STRING) /\ x[2] \in Seq(STRING)
  <2>1. \A c \in DOMAIN m.schema : m.schema[c] \in K /\ m.schema[c] \in Range(m.schema)
    BY ElementOfSeq, LenProperties DEF Fits, Range
  <2>2. Whole \in Seq(STRING) /\ K \subseteq Seq(STRING)
    BY KeysAre, EmptySeq DEF Whole
  <2>3. QED
    BY <2>1, <2>2 DEF Spots
<1>2. \A x \in Spots(m) : Name(m, x) \in Seq(STRING)
  BY <1>1, ConcatProperties DEF Name
<1>3. ASSUME NEW x \in Spots(m), IsOrigin(m, x), x[2] = Whole
      PROVE  Name(m, x) = m.schema[x[1]] /\ Name(m, x) \in Range(m.schema)
  BY <1>1, <1>3, ConcatLaws DEF Name, Whole
<1>4. \A k \in K : k # Whole
  BY KeysAre DEF Whole
<1>5. ASSUME NEW x \in Spots(m), IsOrigin(m, x), x[2] # Whole
      PROVE  Name(m, x) \notin Range(m.schema) /\ Len(m.schema[x[1]]) = 1
  <2>1. IsFlattened(m, x[1]) /\ x[2] \in Shape(m, x[1])
    BY <1>5 DEF IsOrigin
  <2>2. QED
    BY <1>1, <2>1, FlattenedIs DEF Name
<1>6. ASSUME Name(m, o) = Name(m, p) PROVE o = p
  <2>1. CASE o[2] = Whole
    <3>1. p[2] = Whole
      BY <1>3, <1>5, <1>6, <2>1
    <3>2. m.schema[o[1]] = m.schema[p[1]]
      BY <1>3, <1>6, <2>1, <3>1
    <3>3. o[1] = p[1]
      BY <1>1, <3>2 DEF Fits, Once
    <3>4. QED
      BY <1>1, <2>1, <3>1, <3>3
  <2>2. CASE o[2] # Whole
    <3>1. p[2] # Whole
      BY <1>3, <1>5, <1>6, <2>2
    <3>2. Len(m.schema[o[1]]) = 1 /\ Len(m.schema[p[1]]) = 1
      BY <1>5, <2>2, <3>1
    <3>3. m.schema[o[1]] \o o[2] = m.schema[p[1]] \o p[2]
      BY <1>6 DEF Name
    <3>4. m.schema[o[1]] = m.schema[p[1]] /\ o[2] = p[2]
      BY <1>1, <3>2, <3>3, OnePart, ZenonT(60)
    <3>5. o[1] = p[1]
      BY <1>1, <3>4 DEF Fits, Once
    <3>6. QED
      BY <1>1, <3>4, <3>5
  <2>3. QED
    BY <2>1, <2>2
<1>7. QED
  BY <1>2, <1>3, <1>5, <1>6

\* The parts of the objects that were flattened.
Spread(N, f) == {p \in (DOMAIN f \cap DOMAIN N) \X K : p[2] \in N[p[1]]}

\* g is f with each member under a key of N spread over its inner keys.
Spreads(N, f, g) ==
    /\ DOMAIN g = (DOMAIN f \ DOMAIN N) \cup {p[1] \o p[2] : p \in Spread(N, f)}
    /\ \A k \in DOMAIN f \ DOMAIN N : g[k] = f[k]
    /\ \A p \in Spread(N, f) : g[p[1] \o p[2]] = f[p[1]][2][p[2]]

\* N spreads the rows of the array so that they can be put together again.
Nests(N, items) ==
    \A p \in DOMAIN N :
        /\ p \in K /\ Len(p) = 1
        /\ N[p] \subseteq K /\ N[p] # {}
        /\ \A i \in DOMAIN items :
              /\ \A k \in N[p] : p \o k \notin DOMAIN items[i][2]
              /\ p \in DOMAIN items[i][2] =>
                    LET v == items[i][2][p]
                    IN  v = <<"object", v[2]>> /\ v[2] = [k \in N[p] |-> v[2][k]]

\* What is kept of the columns of the flattened table.
LEMMA FlattenIsTable ==
    ASSUME NEW items, IsObjects(items), NEW m, Fits(m, items), NEW f, f = Flatten(m),
           NEW s, s = Origins(m)
    PROVE  /\ f = Table(f.schema, f.rows, f.absent, f.nested, f.consts)
           /\ DOMAIN f.schema = DOMAIN s /\ DOMAIN f.rows = DOMAIN items
           /\ DOMAIN f.consts = {}
           /\ \A n \in DOMAIN s : f.schema[n] = Name(m, s[n])
           /\ \A i \in DOMAIN items :
                 /\ f.absent[i] = {n \in DOMAIN s : s[n][1] \in m.absent[i]}
                 /\ \A n \in DOMAIN s :
                       f.rows[i][n] = IF s[n][2] = Whole THEN m.rows[i][s[n][1]]
                                      ELSE IF s[n][1] \in m.absent[i] THEN Null
                                      ELSE m.rows[i][s[n][1]][2][s[n][2]]
           /\ DOMAIN f.nested = {m.schema[c] : c \in {x \in DOMAIN m.schema : IsFlattened(m, x)}}
           /\ \A c \in DOMAIN m.schema :
                 IsFlattened(m, c) => f.nested[m.schema[c]] = Shape(m, c)
<1> DEFINE flat == {c \in DOMAIN m.schema : IsFlattened(m, c)}
           cell(i, o) == IF o[2] = Whole THEN m.rows[i][o[1]]
                         ELSE IF o[1] \in m.absent[i] THEN Null
                         ELSE m.rows[i][o[1]][2][o[2]]
           schema == [n \in DOMAIN s |-> Name(m, s[n])]
           rows == [i \in DOMAIN m.rows |-> [n \in DOMAIN s |-> cell(i, s[n])]]
           absent == [i \in DOMAIN m.rows |-> {n \in DOMAIN s : s[n][1] \in m.absent[i]}]
           nested == [p \in {m.schema[c] : c \in flat} |->
                         Range(Inner(m, CHOOSE c \in flat : m.schema[c] = p))]
<1>1. f = [schema |-> schema, rows |-> rows, absent |-> absent, nested |-> nested,
           consts |-> NoKeys]
  BY DEF Flatten, Table, Name
<1>2. DOMAIN m.rows = DOMAIN items /\ Once(m.schema)
  BY DEF Fits
<1>3. DOMAIN NoKeys = {}
  BY DEF NoKeys
<1>4. ASSUME NEW c \in flat PROVE nested[m.schema[c]] = Shape(m, c)
  <2>1. \A x \in flat : m.schema[x] = m.schema[c] => x = c
    BY <1>2 DEF Once
  <2>2. (CHOOSE x \in flat : m.schema[x] = m.schema[c]) = c
    <3> HIDE DEF flat
    <3>1. QED
      BY <2>1
  <2>3. nested[m.schema[c]] = Range(Inner(m, CHOOSE x \in flat : m.schema[x] = m.schema[c]))
    OBVIOUS
  <2>4. QED
    BY <2>2, <2>3 DEF Shape
<1>5. /\ f.schema = schema /\ f.rows = rows /\ f.absent = absent /\ f.nested = nested
      /\ f.consts = NoKeys
  <2> HIDE DEF schema, rows, absent, nested
  <2>1. QED
    BY <1>1
<1>6. DOMAIN f.nested = {m.schema[c] : c \in flat}
  BY <1>5, Zenon
<1>7. \A c \in DOMAIN m.schema : IsFlattened(m, c) => f.nested[m.schema[c]] = Shape(m, c)
  <2> HIDE DEF nested
  <2>1. QED
    BY <1>4, <1>5, Zenon
<1>8. \A i \in DOMAIN items :
         /\ f.absent[i] = {n \in DOMAIN s : s[n][1] \in m.absent[i]}
         /\ \A n \in DOMAIN s : f.rows[i][n] = cell(i, s[n])
  <2>1. ASSUME NEW i \in DOMAIN items
        PROVE  f.absent[i] = {n \in DOMAIN s : s[n][1] \in m.absent[i]}
    <3>1. absent[i] = {n \in DOMAIN s : s[n][1] \in m.absent[i]}
      BY <1>2
    <3> HIDE DEF absent
    <3>2. QED
      BY <1>5, <3>1, Zenon
  <2>2. ASSUME NEW i \in DOMAIN items, NEW n \in DOMAIN s
        PROVE  f.rows[i][n] = cell(i, s[n])
    <3> HIDE DEF cell
    <3>1. rows[i][n] = cell(i, s[n])
      BY <1>2
    <3> HIDE DEF rows
    <3>2. QED
      BY <1>5, <3>1
  <2>3. QED
    BY <2>1, <2>2
<1>9. DOMAIN f.schema = DOMAIN s /\ DOMAIN f.rows = DOMAIN items /\ DOMAIN f.consts = {}
      /\ \A n \in DOMAIN s : f.schema[n] = Name(m, s[n])
  BY <1>2, <1>3, <1>5, Zenon
<1>10. f = Table(f.schema, f.rows, f.absent, f.nested, f.consts)
  <2> HIDE DEF schema, rows, absent, nested
  <2>1. QED
    BY <1>1, <1>5 DEF Table
<1>11. QED
  BY <1>6, <1>7, <1>8, <1>9, <1>10

\* Flattening spreads each object over its inner keys.
LEMMA FlattenSpreads ==
    ASSUME NEW items, IsObjects(items), NEW m, Fits(m, items), NEW f, f = Flatten(m)
    PROVE  /\ f = Table(f.schema, f.rows, f.absent, f.nested, f.consts)
           /\ f.schema \in Seq(Seq(STRING)) /\ Once(f.schema)
           /\ DOMAIN f.rows = DOMAIN items /\ DOMAIN f.consts = {}
           /\ Nests(f.nested, items)
           /\ \A i \in DOMAIN items : \A n \in DOMAIN f.schema \ f.absent[i] :
                 f.rows[i][n] \in Cells(items)
           /\ \A i \in DOMAIN items : \A g :
                 Tells(f, i, g) => Spreads(f.nested, items[i][2], g)
<1> DEFINE D == DOMAIN m.schema
           s == Origins(m)
           N == f.nested
<1>1. /\ s \in Seq(Spots(m)) /\ Once(s)
      /\ Range(s) = {o \in Spots(m) : IsOrigin(m, o)}
  BY OriginsAre
<1>2. /\ Len(s) \in Nat /\ DOMAIN s = 1..Len(s)
      /\ \A n \in DOMAIN s : s[n] \in Spots(m) /\ IsOrigin(m, s[n])
  BY <1>1, LenProperties DEF Range
<1>3. /\ f = Table(f.schema, f.rows, f.absent, f.nested, f.consts)
      /\ DOMAIN f.schema = DOMAIN s /\ DOMAIN f.rows = DOMAIN items
      /\ DOMAIN f.consts = {}
      /\ \A n \in DOMAIN s : f.schema[n] = Name(m, s[n])
      /\ \A i \in DOMAIN items :
            /\ f.absent[i] = {n \in DOMAIN s : s[n][1] \in m.absent[i]}
            /\ \A n \in DOMAIN s :
                  f.rows[i][n] = IF s[n][2] = Whole THEN m.rows[i][s[n][1]]
                                 ELSE IF s[n][1] \in m.absent[i] THEN Null
                                 ELSE m.rows[i][s[n][1]][2][s[n][2]]
      /\ DOMAIN N = {m.schema[c] : c \in {x \in D : IsFlattened(m, x)}}
      /\ \A c \in D : IsFlattened(m, c) => N[m.schema[c]] = Shape(m, c)
  BY FlattenIsTable
<1>4. \A c, x \in D : m.schema[c] = m.schema[x] => c = x
  BY DEF Fits, Once
<1>5. \A c \in D : IsFlattened(m, c) <=> m.schema[c] \in DOMAIN N
  BY <1>3, <1>4
<1>6. \A c \in D : /\ m.schema[c] \in K
                   /\ IsFlattened(m, c) => /\ Len(m.schema[c]) = 1
                                           /\ Shape(m, c) \subseteq K /\ Shape(m, c) # {}
                                           /\ \A k \in Shape(m, c) :
                                                 m.schema[c] \o k \notin Range(m.schema)
  BY PresentIs, FlattenedIs
<1>7. \A k \in K : k # Whole
  BY KeysAre DEF Whole
<1>8. ASSUME NEW o \in Spots(m)
      PROVE  o = <<o[1], o[2]>> /\ o[1] \in D /\ (o[2] \in K \/ o[2] = Whole)
  BY DEF Spots
\* What a row of the array has, in the words of the table.
<1>9. ASSUME NEW i \in DOMAIN items
      PROVE  /\ \A c \in D :
                   /\ c \notin m.absent[i] <=> m.schema[c] \in DOMAIN items[i][2]
                   /\ c \notin m.absent[i] =>
                         /\ items[i][2][m.schema[c]] = m.rows[i][c]
                         /\ m.rows[i][c] \in Present(m, c)
             /\ \A k \in DOMAIN items[i][2] : \E c \in D : m.schema[c] = k
  <2>1. Tells(m, i, items[i][2]) /\ DOMAIN m.consts = {}
    BY DEF Fits
  <2>2. DOMAIN items[i][2] = {m.schema[c] : c \in D \ m.absent[i]}
    BY <2>1 DEF Tells
  <2>3. \A c \in D : c \notin m.absent[i] =>
            /\ items[i][2][m.schema[c]] = m.rows[i][c]
            /\ m.rows[i][c] \in Present(m, c)
    BY PresentIs
  <2>4. \A c \in D : c \notin m.absent[i] <=> m.schema[c] \in DOMAIN items[i][2]
    BY <1>4, <2>2
  <2>5. \A k \in DOMAIN items[i][2] : \E c \in D : m.schema[c] = k
    BY <2>2
  <2>6. QED
    BY <2>3, <2>4, <2>5
<1>10. f.schema \in Seq(Seq(STRING)) /\ Once(f.schema)
  <2>1. \A n \in DOMAIN s : f.schema[n] \in Seq(STRING)
    BY <1>2, <1>3, NamesDiffer
  <2>2. \A n, x \in DOMAIN s : f.schema[n] = f.schema[x] => n = x
    <3>1. ASSUME NEW n \in DOMAIN s, NEW x \in DOMAIN s, f.schema[n] = f.schema[x]
          PROVE  n = x
      <4>1. Name(m, s[n]) = Name(m, s[x])
        BY <1>3, <3>1
      <4>2. s[n] = s[x]
        BY <1>2, <4>1, NamesDiffer
      <4>3. QED
        BY <1>1, <4>2 DEF Once
    <3>2. QED
      BY <3>1
  <2>3. f.schema = [n \in DOMAIN s |-> f.schema[n]]
    BY DEF Flatten, Table
  <2>4. f.schema \in [1..Len(s) -> Seq(STRING)]
    BY <1>2, <2>1, <2>3
  <2>5. f.schema \in Seq(Seq(STRING))
    BY <1>2, <2>4, FunctionIsSeq
  <2>6. QED
    BY <1>3, <2>2, <2>5 DEF Once
<1>11. Nests(N, items)
  <2>1. ASSUME NEW p \in DOMAIN N
        PROVE  /\ p \in K /\ Len(p) = 1
               /\ N[p] \subseteq K /\ N[p] # {}
               /\ \A i \in DOMAIN items :
                     /\ \A k \in N[p] : p \o k \notin DOMAIN items[i][2]
                     /\ p \in DOMAIN items[i][2] =>
                           LET v == items[i][2][p]
                           IN  v = <<"object", v[2]>> /\ v[2] = [k \in N[p] |-> v[2][k]]
    <3>1. PICK c \in D : m.schema[c] = p /\ IsFlattened(m, c)
      BY <1>3
    <3>2. N[p] = Shape(m, c)
      BY <1>3, <3>1
    <3>3. p \in K /\ Len(p) = 1 /\ N[p] \subseteq K /\ N[p] # {}
          /\ \A k \in N[p] : p \o k \notin Range(m.schema)
      BY <1>6, <3>1, <3>2
    <3>4. ASSUME NEW i \in DOMAIN items, NEW k \in N[p]
          PROVE  p \o k \notin DOMAIN items[i][2]
      <4>1. \A x \in DOMAIN items[i][2] : x \in Range(m.schema)
        BY <1>9 DEF Range
      <4>2. QED
        BY <3>3, <4>1
    <3>5. ASSUME NEW i \in DOMAIN items, p \in DOMAIN items[i][2],
                 NEW v, v = items[i][2][p]
          PROVE  v = <<"object", v[2]>> /\ v[2] = [k \in N[p] |-> v[2][k]]
      <4>1. v \in Present(m, c)
        BY <1>9, <3>1, <3>5
      <4>2. v = <<"object", v[2]>> /\ v[2] = [k \in Shape(m, c) |-> v[2][k]]
        BY <3>1, <4>1, FlattenedIs
      <4>3. QED
        BY <3>2, <4>2
    <3>6. QED
      BY <3>3, <3>4, <3>5
  <2>2. QED
    BY <2>1 DEF Nests
\* A present column of the new table has a member of the array's object.
<1> DEFINE part(n) == s[n][2]
           key(n) == m.schema[s[n][1]]
<1>12. ASSUME NEW i \in DOMAIN items, NEW n \in DOMAIN f.schema \ f.absent[i]
       PROVE  /\ f.schema[n] = key(n) \o part(n) /\ key(n) \in DOMAIN items[i][2]
              /\ part(n) = Whole => /\ key(n) \notin DOMAIN N /\ f.schema[n] = key(n)
                                    /\ f.rows[i][n] = items[i][2][key(n)]
              /\ part(n) # Whole =>
                    /\ key(n) \in DOMAIN N /\ part(n) \in N[key(n)] /\ part(n) \in K
                    /\ items[i][2][key(n)] = <<"object", items[i][2][key(n)][2]>>
                    /\ part(n) \in DOMAIN items[i][2][key(n)][2]
                    /\ f.rows[i][n] = items[i][2][key(n)][2][part(n)]
  <2> DEFINE o == s[n]
             k == key(n)
  <2>1. n \in DOMAIN s /\ o[1] \notin m.absent[i]
    BY <1>3, <1>12
  <2>2. o \in Spots(m) /\ IsOrigin(m, o) /\ o[1] \in D /\ f.schema[n] = Name(m, o)
    BY <1>2, <1>3, <1>8, <1>12, <2>1
  <2>3. k \in DOMAIN items[i][2] /\ items[i][2][k] = m.rows[i][o[1]]
    BY <1>9, <1>12, <2>1, <2>2
  <2>4. f.rows[i][n] = IF o[2] = Whole THEN m.rows[i][o[1]]
                       ELSE IF o[1] \in m.absent[i] THEN Null
                       ELSE m.rows[i][o[1]][2][o[2]]
    BY <1>3, <1>12, <2>1
  <2>5. CASE o[2] = Whole
    <3>1. ~IsFlattened(m, o[1])
      BY <1>6, <1>7, <2>2, <2>5 DEF IsOrigin
    <3>2. k \notin DOMAIN N
      BY <1>5, <1>12, <2>2, <3>1
    <3>3. Name(m, o) = k
      BY <1>12, <2>2, <2>5, NamesDiffer
    <3>4. f.rows[i][n] = items[i][2][k]
      BY <2>3, <2>4, <2>5
    <3>5. QED
      BY <1>12, <2>2, <2>3, <2>5, <3>2, <3>3, <3>4 DEF Name
  <2>6. CASE o[2] # Whole
    <3>1. IsFlattened(m, o[1]) /\ o[2] \in Shape(m, o[1])
      BY <2>2, <2>6 DEF IsOrigin
    <3>2. k \in DOMAIN N /\ o[2] \in N[k] /\ o[2] \in K
      BY <1>3, <1>5, <1>6, <1>12, <2>2, <3>1
    <3> DEFINE v == items[i][2][k]
    <3>3. v = <<"object", v[2]>> /\ v[2] = [j \in N[k] |-> v[2][j]]
      BY <1>11, <2>3, <3>2, Zenon DEF Nests
    <3>4. f.rows[i][n] = v[2][o[2]]
      BY <2>1, <2>3, <2>4, <2>6
    <3> HIDE DEF v
    <3>5. DOMAIN v[2] = N[k]
      BY <3>3
    <3>6. QED
      BY <1>12, <2>2, <2>3, <2>6, <3>2, <3>3, <3>4, <3>5, Zenon DEF Name, v
  <2>7. QED
    BY <2>5, <2>6, Zenon
<1>13. ASSUME NEW i \in DOMAIN items, NEW n \in DOMAIN f.schema \ f.absent[i]
       PROVE  f.rows[i][n] \in Cells(items)
  <2> DEFINE k == key(n)
             j == part(n)
             v == items[i][2][k]
  <2>1. /\ k \in DOMAIN items[i][2]
        /\ \/ f.rows[i][n] = v
           \/ v = <<"object", v[2]>> /\ j \in DOMAIN v[2] /\ f.rows[i][n] = v[2][j]
    BY <1>12, ZenonT(60)
  <2>2. k \in DOMAIN items[i][2] =>
            /\ v \in Cells(items)
            /\ v[1] = "object" => \A x \in DOMAIN v[2] : v[2][x] \in Cells(items)
    BY ObjectsAre
  <2> HIDE DEF j, k, v
  <2>3. v = <<"object", v[2]>> => v[1] = "object"
    OBVIOUS
  <2>4. QED
    BY <2>1, <2>2, <2>3
\* And each member has its column.
<1>14. ASSUME NEW i \in DOMAIN items, NEW k \in DOMAIN items[i][2], NEW j,
              IF k \in DOMAIN N THEN j \in N[k] ELSE j = Whole
       PROVE  \E n \in DOMAIN f.schema \ f.absent[i] :
                 part(n) = j /\ key(n) = k
  <2>1. PICK c \in D : m.schema[c] = k
    BY <1>9
  <2>2. c \notin m.absent[i]
    BY <1>9, <2>1
  <2> DEFINE o == <<c, j>>
  <2>3. o \in Spots(m) /\ IsOrigin(m, o)
    <3>1. o[1] = c /\ o[2] = j
      OBVIOUS
    <3>2. CASE k \in DOMAIN N
      BY <1>3, <1>5, <1>6, <1>14, <2>1, <3>1, <3>2 DEF IsOrigin, Spots
    <3>3. CASE k \notin DOMAIN N
      BY <1>5, <1>14, <2>1, <3>1, <3>3 DEF IsOrigin, Spots
    <3>4. QED
      BY <3>2, <3>3
  <2>4. PICK n \in DOMAIN s : s[n] = o
    <3>1. o \in Range(s)
      BY <1>1, <2>3
    <3>2. QED
      BY <3>1 DEF Range
  <2>5. n \in DOMAIN f.schema \ f.absent[i]
    BY <1>3, <2>2, <2>4
  <2>6. QED
    BY <2>1, <2>4, <2>5
<1> HIDE DEF part, key
<1>15. ASSUME NEW i \in DOMAIN items, NEW g, Tells(f, i, g)
       PROVE  Spreads(N, items[i][2], g)
  <2> DEFINE o == items[i][2]
             there == DOMAIN f.schema \ f.absent[i]
  <2>1. /\ DOMAIN g = {f.schema[n] : n \in there}
        /\ \A n \in there : g[f.schema[n]] = f.rows[i][n]
    BY <1>3, <1>15 DEF Tells
  <2>2. ASSUME NEW k \in DOMAIN o \ DOMAIN N
        PROVE  k \in DOMAIN g /\ g[k] = o[k]
    <3>1. PICK n \in there : part(n) = Whole /\ key(n) = k
      BY <1>14
    <3>2. f.schema[n] = k /\ f.rows[i][n] = o[k]
      BY <1>12, <3>1
    <3> HIDE DEF there, o
    <3>3. QED
      BY <2>1, <3>1, <3>2
  <2>3. ASSUME NEW p \in Spread(N, o)
        PROVE  p[1] \o p[2] \in DOMAIN g /\ g[p[1] \o p[2]] = o[p[1]][2][p[2]]
    <3>1. p[1] \in DOMAIN o /\ p[1] \in DOMAIN N /\ p[2] \in N[p[1]] /\ p[2] \in K
      BY DEF Spread
    <3>2. PICK n \in there : part(n) = p[2] /\ key(n) = p[1]
      BY <1>14, <3>1
    <3>3. p[2] # Whole
      BY <1>7, <3>1
    <3>4. f.schema[n] = p[1] \o p[2] /\ f.rows[i][n] = o[p[1]][2][p[2]]
      BY <1>12, <3>2, <3>3, ZenonT(60)
    <3> HIDE DEF there, o
    <3>5. QED
      BY <2>1, <3>2, <3>4
  <2>4. ASSUME NEW n \in there
        PROVE  \/ f.schema[n] \in DOMAIN o \ DOMAIN N
               \/ \E p \in Spread(N, o) : f.schema[n] = p[1] \o p[2]
    <3> DEFINE x == part(n)
               k == key(n)
    <3>1. /\ k \in DOMAIN o /\ f.schema[n] = k \o x
          /\ x = Whole => k \notin DOMAIN N /\ f.schema[n] = k
          /\ x # Whole => k \in DOMAIN N /\ x \in N[k] /\ x \in K
      BY <1>12
    <3> HIDE DEF x, k
    <3>2. CASE x = Whole
      BY <3>1, <3>2
    <3>3. CASE x # Whole
      <4>1. <<k, x>> \in Spread(N, o)
        BY <3>1, <3>3 DEF Spread
      <4>2. QED
        BY <3>1, <4>1
    <3>4. QED
      BY <3>2, <3>3
  <2>5. DOMAIN g = (DOMAIN o \ DOMAIN N) \cup {p[1] \o p[2] : p \in Spread(N, o)}
    <3> HIDE DEF there, o, N
    <3> DEFINE R == (DOMAIN o \ DOMAIN N) \cup {p[1] \o p[2] : p \in Spread(N, o)}
    <3>1. ASSUME NEW k \in DOMAIN g PROVE k \in R
      <4>1. PICK n \in there : k = f.schema[n]
        BY <2>1
      <4>2. QED
        BY <2>4, <4>1
    <3>2. ASSUME NEW k \in R PROVE k \in DOMAIN g
      <4>1. CASE k \in DOMAIN o \ DOMAIN N
        BY <2>2, <4>1
      <4>2. CASE \E p \in Spread(N, o) : k = p[1] \o p[2]
        BY <2>3, <4>2
      <4>3. QED
        BY <4>1, <4>2
    <3>3. QED
      BY <3>1, <3>2
  <2>6. QED
    BY <2>2, <2>3, <2>5 DEF Spreads
<1>16. QED
  BY <1>3, <1>10, <1>11, <1>13, <1>15

\* Columns that never change are in the rows as before when the constants are
\* added to each.
LEMMA FactorTells ==
    ASSUME NEW f, f = Table(f.schema, f.rows, f.absent, f.nested, f.consts),
           f.schema \in Seq(Seq(STRING)), Once(f.schema), DOMAIN f.consts = {},
           NEW B,
           \A i \in DOMAIN f.rows : \A n \in DOMAIN f.schema \ f.absent[i] : f.rows[i][n] \in B,
           NEW x, x = FactorConstants(f)
    PROVE  /\ x = Table(x.schema, x.rows, x.absent, x.nested, x.consts)
           /\ DOMAIN x.rows = DOMAIN f.rows /\ x.nested = f.nested
           /\ Once(x.schema)
           /\ \A c \in DOMAIN x.schema : x.schema[c] \notin DOMAIN x.consts
           /\ \A i \in DOMAIN x.rows : \A c \in DOMAIN x.schema \ x.absent[i] :
                 x.rows[i][c] \in B
           /\ \A i \in DOMAIN x.rows : \A g : Tells(x, i, g) => Tells(f, i, g)
<1> DEFINE D == DOMAIN f.schema
           consts == {c \in D : IsConstant(f, c)}
           left == D \ consts
           kept == Ascending(left)
           only(s) == [c \in DOMAIN kept |-> s[kept[c]]]
<1>1. CASE Len(f.rows) < 2
  <2>1. x = f
    BY <1>1 DEF FactorConstants
  <2>2. QED
    BY <2>1
<1>2. CASE ~(Len(f.rows) < 2)
  <2> DEFINE schema == only(f.schema)
             rows == [i \in DOMAIN f.rows |-> only(f.rows[i])]
             absent == [i \in DOMAIN f.rows |-> Remapped(kept, f.absent[i])]
             fixed == [k \in {f.schema[c] : c \in consts} |->
                          f.rows[1][CHOOSE c \in consts : f.schema[c] = k]]
  <2>1. x = Table(schema, rows, absent, f.nested, fixed)
    BY <1>2 DEF FactorConstants
  <2>2. /\ x.schema = schema /\ x.rows = rows /\ x.absent = absent
        /\ x.nested = f.nested /\ x.consts = fixed
    <3> HIDE DEF schema, rows, absent, fixed
    <3>1. QED
      BY <2>1 DEF Table
  <2>0. x = Table(x.schema, x.rows, x.absent, x.nested, x.consts)
    <3> HIDE DEF schema, rows, absent, fixed
    <3>1. QED
      BY <2>1, <2>2
  <2>3. Len(f.schema) \in Nat /\ D = 1..Len(f.schema)
    BY LenProperties
  <2>4. IsFiniteSet(D)
    BY <2>3, FS_Interval
  <2>5. left \in SUBSET Nat /\ IsFiniteSet(left)
    <3>1. left \in SUBSET D
      OBVIOUS
    <3>2. IsFiniteSet(left)
      BY <2>4, <3>1, FS_Subset
    <3>3. QED
      BY <2>3, <3>1, <3>2
  <2>6. Once(kept) /\ Range(kept) = left
    <3> HIDE DEF left
    <3>1. QED
      BY <2>5, AscendingIs DEF Once
  <2>7. \A c, d \in D : f.schema[c] = f.schema[d] => c = d
    BY DEF Once
  <2>8. \A c \in DOMAIN kept : kept[c] \in left /\ kept[c] \in D
    BY <2>6 DEF Range
  <2>9. \A c \in left : \E d \in DOMAIN kept : kept[d] = c
    BY <2>6 DEF Range
  <2>10. /\ DOMAIN x.schema = DOMAIN kept /\ DOMAIN x.rows = DOMAIN f.rows
         /\ \A c \in DOMAIN kept : x.schema[c] = f.schema[kept[c]]
         /\ DOMAIN x.consts = {f.schema[c] : c \in consts}
    <3> HIDE DEF kept, consts
    <3>1. QED
      BY <2>2
  <2>11. ASSUME NEW i \in DOMAIN f.rows
         PROVE  /\ x.absent[i] = {c \in DOMAIN kept : kept[c] \in f.absent[i]}
                /\ \A c \in DOMAIN kept : x.rows[i][c] = f.rows[i][kept[c]]
    <3> HIDE DEF kept
    <3>1. absent[i] = {c \in DOMAIN kept : kept[c] \in f.absent[i]}
      BY DEF Remapped
    <3>2. \A c \in DOMAIN kept : rows[i][c] = f.rows[i][kept[c]]
      OBVIOUS
    <3> HIDE DEF rows, absent
    <3>3. QED
      BY <2>2, <3>1, <3>2
  <2>12. ASSUME NEW c \in consts
         PROVE  x.consts[f.schema[c]] = f.rows[1][c]
    <3>1. c \in D
      OBVIOUS
    <3> HIDE DEF consts
    <3>2. fixed[f.schema[c]] = f.rows[1][CHOOSE d \in consts : f.schema[d] = f.schema[c]]
      OBVIOUS
    <3>3. \A d \in consts : f.schema[d] = f.schema[c] => d = c
      BY <2>7, <3>1 DEF consts
    <3>4. (CHOOSE d \in consts : f.schema[d] = f.schema[c]) = c
      BY <3>3
    <3> HIDE DEF fixed
    <3>5. QED
      BY <2>2, <3>2, <3>4
  <2>13. \A c \in consts : c \in D /\ \A i \in DOMAIN f.rows :
             c \notin f.absent[i] /\ f.rows[i][c] = f.rows[1][c]
    BY DEF IsConstant
  <2>14. Once(x.schema)
    <3> HIDE DEF kept, left, D
    <3>1. \A c, d \in DOMAIN kept : x.schema[c] = x.schema[d] => c = d
      BY <2>6, <2>7, <2>8, <2>10 DEF Once
    <3>2. QED
      BY <2>10, <3>1 DEF Once
  <2>15. ASSUME NEW c \in DOMAIN x.schema
         PROVE  x.schema[c] \notin DOMAIN x.consts
    <3>1. c \in DOMAIN kept /\ x.schema[c] = f.schema[kept[c]]
      BY <2>10
    <3>2. kept[c] \in D /\ kept[c] \notin consts
      BY <2>8, <3>1
    <3> HIDE DEF kept
    <3>3. \A d \in consts : f.schema[d] # f.schema[kept[c]]
      BY <2>7, <2>13, <3>2
    <3> HIDE DEF consts
    <3>4. QED
      BY <2>10, <3>1, <3>3
  <2>16. ASSUME NEW i \in DOMAIN x.rows, NEW c \in DOMAIN x.schema \ x.absent[i]
         PROVE  x.rows[i][c] \in B
    <3>1. i \in DOMAIN f.rows /\ c \in DOMAIN kept
      BY <2>10
    <3>2. kept[c] \in D \ f.absent[i] /\ x.rows[i][c] = f.rows[i][kept[c]]
      BY <2>8, <2>11, <3>1
    <3>3. QED
      BY <3>1, <3>2
  <2>17. ASSUME NEW i \in DOMAIN x.rows, NEW g, Tells(x, i, g)
         PROVE  Tells(f, i, g)
    <3> DEFINE there == DOMAIN x.schema \ x.absent[i]
    <3>1. i \in DOMAIN f.rows
      BY <2>10
    <3>2. /\ DOMAIN g = {x.schema[c] : c \in there} \cup DOMAIN x.consts
          /\ \A c \in there : g[x.schema[c]] = x.rows[i][c]
          /\ \A k \in DOMAIN x.consts : g[k] = x.consts[k]
      BY <2>17 DEF Tells
    <3>3. ASSUME NEW c \in D \ f.absent[i]
          PROVE  f.schema[c] \in DOMAIN g /\ g[f.schema[c]] = f.rows[i][c]
      <4>1. CASE c \in consts
        <5>1. f.schema[c] \in DOMAIN x.consts
          BY <2>10, <4>1
        <5>2. x.consts[f.schema[c]] = f.rows[i][c]
          BY <2>12, <2>13, <3>1, <4>1
        <5>3. QED
          BY <3>2, <5>1, <5>2
      <4>2. CASE c \in left
        <5>1. PICK d \in DOMAIN kept : kept[d] = c
          BY <2>9, <4>2
        <5>2. d \in there /\ x.schema[d] = f.schema[c] /\ x.rows[i][d] = f.rows[i][c]
          BY <2>10, <2>11, <3>1, <5>1
        <5>3. x.schema[d] \in DOMAIN g /\ g[x.schema[d]] = x.rows[i][d]
          <6> HIDE DEF there
          <6>1. QED
            BY <3>2, <5>2
        <5>4. QED
          BY <5>2, <5>3
      <4>3. QED
        BY <4>1, <4>2
    <3>4. ASSUME NEW k \in DOMAIN g
          PROVE  \E c \in D \ f.absent[i] : k = f.schema[c]
      <4>1. CASE k \in DOMAIN x.consts
        <5>1. PICK c \in consts : k = f.schema[c]
          BY <2>10, <4>1
        <5>2. c \in D \ f.absent[i]
          BY <2>13, <3>1, <5>1
        <5>3. QED
          BY <5>1, <5>2
      <4>2. CASE k \notin DOMAIN x.consts
        <5>1. PICK d \in there : k = x.schema[d]
          BY <3>2, <4>2
        <5>2. kept[d] \in D \ f.absent[i] /\ k = f.schema[kept[d]]
          BY <2>8, <2>10, <2>11, <3>1, <5>1
        <5>3. QED
          BY <5>2
      <4>3. QED
        BY <4>1, <4>2
    <3>5. DOMAIN g = {f.schema[c] : c \in D \ f.absent[i]} \cup DOMAIN f.consts
      <4> HIDE DEF consts, kept, there
      <4> DEFINE R == {f.schema[c] : c \in D \ f.absent[i]}
      <4>1. \A k \in DOMAIN g : k \in R
        BY <3>4
      <4>2. \A k \in R : k \in DOMAIN g
        BY <3>3
      <4>3. DOMAIN g = R
        <5> HIDE DEF R
        <5>1. QED
          BY <4>1, <4>2
      <4>4. QED
        BY <4>3
    <3>6. QED
      BY <3>3, <3>5 DEF Tells
  <2>18. QED
    BY <2>0, <2>2, <2>10, <2>14, <2>15, <2>16, <2>17, Zenon
<1>3. QED
  BY <1>1, <1>2

\* What the decoder puts together again of a row g, under the keys of N.
Gathers(N, g, p) == {k \in N[p] : p \o k \in DOMAIN g}
Parents(N, g) == {p \in DOMAIN N : Gathers(N, g, p) # {}}
Moved(N, g) == UNION {{p \o k : k \in Gathers(N, g, p)} : p \in Parents(N, g)}
Gathered(N, g) ==
    [k \in (DOMAIN g \ Moved(N, g)) \cup Parents(N, g) |->
        IF k \in Parents(N, g)
        THEN <<"object", [j \in Gathers(N, g, k) |-> g[k \o j]]>>
        ELSE g[k]]

\* It is the row of the array: what was spread is told from what was there by
\* its name alone.
LEMMA GatheredIs ==
    ASSUME NEW items, IsObjects(items), NEW N, Nests(N, items), NEW i \in DOMAIN items,
           NEW g, Spreads(N, items[i][2], g)
    PROVE  Gathered(N, g) = items[i][2]
<1> DEFINE o == items[i][2]
           S == Spread(N, o)
<1>1. ASSUME NEW p \in DOMAIN N
      PROVE  /\ p \in K /\ Len(p) = 1 /\ p \in Seq(STRING)
             /\ N[p] \subseteq K /\ N[p] # {}
             /\ \A k \in N[p] : k \in Seq(STRING) /\ p \o k \notin DOMAIN o
             /\ p \in DOMAIN o => o[p] = <<"object", o[p][2]>>
                                  /\ o[p][2] = [k \in N[p] |-> o[p][2][k]]
  <2>1. /\ p \in K /\ Len(p) = 1 /\ N[p] \subseteq K /\ N[p] # {}
        /\ \A k \in N[p] : p \o k \notin DOMAIN o
        /\ p \in DOMAIN o => o[p] = <<"object", o[p][2]>>
                             /\ o[p][2] = [k \in N[p] |-> o[p][2][k]]
    BY DEF Nests
  <2>2. \A k \in K : k \in Seq(STRING)
    BY KeysAre
  <2> HIDE DEF o
  <2>3. QED
    BY <2>1, <2>2
<1>2. /\ DOMAIN g = (DOMAIN o \ DOMAIN N) \cup {q[1] \o q[2] : q \in S}
      /\ \A k \in DOMAIN o \ DOMAIN N : g[k] = o[k]
      /\ \A q \in S : g[q[1] \o q[2]] = o[q[1]][2][q[2]]
  BY DEF Spreads
<1>3. o = [k \in DOMAIN o |-> o[k]]
  BY ObjectsAre
<1>4. ASSUME NEW q \in S
      PROVE  q[1] \in DOMAIN o /\ q[1] \in DOMAIN N /\ q[2] \in N[q[1]]
  BY DEF Spread
<1>5. ASSUME NEW p \in DOMAIN N, p \in DOMAIN o, NEW k \in N[p]
      PROVE  /\ p \o k \in DOMAIN g /\ g[p \o k] = o[p][2][k]
             /\ \E q \in S : p \o k = q[1] \o q[2]
  <2> HIDE DEF o
  <2>1. <<p, k>> \in Spread(N, o)
    BY <1>1, <1>5 DEF Spread
  <2>2. <<p, k>>[1] = p /\ <<p, k>>[2] = k
    OBVIOUS
  <2>3. QED
    BY <1>2, <2>1, <2>2
<1> HIDE DEF o, S
<1>6. ASSUME NEW p \in DOMAIN N
      PROVE  Gathers(N, g, p) = IF p \in DOMAIN o THEN N[p] ELSE {}
  <2>1. CASE p \in DOMAIN o
    BY <1>5, <2>1 DEF Gathers
  <2>2. CASE p \notin DOMAIN o
    <3>1. ASSUME NEW k \in N[p], p \o k \in DOMAIN g PROVE FALSE
      <4>1. p \o k \notin DOMAIN o
        BY <1>1
      <4>2. PICK q \in S : p \o k = q[1] \o q[2]
        <5> DEFINE x == p \o k
        <5>1. x \in DOMAIN g /\ x \notin DOMAIN o
          BY <3>1, <4>1
        <5> HIDE DEF x
        <5>2. \E q \in S : x = q[1] \o q[2]
          BY <1>2, <5>1
        <5>3. QED
          BY <5>2 DEF x
      <4>3. q[1] \in DOMAIN o /\ q[1] \in DOMAIN N /\ q[2] \in N[q[1]]
        BY <1>4
      <4>4. p = q[1]
        <5>1. /\ p \in Seq(STRING) /\ k \in Seq(STRING) /\ Len(p) = 1
              /\ q[1] \in Seq(STRING) /\ q[2] \in Seq(STRING) /\ Len(q[1]) = 1
          BY <1>1, <4>3
        <5>2. QED
          BY <4>2, <5>1, OnePart
      <4>5. QED
        BY <2>2, <4>3, <4>4
    <3>2. QED
      BY <2>2, <3>1 DEF Gathers
  <2>3. QED
    BY <2>1, <2>2
<1>7. Parents(N, g) = DOMAIN o \cap DOMAIN N
  BY <1>1, <1>6 DEF Parents
<1>8. ASSUME NEW k
      PROVE  k \in Moved(N, g) <=> \E q \in S : k = q[1] \o q[2]
  <2>1. ASSUME k \in Moved(N, g) PROVE \E q \in S : k = q[1] \o q[2]
    <3>1. PICK p \in Parents(N, g) : \E j \in Gathers(N, g, p) : k = p \o j
      BY <2>1 DEF Moved
    <3>2. PICK j \in N[p] : k = p \o j
      BY <3>1 DEF Gathers
    <3>3. QED
      BY <1>5, <1>7, <3>1, <3>2
  <2>2. ASSUME NEW q \in S, k = q[1] \o q[2] PROVE k \in Moved(N, g)
    <3>1. q[1] \in Parents(N, g) /\ q[2] \in Gathers(N, g, q[1])
      BY <1>4, <1>6, <1>7
    <3>2. k \in {q[1] \o j : j \in Gathers(N, g, q[1])}
      BY <2>2, <3>1
    <3>3. \E p \in Parents(N, g) : k \in {p \o j : j \in Gathers(N, g, p)}
      BY <3>1, <3>2
    <3>4. QED
      BY <3>3 DEF Moved
  <2>3. QED
    BY <2>1, <2>2
<1>9. DOMAIN g \ Moved(N, g) = DOMAIN o \ DOMAIN N
  <2>1. ASSUME NEW k \in DOMAIN g, k \notin Moved(N, g)
        PROVE  k \in DOMAIN o \ DOMAIN N
    BY <1>2, <1>8, <2>1
  <2>2. ASSUME NEW k \in DOMAIN o \ DOMAIN N
        PROVE  k \in DOMAIN g /\ k \notin Moved(N, g)
    <3>1. k \in DOMAIN g
      BY <1>2
    <3>2. \A q \in S : q[1] \o q[2] \notin DOMAIN o
      BY <1>1, <1>4
    <3>3. QED
      BY <1>8, <3>1, <3>2
  <2>3. QED
    BY <2>1, <2>2
<1>10. ASSUME NEW k \in Parents(N, g)
       PROVE  <<"object", [j \in Gathers(N, g, k) |-> g[k \o j]]>> = o[k]
  <2>1. k \in DOMAIN o /\ k \in DOMAIN N
    BY <1>7
  <2>2. Gathers(N, g, k) = N[k]
    BY <1>6, <2>1
  <2>3. \A j \in N[k] : g[k \o j] = o[k][2][j]
    BY <1>5, <2>1
  <2>4. [j \in N[k] |-> g[k \o j]] = [j \in N[k] |-> o[k][2][j]]
    BY <2>3
  <2>5. o[k] = <<"object", o[k][2]>> /\ o[k][2] = [j \in N[k] |-> o[k][2][j]]
    BY <1>1, <2>1
  <2> DEFINE v == o[k][2]
             u == [j \in N[k] |-> g[k \o j]]
  <2>6. u = v
    BY <2>4, <2>5
  <2>7. o[k] = <<"object", v>>
    BY <2>5
  <2>8. [j \in Gathers(N, g, k) |-> g[k \o j]] = u
    BY <2>2
  <2> HIDE DEF u, v
  <2>9. QED
    BY <2>6, <2>7, <2>8
<1>11. (DOMAIN g \ Moved(N, g)) \cup Parents(N, g) = DOMAIN o
  BY <1>7, <1>9
<1>12. \A k \in DOMAIN o \ Parents(N, g) : g[k] = o[k]
  BY <1>2, <1>7
<1>13. Gathered(N, g) = [k \in DOMAIN o |-> o[k]]
  <2> DEFINE P == Parents(N, g)
             obj(k) == <<"object", [j \in Gathers(N, g, k) |-> g[k \o j]]>>
  <2>1. Gathered(N, g) = [k \in DOMAIN o |-> IF k \in P THEN obj(k) ELSE g[k]]
    BY <1>11 DEF Gathered
  <2>2. \A k \in P : obj(k) = o[k]
    BY <1>10
  <2> HIDE DEF obj
  <2>3. \A k \in DOMAIN o : (IF k \in P THEN obj(k) ELSE g[k]) = o[k]
    <3> HIDE DEF P
    <3>1. \A k \in DOMAIN o \ P : g[k] = o[k]
      BY <1>12 DEF P
    <3>2. QED
      BY <2>2, <3>1
  <2> HIDE DEF P
  <2>4. QED
    BY <2>1, <2>3
<1>14. QED
  BY <1>3, <1>13 DEF o

\* json.Unmarshal gives back the characters a string was written with.
IsUnaltered(v) == v[1] = "quoted" => Decoded(v[2]) = v[2]

\* A cell that is there, of a table whose cells are such values.
IsSound(x) ==
    /\ x = Table(x.schema, x.rows, x.absent, x.nested, x.consts)
    /\ Once(x.schema)
    /\ \A c \in DOMAIN x.schema : x.schema[c] \notin DOMAIN x.consts
    /\ \A i \in DOMAIN x.rows : \A c \in DOMAIN x.schema \ x.absent[i] :
          IsValue(x.rows[i][c]) /\ IsUnaltered(x.rows[i][c])

\* A column of strings has nothing else in it, and no carriage return.
LEMMA StringsAre ==
    ASSUME NEW x, IsSound(x), NEW i \in DOMAIN x.rows,
           NEW c \in DOMAIN x.schema \ x.absent[i], ColumnType(x, c) = "string",
           NEW v, v = x.rows[i][c]
    PROVE  v[1] = "quoted" /\ ReadBack(Decoded(v[2])) = v[2]
<1> DEFINE P == Present(x, c)
           types == {ScalarType(w) : w \in P}
<1>1. /\ Cardinality(types) = 1
      /\ \A w \in P : w[1] = "quoted" => ~HasCR(Decoded(w[2]))
      /\ (CHOOSE t \in types : TRUE) = "string"
  <2> HIDE DEF P
  <2>1. QED
    BY DEF ColumnType, P
<1>2. v \in P /\ IsValue(v) /\ IsUnaltered(v)
  BY DEF Present, IsSound
<1>3. \A w \in P : IsValue(w)
  BY DEF Present, IsSound
<1> HIDE DEF P
<1>4. types \in SUBSET {"int", "float", "bool", "null", "string", "json"}
  BY <1>3, ColumnsAssumption DEF ScalarType, IsValue
<1>5. ScalarType(v) \in types
  BY <1>2
<1> HIDE DEF types
<1>6. IsFiniteSet(types)
  <2>1. IsFiniteSet({"int", "float", "bool", "null", "string", "json"})
    <3>1. \A S, e : IsFiniteSet(S) => IsFiniteSet(S \cup {e})
      BY FS_AddElement
    <3>2. IsFiniteSet({})
      BY FS_EmptySet
    <3> DEFINE A == (({} \cup {"int"}) \cup {"float"}) \cup {"bool"}
               C == ((A \cup {"null"}) \cup {"string"}) \cup {"json"}
    <3>3. C = {"int", "float", "bool", "null", "string", "json"}
      OBVIOUS
    <3>4. IsFiniteSet(A)
      BY <3>1, <3>2
    <3> HIDE DEF A
    <3>5. IsFiniteSet(C)
      BY <3>1, <3>4
    <3> HIDE DEF C
    <3>6. QED
      BY <3>3, <3>5
  <2>2. QED
    BY <1>4, <2>1, FS_Subset
<1>7. PICK t : types = {t}
  BY <1>1, <1>6, FS_Singleton
<1>8. t = "string"
  <2>1. (CHOOSE s \in types : TRUE) \in types
    BY <1>7
  <2>2. QED
    BY <1>1, <1>7, <2>1
<1>9. ScalarType(v) = "string"
  BY <1>5, <1>7, <1>8
<1>10. v[1] = "quoted"
  BY <1>2, <1>9, ColumnsAssumption DEF ScalarType, IsValue
<1>11. QED
  BY <1>1, <1>2, <1>10 DEF IsValue, IsUnaltered

\* The decoder's fields, in either rendering.
Read(enc, i, c) ==
    IF enc.types[c] = "string"
    THEN <<"quoted", enc.table.rows[i][c][2]>> ELSE enc.table.rows[i][c]

\* It reads each cell as it was.
LEMMA CellsComeBack ==
    ASSUME NEW x, IsSound(x), NEW enc \in {RenderJSON(x), RenderCSV(x)},
           NEW i \in DOMAIN x.rows, NEW c \in DOMAIN x.schema \ x.absent[i]
    PROVE  Read(enc, i, c) = x.rows[i][c]
<1> DEFINE v == x.rows[i][c]
<1>1. v = <<v[1], v[2]>> /\ IsValue(v) /\ IsUnaltered(v)
  BY DEF IsSound, IsValue
<1>2. CASE enc = RenderJSON(x)
  <2>1. enc.types[c] = "json" /\ enc.table = x
    BY <1>2 DEF RenderJSON
  <2>2. QED
    BY <2>1 DEF Read
<1>3. CASE enc = RenderCSV(x)
  <2> DEFINE type == ColumnType(x, c)
             field == Field(x, i, c)
             rows == [r \in DOMAIN x.rows |->
                         [d \in DOMAIN x.schema |->
                             LET f == Field(x, r, d)
                             IN  IF f[1] = "plain" THEN <<"plain", ReadBack(f[2])>> ELSE f]]
  <2>1. enc = [table |-> [x EXCEPT !.rows = rows],
               types |-> [d \in DOMAIN x.schema |-> ColumnType(x, d)]]
    BY <1>3 DEF RenderCSV
  <2>2. rows[i][c] = IF field[1] = "plain" THEN <<"plain", ReadBack(field[2])>> ELSE field
    <3> HIDE DEF field
    <3>1. QED
      BY DEF field
  <2>3. enc.types[c] = type /\ enc.table.rows = rows
    <3>1. x = [schema |-> x.schema, rows |-> x.rows, absent |-> x.absent,
               nested |-> x.nested, consts |-> x.consts]
      BY DEF IsSound, Table
    <3> HIDE DEF rows
    <3>2. [x EXCEPT !.rows = rows].rows = rows
      BY <3>1
    <3>3. enc.table = [x EXCEPT !.rows = rows]
      BY <2>1
    <3>4. enc.types = [d \in DOMAIN x.schema |-> ColumnType(x, d)]
      BY <2>1
    <3>5. QED
      BY <3>2, <3>3, <3>4
  <2>4. CASE type = "string"
    <3>1. v[1] = "quoted" /\ ReadBack(Decoded(v[2])) = v[2]
      BY <2>4, StringsAre
    <3>2. field = <<"plain", Decoded(v[2])>>
      BY <2>4 DEF Field
    <3> HIDE DEF rows, v, field
    <3>3. rows[i][c] = <<"plain", ReadBack(Decoded(v[2]))>>
      BY <2>2, <3>2
    <3>4. Read(enc, i, c) = <<"quoted", v[2]>>
      BY <2>3, <2>4, <3>1, <3>3 DEF Read
    <3>5. QED
      BY <1>1, <3>1, <3>4 DEF v
  <2>5. CASE type # "string"
    <3>1. field = v
      BY <2>5 DEF Field
    <3>2. v[1] = "plain" => <<"plain", ReadBack(v[2])>> = v
      <4>1. v[1] = "plain" => ReadBack(v[2]) = v[2]
        BY <1>1, ColumnsAssumption DEF IsValue
      <4> HIDE DEF v
      <4>2. QED
        BY <1>1, <4>1 DEF v
    <3> HIDE DEF rows, v, field
    <3>3. rows[i][c] = v
      BY <2>2, <3>1, <3>2
    <3>4. QED
      BY <2>3, <2>5, <3>3 DEF Read, v
  <2>6. QED
    BY <2>4, <2>5
<1>4. QED
  BY <1>2, <1>3

\* What the decoder makes of a row is what the table tells of it.
LEMMA RowsComeBack ==
    ASSUME NEW x, IsSound(x), NEW enc \in {RenderJSON(x), RenderCSV(x)},
           NEW items, IsObjects(items), DOMAIN x.rows = DOMAIN items,
           Nests(x.nested, items),
           \A i \in DOMAIN items : \A g :
               Tells(x, i, g) => Spreads(x.nested, items[i][2], g)
    PROVE  Reconstruct(enc) = items
<1> DEFINE m == enc.table
           there(i) == {c \in DOMAIN m.schema : c \notin m.absent[i]}
           flat(i) == [k \in {m.schema[c] : c \in there(i)} \cup DOMAIN m.consts |->
                          IF k \in DOMAIN m.consts THEN m.consts[k]
                          ELSE Read(enc, i, CHOOSE c \in there(i) : m.schema[c] = k)]
<1>1. /\ m.schema = x.schema /\ m.absent = x.absent /\ m.nested = x.nested
      /\ m.consts = x.consts /\ DOMAIN m.rows = DOMAIN x.rows
  <2>1. CASE enc = RenderJSON(x)
    BY <2>1 DEF RenderJSON
  <2>2. CASE enc = RenderCSV(x)
    <3> DEFINE rows == [i \in DOMAIN x.rows |->
                           [c \in DOMAIN x.schema |->
                               LET f == Field(x, i, c)
                               IN  IF f[1] = "plain" THEN <<"plain", ReadBack(f[2])>> ELSE f]]
    <3>1. m = [x EXCEPT !.rows = rows]
      BY <2>2 DEF RenderCSV
    <3>2. DOMAIN rows = DOMAIN x.rows
      OBVIOUS
    <3>3. x = [schema |-> x.schema, rows |-> x.rows, absent |-> x.absent,
               nested |-> x.nested, consts |-> x.consts]
      BY DEF IsSound, Table
    <3> HIDE DEF rows, m
    <3>4. QED
      BY <3>1, <3>2, <3>3
  <2>3. QED
    BY <2>1, <2>2
<1>2. ASSUME NEW i \in DOMAIN x.rows
      PROVE  Tells(x, i, flat(i))
  <2> DEFINE S == DOMAIN x.schema \ x.absent[i]
             g == flat(i)
  <2>1. there(i) = S
    BY <1>1
  <2>2. g = [k \in {x.schema[c] : c \in S} \cup DOMAIN x.consts |->
                IF k \in DOMAIN x.consts THEN x.consts[k]
                ELSE Read(enc, i, CHOOSE c \in S : x.schema[c] = k)]
    <3> DEFINE row(T, names, consts) ==
                   [k \in {names[c] : c \in T} \cup DOMAIN consts |->
                       IF k \in DOMAIN consts THEN consts[k]
                       ELSE Read(enc, i, CHOOSE c \in T : names[c] = k)]
    <3>1. g = row(there(i), m.schema, m.consts)
      OBVIOUS
    <3> HIDE DEF row, g, there, m, S
    <3>2. g = row(S, x.schema, x.consts)
      BY <1>1, <2>1, <3>1
    <3>3. QED
      BY <3>2 DEF row
  <2> HIDE DEF g, m, there, flat
  <2>3. DOMAIN g = {x.schema[c] : c \in S} \cup DOMAIN x.consts
        /\ \A k \in DOMAIN x.consts : g[k] = x.consts[k]
    <3> HIDE DEF S
    <3>1. QED
      BY <2>2
  <2>4. ASSUME NEW c \in S PROVE g[x.schema[c]] = x.rows[i][c]
    <3>1. x.schema[c] \notin DOMAIN x.consts
          /\ \A d \in S : x.schema[d] = x.schema[c] => d = c
      BY DEF IsSound, Once
    <3>2. (CHOOSE d \in S : x.schema[d] = x.schema[c]) = c
      <4> HIDE DEF S
      <4>1. QED
        BY <3>1
    <3>3. g[x.schema[c]] = Read(enc, i, CHOOSE d \in S : x.schema[d] = x.schema[c])
      <4> HIDE DEF S
      <4>1. QED
        BY <2>2, <3>1
    <3>4. Read(enc, i, c) = x.rows[i][c]
      BY CellsComeBack
    <3>5. QED
      BY <3>2, <3>3, <3>4
  <2>5. QED
    <3>1. Tells(x, i, g)
      BY <2>3, <2>4 DEF Tells
    <3>2. QED
      BY <3>1 DEF g
<1>3. Reconstruct(enc) = [i \in DOMAIN m.rows |-> <<"object", Gathered(m.nested, flat(i))>>]
  BY DEF Reconstruct, Gathered, Gathers, Parents, Moved, Read
<1> HIDE DEF flat, there, m
<1>4. ASSUME NEW i \in DOMAIN items
      PROVE  <<"object", Gathered(m.nested, flat(i))>> = items[i]
  <2>1. Spreads(x.nested, items[i][2], flat(i))
    BY <1>2
  <2>2. Gathered(x.nested, flat(i)) = items[i][2]
    BY <2>1, GatheredIs
  <2>3. items[i] = <<"object", items[i][2]>>
    BY ObjectsAre
  <2>4. QED
    BY <1>1, <2>2, <2>3
<1>5. DOMAIN m.rows = DOMAIN items
  BY <1>1
<1>6. items = [i \in DOMAIN items |-> items[i]]
  <2>1. items \in Seq(Range(items))
    BY ObjectsAre
  <2>2. QED
    BY <2>1, LenProperties
<1>7. QED
  BY <1>3, <1>4, <1>5, <1>6

\* Whatever the rendering, the array comes back.
LEMMA ArraysComeBack ==
    ASSUME NEW items, IsObjects(items), \A v \in Cells(items) : IsUnaltered(v),
           NEW x, x = Columns(items), NEW enc \in {RenderJSON(x), RenderCSV(x)}
    PROVE  Reconstruct(enc) = items
<1> DEFINE m == Build(items)
           f == Flatten(m)
<1>1. x = FactorConstants(f)
  BY DEF Columns
<1>2. Fits(m, items)
  BY BuildFits
<1> HIDE DEF m
<1>3. /\ f = Table(f.schema, f.rows, f.absent, f.nested, f.consts)
      /\ f.schema \in Seq(Seq(STRING)) /\ Once(f.schema)
      /\ DOMAIN f.rows = DOMAIN items /\ DOMAIN f.consts = {}
      /\ Nests(f.nested, items)
      /\ \A i \in DOMAIN items : \A n \in DOMAIN f.schema \ f.absent[i] :
            f.rows[i][n] \in Cells(items)
      /\ \A i \in DOMAIN items : \A g :
            Tells(f, i, g) => Spreads(f.nested, items[i][2], g)
  BY <1>2, FlattenSpreads
<1> HIDE DEF f
<1>4. /\ x = Table(x.schema, x.rows, x.absent, x.nested, x.consts)
      /\ DOMAIN x.rows = DOMAIN f.rows /\ x.nested = f.nested
      /\ Once(x.schema)
      /\ \A c \in DOMAIN x.schema : x.schema[c] \notin DOMAIN x.consts
      /\ \A i \in DOMAIN x.rows : \A c \in DOMAIN x.schema \ x.absent[i] :
            x.rows[i][c] \in Cells(items)
      /\ \A i \in DOMAIN x.rows : \A g : Tells(x, i, g) => Tells(f, i, g)
  <2>1. \A i \in DOMAIN f.rows : \A n \in DOMAIN f.schema \ f.absent[i] :
            f.rows[i][n] \in Cells(items)
    BY <1>3
  <2>2. QED
    BY <1>1, <1>3, <2>1, FactorTells
<1>5. \A v \in Cells(items) : IsValue(v) /\ IsUnaltered(v)
  BY ObjectsAre
<1>6. IsSound(x)
  BY <1>4, <1>5 DEF IsSound
<1>7. \A i \in DOMAIN items : \A g :
          Tells(x, i, g) => Spreads(x.nested, items[i][2], g)
  BY <1>3, <1>4
<1>8. Nests(x.nested, items) /\ DOMAIN x.rows = DOMAIN items
  BY <1>3, <1>4
<1>9. QED
  BY <1>6, <1>7, <1>8, RowsComeBack

(***************************************************************************)
(* The tables of the pipeline.                                             *)
(***************************************************************************)

Tabulated == done # <<>> /\ Last(done) = "json_crusher"

\* JSONCrusher runs on a text without escapes, and makes a table of an array
\* that has one.
TablesOK ==
    /\ at \in {"idle", "gate"} => done = <<>>
    /\ at = "chain" /\ Len(done) = 1 => cur = ANSIStrip(in.text)
    /\ Tabulated => \A i \in DOMAIN cur : cur[i].t = "envelope" => IsTabular(in.table)

\* JSONCrusher is the second layer, and there is one first layer.
LEMMA SecondLayer ==
    ASSUME done \in Seq(Layers), Len(done) < Len(Chain(detected)),
           NEW next, next = Append(done, Layer)
    PROVE  /\ next # <<>> /\ Last(next) = Layer
           /\ Len(next) = 1 => done = <<>> /\ Layer = "ansi_strip"
           /\ Layer = "json_crusher" => Len(done) = 1
<1>1. Layer \in Layers /\ (done = <<>> => Layer = "ansi_strip")
  BY LayerStep
<1>2. Len(done) \in Nat /\ (Len(done) = 0 <=> done = <<>>)
  BY LenProperties, EmptySeq
<1>3. /\ next # <<>> /\ Len(next) = Len(done) + 1 /\ next[Len(done) + 1] = Layer
  <2> DEFINE layer == Layer
  <2>1. layer \in Layers /\ next = Append(done, layer)
    BY <1>1
  <2> HIDE DEF layer
  <2>2. /\ next # <<>> /\ Len(next) = Len(done) + 1 /\ next[Len(done) + 1] = layer
    BY <2>1, AppendProperties
  <2>3. QED
    BY <2>2 DEF layer
<1>4. Layer = "json_crusher" => Len(done) = 1
  <2> DEFINE c == Chain(detected)
             n == Len(done)
  <2>1. c \in {<<>>, <<"ansi_strip", "log_compressor">>,
               <<"ansi_strip", "json_crusher">>, <<"ansi_strip">>,
               <<"ansi_strip", "llmlingua">>,
               <<"ansi_strip", "linenum_strip", "md_structured">>}
    BY ChainIs
  <2>2. Layer = c[n + 1] /\ n < Len(c) /\ n \in Nat
    BY <1>2 DEF Layer
  <2> HIDE DEF c, n
  <2>3. c[n + 1] = "json_crusher" => n = 1
    <3>1. CASE c = <<>>
      BY <2>2, <3>1
    <3>2. CASE c = <<"ansi_strip">>
      BY <2>2, <3>2
    <3>3. CASE c = <<"ansi_strip", "linenum_strip", "md_structured">>
      BY <2>2, <3>3
    <3>4. CASE \E layer \in {"log_compressor", "json_crusher", "llmlingua"} :
                  c = <<"ansi_strip", layer>>
      BY <2>2, <3>4
    <3>5. QED
      BY <2>1, <3>1, <3>2, <3>3, <3>4
  <2>4. QED
    BY <2>2, <2>3 DEF n
<1>5. QED
  BY <1>1, <1>2, <1>3, <1>4 DEF Last

\* A text as a tool writes it, and what is left of it, hold no table.
LEMMA NoTableYet ==
    ASSUME NEW text, IsGiven(text), NEW items, NEW out,
           out \in Renderings(text, items) \cup {text}
    PROVE  \A i \in DOMAIN out : out[i].t = "envelope" => IsTabular(items)
<1>1. text \in Seq(Raw)
  BY DEF IsGiven
<1>2. \A x \in Raw : x.t # "envelope"
  BY DEF Raw, Item, Newline, Indent, Escape, Number, Sentinel
<1>3. ASSUME NEW s \in Seq(Raw), NEW i \in DOMAIN s PROVE s[i].t # "envelope"
  BY <1>2, ElementOfSeq, LenProperties
<1>4. CASE out = text
  BY <1>1, <1>3, <1>4
<1>5. CASE out = Only(text, {x \in Range(text) : ~IsSpace(x)})
  <2>1. out \in Seq(Raw)
    BY <1>1, <1>5, OnlyIs
  <2>2. QED
    BY <1>3, <2>1
<1>6. CASE IsTabular(items)
  BY <1>6
<1>7. QED
  BY <1>4, <1>5, <1>6 DEF Renderings

\* What TablesOK says is kept.
LEMMA TablesStep == IInv /\ LayersOK /\ TablesOK /\ [Next]_vars => TablesOK'
<1> SUFFICES ASSUME IInv, LayersOK, TablesOK, [Next]_vars PROVE TablesOK'
  OBVIOUS
<1>1. call \in Calls /\ done \in Seq(Layers)
  BY DEF LayersOK
<1>2. ASSUME UNCHANGED <<in, cur, done>>, at' \notin {"idle", "gate", "chain"}
      PROVE  TablesOK'
  BY <1>2 DEF TablesOK, Tabulated
<1>3. CASE Receive
  <2>1. at = "idle" /\ at' = "gate" /\ UNCHANGED done
    BY <1>3 DEF Receive
  <2>2. done = <<>>
    BY <2>1 DEF LayersOK
  <2>3. QED
    BY <2>1, <2>2 DEF TablesOK, Tabulated
<1>4. CASE Compress
  <2>1. ASSUME NEW reason, Skip(reason) PROVE TablesOK'
    BY <1>2, <2>1 DEF Skip
  <2>2. ASSUME NEW out, Produced(out), Len(done) < Len(Chain(detected)),
               Layer = "ansi_strip" => at = "chain" /\ out = ANSIStrip(cur),
               Layer = "json_crusher" =>
                   at = "chain" /\ out \in Renderings(cur, in.table) \cup {cur}
        PROVE  TablesOK'
    <3>1. /\ cur' = out /\ done' = Append(done, Layer) /\ at' = "chain"
          /\ UNCHANGED in
      BY <2>2 DEF Produced
    <3>2. /\ done' # <<>> /\ Last(done') = Layer
          /\ Len(done') = 1 => done = <<>> /\ Layer = "ansi_strip"
          /\ Layer = "json_crusher" => Len(done) = 1
      BY <1>1, <2>2, <3>1, SecondLayer
    <3>3. Len(done') = 1 => cur' = ANSIStrip(in'.text)
      BY <2>2, <3>1, <3>2 DEF LayersOK, Passed
    <3>4. ASSUME Layer = "json_crusher"
          PROVE  \A i \in DOMAIN out : out[i].t = "envelope" => IsTabular(in.table)
      <4>1. at = "chain" /\ cur = ANSIStrip(in.text)
        BY <2>2, <3>2, <3>4 DEF TablesOK
      <4>2. in.text = HookText(call)
        BY <4>1 DEF IInv, InputOK, Stages
      <4>3. IsGiven(in.text)
        BY <1>1, <4>2, HookAssumption
      <4>4. IsGiven(cur)
        BY <4>1, <4>3, ANSIStripKeepsGiven
      <4>5. QED
        BY <2>2, <3>4, <4>4, NoTableYet
    <3>5. QED
      BY <3>1, <3>2, <3>3, <3>4 DEF TablesOK, Tabulated
  <2>3. CASE Gate
    <3>1. \/ \E reason : Skip(reason)
          \/ at = "gate" /\ at' = "chain" /\ UNCHANGED <<in, cur, done>>
      BY <2>3 DEF Gate
    <3>2. CASE at = "gate" /\ at' = "chain" /\ UNCHANGED <<in, cur, done>>
      <4>1. done' = <<>> /\ Len(done') # 1
        BY <3>2, EmptySeq DEF TablesOK
      <4>2. QED
        BY <3>2, <4>1 DEF TablesOK, Tabulated
    <3>3. QED
      BY <2>1, <3>1, <3>2
  <2>4. CASE Transform
    <3> DEFINE out == CASE Layer = "ansi_strip" -> ANSIStrip(cur)
                        [] Layer = "log_compressor" -> LogCompress(cur)
                        [] Layer = "linenum_strip" -> StripLineNumbers(cur)
    <3>1. /\ Produced(out) /\ at = "chain" /\ Len(done) < Len(Chain(detected))
          /\ Layer # "json_crusher"
      BY <2>4 DEF Transform, AtLayer
    <3>2. Layer = "ansi_strip" => out = ANSIStrip(cur)
      OBVIOUS
    <3> HIDE DEF out
    <3>3. QED
      BY <2>2, <3>1, <3>2
  <2>5. CASE CrushJSON
    <3>1. Len(done) < Len(Chain(detected)) /\ Layer = "json_crusher" /\ at = "chain"
      BY <2>5 DEF CrushJSON, AtLayer
    <3>2. PICK out \in Renderings(cur, in.table) \cup {cur} : Produced(out)
      BY <2>5 DEF CrushJSON
    <3>3. QED
      BY <2>2, <3>1, <3>2
  <2>6. CASE Collide
    BY <2>1, <2>6 DEF Collide
  <2>7. CASE AskModel
    BY <1>2, <2>7 DEF AskModel
  <2>8. CASE ModelAnswers
    <3>1. (\E out : Produced(out)) \/ (\E reason : Skip(reason))
      BY <2>8 DEF ModelAnswers
    <3>2. Len(done) < Len(Chain(detected)) /\ Layer \in {"llmlingua", "md_structured"}
      BY <2>8 DEF ModelAnswers, LayersOK
    <3>3. QED
      BY <2>1, <2>2, <3>1, <3>2
  <2>9. CASE ModelFails
    BY <2>1, <2>9 DEF ModelFails
  <2>10. CASE Panic
    BY <2>1, <2>10 DEF Panic
  <2>11. CASE Guard
    <3>1. (\E reason : Skip(reason)) \/ (at' = "out" /\ UNCHANGED <<in, cur, done>>)
      BY <2>11 DEF Guard
    <3>2. QED
      BY <1>2, <2>1, <3>1
  <2>12. QED
    BY <1>4, <2>3, <2>4, <2>5, <2>6, <2>7, <2>8, <2>9, <2>10, <2>11
    DEF Compress, PipelineNext
<1>5. CASE Finalize
  BY <1>2, <1>5 DEF Finalize
<1>6. CASE Fetch
  BY <1>2, <1>6 DEF Fetch
<1>7. CASE Record
  BY <1>2, <1>7 DEF Record
<1>8. CASE Reply
  BY <1>2, <1>8 DEF Reply
<1>9. CASE UNCHANGED vars
  BY <1>9 DEF vars, pipelineVars, hookVars, TablesOK, Tabulated
<1>10. ASSUME Leave PROVE TablesOK'
  BY <1>2, <1>10 DEF Leave
<1>11. QED
  BY <1>3, <1>4, <1>5, <1>6, <1>7, <1>8, <1>9, <1>10
  DEF Next, Decline, Skipped, Die

\* The strings of the tables have no lone surrogates, which json.Unmarshal
\* replaces.
StringsUnaltered == \A c \in Calls : \A v \in Cells(c.table) : IsUnaltered(v)

\* No row, key or value of an array of objects is lost or changed by the table
\* JSONCrusher makes of it, in either rendering and for any keys, any limit of
\* flattening and any strings a CSV reader may change: the decoder rebuilds the
\* array, but for lone surrogates in its strings (jsoncrusher.go:113-131).
THEOREM TablesReadBack ==
    ASSUME StringsUnaltered
    PROVE  Spec => []TableComesBack
<1>1. Init => LayersOK /\ TablesOK
  <2>1. ASSUME Init PROVE TablesOK
    <3>1. at = "idle" /\ done = <<>>
      BY <2>1 DEF Init
    <3>2. QED
      BY <3>1 DEF TablesOK, Tabulated
  <2>2. QED
    BY <2>1, InitLayers
<1>2. IInv /\ LayersOK /\ TablesOK => TableComesBack
  <2>1. SUFFICES ASSUME IInv, LayersOK, TablesOK, Tabulated,
                        NEW i \in DOMAIN cur, cur[i].t = "envelope",
                        NEW items, items = in.table, NEW m, m = Columns(items)
                 PROVE  Reconstruct(IF cur[i].n = 1 THEN RenderJSON(m) ELSE RenderCSV(m))
                            = items
    BY DEF TableComesBack, Tabulated
  <2>2. call \in Calls /\ items = call.table
    BY <2>1 DEF LayersOK, IInv, InputOK
  <2>3. IsArray(items) /\ IsTabular(items)
    BY <2>1, <2>2, HookAssumption DEF TablesOK
  <2>4. IsObjects(items)
    BY <2>3 DEF IsObjects
  <2>5. \A v \in Cells(items) : IsUnaltered(v)
    BY <2>2 DEF StringsUnaltered
  <2>6. \A enc \in {RenderJSON(m), RenderCSV(m)} : Reconstruct(enc) = items
    BY <2>1, <2>4, <2>5, ArraysComeBack
  <2>7. QED
    BY <2>6
<1>3. IInv /\ LayersOK /\ TablesOK /\ [Next]_vars => (LayersOK /\ TablesOK)'
  BY LayersStep, TablesStep
<1>4. QED
  BY <1>1, <1>2, <1>3, InvariantHolds, PTL DEF Spec

----------------------------------------------------------------------------
\* Where the items of joined lines come from: an item of line g[p], or the
\* newline before it.
JoinedFrom(s, lines, g, o) ==
    /\ g \in [DOMAIN s -> DOMAIN lines] /\ o \in [DOMAIN s -> Nat]
    /\ \A p \in DOMAIN s :
          \/ o[p] = 0 /\ s[p] = Newline
          \/ o[p] \in DOMAIN lines[g[p]] /\ s[p] = lines[g[p]][o[p]]
    /\ \A p, q \in DOMAIN s : p < q => g[p] < g[q] \/ (g[p] = g[q] /\ o[p] < o[q])
    /\ \A i \in DOMAIN lines : \A r \in DOMAIN lines[i] :
          \E p \in DOMAIN s : g[p] = i /\ o[p] = r

\* Every item of joined lines comes from a line or was put before one.
LEMMA JoinPlaces ==
    ASSUME NEW S, Newline \in S, NEW lines \in Seq(Seq(S)), NEW s, s = Join(lines)
    PROVE  s \in Seq(S) /\ \E g, o : JoinedFrom(s, lines, g, o)
<1> DEFINE n == Len(lines)
           sep(i) == IF i = 1 THEN <<>> ELSE <<Newline>>
           d(i) == IF i = 1 THEN 0 ELSE 1
           pieces == [i \in 1..n |-> sep(i) \o lines[i]]
<1>1. n \in Nat /\ DOMAIN lines = 1..n /\ \A i \in 1..n : lines[i] \in Seq(S)
  BY NumbersAre
<1>2. PICK acc \in [0..n -> Seq(S)] :
             /\ acc[0] = <<>>
             /\ \A i \in 1..n : acc[i] = JoinStep(lines, acc[i - 1], i)
             /\ s = acc[n]
  BY JoinLoop
<1> HIDE DEF n
<1>3. ASSUME NEW i \in 1..n
      PROVE  /\ sep(i) \in Seq(S) /\ pieces[i] \in Seq(S) /\ d(i) \in {0, 1}
             /\ Len(lines[i]) \in Nat /\ DOMAIN lines[i] = 1..Len(lines[i])
             /\ DOMAIN pieces[i] = 1..(d(i) + Len(lines[i]))
             /\ \A r \in 1..Len(lines[i]) : pieces[i][d(i) + r] = lines[i][r]
             /\ i # 1 => pieces[i][1] = Newline
  <2>1. pieces[i] = sep(i) \o lines[i]
    OBVIOUS
  <2> DEFINE b == sep(i)
             c == lines[i]
             e == d(i)
             nl == Newline
  <2>2. c \in Seq(S) /\ nl \in S
    BY <1>1
  <2>3. b = (IF i = 1 THEN <<>> ELSE <<nl>>) /\ e = (IF i = 1 THEN 0 ELSE 1)
    OBVIOUS
  <2> HIDE DEF b, c, e, nl, pieces
  <2>4. /\ b \in Seq(S) /\ b \o c \in Seq(S) /\ e \in {0, 1}
        /\ Len(c) \in Nat /\ DOMAIN c = 1..Len(c)
        /\ DOMAIN (b \o c) = 1..(e + Len(c))
        /\ \A r \in 1..Len(c) : (b \o c)[e + r] = c[r]
        /\ i # 1 => (b \o c)[1] = nl
    BY <2>2, <2>3, Separated
  <2>5. pieces[i] = b \o c
    BY <2>1 DEF b, c
  <2>6. QED
    BY <2>4, <2>5 DEF b, c, e, nl
<1>4. ASSUME NEW i \in 1..n PROVE acc[i] = acc[i - 1] \o pieces[i]
  <2>0. i - 1 \in 0..n
    BY <1>1
  <2>1. acc[i - 1] \in Seq(S) /\ acc[i] = acc[i - 1] \o sep(i) \o lines[i]
    <3>1. acc[i] = JoinStep(lines, acc[i - 1], i)
      BY <1>2
    <3>2. acc[i] = acc[i - 1] \o sep(i) \o lines[i]
      BY <3>1 DEF JoinStep
    <3>3. QED
      BY <2>0, <3>2
  <2>2. pieces[i] = sep(i) \o lines[i]
    OBVIOUS
  <2>3. sep(i) \in Seq(S) /\ lines[i] \in Seq(S)
    BY <1>1, <1>3
  <2> DEFINE u == acc[i - 1]
             v == sep(i)
             w == lines[i]
  <2>4. u \in Seq(S) /\ v \in Seq(S) /\ w \in Seq(S)
    BY <2>1, <2>3
  <2>5. acc[i] = u \o v \o w /\ pieces[i] = v \o w
    BY <2>1, <2>2
  <2> HIDE DEF u, v, w, pieces, sep
  <2>6. u \o (v \o w) = (u \o v) \o w
    BY <2>4, ConcatLaws
  <2>7. acc[i] = u \o pieces[i]
    BY <2>5, <2>6
  <2>8. QED
    BY <2>7 DEF u
<1> HIDE DEF pieces
<1>5. /\ \A i \in 0..n : acc[i] \in Seq(S)
      /\ \E g, o : Places(acc[n], pieces, n, g, o)
  BY <1>1, <1>2, <1>3, <1>4, ConcatPlaces
<1>6. PICK g, o : Places(s, pieces, n, g, o)
  BY <1>2, <1>5
<1>7. s \in Seq(S)
  BY <1>1, <1>2
<1> DEFINE O == [p \in DOMAIN s |-> o[p] - d(g[p])]
<1>8. /\ g \in [DOMAIN s -> 1..n] /\ o \in [DOMAIN s -> Nat]
      /\ \A p \in DOMAIN s : o[p] \in DOMAIN pieces[g[p]] /\ s[p] = pieces[g[p]][o[p]]
      /\ \A p, q \in DOMAIN s : p < q => g[p] < g[q] \/ (g[p] = g[q] /\ o[p] < o[q])
      /\ \A i \in 1..n : \A r \in DOMAIN pieces[i] : \E p \in DOMAIN s : g[p] = i /\ o[p] = r
  BY <1>6 DEF Places
<1>9. ASSUME NEW p \in DOMAIN s
      PROVE  /\ O[p] \in Nat
             /\ \/ O[p] = 0 /\ s[p] = Newline
                \/ O[p] \in DOMAIN lines[g[p]] /\ s[p] = lines[g[p]][O[p]]
  <2> DEFINE i == g[p]
             e == d(i)
             m == Len(lines[i])
             x == o[p]
  <2>1. i \in 1..n /\ x \in Nat
    BY <1>8
  <2>2. x \in 1..(e + m) /\ s[p] = pieces[i][x] /\ m \in Nat /\ DOMAIN lines[i] = 1..m
    <3>1. x \in DOMAIN pieces[i] /\ s[p] = pieces[i][x]
      BY <1>8
    <3>2. DOMAIN pieces[i] = 1..(e + m) /\ m \in Nat /\ DOMAIN lines[i] = 1..m
      BY <1>3, <2>1
    <3>3. QED
      BY <3>1, <3>2
  <2>3. O[p] = x - e /\ e \in {0, 1} /\ (i = 1 => e = 0)
    OBVIOUS
  <2>4. (\A r \in 1..m : pieces[i][e + r] = lines[i][r]) /\ (i # 1 => pieces[i][1] = Newline)
    BY <1>3, <2>1
  <2> HIDE DEF i, e, m, x, O, d
  <2>5. CASE x > e
    <3>1. x - e \in 1..m /\ e + (x - e) = x
      BY <2>2, <2>3, <2>5
    <3>2. s[p] = lines[i][x - e]
      BY <2>2, <2>4, <3>1
    <3>3. O[p] \in Nat /\ O[p] \in DOMAIN lines[i] /\ s[p] = lines[i][O[p]]
      BY <2>2, <2>3, <3>1, <3>2
    <3>4. QED
      BY <3>3 DEF i
  <2>6. CASE ~(x > e)
    <3>1. x = 1 /\ e = 1 /\ i # 1 /\ O[p] = 0
      BY <2>2, <2>3, <2>6
    <3>2. QED
      BY <2>2, <2>4, <3>1
  <2>7. QED
    BY <2>5, <2>6
<1>10. ASSUME NEW p \in DOMAIN s, NEW q \in DOMAIN s, p < q
       PROVE  g[p] < g[q] \/ (g[p] = g[q] /\ O[p] < O[q])
  <2>1. g[p] < g[q] \/ (g[p] = g[q] /\ o[p] < o[q])
    BY <1>8, <1>10
  <2>2. O[p] = o[p] - d(g[p]) /\ O[q] = o[q] - d(g[q])
    OBVIOUS
  <2>3. o[p] \in Nat /\ o[q] \in Nat
    BY <1>8
  <2>4. d(g[p]) \in {0, 1}
    OBVIOUS
  <2> HIDE DEF O, d
  <2>5. g[p] = g[q] /\ o[p] < o[q] => O[p] < O[q]
    BY <2>2, <2>3, <2>4
  <2>6. QED
    BY <2>1, <2>5
<1>11. ASSUME NEW i \in DOMAIN lines, NEW r \in DOMAIN lines[i]
       PROVE  \E p \in DOMAIN s : g[p] = i /\ O[p] = r
  <2>1. i \in 1..n /\ r \in 1..Len(lines[i]) /\ Len(lines[i]) \in Nat /\ d(i) \in {0, 1}
    BY <1>1, <1>3
  <2>2. d(i) + r \in 1..(d(i) + Len(lines[i])) /\ (d(i) + r) - d(i) = r
    <3> HIDE DEF d
    <3>1. QED
      BY <2>1
  <2>3. d(i) + r \in DOMAIN pieces[i]
    BY <1>3, <2>1, <2>2
  <2>4. PICK p \in DOMAIN s : g[p] = i /\ o[p] = d(i) + r
    BY <1>8, <2>1, <2>3
  <2>5. O[p] = (d(i) + r) - d(i)
    BY <2>4
  <2> HIDE DEF d, O
  <2>6. QED
    BY <2>2, <2>4, <2>5
<1>12. O \in [DOMAIN s -> Nat]
  <2>1. \A p \in DOMAIN s : O[p] \in Nat
    BY <1>9
  <2>2. O = [p \in DOMAIN s |-> O[p]]
    OBVIOUS
  <2> HIDE DEF O
  <2>3. QED
    BY <2>1, <2>2
<1> HIDE DEF O, d
<1>13. g \in [DOMAIN s -> DOMAIN lines]
  BY <1>1, <1>8
<1>14. JoinedFrom(s, lines, g, O)
  BY <1>9, <1>10, <1>11, <1>12, <1>13 DEF JoinedFrom
<1>15. QED
  BY <1>7, <1>14

----------------------------------------------------------------------------
\* What the lines of a masked document are: its lines that are not verbatim,
\* and sentinels.
LEMMA MaskedAre ==
    ASSUME NEW S, Sentinel \in S, NEW lines \in Seq(Seq(S)), NEW tags
    PROVE  /\ MaskedLines(lines, tags) \in Seq(Seq(S))
           /\ \A k \in DOMAIN MaskedLines(lines, tags) :
                 \/ MaskedLines(lines, tags)[k] = <<Sentinel>>
                 \/ \E i \in DOMAIN lines :
                       ~IsVerbatim(tags[i]) /\ MaskedLines(lines, tags)[k] = lines[i]
<1> DEFINE T == {i \in DOMAIN lines : ~IsVerbatim(tags[i]) \/ i \in BlockEnds(tags)}
           shown == Ascending(T)
           ml == MaskedLines(lines, tags)
<1>1. /\ Len(lines) \in Nat /\ DOMAIN lines = 1..Len(lines)
      /\ \A i \in DOMAIN lines : lines[i] \in Seq(S)
  BY NumbersAre
<1>2. T \in SUBSET Nat /\ IsFiniteSet(T)
  <2>1. IsFiniteSet(1..Len(lines)) /\ T \subseteq 1..Len(lines)
    BY <1>1, FS_Interval
  <2>2. QED
    BY <2>1, FS_Subset
<1>3. shown \in Seq(T)
  <2> HIDE DEF T
  <2>1. QED
    BY <1>2, AscendingIs
<1>4. ml = [k \in DOMAIN shown |->
               IF IsVerbatim(tags[shown[k]]) THEN <<Sentinel>> ELSE lines[shown[k]]]
  BY DEF MaskedLines
<1>5. \A i \in T : i \in DOMAIN lines
  OBVIOUS
<1> HIDE DEF T, shown
<1>6. Len(shown) \in Nat /\ DOMAIN shown = 1..Len(shown) /\ \A k \in DOMAIN shown : shown[k] \in T
  BY <1>3, LenProperties, ElementOfSeq
<1>7. <<Sentinel>> \in Seq(S)
  OBVIOUS
<1>8. \A k \in DOMAIN shown :
         /\ ml[k] \in Seq(S)
         /\ \/ ml[k] = <<Sentinel>>
            \/ \E i \in DOMAIN lines : ~IsVerbatim(tags[i]) /\ ml[k] = lines[i]
  <2> DEFINE one == <<Sentinel>>
  <2> HIDE DEF one
  <2>1. one \in Seq(S)
    BY <1>7 DEF one
  <2>2. ml = [k \in DOMAIN shown |->
               IF IsVerbatim(tags[shown[k]]) THEN one ELSE lines[shown[k]]]
    BY <1>4 DEF one
  <2> HIDE DEF ml
  <2>3. \A k \in DOMAIN shown :
         /\ ml[k] \in Seq(S)
         /\ \/ ml[k] = one
            \/ \E i \in DOMAIN lines : ~IsVerbatim(tags[i]) /\ ml[k] = lines[i]
    BY <1>1, <1>5, <1>6, <2>1, <2>2
  <2>4. QED
    BY <2>3 DEF one
<1>9. DOMAIN ml = DOMAIN shown
  BY <1>4
<1>10. ml \in Seq(Seq(S))
  <2>1. ml \in [1..Len(shown) -> Seq(S)]
    <3> DEFINE V == Seq(S)
    <3>1. \A k \in DOMAIN shown : ml[k] \in V
      BY <1>8
    <3>2. ml = [k \in DOMAIN shown |-> ml[k]]
      BY <1>4
    <3> HIDE DEF ml, V
    <3>3. ml \in [1..Len(shown) -> V]
      BY <1>6, <3>1, <3>2
    <3>4. QED
      BY <3>3 DEF V
  <2> HIDE DEF ml
  <2>2. QED
    BY <1>6, <2>1, SeqDef
<1>11. QED
  BY <1>8, <1>9, <1>10

\* So a word of a masked document is of a line that is not verbatim.
LEMMA WordsMasked ==
    ASSUME NEW S, Sentinel \in S, Newline \in S, NEW text \in Seq(S), NEW sentText,
           sentText = Masked(text), NEW p \in DOMAIN sentText, IsWord(sentText[p])
    PROVE  \E i \in DOMAIN Lines(text) :
              ~IsVerbatim(Tags(Lines(text))[i]) /\ sentText[p] \in Range(Lines(text)[i])
<1> DEFINE lines == Lines(text)
           tags == Tags(lines)
           ml == MaskedLines(lines, tags)
<1>1. lines \in Seq(Seq(S))
  BY LinesAre DEF Pages
<1>2. sentText = Join(ml)
  BY DEF Masked
<1> HIDE DEF lines, tags
<1>3. /\ ml \in Seq(Seq(S))
      /\ \A k \in DOMAIN ml :
            ml[k] = <<Sentinel>> \/ \E i \in DOMAIN lines : ~IsVerbatim(tags[i]) /\ ml[k] = lines[i]
  BY <1>1, MaskedAre
<1> HIDE DEF ml
<1>4. PICK g, o : JoinedFrom(sentText, ml, g, o)
  BY <1>2, <1>3, JoinPlaces
<1>5. \/ sentText[p] = Newline
      \/ g[p] \in DOMAIN ml /\ o[p] \in DOMAIN ml[g[p]] /\ sentText[p] = ml[g[p]][o[p]]
  BY <1>4 DEF JoinedFrom
<1>6. ~IsWord(Newline) /\ ~IsWord(Sentinel)
  BY DEF IsWord, Newline, Sentinel, Item
<1>7. PICK k \in DOMAIN ml : o[p] \in DOMAIN ml[k] /\ sentText[p] = ml[k][o[p]]
  BY <1>5, <1>6
<1>8. ml[k] # <<Sentinel>>
  <2>1. SUFFICES ASSUME ml[k] = <<Sentinel>> PROVE FALSE
    OBVIOUS
  <2> DEFINE c == Sentinel
             r == o[p]
  <2>2. r \in DOMAIN <<c>> /\ sentText[p] = <<c>>[r]
    BY <1>7, <2>1
  <2> HIDE DEF c, r
  <2>3. sentText[p] = c
    BY <2>2
  <2>4. QED
    BY <1>6, <2>3 DEF c
<1>9. PICK i \in DOMAIN lines : ~IsVerbatim(tags[i]) /\ ml[k] = lines[i]
  BY <1>3, <1>8
<1>10. sentText[p] \in Range(lines[i])
  BY <1>7, <1>9 DEF Range
<1>11. QED
  BY <1>9, <1>10 DEF lines, tags

----------------------------------------------------------------------------
\* The document came back: unmasked, without a sentinel of its own.
Unmasked ==
    /\ detected = "doc_read" /\ Len(done) = 3
    /\ LET read == ReadText(in.text)
       IN  /\ ~Contains(read, Sentinel)
           /\ sent = Masked(read) /\ answer \in Answers(sent)
           /\ IF Blocks(read) = <<>> THEN cur = answer
              ELSE CanRestore(answer, Blocks(read)) /\ cur = Restored(answer, Blocks(read))

\* A call's text as the pipeline gets it.
CallIn(c) ==
    [text |-> HookText(c), nature |-> c.nature, klass |-> c.klass, table |-> c.table]

\* What the pipeline knows of a text that goes to the model.
MaskOK ==
    /\ at \in {"chain", "model"} \/ done # <<>> =>
          in = CallIn(call) /\ detected = Detected(in)
    /\ at \in {"chain", "model"} => ~(detected = "prose" /\ in.klass = "code_structured")
    /\ at \in {"chain", "model"} /\ Len(done) = 2 /\ detected = "doc_read" =>
          cur = ReadText(in.text)
    /\ at = "model" /\ Layer = "md_structured" =>
          sent = Masked(cur) /\ ~Contains(cur, Sentinel)
    /\ done # <<>> /\ Last(done) = "md_structured" => Unmasked

\* The layers that ask the model, and the one before.
LEMMA MaskLayers ==
    ASSUME done \in Seq(Layers), Len(done) < Len(Chain(detected))
    PROVE  /\ Layer = "md_structured" => Len(done) = 2 /\ detected = "doc_read"
           /\ Layer = "llmlingua" => detected = "prose"
           /\ Len(done) = 1 /\ detected = "doc_read" => Layer = "linenum_strip"
           /\ Layer = "linenum_strip" => Len(done) = 1 /\ detected = "doc_read"
           /\ Len(done) = 2 => Layer = "md_structured"
<1> DEFINE c == Chain(detected)
           n == Len(done)
<1>1. \/ detected # "prose" /\ detected # "doc_read"
             /\ c \in {<<>>, <<"ansi_strip", "log_compressor">>,
                       <<"ansi_strip", "json_crusher">>, <<"ansi_strip">>}
      \/ c = <<>>
      \/ detected = "prose" /\ c = <<"ansi_strip", "llmlingua">>
      \/ detected = "doc_read" /\ c = <<"ansi_strip", "linenum_strip", "md_structured">>
  BY DEF Chain
<1>2. Layer = c[n + 1] /\ n < Len(c) /\ n \in Nat
  BY LenProperties DEF Layer
<1> HIDE DEF c, n
<1>3. CASE c = <<>>
  BY <1>2, <1>3
<1>4. CASE c = <<"ansi_strip">> /\ detected # "prose" /\ detected # "doc_read"
  <2>1. n = 0 /\ Layer = "ansi_strip"
    BY <1>2, <1>4
  <2>2. QED
    BY <1>4, <2>1 DEF n
<1>5. CASE \E layer \in {"log_compressor", "json_crusher"} :
              c = <<"ansi_strip", layer>> /\ detected # "prose" /\ detected # "doc_read"
  <2>1. /\ detected # "prose" /\ detected # "doc_read"
        /\ \/ n = 0 /\ Layer = "ansi_strip"
           \/ n = 1 /\ Layer = "log_compressor"
           \/ n = 1 /\ Layer = "json_crusher"
    BY <1>2, <1>5
  <2>2. QED
    BY <2>1 DEF n
<1>6. CASE detected = "prose" /\ c = <<"ansi_strip", "llmlingua">>
  <2>1. /\ detected = "prose"
        /\ \/ n = 0 /\ Layer = "ansi_strip"
           \/ n = 1 /\ Layer = "llmlingua"
    BY <1>2, <1>6
  <2>2. QED
    BY <2>1 DEF n
<1>7. CASE detected = "doc_read" /\ c = <<"ansi_strip", "linenum_strip", "md_structured">>
  <2>1. \/ n = 0 /\ Layer = "ansi_strip"
        \/ n = 1 /\ Layer = "linenum_strip"
        \/ n = 2 /\ Layer = "md_structured"
    BY <1>2, <1>7
  <2>2. QED
    BY <1>7, <2>1 DEF n
<1>8. QED
  BY <1>1, <1>3, <1>4, <1>5, <1>6, <1>7

\* One layer more, and the last one.
LEMMA OneLayerMore ==
    ASSUME done \in Seq(Layers), Len(done) < Len(Chain(detected)),
           NEW next, next = Append(done, Layer)
    PROVE  next # <<>> /\ Last(next) = Layer /\ Len(next) = Len(done) + 1
<1>1. Layer \in Layers
  BY LayerStep
<1> DEFINE layer == Layer
<1>2. layer \in Layers /\ next = Append(done, layer) /\ Len(done) \in Nat
  BY <1>1, LenProperties
<1> HIDE DEF layer
<1>3. /\ next # <<>> /\ Len(next) = Len(done) + 1 /\ next[Len(done) + 1] = layer
  BY <1>2, AppendProperties
<1>4. QED
  BY <1>3 DEF layer, Last

\* A prose that looks like code is refused.
LEMMA CodeRefused ==
    ASSUME NEW i, i.klass = "code_structured"
    PROVE  Refusal(i, "prose") \in {"too_large", "too_short", "code_structured"}
<1> DEFINE a == MaxChars > 0 /\ Chars(i.text) > MaxChars
           b == Tokens(i.text) < MinTokens
           d == ProseMaxChars > 0 /\ Chars(i.text) > ProseMaxChars
           e == Chain("prose") = <<>>
           p1 == <<a, "too_large">>
           p2 == <<b, "too_short">>
           p3 == <<TRUE, "code_structured">>
           p4 == <<d, "too_large_prose">>
           p5 == <<e, "no_compressor">>
           p6 == <<TRUE, "">>
           pairs == <<p1, p2, p3, p4, p5, p6>>
           T == {k \in DOMAIN pairs : pairs[k][1]}
<1>1. Refusal(i, "prose") = FirstOf(pairs)
  BY DEF Refusal
<1> HIDE DEF a, b, d, e
<1>2. p1[2] = "too_large" /\ p2[2] = "too_short" /\ p3[2] = "code_structured" /\ p3[1] = TRUE
  OBVIOUS
<1> HIDE DEF p1, p2, p3, p4, p5, p6
<1>20. DOMAIN pairs = 1..6 /\ pairs[1] = p1 /\ pairs[2] = p2 /\ pairs[3] = p3
  OBVIOUS
<1>3. T \subseteq 1..6 /\ 3 \in T
  <2> HIDE DEF pairs
  <2>1. QED
    BY <1>2, <1>20
<1>4. FirstOf(pairs) = pairs[Min(T)][2]
  BY DEF FirstOf
<1>5. Min(T) \in 1..3
  <2> HIDE DEF pairs, T
  <2>1. T \in SUBSET Nat /\ T # {}
    BY <1>3
  <2>2. \E n \in T : \A m \in T : n <= m
    BY <2>1, SmallestNat
  <2>3. Min(T) = CHOOSE x \in T : \A y \in T : x <= y
    BY DEF Min
  <2>4. Min(T) \in T /\ \A m \in T : Min(T) <= m
    BY <2>2, <2>3
  <2>5. Min(T) \in 1..6 /\ Min(T) <= 3
    BY <1>3, <2>4
  <2>6. QED
    BY <2>5
<1>6. \A k \in 1..3 : pairs[k][2] \in {"too_large", "too_short", "code_structured"}
  <2> HIDE DEF pairs
  <2>1. \A k \in 1..3 : k = 1 \/ k = 2 \/ k = 3
    OBVIOUS
  <2>2. QED
    BY <1>2, <1>20, <2>1
<1> HIDE DEF pairs, T
<1>7. QED
  BY <1>1, <1>4, <1>5, <1>6

\* Between the gate and the end, the pipeline works on the call.
LEMMA CallIsIn ==
    ASSUME IInv, at \in {"gate", "chain", "model"}
    PROVE  in = CallIn(call)
<1>1. in.text = HookText(call)
  BY DEF IInv, InputOK, Stages
<1>2. QED
  BY <1>1 DEF IInv, InputOK, CallIn

\* What MaskOK says is kept.
LEMMA MaskStep == IInv /\ LayersOK /\ TablesOK /\ MaskOK /\ [Next]_vars => MaskOK'
<1> SUFFICES ASSUME IInv, LayersOK, TablesOK, MaskOK, [Next]_vars PROVE MaskOK'
  OBVIOUS
<1>1. call \in Calls /\ done \in Seq(Layers)
  BY DEF LayersOK
<1>2. ASSUME UNCHANGED <<call, in, detected, cur, done, sent, answer>>,
             at' \notin {"chain", "model"}
      PROVE  MaskOK'
  BY <1>2 DEF MaskOK, Unmasked
<1>3. CASE Receive
  <2>1. /\ at = "idle" /\ at' = "gate" /\ UNCHANGED done
    BY <1>3 DEF Receive
  <2>2. done = <<>>
    BY <2>1 DEF LayersOK
  <2>3. QED
    BY <2>1, <2>2 DEF MaskOK
<1>4. CASE Compress
  <2>0. UNCHANGED call
    BY <1>4 DEF Compress, hookVars
  <2>1. ASSUME NEW reason, Skip(reason), UNCHANGED <<sent, answer, detected>> PROVE MaskOK'
    BY <1>2, <2>0, <2>1 DEF Skip
  <2>2. ASSUME NEW reason, Skip(reason), UNCHANGED <<sent, answer>>, done = <<>> PROVE MaskOK'
    <3>1. done' = <<>> /\ at' = "out"
      BY <2>2 DEF Skip
    <3>2. QED
      BY <3>1 DEF MaskOK
  <2>3. ASSUME NEW out, Produced(out), Len(done) < Len(Chain(detected)),
               at \in {"chain", "model"},
               Layer = "linenum_strip" => at = "chain" /\ out = StripLineNumbers(cur),
               Layer = "md_structured" =>
                   /\ at = "model" /\ UNCHANGED sent /\ answer' \in Answers(sent)
                   /\ IF Blocks(cur) = <<>> THEN out = answer'
                      ELSE CanRestore(answer', Blocks(cur))
                           /\ out = Restored(answer', Blocks(cur))
        PROVE  MaskOK'
    <3>1. /\ cur' = out /\ done' = Append(done, Layer) /\ at' = "chain"
          /\ UNCHANGED <<in, detected, call>>
      BY <2>0, <2>3 DEF Produced
    <3>2. done' # <<>> /\ Last(done') = Layer /\ Len(done') = Len(done) + 1
      BY <1>1, <2>3, <3>1, OneLayerMore
    <3>3. in = CallIn(call) /\ detected = Detected(in)
          /\ ~(detected = "prose" /\ in.klass = "code_structured")
      BY <2>3 DEF MaskOK
    <3>4. Len(done) \in Nat
      BY <1>1, LenProperties
    <3>5. ASSUME Len(done') = 2, detected = "doc_read" PROVE cur' = ReadText(in.text)
      <4>1. Len(done) = 1
        <5> DEFINE m == Len(done')
                   n == Len(done)
        <5>1. m = n + 1 /\ n \in Nat /\ m = 2
          BY <3>2, <3>4, <3>5
        <5> HIDE DEF m, n
        <5>2. n = 1
          BY <5>1
        <5>3. QED
          BY <5>2 DEF n
      <4>2. Layer = "linenum_strip"
        BY <1>1, <2>3, <3>5, <4>1, MaskLayers
      <4>3. at = "chain" /\ cur = ANSIStrip(in.text)
        BY <2>3, <4>1, <4>2 DEF TablesOK
      <4>4. QED
        BY <2>3, <3>1, <4>2, <4>3 DEF ReadText
    <3>6. ASSUME Layer = "md_structured" PROVE Unmasked'
      <4>1. Len(done) = 2 /\ detected = "doc_read"
        BY <1>1, <2>3, <3>6, MaskLayers
      <4>2. /\ cur = ReadText(in.text) /\ sent = Masked(cur) /\ ~Contains(cur, Sentinel)
        BY <2>3, <3>6, <4>1 DEF MaskOK
      <4>3. Len(done') = 3 /\ detected' = "doc_read"
        BY <3>1, <3>2, <4>1
      <4>4. /\ sent' = sent /\ answer' \in Answers(sent)
            /\ IF Blocks(cur) = <<>> THEN cur' = answer'
               ELSE CanRestore(answer', Blocks(cur)) /\ cur' = Restored(answer', Blocks(cur))
        BY <2>3, <3>1, <3>6
      <4>5. in' = in
        BY <3>1
      <4>6. QED
        BY <4>2, <4>3, <4>4, <4>5 DEF Unmasked
    <3>7. in' = CallIn(call') /\ detected' = Detected(in')
          /\ ~(detected' = "prose" /\ in'.klass = "code_structured")
      BY <3>1, <3>3
    <3>8. QED
      BY <3>1, <3>2, <3>5, <3>6, <3>7 DEF MaskOK
  <2>4. CASE Gate
    <3>0. at = "gate" /\ done = <<>> /\ detected' = Detected(in) /\ UNCHANGED <<sent, answer>>
      BY <2>4 DEF Gate, TablesOK
    <3> DEFINE refusal == Refusal(in, detected')
               none == ""
    <3>1. \/ Skip(refusal)
          \/ refusal = none /\ at' = "chain" /\ UNCHANGED <<in, cur, done>>
      BY <2>4 DEF Gate
    <3>2. ~(none \in {"too_large", "too_short", "code_structured"})
      BY Zenon
    <3> HIDE DEF none
    <3>3. CASE refusal = none /\ at' = "chain" /\ UNCHANGED <<in, cur, done>>
      <4>1. in = CallIn(call)
        BY <3>0, CallIsIn
      <4>2. ~(detected' = "prose" /\ in.klass = "code_structured")
        <5>1. SUFFICES ASSUME detected' = "prose", in.klass = "code_structured" PROVE FALSE
          OBVIOUS
        <5>2. Refusal(in, "prose") \in {"too_large", "too_short", "code_structured"}
          BY <5>1, CodeRefused
        <5>3. refusal = Refusal(in, "prose")
          BY <5>1
        <5>4. QED
          BY <3>2, <3>3, <5>2, <5>3
      <4>3. Len(done') # 2 /\ done' = <<>>
        BY <3>0, <3>3, EmptySeq
      <4>4. in' = CallIn(call') /\ detected' = Detected(in') /\ at' = "chain"
        BY <2>0, <3>0, <3>3, <4>1
      <4>5. QED
        BY <3>3, <4>2, <4>3, <4>4 DEF MaskOK
    <3>4. QED
      BY <2>2, <3>0, <3>1, <3>3
  <2>5. CASE Transform
    <3> DEFINE out == CASE Layer = "ansi_strip" -> ANSIStrip(cur)
                        [] Layer = "log_compressor" -> LogCompress(cur)
                        [] Layer = "linenum_strip" -> StripLineNumbers(cur)
    <3>1. /\ Produced(out) /\ at = "chain" /\ Len(done) < Len(Chain(detected))
          /\ Layer # "md_structured"
      BY <2>5 DEF Transform, AtLayer
    <3>2. Layer = "linenum_strip" => out = StripLineNumbers(cur)
      OBVIOUS
    <3> HIDE DEF out
    <3>3. QED
      BY <2>3, <3>1, <3>2
  <2>6. CASE CrushJSON
    <3>1. Len(done) < Len(Chain(detected)) /\ Layer = "json_crusher" /\ at = "chain"
      BY <2>6 DEF CrushJSON, AtLayer
    <3>2. PICK out : Produced(out)
      BY <2>6 DEF CrushJSON
    <3>3. QED
      BY <2>3, <3>1, <3>2
  <2>7. CASE Collide
    BY <2>1, <2>7 DEF Collide
  <2>8. CASE AskModel
    <3>1. /\ at = "chain" /\ Len(done) < Len(Chain(detected))
          /\ Layer = "md_structured" => ~Contains(cur, Sentinel)
          /\ sent' = IF Layer = "llmlingua" THEN cur ELSE Masked(cur)
          /\ at' = "model" /\ UNCHANGED <<in, detected, cur, done, answer>>
      BY <2>8 DEF AskModel, AtLayer
    <3>2. ~(done # <<>> /\ Last(done) = "md_structured")
      <4>1. SUFFICES ASSUME done # <<>>, Last(done) = "md_structured" PROVE FALSE
        OBVIOUS
      <4>2. detected = "doc_read" /\ Len(done) = 3
        BY <4>1 DEF MaskOK, Unmasked
      <4>3. Len(Chain("doc_read")) \in {0, 3}
        <5>1. Chain("doc_read") = <<>>
              \/ Chain("doc_read") = <<"ansi_strip", "linenum_strip", "md_structured">>
          BY DEF Chain
        <5> DEFINE c == Chain("doc_read")
        <5> HIDE DEF c
        <5>2. c = <<>> \/ c = <<"ansi_strip", "linenum_strip", "md_structured">>
          BY <5>1 DEF c
        <5>3. Len(c) \in {0, 3}
          BY <5>2
        <5>4. QED
          BY <5>3 DEF c
      <4>4. QED
        BY <3>1, <4>2, <4>3
    <3>3. Layer' = Layer
      BY <3>1 DEF Layer
    <3>4. /\ in' = CallIn(call') /\ detected' = Detected(in')
          /\ ~(detected' = "prose" /\ in'.klass = "code_structured")
      BY <2>0, <3>1 DEF MaskOK
    <3>5. Len(done') = 2 /\ detected' = "doc_read" => cur' = ReadText(in'.text)
      BY <3>1 DEF MaskOK
    <3>6. Layer' = "md_structured" => sent' = Masked(cur') /\ ~Contains(cur', Sentinel)
      BY <3>1, <3>3
    <3>7. ~(done' # <<>> /\ Last(done') = "md_structured")
      BY <3>1, <3>2
    <3>8. QED
      BY <3>4, <3>5, <3>6, <3>7 DEF MaskOK
  <2>9. CASE ModelAnswers
    <3>1. Len(done) < Len(Chain(detected)) /\ Layer \in {"llmlingua", "md_structured"}
          /\ at = "model" /\ UNCHANGED sent
      BY <2>9 DEF ModelAnswers, LayersOK
    <3>2. PICK a \in Answers(sent), blocks \in {IF Layer = "md_structured" THEN Blocks(cur) ELSE <<>>} :
             /\ answer' = a
             /\ \/ blocks = <<>> /\ Produced(a)
                \/ /\ blocks # <<>> /\ CanRestore(a, blocks)
                   /\ Produced(Restored(a, blocks))
                \/ /\ blocks # <<>> /\ ~CanRestore(a, blocks)
                   /\ Skip("md_structure_guard") /\ UNCHANGED detected
      BY <2>9 DEF ModelAnswers
    <3>3. CASE Skip("md_structure_guard") /\ blocks # <<>> /\ UNCHANGED detected
      <4>1. ~(done # <<>> /\ Last(done) = "md_structured")
        <5>1. Layer = "md_structured"
          BY <3>2, <3>3
        <5>2. Len(done) = 2
          BY <1>1, <3>1, <5>1, MaskLayers
        <5>3. QED
          BY <5>2 DEF MaskOK, Unmasked
      <4>2. at' = "out" /\ UNCHANGED <<in, cur, done, call, detected>>
        BY <2>0, <3>3 DEF Skip
      <4>3. QED
        BY <4>1, <4>2 DEF MaskOK
    <3>4. CASE blocks = <<>> /\ Produced(a)
      BY <2>3, <3>1, <3>2, <3>4
    <3>5. CASE blocks # <<>> /\ CanRestore(a, blocks) /\ Produced(Restored(a, blocks))
      BY <2>3, <3>1, <3>2, <3>5
    <3>6. QED
      BY <3>2, <3>3, <3>4, <3>5
  <2>10. CASE ModelFails
    BY <2>1, <2>10 DEF ModelFails
  <2>11. CASE Panic
    BY <2>1, <2>11 DEF Panic
  <2>12. CASE Guard
    <3>1. (\E reason : Skip(reason)) \/ (at' = "out" /\ UNCHANGED <<in, cur, done>>)
      BY <2>12 DEF Guard
    <3>2. UNCHANGED <<detected, sent, answer>>
      BY <2>12 DEF Guard
    <3>3. QED
      BY <1>2, <2>0, <2>1, <3>1, <3>2
  <2>13. QED
    BY <1>4, <2>4, <2>5, <2>6, <2>7, <2>8, <2>9, <2>10, <2>11, <2>12
    DEF Compress, PipelineNext
<1>5. CASE Finalize
  BY <1>2, <1>5 DEF Finalize
<1>6. CASE Fetch
  BY <1>2, <1>6 DEF Fetch
<1>7. CASE Record
  BY <1>2, <1>7 DEF Record
<1>8. CASE Reply
  BY <1>2, <1>8 DEF Reply
<1>9. CASE UNCHANGED vars
  BY <1>9 DEF vars, pipelineVars, hookVars, MaskOK, Unmasked, Layer
<1>10. ASSUME Leave PROVE MaskOK'
  BY <1>2, <1>10 DEF Leave, hookVars
<1>11. QED
  BY <1>3, <1>4, <1>5, <1>6, <1>7, <1>8, <1>9, <1>10
  DEF Next, Decline, Skipped, Die

\* What a masked document has been cut into are texts of these items.
LEMMA ReadIsGiven ==
    ASSUME NEW text, IsGiven(text)
    PROVE  IsGiven(ANSIStrip(text)) /\ ReadText(text) \in Seq(Raw)
<1>1. IsGiven(ANSIStrip(text))
  BY ANSIStripKeepsGiven
<1>2. ANSIStrip(text) \in Seq(Raw)
  BY <1>1 DEF IsGiven
<1>3. ReadText(text) \in Seq(Raw)
  BY <1>2, OnlyIs DEF ReadText, StripLineNumbers
<1>4. QED
  BY <1>1, <1>3

----------------------------------------------------------------------------
\* How lines are judged: SegmentMarkdown retold line by line, and the lines that are
\* segmented, from which nothing is missing that would change a tag.

\* What a tag may be, and an open fence.
TagsIn(lines) == {"fenced", "underlined", "blank"} \cup {TagOf(lines, i) : i \in DOMAIN lines}
FencesIn(lines) == {NoFence} \cup {ClassOf(lines[i]).fence : i \in DOMAIN lines}
Segments(lines) == [tags : Seq(TagsIn(lines)), open : FencesIn(lines)]
TagStep(lines, acc, i) == Tagged(acc, lines[i], NextTag(acc, lines, i))
TagF(lines) ==
    [acc \in Segments(lines) |-> [i \in DOMAIN lines |-> TagStep(lines, acc, i)]]

\* One line more is tagged.
LEMMA TagStepIs ==
    ASSUME NEW lines, NEW acc \in Segments(lines), NEW i \in DOMAIN lines
    PROVE  /\ TagStep(lines, acc, i) \in Segments(lines)
           /\ Len(TagStep(lines, acc, i).tags) = Len(acc.tags) + 1
<1> DEFINE tag == NextTag(acc, lines, i)
           open == IF tag = "fence" THEN ClassOf(lines[i]).fence
                   ELSE IF tag = "fenced" /\ ~Closes(lines[i], acc.open)
                   THEN acc.open ELSE NoFence
<1>1. acc.tags \in Seq(TagsIn(lines)) /\ acc.open \in FencesIn(lines)
  BY DEF Segments
<1>2. tag \in TagsIn(lines)
  BY DEF NextTag, TagsIn
<1>3. ClassOf(lines[i]).fence \in FencesIn(lines) /\ NoFence \in FencesIn(lines)
  BY DEF FencesIn
<1>4. open \in FencesIn(lines)
  <2> HIDE DEF tag
  <2>1. QED
    BY <1>1, <1>3
<1>5. TagStep(lines, acc, i) = [tags |-> Append(acc.tags, tag), open |-> open]
  BY DEF TagStep, Tagged
<1> HIDE DEF tag, open
<1>6. Append(acc.tags, tag) \in Seq(TagsIn(lines))
      /\ Len(Append(acc.tags, tag)) = Len(acc.tags) + 1
  <2> DEFINE U == TagsIn(lines)
             s == acc.tags
  <2>1. s \in Seq(U) /\ tag \in U
    BY <1>1, <1>2
  <2> HIDE DEF U, s
  <2>2. Append(s, tag) \in Seq(U) /\ Len(Append(s, tag)) = Len(s) + 1
    BY <2>1, AppendProperties
  <2>3. QED
    BY <2>2 DEF U, s
<1>7. QED
  BY <1>4, <1>5, <1>6 DEF Segments

\* SegmentMarkdown is a loop; every line has one tag.
LEMMA TagsLoop ==
    ASSUME NEW S, NEW lines \in Seq(S)
    PROVE  /\ Len(lines) \in Nat /\ DOMAIN lines = 1..Len(lines)
           /\ \E acc \in [0..Len(lines) -> Segments(lines)] :
                 /\ acc[0] = [tags |-> <<>>, open |-> NoFence]
                 /\ \A i \in 1..Len(lines) : acc[i] = TagStep(lines, acc[i - 1], i)
                 /\ \A i \in 0..Len(lines) : Len(acc[i].tags) = i
                 /\ Tags(lines) = acc[Len(lines)].tags
<1> DEFINE ks == Numbers(lines)
           D == DOMAIN ks
           B == DOMAIN lines
           V == Segments(lines)
           F == TagF(lines)
           base == [tags |-> <<>>, open |-> NoFence]
           E(h) == [t \in SUBSET D |->
                       IF t = {} THEN base
                       ELSE TagStep(lines, h[t \ {Max(t)}], ks[Max(t)])]
           it == CHOOSE h : h = E(h)
<1>1. Stays(F, V, B) /\ base \in V
  <2>1. <<>> \in Seq(TagsIn(lines)) /\ NoFence \in FencesIn(lines)
    BY EmptySeq DEF FencesIn
  <2>2. base \in V
    BY <2>1 DEF Segments
  <2>3. \A v \in V, i \in B : F[v][i] \in V
    BY TagStepIs DEF TagF
  <2>4. QED
    BY <2>2, <2>3 DEF Stays
<1>2. /\ ks \in Seq(B) /\ Len(ks) = Len(lines) /\ Len(lines) \in Nat
      /\ B = 1..Len(lines) /\ \A i \in 1..Len(lines) : ks[i] = i
  BY NumbersAre
<1>3. Tags(lines) = it[D].tags
  BY DEF Tags, Numbers, FoldLeft, MapThenFoldSet, TagStep, base
<1>4. \A v \in V, i \in B : F[v][i] = TagStep(lines, v, i)
  BY DEF TagF
<1>20. base.tags = <<>>
  OBVIOUS
<1> HIDE DEF base, ks, B, V, F
<1>5. D = 1..Len(lines) /\ \A t \in SUBSET D : t # {} => Max(t) \in D
  BY <1>2, LenProperties, LastPosition
<1>6. PICK h \in [SUBSET D -> V] : Lefts(h, F, base, ks)
  BY <1>1, <1>2, LeftsExist
<1>7. ASSUME NEW t \in SUBSET D
      PROVE  h[t] = IF t = {} THEN base ELSE TagStep(lines, h[t \ {Max(t)}], ks[Max(t)])
  <2>1. h[t] = IF t = {} THEN base ELSE F[h[t \ {Max(t)}]][ks[Max(t)]]
    BY <1>6 DEF Lefts
  <2>2. QED
    BY <1>2, <1>4, <1>5, <2>1
<1>8. it = E(it)
  <2>1. h = E(h)
    BY <1>7
  <2> HIDE DEF E
  <2>2. QED
    BY <2>1
<1> HIDE DEF it
<1>9. \A t \in SUBSET D : it[t] = IF t = {} THEN base
                                 ELSE TagStep(lines, it[t \ {Max(t)}], ks[Max(t)])
  BY <1>8
<1>10. GoesOn(it, F, V, base, ks)
  <2>1. it[{}] = base
    BY <1>9
  <2>2. ASSUME NEW t \in SUBSET D, t # {}, it[t \ {Max(t)}] \in V
        PROVE  it[t] = F[it[t \ {Max(t)}]][ks[Max(t)]]
    <3>1. ks[Max(t)] \in B
      BY <1>2, <1>5, <2>2
    <3>2. it[t] = TagStep(lines, it[t \ {Max(t)}], ks[Max(t)])
      BY <1>9, <2>2
    <3>3. QED
      BY <1>4, <2>2, <3>1, <3>2
  <2>3. QED
    BY <2>1, <2>2 DEF GoesOn
<1>11. PICK acc \in [0..Len(ks) -> V] : IsLoop(acc, F, base, ks) /\ it[D] = acc[Len(ks)]
  BY <1>1, <1>2, <1>10, FoldIsLoop
<1> DEFINE n == Len(lines)
           Q == {i \in 0..n : Len(acc[i].tags) = i}
<1>12. 0 \in Q
  <2>1. acc[0].tags = <<>> /\ Len(<<>>) = 0
    BY <1>11, <1>20, EmptySeq DEF IsLoop
  <2>2. QED
    BY <1>2, <2>1
<1>13. ASSUME NEW i \in 1..n, i - 1 \in Q PROVE i \in Q
  <2>1. i \in B /\ i - 1 \in 0..Len(ks) /\ i \in 1..Len(ks) /\ ks[i] = i /\ i \in 0..n
    BY <1>2
  <2>2. acc[i - 1] \in V
    BY <2>1
  <2>3. acc[i] = F[acc[i - 1]][i]
    BY <1>11, <2>1 DEF IsLoop
  <2>4. acc[i] = TagStep(lines, acc[i - 1], i)
    BY <1>4, <2>1, <2>2, <2>3
  <2>5. Len(acc[i].tags) = Len(acc[i - 1].tags) + 1
    BY <2>1, <2>2, <2>4, TagStepIs DEF V, B
  <2>6. Len(acc[i - 1].tags) = i - 1
    BY <1>13
  <2>7. Len(acc[i].tags) = i
    BY <2>5, <2>6
  <2>8. QED
    BY <2>1, <2>7
<1>14. \A i \in 0..n : i \in Q
  <2>1. n \in Nat
    BY <1>2
  <2> HIDE DEF n, Q
  <2>2. QED
    BY <1>12, <1>13, <2>1, UpTo
<1>15. ASSUME NEW i \in 1..n PROVE acc[i] = TagStep(lines, acc[i - 1], i)
  <2>1. i \in B /\ i - 1 \in 0..Len(ks) /\ i \in 1..Len(ks) /\ ks[i] = i
    BY <1>2
  <2>2. acc[i] = F[acc[i - 1]][i] /\ acc[i - 1] \in V
    BY <1>11, <2>1 DEF IsLoop
  <2>3. QED
    BY <1>4, <2>1, <2>2
<1>16. acc \in [0..n -> Segments(lines)] /\ acc[0] = [tags |-> <<>>, open |-> NoFence]
       /\ Tags(lines) = acc[n].tags
  BY <1>2, <1>3, <1>11 DEF IsLoop, V, base
<1>17. QED
  BY <1>2, <1>14, <1>15, <1>16 DEF B

LEMMA TagsAre ==
    ASSUME NEW S, NEW lines \in Seq(S)
    PROVE  DOMAIN Tags(lines) = 1..Len(lines) /\ Len(Tags(lines)) = Len(lines)
<1> DEFINE n == Len(lines)
<1>1. PICK acc \in [0..n -> Segments(lines)] :
         (\A i \in 0..n : Len(acc[i].tags) = i) /\ Tags(lines) = acc[n].tags
  BY TagsLoop
<1>2. n \in 0..n
  BY TagsLoop
<1>3. acc[n].tags \in Seq(TagsIn(lines)) /\ Len(acc[n].tags) = n
  BY <1>1, <1>2 DEF Segments
<1>4. DOMAIN acc[n].tags = 1..Len(acc[n].tags)
  BY <1>3, LenProperties
<1>5. QED
  BY <1>1, <1>3, <1>4

\* So the tags of the lines can be told from each other: the one of a line from the
\* fence that is open, the tag before, and the line and the next one.
TagHere(lines, tags, open, i) ==
    IF open # NoFence THEN "fenced"
    ELSE IF i > 1 /\ tags[i - 1] = "title" THEN "underlined"
    ELSE IF IsBlank(lines[i]) THEN "blank"
    ELSE TagOf(lines, i)
OpenAfter(line, tag, open) ==
    IF tag = "fence" THEN ClassOf(line).fence
    ELSE IF tag = "fenced" /\ ~Closes(line, open) THEN open ELSE NoFence

LEMMA TagsByLine ==
    ASSUME NEW S, NEW lines \in Seq(S)
    PROVE  \E open : /\ open[0] = NoFence
                     /\ \A i \in 1..Len(lines) :
                           /\ Tags(lines)[i] = TagHere(lines, Tags(lines), open[i - 1], i)
                           /\ open[i] = OpenAfter(lines[i], Tags(lines)[i], open[i - 1])
<1> DEFINE n == Len(lines)
           V == Segments(lines)
           base == [tags |-> <<>>, open |-> NoFence]
<1>1. PICK acc \in [0..n -> V] :
         /\ acc[0] = base
         /\ \A i \in 1..n : acc[i] = TagStep(lines, acc[i - 1], i)
         /\ \A i \in 0..n : Len(acc[i].tags) = i
         /\ Tags(lines) = acc[n].tags
  BY TagsLoop
<1>2. n \in Nat
  BY TagsLoop
<1>3. \A i \in 0..n : acc[i].tags \in Seq(TagsIn(lines)) /\ Len(acc[i].tags) = i
  BY <1>1 DEF Segments
<1>4. base.open = NoFence
  OBVIOUS
<1> HIDE DEF n, V, base
<1>5. ASSUME NEW i \in 1..n
      PROVE  /\ acc[i].tags = Append(acc[i - 1].tags, NextTag(acc[i - 1], lines, i))
             /\ acc[i].tags[i] = NextTag(acc[i - 1], lines, i)
             /\ \A j \in 1..(i - 1) : acc[i].tags[j] = acc[i - 1].tags[j]
             /\ acc[i].open = OpenAfter(lines[i], NextTag(acc[i - 1], lines, i), acc[i - 1].open)
  <2> DEFINE tag == NextTag(acc[i - 1], lines, i)
             a == acc[i - 1].tags
             b == Append(a, tag)
  <2>1. acc[i] = TagStep(lines, acc[i - 1], i)
    BY <1>1
  <2>2. acc[i].tags = Append(acc[i - 1].tags, NextTag(acc[i - 1], lines, i))
        /\ acc[i].open = OpenAfter(lines[i], NextTag(acc[i - 1], lines, i), acc[i - 1].open)
    BY <2>1 DEF TagStep, Tagged, OpenAfter
  <2>3. i - 1 \in 0..n /\ i \in 0..n
    BY <1>2
  <2>4. a \in Seq(TagsIn(lines)) /\ Len(a) = i - 1 /\ acc[i].tags = b
    BY <1>3, <2>2, <2>3
  <2>5. b[i] = tag /\ \A j \in 1..(i - 1) : b[j] = a[j]
    <3>1. i - 1 \in Nat /\ (i - 1) + 1 = i
      BY <1>2
    <3> HIDE DEF tag, a
    <3>2. QED
      BY <2>4, <3>1
  <2>6. QED
    BY <2>2, <2>4, <2>5
<1> DEFINE Q == {i \in 0..n : \A j \in 1..i : acc[i].tags[j] = acc[j].tags[j]}
<1>6. 0 \in Q
  BY <1>2
<1>7. ASSUME NEW i \in 1..n, i - 1 \in Q PROVE i \in Q
  <2>1. \A j \in 1..(i - 1) : acc[i - 1].tags[j] = acc[j].tags[j]
    BY <1>7
  <2>2. \A j \in 1..i : j = i \/ j \in 1..(i - 1)
    BY <1>2
  <2>3. \A j \in 1..i : acc[i].tags[j] = acc[j].tags[j]
    BY <1>5, <2>1, <2>2
  <2>4. QED
    BY <1>2, <2>3
<1>8. \A i \in 0..n : i \in Q
  <2> HIDE DEF Q
  <2>1. QED
    BY <1>2, <1>6, <1>7, UpTo
<1>9. \A i \in 0..n : \A j \in 1..i : acc[i].tags[j] = acc[j].tags[j]
  BY <1>8
<1> DEFINE open == [i \in 0..n |-> acc[i].open]
<1>10. open[0] = NoFence
  BY <1>1, <1>2, <1>4
<1>11. ASSUME NEW i \in 1..n
       PROVE  /\ Tags(lines)[i] = TagHere(lines, Tags(lines), open[i - 1], i)
              /\ open[i] = OpenAfter(lines[i], Tags(lines)[i], open[i - 1])
  <2>1. n \in 0..n /\ i - 1 \in 0..n /\ i \in 0..n /\ i \in 1..n
    BY <1>2
  <2>2. open[i - 1] = acc[i - 1].open /\ open[i] = acc[i].open
    BY <2>1
  <2>3. Tags(lines)[i] = acc[i].tags[i]
    BY <1>1, <1>9, <2>1
  <2>4. Tags(lines)[i] = NextTag(acc[i - 1], lines, i)
    BY <1>5, <2>3
  <2>5. i > 1 => Tags(lines)[i - 1] = acc[i - 1].tags[i - 1]
    <3>1. SUFFICES ASSUME i > 1 PROVE Tags(lines)[i - 1] = acc[i - 1].tags[i - 1]
      OBVIOUS
    <3>2. i - 1 \in 1..n /\ i - 1 \in 1..(i - 1)
      BY <1>2, <3>1
    <3>3. QED
      BY <1>1, <1>9, <2>1, <3>2
  <2>6. NextTag(acc[i - 1], lines, i) = TagHere(lines, Tags(lines), acc[i - 1].open, i)
    BY <2>5 DEF NextTag, TagHere
  <2>7. QED
    BY <1>5, <2>2, <2>4, <2>6
<1>12. QED
  BY <1>10, <1>11 DEF n

\* A text without its line numbers.
Bare(t) == Only(t, Raw \ {Number})
Blanks == {Newline, Indent}

LEMMA BareIs ==
    /\ Bare(<<>>) = <<>>
    /\ \A t \in Seq(Raw) : StripLineNumbers(t) = Bare(t) /\ Bare(t) \in Seq(Raw)
    /\ \A t \in Seq(Raw), x \in Raw :
          Bare(Append(t, x)) = IF x = Number THEN Bare(t) ELSE Append(Bare(t), x)
<1>1. ASSUME NEW t \in Seq(Raw) PROVE StripLineNumbers(t) = Bare(t)
  <2>1. \A x \in Range(t) : x \in Raw
    BY LenProperties, ElementOfSeq DEF Range
  <2>2. QED
    BY <2>1, OnlyAgree DEF StripLineNumbers, Bare
<1>2. ASSUME NEW t \in Seq(Raw), NEW x \in Raw
      PROVE  Bare(Append(t, x)) = IF x = Number THEN Bare(t) ELSE Append(Bare(t), x)
  <2> DEFINE D == Raw \ {Number}
  <2>1. Only(Append(t, x), D) = IF x \in D THEN Append(Only(t, D), x) ELSE Only(t, D)
    <3> HIDE DEF D
    <3>1. \A s \in Seq(Raw), y \in Raw :
             Only(Append(s, y), D) = IF y \in D THEN Append(Only(s, D), y) ELSE Only(s, D)
      BY ONLY OnlyIs
    <3>2. QED
      BY <3>1
  <2>2. x \in D <=> x # Number
    OBVIOUS
  <2>3. QED
    BY <2>1, <2>2 DEF Bare
<1>3. Bare(<<>>) = <<>> /\ \A t \in Seq(Raw) : Bare(t) \in Seq(Raw)
  BY OnlyIs DEF Bare
<1>4. QED
  BY <1>1, <1>2, <1>3

\* What is left of a text after its runs of blank lines were shortened has the
\* lines of the text that are not blank.
Match(out, text) == Ends(Lines(Bare(out)), Lines(Bare(text)), Blanks)

LEMMA BlanksAre ==
    /\ Blanks \in SUBSET Raw /\ Newline \in Blanks /\ Newline \in Raw /\ Indent \in Raw
    /\ \A x \in Blanks : x # Number /\ (x = Newline \/ x = Indent) /\ Newline # Indent
  BY DEF Blanks, Raw, Newline, Indent, Number, Item

\* An item more in both.
LEMMA MatchItem ==
    ASSUME NEW out \in Seq(Raw), NEW text \in Seq(Raw), Match(out, text), NEW x \in Raw
    PROVE  Match(Append(out, x), Append(text, x))
<1> DEFINE S == Lines(Bare(out))
           L == Lines(Bare(text))
           T == LineStep(S, x)
           M == LineStep(L, x)
<1>1. PICK f : Squeezed(f, S, L, Blanks) /\ f[Len(S)] = Len(L)
  BY DEF Match, Ends
<1>2. Bare(out) \in Seq(Raw) /\ Bare(text) \in Seq(Raw)
  BY BareIs
<1>3. S \in Pages(Raw) /\ L \in Pages(Raw)
  BY <1>2, LinesAre
<1>4. CASE x = Number
  <2>1. Bare(Append(out, x)) = Bare(out) /\ Bare(Append(text, x)) = Bare(text)
    BY <1>4, BareIs
  <2>2. QED
    BY <2>1 DEF Match
<1>5. ASSUME x # Number
      PROVE  Lines(Bare(Append(out, x))) = T /\ Lines(Bare(Append(text, x))) = M
  <2>1. Bare(Append(out, x)) = Append(Bare(out), x) /\ Bare(Append(text, x)) = Append(Bare(text), x)
    BY <1>5, BareIs
  <2>2. QED
    BY <1>2, <2>1, LinesAppend
<1> HIDE DEF S, L
<1>6. /\ S \in Seq(Seq(Raw)) /\ L \in Seq(Seq(Raw))
      /\ Len(S) \in Nat /\ Len(S) >= 1 /\ Len(L) \in Nat /\ Len(L) >= 1
  BY <1>3, LineStepIs DEF Pages
<1>7. CASE x = Newline
  <2>1. /\ Len(T) = Len(S) + 1 /\ T[Len(S) + 1] = <<>> /\ \A i \in 1..Len(S) : T[i] = S[i]
        /\ Len(M) = Len(L) + 1 /\ M[Len(L) + 1] = <<>> /\ \A i \in 1..Len(L) : M[i] = L[i]
    BY <1>3, <1>7, LineStepIs
  <2> HIDE DEF T, M
  <2>2. <<>> \in Seq(Blanks)
    BY EmptySeq
  <2>3. M[Len(M)] \in Seq(Blanks) /\ Len(M) \in Nat /\ T[Len(T)] = <<>> /\ Len(S) \in Nat \ {0}
    BY <1>6, <2>1, <2>2
  <2>4. Squeezed(f, S, M, Blanks)
    BY <1>1, <1>6, <2>1, <2>3, KeptBlank
  <2>5. f[Len(S)] < Len(M) /\ Len(M) = f[Len(S)] + 1
    BY <1>1, <1>6, <2>1
  <2>6. Ends(T, M, Blanks)
    BY <2>1, <2>3, <2>4, <2>5, KeptNext
  <2>7. x # Number
    BY <1>7, BlanksAre
  <2>8. QED
    BY <1>5, <2>6, <2>7 DEF Match
<1>8. CASE x # Newline /\ x # Number
  <2>1. /\ Len(T) = Len(S) /\ T[Len(S)] = Append(S[Len(S)], x)
        /\ \A i \in 1..(Len(S) - 1) : T[i] = S[i]
        /\ Len(M) = Len(L) /\ M[Len(L)] = Append(L[Len(L)], x)
        /\ \A i \in 1..(Len(L) - 1) : M[i] = L[i]
    BY <1>3, <1>8, LineStepIs
  <2> HIDE DEF T, M
  <2>2. Squeezed(f, T, M, Blanks)
    <3>1. Len(S) # 0 /\ Blanks \in SUBSET Raw
      BY <1>6, BlanksAre
    <3>2. QED
      BY <1>1, <1>6, <2>1, <3>1, KeptLast
  <2>3. f[Len(T)] = Len(M)
    BY <1>1, <2>1
  <2>4. QED
    BY <1>5, <1>8, <2>2, <2>3 DEF Match, Ends
<1>9. QED
  BY <1>4, <1>7, <1>8

LEMMA MatchRun ==
    ASSUME NEW out \in Seq(Raw), NEW text \in Seq(Raw), Match(out, text), NEW run \in Seq(Raw)
    PROVE  Match(out \o run, text \o run)
<1> DEFINE Q == {r \in Seq(Raw) : Match(out \o r, text \o r)}
<1>1. <<>> \in Q
  <2>1. out \o <<>> = out /\ text \o <<>> = text /\ <<>> \in Seq(Raw)
    BY ConcatLaws, EmptySeq
  <2>2. QED
    BY <2>1
<1>2. ASSUME NEW r \in Q, NEW x \in Raw PROVE Append(r, x) \in Q
  <2>1. r \in Seq(Raw) /\ Match(out \o r, text \o r)
    OBVIOUS
  <2>2. /\ out \o r \in Seq(Raw) /\ text \o r \in Seq(Raw) /\ Append(r, x) \in Seq(Raw)
        /\ out \o Append(r, x) = Append(out \o r, x) /\ text \o Append(r, x) = Append(text \o r, x)
    BY <2>1, ConcatLaws, AppendProperties
  <2>3. Match(Append(out \o r, x), Append(text \o r, x))
    BY <2>1, <2>2, MatchItem
  <2>4. QED
    BY <2>2, <2>3
<1>3. \A r \in Seq(Raw) : r \in Q
  <2>1. Q \in SUBSET Seq(Raw)
    OBVIOUS
  <2> HIDE DEF Q
  <2>2. QED
    BY <1>1, <1>2, <2>1, SequencesAll
<1>4. QED
  BY <1>3

\* Blank lines more in the text only.
LEMMA MatchBlanks ==
    ASSUME NEW S, NEW m \in Nat, Len(S) \in Nat \ {0}, S[Len(S)] = <<>>,
           NEW text \in Seq(Raw), NEW f, Squeezed(f, S, Lines(Bare(text)), Blanks),
           Len(Lines(Bare(text))) = m, Lines(Bare(text))[m] \in Seq(Blanks),
           NEW run \in Seq(Blanks), NEW M, M = Lines(Bare(text \o run))
    PROVE  /\ Squeezed(f, S, M, Blanks) /\ M[Len(M)] \in Seq(Blanks) /\ Len(M) \in Nat
           /\ Newline \in Range(run) => Len(M) > m
<1> DEFINE P(t) == Lines(Bare(text \o t))
           Ok(t) == /\ Squeezed(f, S, P(t), Blanks) /\ P(t)[Len(P(t))] \in Seq(Blanks)
                    /\ Len(P(t)) >= m /\ (Newline \in Range(t) => Len(P(t)) > m)
           Q == {t \in Seq(Blanks) : Ok(t)}
<1>0. ASSUME NEW t \in Seq(Blanks) PROVE t \in Seq(Raw) /\ text \o t \in Seq(Raw)
  BY BlanksAre, SeqMonotonic, ConcatLaws
<1>1. ASSUME NEW t \in Seq(Blanks)
      PROVE  P(t) \in Pages(Raw) /\ Len(P(t)) \in Nat /\ Len(P(t)) >= 1
  <2>1. P(t) \in Pages(Raw)
    BY <1>0, BareIs, LinesAre
  <2>2. QED
    BY <2>1, BlanksAre, LineStepIs
<1>2. <<>> \in Q
  <2>1. <<>> \in Seq(Blanks) /\ text \o <<>> = text /\ Range(<<>>) = {}
    BY ConcatLaws, EmptySeq DEF Range
  <2>2. P(<<>>) = Lines(Bare(text))
    BY <2>1
  <2>3. QED
    BY <2>1, <2>2
<1>3. ASSUME NEW t \in Q, NEW x \in Blanks PROVE Append(t, x) \in Q
  <2> DEFINE L == P(t)
             N == LineStep(L, x)
             tt == Append(t, x)
  <2>1. t \in Seq(Blanks) /\ Ok(t)
    OBVIOUS
  <2> HIDE DEF Q
  <2>2. tt \in Seq(Blanks) /\ x \in Raw /\ x # Number
    BY <2>1, BlanksAre, AppendProperties
  <2>3. P(tt) = N
    <3>1. t \in Seq(Raw) /\ text \o t \in Seq(Raw)
      BY <1>0, <2>1
    <3>2. text \o tt = Append(text \o t, x)
      BY <2>2, <3>1, ConcatLaws
    <3>3. Bare(text \o tt) = Append(Bare(text \o t), x) /\ Bare(text \o t) \in Seq(Raw)
      BY <2>2, <3>1, <3>2, BareIs
    <3>4. QED
      BY <2>2, <3>3, LinesAppend
  <2>4. /\ L \in Pages(Raw) /\ Len(L) \in Nat /\ Len(L) >= 1
        /\ Squeezed(f, S, L, Blanks) /\ L[Len(L)] \in Seq(Blanks)
        /\ Len(L) >= m /\ (Newline \in Range(t) => Len(L) > m)
    BY <1>1, <2>1
  <2>5. Range(tt) = Range(t) \cup {x}
    BY <2>1, RangeAppend
  <2> HIDE DEF L, tt, P
  <2>6. CASE x = Newline
    <3>1. Len(N) = Len(L) + 1 /\ N[Len(L) + 1] = <<>> /\ \A i \in 1..Len(L) : N[i] = L[i]
      BY <2>2, <2>4, <2>6, LineStepIs
    <3> HIDE DEF N
    <3>2. N[Len(N)] \in Seq(Blanks)
      BY <3>1, EmptySeq
    <3>3. Squeezed(f, S, N, Blanks)
      BY <2>4, <3>1, <3>2, KeptBlank
    <3>4. Len(N) >= m /\ Len(N) > m
      BY <2>4, <3>1
    <3>5. QED
      BY <2>2, <2>3, <3>2, <3>3, <3>4 DEF Q, tt
  <2>7. CASE x # Newline
    <3>1. /\ Len(N) = Len(L) /\ N[Len(L)] = Append(L[Len(L)], x)
          /\ \A i \in 1..(Len(L) - 1) : N[i] = L[i]
      BY <2>2, <2>4, <2>7, LineStepIs
    <3> HIDE DEF N
    <3>2. Squeezed(f, S, N, Blanks) /\ N[Len(N)] \in Seq(Blanks)
      <4>1. Len(L) \in Nat \ {0}
        BY <2>4
      <4>2. QED
        BY <2>4, <3>1, <4>1, KeptSpace
    <3>3. Len(N) >= m /\ (Newline \in Range(tt) => Len(N) > m)
      BY <2>4, <2>5, <2>7, <3>1
    <3>4. QED
      BY <2>2, <2>3, <3>2, <3>3 DEF Q, tt
  <2>8. QED
    BY <2>6, <2>7
<1>4. \A t \in Seq(Blanks) : t \in Q
  <2>1. Q \in SUBSET Seq(Blanks)
    OBVIOUS
  <2> HIDE DEF Q
  <2>2. QED
    BY <1>2, <1>3, <2>1, SequencesAll
<1>5. QED
  BY <1>1, <1>4

LEMMA MatchEmpty == Match(<<>>, <<>>)
<1> DEFINE S == << <<>> >>
           f == [i \in 1..1 |-> 1]
<1>1. Bare(<<>>) = <<>> /\ Lines(<<>>) = S
  <2>1. <<>> \in Seq(Raw)
    BY EmptySeq
  <2>2. PICK acc \in [0..Len(<<>>) -> Pages(Raw)] : acc[0] = S /\ Lines(<<>>) = acc[Len(<<>>)]
    BY <2>1, LinesLoop
  <2>3. QED
    BY <2>2, BareIs
<1>2. Len(S) = 1 /\ S[1] = <<>>
  OBVIOUS
<1>3. f[1] = 1 /\ f \in [1..1 -> 1..1] /\ \A i \in 1..1 : i = 1
  OBVIOUS
<1>4. <<>> \in Seq(Blanks) /\ <<>> \o <<>> = <<>>
  BY EmptySeq, ConcatLaws
<1> HIDE DEF S, f
<1>5. \A i \in 1..Len(S) : S[i] \in Seq(Blanks) /\ S[f[i]] = <<>> \o S[i]
  BY <1>2, <1>3, <1>4
<1>6. \A i \in 1..(Len(S) - 1) : FALSE
  BY <1>2
<1>7. \A i, j \in 1..Len(S) : i < j => f[i] < f[j]
  BY <1>2, <1>3
<1>8. Squeezed(f, S, S, Blanks)
  BY <1>2, <1>3, <1>4, <1>5, <1>6, <1>7 DEF Squeezed
<1>9. QED
  BY <1>1, <1>2, <1>3, <1>8 DEF Match, Ends

\* A run of blank lines, shortened or not.
LEMMA MatchCollapsed ==
    ASSUME NEW out \in Seq(Raw), NEW text \in Seq(Raw), Match(out, text),
           NEW run \in Seq(Blanks), run # <<>> => run[1] = Newline
    PROVE  /\ Match(out \o Collapsed(run), text \o run)
           /\ out \o Collapsed(run) \in Seq(Raw) /\ text \o run \in Seq(Raw)
<1> DEFINE Breaks == {i \in DOMAIN run : run[i] = Newline}
           many == Cardinality(Breaks) >= 3
           rest == Tail(run)
           two == <<Newline, Newline>>
<1>1. Collapsed(run) = IF many THEN two ELSE run
  BY DEF Collapsed, Quantify
<1>2. run \in Seq(Raw) /\ Newline \in Raw /\ Newline \in Blanks /\ Newline # Number
  BY BlanksAre, SeqMonotonic
<1>3. CASE ~many
  <2>1. Collapsed(run) = run
    BY <1>1, <1>3
  <2>2. QED
    BY <1>2, <2>1, MatchRun, ConcatLaws
<1>4. CASE many
  <2>1. Len(run) \in Nat /\ DOMAIN run = 1..Len(run)
    BY LenProperties
  <2>2. PICK k \in Breaks : k # 1
    <3>1. SUFFICES ASSUME Breaks \subseteq {1} PROVE FALSE
      OBVIOUS
    <3> HIDE DEF Breaks
    <3>2. IsFiniteSet({1}) /\ Cardinality({1}) = 1
      BY FS_Singleton
    <3>3. Cardinality(Breaks) <= 1
      BY <3>1, <3>2, FS_Subset
    <3>4. Cardinality(Breaks) \in Nat
      BY <3>1, <3>2, FS_Subset, FS_CardinalityType
    <3>5. QED
      BY <1>4, <3>3, <3>4
  <2>3. k \in 1..Len(run) /\ run[k] = Newline
    BY <2>1
  <2>4. run # <<>> /\ run[1] = Newline
    BY <2>1, <2>3, EmptySeq
  <2>5. /\ rest \in Seq(Blanks) /\ Len(rest) = Len(run) - 1
        /\ \A i \in 1..Len(rest) : rest[i] = run[i + 1]
    BY <2>4, HeadTailProperties
  <2>6. run = <<Newline>> \o rest
    <3>1. run = <<run[1]>> \o rest
      BY <2>4, HeadAndTail
    <3>2. QED
      BY <2>4, <3>1
  <2>7. Newline \in Range(rest)
    <3>1. k - 1 \in 1..Len(rest) /\ (k - 1) + 1 = k
      BY <2>1, <2>2, <2>3, <2>5
    <3>2. rest[k - 1] = Newline /\ DOMAIN rest = 1..Len(rest)
      BY <2>3, <2>5, <3>1, LenProperties
    <3>3. QED
      BY <3>1, <3>2 DEF Range
  <2> DEFINE o1 == Append(out, Newline)
             t1 == Append(text, Newline)
             S == Lines(Bare(o1))
             L == Lines(Bare(t1))
             M == Lines(Bare(t1 \o rest))
  <2> HIDE DEF rest
  <2>8. o1 \in Seq(Raw) /\ t1 \in Seq(Raw) /\ Match(o1, t1)
    BY <1>2, MatchItem, AppendProperties
  <2>9. text \o run = t1 \o rest /\ out \o two = Append(o1, Newline)
    <3>1. rest \in Seq(Raw) /\ <<Newline>> \in Seq(Raw)
      BY <1>2, <2>5, BlanksAre, SeqMonotonic
    <3>2. text \o <<Newline>> = t1 /\ out \o <<Newline>> = o1
      BY <1>2
    <3>3. text \o run = (text \o <<Newline>>) \o rest
      BY <2>6, <3>1, ConcatLaws
    <3>4. out \o two = Append(o1, Newline)
      <4>1. two = Append(<<Newline>>, Newline)
        OBVIOUS
      <4>2. out \o Append(<<Newline>>, Newline) = Append(out \o <<Newline>>, Newline)
        BY <1>2, <3>1, ConcatLaws
      <4>3. QED
        BY <3>2, <4>1, <4>2
    <3>5. QED
      BY <3>2, <3>3, <3>4
  <2>10. PICK f : Squeezed(f, S, L, Blanks) /\ f[Len(S)] = Len(L)
    BY <2>8 DEF Match, Ends
  <2>11. /\ Bare(o1) = Append(Bare(out), Newline) /\ Bare(t1) = Append(Bare(text), Newline)
         /\ Bare(Append(o1, Newline)) = Append(Bare(o1), Newline)
         /\ Bare(out) \in Seq(Raw) /\ Bare(text) \in Seq(Raw) /\ Bare(o1) \in Seq(Raw)
         /\ Bare(t1) \in Seq(Raw)
    BY <1>2, <2>8, BareIs
  <2>12. /\ S = LineStep(Lines(Bare(out)), Newline) /\ L = LineStep(Lines(Bare(text)), Newline)
         /\ Lines(Bare(Append(o1, Newline))) = LineStep(S, Newline)
         /\ Lines(Bare(out)) \in Pages(Raw) /\ Lines(Bare(text)) \in Pages(Raw)
         /\ S \in Pages(Raw)
    BY <1>2, <2>11, LinesAppend, LinesAre
  <2> HIDE DEF S, L, M, o1, t1
  <2>13. \A p \in Pages(Raw) :
            /\ Len(p) \in Nat /\ Len(LineStep(p, Newline)) = Len(p) + 1
            /\ LineStep(p, Newline)[Len(p) + 1] = <<>>
            /\ \A i \in 1..Len(p) : LineStep(p, Newline)[i] = p[i]
    BY <1>2, LineStepIs
  <2>14. /\ Len(S) \in Nat \ {0} /\ Len(L) \in Nat /\ S[Len(S)] = <<>> /\ L[Len(L)] = <<>>
    BY <2>12, <2>13
  <2>15. <<>> \in Seq(Blanks)
    BY EmptySeq
  <2>16. /\ Squeezed(f, S, M, Blanks) /\ M[Len(M)] \in Seq(Blanks) /\ Len(M) \in Nat
         /\ Len(M) > Len(L)
    BY <2>5, <2>7, <2>8, <2>10, <2>14, <2>15, MatchBlanks DEF L, M
  <2>17. Ends(LineStep(S, Newline), M, Blanks)
    <3>1. /\ Len(LineStep(S, Newline)) = Len(S) + 1
          /\ LineStep(S, Newline)[Len(S) + 1] = <<>>
          /\ \A i \in 1..Len(S) : LineStep(S, Newline)[i] = S[i]
      BY <2>12, <2>13
    <3> DEFINE T == LineStep(S, Newline)
    <3> HIDE DEF T
    <3>2. /\ Len(T) = Len(S) + 1 /\ T[Len(T)] = <<>> /\ \A i \in 1..Len(S) : T[i] = S[i]
      BY <3>1 DEF T
    <3>3. S[Len(S)] \in Seq(Blanks) /\ f[Len(S)] < Len(M)
      BY <2>10, <2>14, <2>15, <2>16
    <3>4. Ends(T, M, Blanks)
      BY <2>14, <2>16, <3>2, <3>3, KeptNext
    <3>5. QED
      BY <3>4 DEF T
  <2>18. Match(Append(o1, Newline), t1 \o rest)
    BY <2>12, <2>17 DEF Match, M
  <2>19. Append(o1, Newline) \in Seq(Raw) /\ text \o run \in Seq(Raw)
    BY <1>2, <2>8, AppendProperties, ConcatLaws
  <2>20. QED
    BY <1>1, <1>4, <2>9, <2>18, <2>19
<1>5. QED
  BY <1>3, <1>4

\* So for the whole of a text.
LEMMA CollapseMatch ==
    ASSUME NEW text \in Seq(Raw)
    PROVE  Match(CollapseBlankRuns(text), text) /\ CollapseBlankRuns(text) \in Seq(Raw)
<1> DEFINE n == Len(text)
<1>1. n \in Nat /\ Newline \in Raw /\ \A i \in 1..n : text[i] \in Raw
  BY BlanksAre, LenProperties, ElementOfSeq
<1>2. PICK acc \in [0..n -> Runs(Raw)] :
         /\ acc[0] = [out |-> <<>>, run |-> <<>>]
         /\ \A i \in 1..n : acc[i] = RunStep(acc[i - 1], text[i])
         /\ CollapseBlankRuns(text) = acc[n].out \o Collapsed(acc[n].run)
  BY <1>1, CollapseLoop
<1>3. ASSUME NEW i \in 0..n PROVE acc[i].out \in Seq(Raw) /\ acc[i].run \in Seq(Blanks)
  <2>1. Raw \cap {Newline, Indent} = Blanks
    BY BlanksAre DEF Blanks
  <2>2. QED
    BY <1>2, <2>1 DEF Runs
<1> DEFINE First(i) == SubSeq(text, 1, i)
           Ok(i) == /\ acc[i].run # <<>> => acc[i].run[1] = Newline
                    /\ \E y \in Seq(Raw) : /\ First(i) = y \o acc[i].run
                                           /\ Match(acc[i].out, y)
           Q == {i \in 0..n : Ok(i)}
<1>4. First(n) = text /\ First(0) = <<>>
      /\ \A i \in 1..n : First(i) = Append(First(i - 1), text[i])
  BY <1>1, SubSeqGrows
<1> HIDE DEF First
<1>5. 0 \in Q
  <2>1. acc[0].out = <<>> /\ acc[0].run = <<>>
    BY <1>2
  <2>2. Match(<<>>, <<>>)
    BY MatchEmpty
  <2>3. <<>> \in Seq(Raw) /\ <<>> \o <<>> = <<>>
    BY EmptySeq, ConcatLaws
  <2>4. 0 \in 0..n
    BY <1>1
  <2>5. Ok(0)
    BY <1>4, <2>1, <2>2, <2>3
  <2>6. QED
    BY <2>4, <2>5
<1>6. ASSUME NEW i \in 1..n, i - 1 \in Q PROVE i \in Q
  <2> DEFINE x == text[i]
             o == acc[i - 1].out
             r == acc[i - 1].run
  <2>1. i - 1 \in 0..n /\ i \in 0..n /\ x \in Raw /\ First(i) = Append(First(i - 1), x)
    BY <1>1, <1>4
  <2>2. r # <<>> => r[1] = Newline
    BY <1>6
  <2>3. PICK y \in Seq(Raw) : First(i - 1) = y \o r /\ Match(o, y)
    BY <1>6
  <2>4. acc[i] = RunStep(acc[i - 1], x) /\ o \in Seq(Raw) /\ r \in Seq(Blanks)
    BY <1>2, <1>3, <2>1
  <2>5. r \in Seq(Raw) /\ Blanks \in SUBSET Raw
    BY <2>4, BlanksAre, SeqMonotonic
  <2>6. acc[i - 1] = [out |-> o, run |-> r]
    <3>1. acc[i - 1] \in Runs(Raw)
      BY <1>2, <2>1
    <3>2. QED
      BY <3>1 DEF Runs
  <2> HIDE DEF x, o, r, Q
  <2>7. CASE x = Newline \/ (x = Indent /\ r # <<>>)
    <3>1. acc[i].out = o /\ acc[i].run = Append(r, x)
      BY <2>4, <2>6, <2>7 DEF RunStep
    <3>2. First(i) = y \o Append(r, x)
      <4>1. y \o Append(r, x) = Append(y \o r, x)
        BY ONLY <2>1, <2>5, ConcatLaws
      <4>2. QED
        BY <2>1, <2>3, <4>1
    <3>3. Append(r, x) # <<>> => Append(r, x)[1] = Newline
      <4>1. CASE r = <<>>
        BY <2>7, <4>1
      <4>2. CASE r # <<>>
        <5>1. Len(r) \in Nat /\ Len(r) # 0
          BY <2>4, <4>2, EmptySeq, LenProperties
        <5>2. 1 \in 1..Len(r)
          BY <5>1
        <5>3. Append(r, x)[1] = r[1]
          BY <2>5, <2>1, <5>2, AppendProperties
        <5>4. QED
          BY <2>2, <4>2, <5>3
      <4>3. QED
        BY <4>1, <4>2
    <3>4. QED
      BY <2>1, <2>3, <3>1, <3>2, <3>3 DEF Q
  <2>8. CASE ~(x = Newline \/ (x = Indent /\ r # <<>>))
    <3> DEFINE c == o \o Collapsed(r)
               z == y \o r
    <3>1. acc[i].out = Append(c, x) /\ acc[i].run = <<>>
      BY <2>4, <2>6, <2>8 DEF RunStep
    <3>2. Match(c, z) /\ c \in Seq(Raw) /\ z \in Seq(Raw)
      BY <2>2, <2>3, <2>4, MatchCollapsed
    <3>3. First(i) = Append(z, x)
      BY <2>1, <2>3
    <3> HIDE DEF c, z
    <3>4. Match(Append(c, x), Append(z, x)) /\ Append(z, x) \in Seq(Raw)
      BY <2>1, <3>2, MatchItem, AppendProperties
    <3>5. Append(z, x) \o <<>> = Append(z, x)
      BY <3>4, ConcatLaws
    <3>6. QED
      BY <2>1, <3>1, <3>3, <3>4, <3>5 DEF Q
  <2>9. QED
    BY <2>7, <2>8
<1>7. n \in Q
  <2> HIDE DEF Q, n
  <2>1. \A i \in 0..n : i \in Q
    BY <1>1, <1>5, <1>6, UpTo
  <2>2. n \in 0..n
    BY <1>1
  <2>3. QED
    BY <2>1, <2>2
<1>8. n \in 0..n
  BY <1>1
<1>9. PICK y \in Seq(Raw) : text = y \o acc[n].run /\ Match(acc[n].out, y)
  BY <1>4, <1>7
<1>10. acc[n].run # <<>> => acc[n].run[1] = Newline
  BY <1>7
<1>11. acc[n].out \in Seq(Raw) /\ acc[n].run \in Seq(Blanks)
  BY <1>3, <1>8
<1>12. QED
  BY <1>2, <1>9, <1>10, <1>11, MatchCollapsed

\* The lines of what is segmented are lines of the document, of which blank lines
\* and indentation may be missing.
LEMMA ReadKept ==
    ASSUME NEW text, IsGiven(text)
    PROVE  /\ Original(text) \in Seq(Raw) /\ ReadText(text) \in Seq(Raw) /\ IsGiven(Original(text))
           /\ Original(text) = Only(Only(text, Raw \ {Escape}), Raw \ {Number})
           /\ Ends(Lines(ReadText(text)), Lines(Original(text)), Blanks)
<1> DEFINE plain == StripANSI(text)
<1>1. text \in Seq(Raw) /\ IsGiven(plain) /\ plain \in Seq(Raw)
  BY StripKeepsGiven DEF IsGiven
<1>2. plain = Only(text, Raw \ {Escape})
  <2>1. \A x \in Range(text) : x \in Raw
    BY <1>1, LenProperties, ElementOfSeq DEF Range
  <2>2. QED
    BY <1>1, <2>1, OnlyAgree DEF StripANSI
<1> HIDE DEF plain
<1>3. Match(CollapseBlankRuns(plain), plain) /\ CollapseBlankRuns(plain) \in Seq(Raw)
  BY <1>1, CollapseMatch
<1>4. /\ Original(text) = Bare(plain) /\ Bare(plain) \in Seq(Raw)
      /\ ReadText(text) = Bare(CollapseBlankRuns(plain))
      /\ Bare(CollapseBlankRuns(plain)) \in Seq(Raw)
  BY <1>1, <1>3, BareIs DEF Original, ReadText, ANSIStrip, plain
<1>5. IsGiven(Original(text))
  BY <1>1, <1>4, OnlyKeepsGiven DEF Bare
<1>6. QED
  BY <1>2, <1>3, <1>4, <1>5 DEF Match, Bare

\* Leaving items out leaves them out of every line.
LEMMA OnlyLines ==
    ASSUME NEW B, NEW D, Newline \in D, NEW text \in Seq(B)
    PROVE  /\ Len(Lines(Only(text, D))) = Len(Lines(text))
           /\ \A i \in 1..Len(Lines(text)) : Lines(Only(text, D))[i] = Only(Lines(text)[i], D)
<1> DEFINE Ok(t) == /\ Len(Lines(Only(t, D))) = Len(Lines(t))
                    /\ \A i \in 1..Len(Lines(t)) : Lines(Only(t, D))[i] = Only(Lines(t)[i], D)
           Q == {t \in Seq(B) : Ok(t)}
<1>1. <<>> \in Q
  <2>1. <<>> \in Seq(B) /\ Only(<<>>, D) = <<>>
    BY EmptySeq, OnlyIs
  <2>2. PICK acc \in [0..Len(<<>>) -> Pages(B)] :
           acc[0] = << <<>> >> /\ Lines(<<>>) = acc[Len(<<>>)]
    BY <2>1, LinesLoop
  <2>3. Lines(<<>>) = << <<>> >>
    BY <2>2
  <2> DEFINE one == << <<>> >>
  <2>4. Len(one) = 1 /\ one[1] = <<>>
    OBVIOUS
  <2> HIDE DEF one
  <2>5. \A i \in 1..1 : one[i] = Only(one[i], D)
    BY <2>1, <2>4
  <2>6. Ok(<<>>)
    BY <2>1, <2>3, <2>4, <2>5 DEF one
  <2>7. QED
    BY <2>1, <2>6
<1>2. ASSUME NEW t \in Q, NEW x \in B PROVE Append(t, x) \in Q
  <2> DEFINE L == Lines(t)
             S == Lines(Only(t, D))
             M == Lines(Append(t, x))
             T == Lines(Only(Append(t, x), D))
  <2>1. t \in Seq(B) /\ Only(t, D) \in Seq(B) /\ Append(t, x) \in Seq(B)
    BY OnlyIs, AppendProperties
  <2>2. Len(S) = Len(L) /\ \A i \in 1..Len(L) : S[i] = Only(L[i], D)
    OBVIOUS
  <2>3. L \in Pages(B) /\ S \in Pages(B) /\ M = LineStep(L, x)
        /\ Only(Append(t, x), D) = IF x \in D THEN Append(Only(t, D), x) ELSE Only(t, D)
    <3>1. \A s \in Seq(B), y \in B :
             Only(Append(s, y), D) = IF y \in D THEN Append(Only(s, D), y) ELSE Only(s, D)
      BY ONLY OnlyIs
    <3>2. QED
      BY <2>1, <3>1, LinesAre, LinesAppend
  <2>4. IF x \in D THEN T = LineStep(S, x) ELSE T = S
    BY <2>1, <2>3, LinesAppend
  <2> HIDE DEF L, S, M, T
  <2>5. /\ Len(L) \in Nat /\ Len(L) >= 1 /\ \A i \in 1..Len(L) : L[i] \in Seq(B)
    BY <2>3, LineStepIs, LenProperties, ElementOfSeq DEF Pages
  <2>6. CASE x = Newline
    <3>1. /\ Len(M) = Len(L) + 1 /\ M[Len(L) + 1] = <<>> /\ \A i \in 1..Len(L) : M[i] = L[i]
          /\ Len(T) = Len(S) + 1 /\ T[Len(S) + 1] = <<>> /\ \A i \in 1..Len(S) : T[i] = S[i]
      BY <2>3, <2>4, <2>6, LineStepIs
    <3>2. Only(<<>>, D) = <<>>
      BY OnlyIs
    <3>3. \A i \in 1..Len(M) : i \in 1..Len(L) \/ i = Len(L) + 1
      BY <2>5, <3>1
    <3>4. \A i \in 1..Len(M) : T[i] = Only(M[i], D)
      BY <2>2, <3>1, <3>2, <3>3
    <3>5. QED
      BY <2>1, <2>2, <3>1, <3>4 DEF M, T
  <2>7. CASE x # Newline
    <3>1. /\ Len(M) = Len(L) /\ M[Len(L)] = Append(L[Len(L)], x)
          /\ \A i \in 1..(Len(L) - 1) : M[i] = L[i]
      BY <2>3, <2>7, LineStepIs
    <3>2. \A i \in 1..Len(L) : i = Len(L) \/ i \in 1..(Len(L) - 1)
      BY <2>5
    <3>3. Len(L) \in 1..Len(L) /\ \A i \in 1..(Len(L) - 1) : i \in 1..Len(L)
      BY <2>5
    <3>4. Only(M[Len(L)], D) = IF x \in D THEN Append(Only(L[Len(L)], D), x)
                               ELSE Only(L[Len(L)], D)
      <4>1. \A s \in Seq(B), y \in B :
               Only(Append(s, y), D) = IF y \in D THEN Append(Only(s, D), y) ELSE Only(s, D)
        BY ONLY OnlyIs
      <4> DEFINE l == L[Len(L)]
      <4>2. l \in Seq(B) /\ M[Len(L)] = Append(l, x)
        BY <2>5, <3>1, <3>3
      <4> HIDE DEF l
      <4>3. Only(M[Len(L)], D) = IF x \in D THEN Append(Only(l, D), x) ELSE Only(l, D)
        BY <4>1, <4>2
      <4>4. QED
        BY <4>3 DEF l
    <3>5. CASE x \in D
      <4>0. T = LineStep(S, x) /\ S \in Pages(B)
        BY <2>3, <2>4, <3>5
      <4>1. /\ Len(T) = Len(S) /\ T[Len(S)] = Append(S[Len(S)], x)
            /\ \A i \in 1..(Len(S) - 1) : T[i] = S[i]
        BY <2>7, <4>0, LineStepIs
      <4>2. T[Len(L)] = Only(M[Len(L)], D)
        BY <2>2, <3>3, <3>4, <3>5, <4>1
      <4>3. \A i \in 1..Len(M) : T[i] = Only(M[i], D)
        BY <2>2, <3>1, <3>2, <3>3, <4>1, <4>2
      <4>4. QED
        BY <2>1, <2>2, <3>1, <4>1, <4>3 DEF M, T
    <3>6. CASE x \notin D
      <4>1. \A i \in 1..Len(M) : T[i] = Only(M[i], D)
        BY <2>2, <2>4, <3>1, <3>2, <3>3, <3>4, <3>6
      <4>2. QED
        BY <2>1, <2>2, <2>4, <3>1, <3>6, <4>1 DEF M, T
    <3>7. QED
      BY <3>5, <3>6
  <2>8. QED
    BY <2>6, <2>7
<1>3. \A t \in Seq(B) : t \in Q
  <2>1. Q \in SUBSET Seq(B)
    OBVIOUS
  <2> HIDE DEF Q
  <2>2. QED
    BY <1>1, <1>2, <2>1, SequencesAll
<1>4. QED
  BY <1>3

\* A line that has one word at most.
Single(line) == \A i, j \in DOMAIN line : IsWord(line[i]) /\ IsWord(line[j]) => i = j

LEMMA SingleIs ==
    ASSUME NEW lines
    PROVE  OneWord(lines) <=> \A i \in DOMAIN lines : Single(lines[i])
  BY DEF OneWord, Single, Range

LEMMA OnlySingle ==
    ASSUME NEW B, NEW D, Newline \in D, NEW text \in Seq(B), OneWord(Lines(text))
    PROVE  OneWord(Lines(Only(text, D)))
<1> DEFINE L == Lines(text)
           S == Lines(Only(text, D))
<1>1. Len(S) = Len(L) /\ \A i \in 1..Len(L) : S[i] = Only(L[i], D)
  BY OnlyLines
<1>2. L \in Seq(Seq(B)) /\ S \in Seq(Seq(B))
  <2>1. Only(text, D) \in Seq(B)
    BY OnlyIs
  <2>2. QED
    BY <2>1, LinesAre DEF Pages
<1>3. \A i \in DOMAIN L : Single(L[i])
  BY SingleIs
<1> HIDE DEF L, S
<1>4. /\ DOMAIN L = 1..Len(L) /\ DOMAIN S = 1..Len(L) /\ Len(L) \in Nat
      /\ \A i \in 1..Len(L) : L[i] \in Seq(B)
  BY <1>1, <1>2, LenProperties, ElementOfSeq
<1>5. ASSUME NEW i \in DOMAIN S PROVE Single(S[i])
  <2> DEFINE l == L[i]
             t == Only(l, D)
  <2>1. l \in Seq(B) /\ Single(l) /\ S[i] = t
    BY <1>1, <1>3, <1>4
  <2> HIDE DEF l
  <2>2. t \in Seq(B) /\ \E h : Sifted(l, D, t, h)
    BY <2>1, OnlyPlaces
  <2> HIDE DEF t
  <2>3. PICK h : Sifted(l, D, t, h)
    BY <2>2
  <2>4. Len(t) \in Nat /\ DOMAIN t = 1..Len(t) /\ Len(l) \in Nat /\ DOMAIN l = 1..Len(l)
    BY <2>1, <2>2, LenProperties
  <2>5. ASSUME NEW j \in DOMAIN t, NEW k \in DOMAIN t, IsWord(t[j]), IsWord(t[k]) PROVE j = k
    <3>1. h[j] \in DOMAIN l /\ h[k] \in DOMAIN l /\ t[j] = l[h[j]] /\ t[k] = l[h[k]]
      BY <2>3 DEF Sifted
    <3>2. h[j] = h[k]
      BY <2>1, <2>5, <3>1 DEF Single
    <3>3. ~(h[j] < h[k]) /\ ~(h[k] < h[j])
      BY <2>4, <3>1, <3>2
    <3>4. ~(j < k) /\ ~(k < j)
      BY <2>3, <3>3 DEF Sifted
    <3>5. QED
      BY <2>4, <3>4
  <2>6. QED
    BY <2>1, <2>5 DEF Single
<1>6. QED
  BY <1>5, SingleIs DEF S

\* So what is segmented has one word a line, as the document.
LEMMA ReadSingle ==
    ASSUME NEW text, IsGiven(text), OneWord(Lines(text))
    PROVE  OneWord(Lines(ReadText(text)))
<1> DEFINE S == Lines(ReadText(text))
           L == Lines(Original(text))
<1>1. text \in Seq(Raw)
  BY DEF IsGiven
<1>2. OneWord(L)
  <2> DEFINE one == Only(text, Raw \ {Escape})
             D == Raw \ {Escape}
             E == Raw \ {Number}
  <2>1. Newline \in D /\ Newline \in E
    BY DEF Raw, Newline, Escape, Number, Item
  <2>2. one \in Seq(Raw)
    BY <1>1, OnlyIs
  <2>3. Original(text) = Only(one, E)
    BY ReadKept
  <2>4. OneWord(Lines(one))
    <3> HIDE DEF D
    <3>1. OneWord(Lines(Only(text, D)))
      BY <1>1, <2>1, OnlySingle
    <3>2. QED
      BY <3>1 DEF D
  <2> HIDE DEF one, E
  <2>5. QED
    BY <2>1, <2>2, <2>3, <2>4, OnlySingle
<1>3. PICK f : Squeezed(f, S, L, Blanks)
  BY ReadKept DEF Ends
<1>4. S \in Seq(Seq(Raw)) /\ L \in Seq(Seq(Raw))
  BY ReadKept, LinesAre DEF Pages
<1> HIDE DEF S, L
<1>5. /\ DOMAIN S = 1..Len(S) /\ DOMAIN L = 1..Len(L)
      /\ \A i \in DOMAIN S : S[i] \in Seq(Raw)
  BY <1>4, LenProperties, ElementOfSeq
<1>6. ASSUME NEW i \in DOMAIN S PROVE Single(S[i])
  <2>0. (\E p \in Seq(Blanks) : L[f[i]] = p \o S[i]) /\ f[i] \in DOMAIN L
    BY <1>3, <1>5 DEF Squeezed
  <2>1. PICK p \in Seq(Blanks) : L[f[i]] = p \o S[i]
    BY <2>0
  <2> DEFINE u == S[i]
             l == p \o u
  <2>2. u \in Seq(Raw) /\ p \in Seq(Raw) /\ Single(l)
    <3>1. Single(L[f[i]])
      BY <1>2, <2>0, SingleIs DEF L
    <3>2. QED
      BY <1>5, <2>1, <3>1, BlanksAre, SeqMonotonic
  <2> HIDE DEF u
  <2>3. /\ Len(p) \in Nat /\ Len(u) \in Nat /\ DOMAIN u = 1..Len(u)
        /\ DOMAIN l = 1..(Len(p) + Len(u)) /\ \A j \in 1..Len(u) : l[Len(p) + j] = u[j]
    BY <2>2, ConcatItems
  <2> HIDE DEF l
  <2>4. ASSUME NEW j \in DOMAIN u, NEW k \in DOMAIN u, IsWord(u[j]), IsWord(u[k]) PROVE j = k
    <3>1. Len(p) + j \in DOMAIN l /\ Len(p) + k \in DOMAIN l /\ j \in Nat /\ k \in Nat
      BY <2>3
    <3>2. Len(p) + j = Len(p) + k
      BY <2>2, <2>3, <2>4, <3>1 DEF Single
    <3>3. QED
      BY <2>3, <3>1, <3>2
  <2>5. QED
    BY <2>4 DEF Single, u
<1>7. QED
  BY <1>6, SingleIs DEF S

\* A line that has nothing visible.  Lines that f maps to their like: what it leaves
\* out is void, and nothing is left out after a line that is not.
Void(line) == IsBlank(line) /\ ~HasWord(line)
Alike(S, L, f) ==
    /\ Len(S) \in Nat \ {0} /\ Len(L) \in Nat
    /\ f \in [1..Len(S) -> 1..Len(L)] /\ f[1] = 1 /\ f[Len(S)] = Len(L)
    /\ \A i, j \in 1..Len(S) : i < j => f[i] < f[j]
    /\ \A k \in 1..Len(L) : Void(L[k]) \/ \E i \in 1..Len(S) : f[i] = k
    /\ \A i \in 1..Len(S) :
          /\ S[i] = L[f[i]] \/ (Void(S[i]) /\ Void(L[f[i]]))
          /\ Void(S[i]) \/ (HasWord(S[i]) /\ ~IsBlank(S[i]))
    /\ \A i \in 1..(Len(S) - 1) : HasWord(S[i]) => f[i + 1] = f[i] + 1

\* A void line is tagged as such, and leaves a fence as it was.
LEMMA VoidTag ==
    ASSUME NEW lines, NEW tags, NEW open, NEW i, NEW tag,
           tag = TagHere(lines, tags, open, i)
    PROVE  /\ tag = "title" => HasWord(lines[i])
           /\ Void(lines[i]) => tag # "fence" /\ OpenAfter(lines[i], tag, open) = open
<1>1. ASSUME tag = "title" PROVE HasWord(lines[i])
  <2>1. TagOf(lines, i) = "title"
    BY <1>1 DEF TagHere
  <2>2. QED
    BY <2>1 DEF TagOf
<1>2. ASSUME Void(lines[i]) PROVE tag # "fence" /\ OpenAfter(lines[i], tag, open) = open
  <2>1. ~HasWord(lines[i]) /\ IsBlank(lines[i])
    BY <1>2 DEF Void
  <2>2. /\ open # NoFence => tag = "fenced"
        /\ open = NoFence => tag \in {"underlined", "blank"}
    BY <2>1 DEF TagHere
  <2>3. ~Closes(lines[i], open)
    BY <2>1 DEF Closes
  <2>4. QED
    BY <2>2, <2>3 DEF OpenAfter
<1>3. QED
  BY <1>1, <1>2

\* Lines that are alike have the same tags.
LEMMA TagsMatch ==
    ASSUME NEW S \in Seq(Seq(Raw)), NEW L \in Seq(Seq(Raw)), NEW f, Alike(S, L, f)
    PROVE  \A i \in 1..Len(S) : Tags(S)[i] = Tags(L)[f[i]]
<1> DEFINE n == Len(S)
           m == Len(L)
           u == Tags(S)
           v == Tags(L)
<1>1. PICK p : /\ p[0] = NoFence
               /\ \A i \in 1..n : /\ u[i] = TagHere(S, u, p[i - 1], i)
                                  /\ p[i] = OpenAfter(S[i], u[i], p[i - 1])
  BY TagsByLine
<1>2. PICK q : /\ q[0] = NoFence
               /\ \A i \in 1..m : /\ v[i] = TagHere(L, v, q[i - 1], i)
                                  /\ q[i] = OpenAfter(L[i], v[i], q[i - 1])
  BY TagsByLine
<1>3. /\ n \in Nat \ {0} /\ m \in Nat
      /\ f \in [1..n -> 1..m] /\ f[1] = 1 /\ f[n] = m
      /\ \A i, j \in 1..n : i < j => f[i] < f[j]
      /\ \A k \in 1..m : Void(L[k]) \/ \E i \in 1..n : f[i] = k
      /\ \A i \in 1..n : /\ S[i] = L[f[i]] \/ (Void(S[i]) /\ Void(L[f[i]]))
                         /\ Void(S[i]) \/ (HasWord(S[i]) /\ ~IsBlank(S[i]))
      /\ \A i \in 1..(n - 1) : HasWord(S[i]) => f[i + 1] = f[i] + 1
  BY DEF Alike
<1> HIDE DEF n, m, u, v
<1>4. \A i \in 1..n : f[i] \in 1..m
  BY <1>3
<1>5. \A i \in 1..n, j \in 1..n : f[i] = f[j] => i = j
  BY <1>3, <1>4
<1> DEFINE Ok(k) == \A i \in 1..n :
                       /\ f[i] <= k => u[i] = v[f[i]]
                       /\ f[i] <= k /\ (i = n \/ k < f[i + 1]) => q[k] = p[i]
           Q == {k \in 0..m : Ok(k)}
<1>6. 0 \in Q
  <2>1. ASSUME NEW i \in 1..n PROVE ~(f[i] <= 0)
    BY <1>3, <1>4
  <2>2. QED
    BY <1>3, <2>1
<1>7. ASSUME NEW k \in 1..m, k - 1 \in Q PROVE k \in Q
  <2>1. Ok(k - 1) /\ k \in Nat /\ k >= 1 /\ k - 1 \in Nat
    BY <1>3, <1>7
  <2> HIDE DEF Q
  <2>2. CASE \E i \in 1..n : f[i] = k
    <3>1. PICK i \in 1..n : f[i] = k
      BY <2>2
    <3>2. q[k - 1] = p[i - 1]
      <4>1. CASE i = 1
        <5>1. k = 1 /\ k - 1 = 0 /\ i - 1 = 0
          BY <1>3, <3>1, <4>1
        <5>2. QED
          BY <1>1, <1>2, <5>1
      <4>2. CASE i # 1
        <5>1. i - 1 \in 1..n /\ i - 1 < i /\ (i - 1) + 1 = i
          BY <1>3, <4>2
        <5>2. f[i - 1] < k /\ f[i - 1] \in Nat
          BY <1>3, <1>4, <3>1, <5>1
        <5>3. f[i - 1] <= k - 1 /\ k - 1 < f[(i - 1) + 1]
          BY <2>1, <3>1, <5>1, <5>2
        <5>4. QED
          BY <2>1, <5>1, <5>3
      <4>3. QED
        BY <4>1, <4>2
    <3>3. (i > 1 /\ u[i - 1] = "title") <=> (k > 1 /\ v[k - 1] = "title")
      <4>1. ASSUME i > 1, u[i - 1] = "title" PROVE k > 1 /\ v[k - 1] = "title"
        <5>1. i - 1 \in 1..n /\ i - 1 \in 1..(n - 1) /\ i - 1 < i /\ (i - 1) + 1 = i
          BY <1>3, <4>1
        <5>2. HasWord(S[i - 1])
          BY <1>1, <4>1, <5>1, VoidTag
        <5>3. k = f[i - 1] + 1 /\ f[i - 1] \in Nat /\ f[i - 1] >= 1
          BY <1>3, <1>4, <3>1, <5>1, <5>2
        <5>4. f[i - 1] <= k - 1 /\ f[i - 1] = k - 1 /\ k > 1
          BY <2>1, <5>3
        <5>5. QED
          BY <2>1, <4>1, <5>1, <5>4
      <4>2. ASSUME k > 1, v[k - 1] = "title" PROVE i > 1 /\ u[i - 1] = "title"
        <5>1. k - 1 \in 1..m
          BY <1>3, <4>2
        <5>2. HasWord(L[k - 1])
          BY <1>2, <4>2, <5>1, VoidTag
        <5>3. PICK j \in 1..n : f[j] = k - 1
          BY <1>3, <5>1, <5>2 DEF Void
        <5>4. f[j] < f[i] /\ j # i /\ f[j] \in Nat
          BY <2>1, <3>1, <5>3
        <5>5. ~(i < j) /\ j < i
          BY <1>3, <3>1, <5>3, <5>4
        <5>6. ~(j < i - 1)
          <6>1. SUFFICES ASSUME j < i - 1 PROVE FALSE
            OBVIOUS
          <6>2. i - 1 \in 1..n /\ i - 1 < i
            BY <1>3, <5>5
          <6>3. f[j] < f[i - 1] /\ f[i - 1] < f[i] /\ f[i - 1] \in Nat
            BY <1>3, <1>4, <6>1, <6>2
          <6>4. QED
            BY <2>1, <3>1, <5>3, <6>3
        <5>7. j = i - 1 /\ i > 1
          BY <1>3, <5>5, <5>6
        <5>8. f[j] <= k - 1
          BY <2>1, <5>3
        <5>9. u[j] = v[f[j]]
          BY <2>1, <5>8
        <5>10. QED
          BY <4>2, <5>3, <5>7, <5>9
      <4>3. QED
        BY <4>1, <4>2
    <3>4. /\ S[i] = L[k] \/ (Void(S[i]) /\ Void(L[k]))
          /\ Void(S[i]) \/ (HasWord(S[i]) /\ ~IsBlank(S[i]))
      BY <1>3, <3>1
    <3>5. IsBlank(S[i]) <=> IsBlank(L[k])
      BY <3>4 DEF Void
    <3>6. ASSUME ~IsBlank(S[i]) PROVE TagOf(S, i) = TagOf(L, k)
      <4>1. S[i] = L[k] /\ HasWord(S[i])
        BY <3>4, <3>6 DEF Void
      <4>2. (i < n /\ IsUnderline(S[i + 1])) <=> (k < m /\ IsUnderline(L[k + 1]))
        <5>1. CASE i = n
          <6>1. ~(i < n) /\ ~(k < m)
            BY <1>3, <3>1, <5>1
          <6>2. QED
            BY <6>1
        <5>2. CASE i # n
          <6>1. i \in 1..(n - 1) /\ i + 1 \in 1..n /\ i < n
            BY <1>3, <5>2
          <6>2. f[i + 1] = k + 1 /\ k + 1 \in 1..m
            BY <1>3, <1>4, <3>1, <4>1, <6>1
          <6>3. k < m
            BY <1>3, <2>1, <6>2
          <6>4. S[i + 1] = L[k + 1] \/ (Void(S[i + 1]) /\ Void(L[k + 1]))
            BY <1>3, <6>1, <6>2
          <6>5. IsUnderline(S[i + 1]) <=> IsUnderline(L[k + 1])
            <7>1. CASE S[i + 1] = L[k + 1]
              BY <7>1
            <7>2. CASE Void(S[i + 1]) /\ Void(L[k + 1])
              BY <7>2 DEF Void, IsUnderline
            <7>3. QED
              BY <6>4, <7>1, <7>2
          <6>6. QED
            BY <6>1, <6>3, <6>5
        <5>3. QED
          BY <5>1, <5>2
      <4>3. QED
        BY <4>1, <4>2 DEF TagOf, n, m
    <3>7. u[i] = v[k]
      <4>1. u[i] = TagHere(S, u, p[i - 1], i) /\ v[k] = TagHere(L, v, q[k - 1], k)
        BY <1>1, <1>2
      <4>2. TagHere(S, u, p[i - 1], i) = TagHere(L, v, q[k - 1], k)
        BY <3>2, <3>3, <3>5, <3>6 DEF TagHere
      <4>3. QED
        BY <4>1, <4>2
    <3>8. q[k] = p[i]
      <4>1. p[i] = OpenAfter(S[i], u[i], p[i - 1]) /\ q[k] = OpenAfter(L[k], v[k], q[k - 1])
        BY <1>1, <1>2
      <4>2. CASE S[i] = L[k]
        BY <3>2, <3>7, <4>1, <4>2
      <4>3. CASE Void(S[i]) /\ Void(L[k])
        <5>1. p[i] = p[i - 1]
          BY <1>1, <4>1, <4>3, VoidTag
        <5>2. q[k] = q[k - 1]
          BY <1>2, <4>1, <4>3, VoidTag
        <5>3. QED
          BY <3>2, <5>1, <5>2
      <4>4. QED
        BY <3>4, <4>2, <4>3
    <3>9. ASSUME NEW j \in 1..n, f[j] <= k PROVE u[j] = v[f[j]]
      <4>1. CASE f[j] = k
        BY <1>5, <3>1, <3>7, <4>1
      <4>2. CASE f[j] # k
        <5>1. f[j] <= k - 1
          BY <1>4, <2>1, <3>9, <4>2
        <5>2. QED
          BY <2>1, <5>1
      <4>3. QED
        BY <4>1, <4>2
    <3>10. ASSUME NEW j \in 1..n, f[j] <= k, j = n \/ k < f[j + 1] PROVE q[k] = p[j]
      <4>1. ~(i < j)
        BY <1>3, <1>4, <2>1, <3>1, <3>10
      <4>2. ~(j < i)
        <5>1. SUFFICES ASSUME j < i PROVE FALSE
          OBVIOUS
        <5>2. j # n /\ j + 1 \in 1..n /\ (j + 1 < i \/ j + 1 = i)
          BY <1>3, <5>1
        <5>3. k < f[j + 1] /\ (f[j + 1] < f[i] \/ f[j + 1] = f[i])
          BY <1>3, <3>10, <5>2
        <5>4. QED
          BY <1>4, <2>1, <3>1, <5>2, <5>3
      <4>3. j = i
        BY <1>3, <4>1, <4>2
      <4>4. QED
        BY <3>8, <4>3
    <3>11. QED
      BY <3>9, <3>10 DEF Q
  <2>3. CASE ~\E i \in 1..n : f[i] = k
    <3>1. Void(L[k])
      BY <1>3, <2>3
    <3>2. q[k] = q[k - 1]
      BY <1>2, <3>1, VoidTag
    <3>3. ASSUME NEW j \in 1..n, f[j] <= k PROVE f[j] <= k - 1
      BY <1>4, <2>1, <2>3, <3>3
    <3>4. ASSUME NEW j \in 1..n, f[j] <= k, j = n \/ k < f[j + 1] PROVE q[k] = p[j]
      <4>1. f[j] <= k - 1 /\ (j = n \/ k - 1 < f[j + 1])
        <5>1. j = n \/ f[j + 1] \in Nat
          BY <1>3, <1>4
        <5>2. QED
          BY <2>1, <3>3, <3>4, <5>1
      <4>2. q[k - 1] = p[j]
        BY <2>1, <4>1
      <4>3. QED
        BY <3>2, <4>2
    <3>5. QED
      BY <2>1, <3>3, <3>4 DEF Q
  <2>4. QED
    BY <2>2, <2>3
<1>8. m \in Q
  <2>1. \A k \in 0..m : k \in Q
    <3> HIDE DEF Q
    <3>1. QED
      BY <1>3, <1>6, <1>7, UpTo
  <2>2. QED
    BY <1>3, <2>1
<1>9. ASSUME NEW i \in 1..n PROVE u[i] = v[f[i]]
  <2>1. f[i] <= m /\ Ok(m)
    BY <1>3, <1>4, <1>8
  <2>2. QED
    BY <2>1
<1>10. QED
  BY <1>9 DEF n, u, v

\* Spaces are not words, and a line of them is void.
LEMMA VoidIs ==
    /\ \A x : IsSpace(x) => ~IsWord(x)
    /\ \A l : Void(l) <=> \A i \in DOMAIN l : IsSpace(l[i])
    /\ \A l \in Seq(Blanks) : Void(l)
<1>1. \A x : IsSpace(x) => ~IsWord(x)
  BY DEF IsSpace, IsWord, Newline, Indent, Item
<1>2. \A l : Void(l) <=> \A i \in DOMAIN l : IsSpace(l[i])
  BY <1>1 DEF Void, IsBlank, HasWord
<1>3. ASSUME NEW l \in Seq(Blanks) PROVE Void(l)
  <2>1. \A i \in DOMAIN l : l[i] \in Blanks
    BY LenProperties, ElementOfSeq
  <2>2. QED
    BY <1>2, <2>1 DEF IsSpace, Blanks
<1>4. QED
  BY <1>1, <1>2, <1>3

\* The lines of a document, and those that are segmented, are alike as long as the
\* collapse took no line its indentation.
LEMMA LinesMatch ==
    ASSUME NEW text, IsGiven(text), LinesKept(text), ~Contains(ReadText(text), Sentinel)
    PROVE  \E f : Alike(Lines(ReadText(text)), Lines(Original(text)), f)
<1> DEFINE read == ReadText(text)
           whole == Original(text)
           S == Lines(read)
           L == Lines(whole)
           V == Seq(Raw)
<1>1. /\ whole \in V /\ read \in V /\ IsGiven(whole)
      /\ whole = Only(Only(text, Raw \ {Escape}), Raw \ {Number})
      /\ Ends(S, L, Blanks)
  BY ReadKept
<1>2. text \in V
  BY DEF IsGiven
<1>3. Escape \notin Range(whole) /\ Number \notin Range(whole)
  <2> DEFINE one == Only(text, Raw \ {Escape})
  <2>1. one \in V /\ Range(one) = Range(text) \cap (Raw \ {Escape})
    BY <1>2, OnlyIs, OnlyRange
  <2> HIDE DEF one
  <2>2. Range(Only(one, Raw \ {Number})) = Range(one) \cap (Raw \ {Number})
    BY <2>1, OnlyRange
  <2>3. QED
    BY <1>1, <2>1, <2>2 DEF one
<1>4. Sentinel \notin Range(read)
  <2>1. DOMAIN read = 1..Len(read)
    BY <1>1, LenProperties
  <2>2. QED
    BY <2>1 DEF Contains, Range
<1>5. Apart(L) /\ Cut(L, whole, Len(whole)) /\ Cut(S, read, Len(read))
      /\ S \in Pages(Raw) /\ L \in Pages(Raw)
  BY <1>1, LinesAre DEF IsGiven
<1>6. /\ S \in Seq(V) /\ L \in Seq(V) /\ Len(S) \in Nat \ {0} /\ Len(L) \in Nat
      /\ DOMAIN S = 1..Len(S) /\ DOMAIN L = 1..Len(L)
      /\ \A i \in DOMAIN S : S[i] \in V
      /\ \A i \in DOMAIN L : L[i] \in V
  <2>1. S \in Seq(V) /\ L \in Seq(V) /\ S # <<>> /\ Len(S) \in Nat /\ Len(S) >= 1
    BY <1>5, LineStepIs DEF Pages
  <2>2. QED
    BY <2>1, LenProperties, ElementOfSeq
<1>7. /\ \A i \in DOMAIN S : Sentinel \notin Range(S[i])
      /\ \A i \in DOMAIN L : Escape \notin Range(L[i]) /\ Number \notin Range(L[i])
  <2>1. /\ DOMAIN read = 1..Len(read) /\ DOMAIN whole = 1..Len(whole)
    BY <1>1, LenProperties
  <2>2. /\ \A i \in DOMAIN S : Range(S[i]) \subseteq Range(read)
        /\ \A i \in DOMAIN L : Range(L[i]) \subseteq Range(whole)
    BY <1>5, <2>1 DEF Cut, Range
  <2>3. QED
    BY <1>3, <1>4, <2>2
<1>8. Worded(S) = Worded(L)
  BY DEF LinesKept
<1>9. PICK f : Squeezed(f, S, L, Blanks) /\ f[Len(S)] = Len(L)
  BY <1>1 DEF Ends
<1> HIDE DEF read, whole, S, L, V
<1>10. \A l \in Range(S) : HasWord(l) => l \in Range(L)
  <2>1. Range(Worded(S)) = {l \in Range(S) : HasWord(l)}
        /\ Range(Worded(L)) = {l \in Range(L) : HasWord(l)}
    BY <1>6, OnlyRange DEF Worded
  <2>2. QED
    BY <1>8, <2>1
<1>11. /\ f \in [1..Len(S) -> 1..Len(L)] /\ f[1] = 1
       /\ \A i, j \in 1..Len(S) : i < j => f[i] < f[j]
       /\ \A k \in 1..Len(L) : L[k] \in Seq(Blanks) \/ \E i \in 1..Len(S) : f[i] = k
       /\ \A i \in 1..Len(S) : \E p \in Seq(Blanks) : L[f[i]] = p \o S[i]
       /\ \A i \in 1..(Len(S) - 1) : S[i] \in Seq(Blanks) \/ f[i + 1] = f[i] + 1
  BY <1>9 DEF Squeezed
<1>12. ASSUME NEW i \in 1..Len(S)
       PROVE  /\ S[i] = L[f[i]] \/ (Void(S[i]) /\ Void(L[f[i]]))
              /\ Void(S[i]) \/ (HasWord(S[i]) /\ ~IsBlank(S[i]))
  <2>1. PICK p \in Seq(Blanks) : L[f[i]] = p \o S[i]
    BY <1>11
  <2> DEFINE l == S[i]
             k == f[i]
  <2>2. l \in V /\ k \in DOMAIN L /\ p \in V /\ L[k] = p \o l /\ l \in Range(S)
    BY <1>6, <1>11, <2>1, BlanksAre, SeqMonotonic DEF V, Range
  <2>3. Sentinel \notin Range(l) /\ Escape \notin Range(L[k]) /\ Number \notin Range(L[k])
    BY <1>6, <1>7, <2>2
  <2> HIDE DEF l, k
  <2>4. /\ Range(p \o l) = Range(p) \cup Range(l) /\ Range(p) \subseteq Blanks
        /\ DOMAIN l = 1..Len(l)
    <3>1. Range(p \o l) = Range(p) \cup Range(l) /\ DOMAIN l = 1..Len(l)
      BY <2>2, ConcatItems DEF V
    <3>2. Range(p) \subseteq Blanks
      BY <2>1, LenProperties, ElementOfSeq DEF Range
    <3>3. QED
      BY <3>1, <3>2
  <2>5. ASSUME ~Void(l) PROVE \E x \in Range(l) : IsWord(x)
    <3>1. PICK j \in DOMAIN l : ~IsSpace(l[j])
      BY <2>5, VoidIs
    <3> DEFINE x == l[j]
    <3>2. x \in Range(l) /\ x \in Range(L[k]) /\ x \in Raw
      <4>1. x \in Range(l)
        BY DEF Range
      <4>2. x \in Raw
        BY <2>2, <2>4, ElementOfSeq DEF V
      <4>3. QED
        BY <2>2, <2>4, <4>1, <4>2
    <3>3. x \notin {Newline, Indent, Sentinel, Escape, Number}
      BY <2>3, <3>1, <3>2 DEF IsSpace
    <3> HIDE DEF x
    <3>4. IsWord(x)
      BY <3>2, <3>3 DEF Raw, IsWord
    <3>5. QED
      BY <3>2, <3>4
  <2>6. ASSUME Void(l) PROVE Void(L[k])
    <3>1. Void(p \o l)
      <4>1. ASSUME NEW x \in Range(p \o l) PROVE IsSpace(x)
        <5>1. CASE x \in Range(p)
          BY <2>4, <5>1 DEF Blanks, IsSpace
        <5>2. CASE x \in Range(l)
          BY <2>6, <5>2, VoidIs DEF Range
        <5>3. QED
          BY <2>4, <4>1, <5>1, <5>2
      <4> DEFINE u == p \o l
      <4>2. \A j \in DOMAIN u : IsSpace(u[j])
        BY <4>1 DEF Range
      <4> HIDE DEF u
      <4>3. Void(u)
        BY <4>2, VoidIs
      <4>4. QED
        BY <4>3 DEF u
    <3>2. QED
      BY <2>2, <3>1
  <2>7. ASSUME ~Void(l) PROVE HasWord(l) /\ ~IsBlank(l) /\ l = L[k]
    <3>1. PICK x \in Range(l) : IsWord(x)
      BY <2>5, <2>7
    <3>2. HasWord(l)
      BY <3>1 DEF HasWord, Range
    <3>3. ~IsBlank(l)
      BY <3>1, VoidIs DEF IsBlank, Range
    <3>4. PICK h \in DOMAIN L : l = L[h]
      BY <1>10, <2>2, <3>2 DEF Range
    <3>5. x \in Range(L[h]) /\ x \in Range(L[k])
      BY <2>2, <2>4, <3>1, <3>4
    <3>6. h = k
      BY <1>5, <2>2, <3>1, <3>4, <3>5 DEF Apart, L
    <3>7. QED
      BY <3>2, <3>3, <3>4, <3>6
  <2>8. QED
    BY <2>6, <2>7 DEF l, k
<1>13. \A i \in 1..(Len(S) - 1) : HasWord(S[i]) => f[i + 1] = f[i] + 1
  <2>1. \A i \in 1..(Len(S) - 1) : S[i] \in Seq(Blanks) => ~HasWord(S[i])
    BY VoidIs DEF Void
  <2>2. QED
    BY <1>11, <2>1
<1>14. \A k \in 1..Len(L) : Void(L[k]) \/ \E i \in 1..Len(S) : f[i] = k
  BY <1>11, VoidIs
<1>15. Alike(S, L, f)
  BY <1>6, <1>9, <1>11, <1>12, <1>13, <1>14 DEF Alike
<1>16. QED
  BY <1>15 DEF S, L, read, whole

\* So a verbatim word of the document is verbatim where it is segmented.
LEMMA JudgedAlike ==
    ASSUME NEW text, IsGiven(text), LinesKept(text), ~Contains(ReadText(text), Sentinel),
           NEW k \in DOMAIN Lines(ReadText(text)), NEW x \in Range(Lines(ReadText(text))[k]),
           IsWord(x), x \in VerbatimWords(text)
    PROVE  IsVerbatim(Tags(Lines(ReadText(text)))[k])
<1> DEFINE S == Lines(ReadText(text))
           L == Lines(Original(text))
<1>1. PICK f : Alike(S, L, f)
  BY LinesMatch
<1>2. /\ Original(text) \in Seq(Raw) /\ ReadText(text) \in Seq(Raw) /\ IsGiven(Original(text))
  BY ReadKept
<1>3. Apart(L) /\ S \in Seq(Seq(Raw)) /\ L \in Seq(Seq(Raw))
  BY <1>2, LinesAre DEF IsGiven, Pages
<1>4. PICK i \in DOMAIN L : IsVerbatim(Tags(L)[i]) /\ x \in Range(L[i])
  BY DEF VerbatimWords
<1>5. k \in DOMAIN S /\ x \in Range(S[k])
  OBVIOUS
<1> HIDE DEF S, L
<1>6. DOMAIN S = 1..Len(S) /\ DOMAIN L = 1..Len(L)
  BY <1>3, LenProperties
<1>7. ~Void(S[k])
  BY <1>5, VoidIs DEF Range
<1>8. S[k] = L[f[k]] /\ f[k] \in DOMAIN L
  BY <1>1, <1>5, <1>6, <1>7 DEF Alike
<1>9. f[k] = i
  BY <1>3, <1>4, <1>5, <1>8 DEF Apart
<1>10. Tags(S)[k] = Tags(L)[i]
  BY <1>1, <1>3, <1>5, <1>6, <1>9, TagsMatch
<1>11. QED
  BY <1>4, <1>10 DEF S

----------------------------------------------------------------------------
\* Before the chain runs, the model has not been asked; and what it was asked about
\* holds no code.
AwayOK == (at \in {"idle", "gate"} => sent = NoText) /\ CodeStaysAway

LEMMA AwayStep == IInv /\ LayersOK /\ MaskOK /\ AwayOK /\ [Next]_vars => AwayOK'
<1> SUFFICES ASSUME IInv, LayersOK, MaskOK, AwayOK, [Next]_vars PROVE AwayOK'
  OBVIOUS
<1>1. ASSUME UNCHANGED <<in, detected, sent>>, at' \notin {"idle", "gate"} PROVE AwayOK'
  BY <1>1 DEF AwayOK, CodeStaysAway
<1>2. ASSUME UNCHANGED sent, at \in {"idle", "gate"} PROVE AwayOK'
  BY <1>2 DEF AwayOK, CodeStaysAway
<1>3. CASE AskModel
  <2>1. /\ at = "chain" /\ at' = "model" /\ Len(done) < Len(Chain(detected))
        /\ Layer \in {"llmlingua", "md_structured"}
        /\ Layer = "md_structured" => ~Contains(cur, Sentinel)
        /\ sent' = IF Layer = "llmlingua" THEN cur ELSE Masked(cur)
        /\ in' = in /\ detected' = detected
    BY <1>3 DEF AskModel, AtLayer
  <2>2. /\ call \in Calls /\ done \in Seq(Layers) /\ in = CallIn(call)
        /\ ~(detected = "prose" /\ in.klass = "code_structured")
    BY <2>1 DEF LayersOK, MaskOK
  <2>3. CASE Layer = "llmlingua"
    <3>1. detected = "prose"
      BY <2>1, <2>2, <2>3, MaskLayers
    <3>2. QED
      BY <2>1, <2>2, <3>1 DEF AwayOK, CodeStaysAway
  <2>4. CASE Layer = "md_structured"
    <3>1. detected = "doc_read" /\ Len(done) = 2
      BY <2>1, <2>2, <2>4, MaskLayers
    <3>2. /\ cur = ReadText(in.text) /\ sent' = Masked(cur) /\ ~Contains(cur, Sentinel)
      BY <2>1, <2>4, <3>1 DEF MaskOK
    <3>3. IsGiven(in.text)
      BY <2>2, HookAssumption DEF CallIn
    <3>4. cur \in Seq(Raw) /\ Sentinel \in Raw /\ Newline \in Raw
      BY <3>2, <3>3, ReadIsGiven DEF Raw
    <3>5. ASSUME LinesKept(in.text), NEW p \in DOMAIN sent', IsWord(sent'[p])
          PROVE  sent'[p] \notin VerbatimWords(in.text)
      <4>1. PICK k \in DOMAIN Lines(cur) :
               ~IsVerbatim(Tags(Lines(cur))[k]) /\ sent'[p] \in Range(Lines(cur)[k])
        BY <3>2, <3>4, <3>5, WordsMasked
      <4>2. QED
        BY <3>2, <3>3, <3>5, <4>1, JudgedAlike
    <3>6. QED
      BY <2>1, <3>1, <3>5 DEF AwayOK, CodeStaysAway
  <2>5. QED
    BY <2>1, <2>3, <2>4
<1>4. CASE Receive
  BY <1>2, <1>4 DEF Receive
<1>5. CASE Compress
  <2>1. CASE Gate
    BY <1>2, <2>1 DEF Gate
  <2>2. CASE Transform \/ CrushJSON \/ Collide \/ ModelAnswers \/ ModelFails \/ Panic \/ Guard
    BY <1>1, <2>2 DEF Transform, CrushJSON, Collide, ModelAnswers, ModelFails, Panic, Guard,
                      Skip, Produced
  <2>3. QED
    BY <1>3, <1>5, <2>1, <2>2 DEF Compress, PipelineNext
<1>6. CASE Finalize \/ Fetch \/ Record \/ Reply
  BY <1>1, <1>6 DEF Finalize, Fetch, Record, Reply
<1>7. ASSUME Leave PROVE AwayOK'
  BY <1>1, <1>7 DEF Leave
<1>8. CASE UNCHANGED vars
  BY <1>8 DEF vars, pipelineVars, AwayOK, CodeStaysAway
<1>9. QED
  BY <1>4, <1>5, <1>6, <1>7, <1>8 DEF Next, Decline, Skipped, Die

\* What the gate took for code or structure of a document never reaches the model
\* (llmlingua.go), unless the collapse of a blank run took a line its indentation:
\* the lines that are segmented are lines of the document (ansi.go:15, router.go:
\* 471-474), of which only void ones are missing, so that every line is judged as
\* before; what is masked is the very text that was segmented; and of it the model
\* gets the prose and one sentinel for each verbatim run (mdstructured.go).  Prose
\* that is told to be code is refused before (pipeline.go:123-125).
THEOREM CodeKeptAway == Spec => []CodeStaysAway
<1>1. Init => LayersOK /\ TablesOK /\ MaskOK /\ AwayOK
  <2>1. ASSUME Init PROVE TablesOK /\ MaskOK /\ AwayOK
    <3>1. at = "idle" /\ done = <<>> /\ sent = NoText
      BY <2>1 DEF Init
    <3>2. QED
      BY <3>1 DEF TablesOK, Tabulated, MaskOK, AwayOK, CodeStaysAway
  <2>2. QED
    BY <2>1, InitLayers
<1>2. IInv /\ LayersOK /\ TablesOK /\ MaskOK /\ AwayOK /\ [Next]_vars
         => (LayersOK /\ TablesOK /\ MaskOK /\ AwayOK)'
  BY LayersStep, TablesStep, MaskStep, AwayStep
<1>3. AwayOK => CodeStaysAway
  BY DEF AwayOK
<1>4. QED
  BY <1>1, <1>2, <1>3, InvariantHolds, PTL DEF Spec

----------------------------------------------------------------------------
\* The verbatim runs of the lines, which become the blocks of a document: the
\* lines of a document fall into runs, and the segmentation can be retold line by
\* line.

\* The runs of verbatim lines: they are disjoint, and they are all of them.
LEMMA RunsAre ==
    ASSUME NEW n \in Nat, NEW tags, DOMAIN tags = 1..n, Len(tags) = n
    PROVE  /\ BlockEnds(tags) \in SUBSET (1..n) /\ IsFiniteSet(BlockEnds(tags))
           /\ \A e \in BlockEnds(tags) :
                 /\ BlockStart(tags, e) \in 1..e
                 /\ \A i \in BlockStart(tags, e)..e : IsVerbatim(tags[i])
           /\ \A e, f \in BlockEnds(tags) : e < f => e < BlockStart(tags, f)
           /\ \A i \in 1..n : IsVerbatim(tags[i]) =>
                 \E e \in BlockEnds(tags) : BlockStart(tags, e) <= i /\ i <= e
<1> DEFINE V == {i \in 1..n : IsVerbatim(tags[i])}
           E == BlockEnds(tags)
           B(e) == {b \in 1..e : \A i \in b..e : IsVerbatim(tags[i])}
           C(e) == {b \in 1..e : \A i \in b..e : i \in V}
           start(e) == BlockStart(tags, e)
<1>1. E = {i \in 1..n : i \in V /\ (i = n \/ i + 1 \notin V)}
  <2>1. \A i \in 1..n : i = n \/ i + 1 \in 1..n
    OBVIOUS
  <2>2. E = {i \in 1..n : IsVerbatim(tags[i]) /\ (i = n \/ ~IsVerbatim(tags[i + 1]))}
    BY DEF BlockEnds
  <2>3. \A i \in 1..n : IsVerbatim(tags[i]) <=> i \in V
    OBVIOUS
  <2>4. \A i \in 1..n : (IsVerbatim(tags[i]) /\ (i = n \/ ~IsVerbatim(tags[i + 1])))
                           <=> (i \in V /\ (i = n \/ i + 1 \notin V))
    BY <2>1, <2>3
  <2> HIDE DEF E, V
  <2>5. QED
    BY <2>2, <2>4
<1>2. IsFiniteSet(E) /\ E \in SUBSET (1..n)
  <2>1. IsFiniteSet(1..n) /\ E \subseteq 1..n
    BY <1>1, FS_Interval
  <2>2. QED
    BY <2>1, FS_Subset
<1>3. ASSUME NEW e \in 1..n
      PROVE  B(e) = C(e) /\ start(e) = Min(C(e))
  <2>1. \A b \in 1..e : \A i \in b..e : i \in 1..n
    OBVIOUS
  <2>2. B(e) = C(e)
    BY <2>1
  <2>3. start(e) = Min(B(e))
    BY DEF BlockStart
  <2>4. QED
    BY <2>2, <2>3
<1> HIDE DEF start, B, E
<1>4. ASSUME NEW e \in E
      PROVE  /\ e \in 1..n /\ e \in V
             /\ start(e) \in 1..e /\ \A i \in start(e)..e : i \in V
             /\ \A b \in 1..e : (\A i \in b..e : i \in V) => start(e) <= b
  <2>1. e \in 1..n /\ e \in V
    BY <1>1
  <2>2. e \in C(e) /\ C(e) \in SUBSET Nat
    <3>1. \A i \in e..e : i = e
      BY <2>1
    <3> HIDE DEF V
    <3>2. QED
      BY <2>1, <3>1
  <2> DEFINE c == C(e)
  <2>3. \A b \in c : b \in 1..e /\ \A i \in b..e : i \in V
    OBVIOUS
  <2>4. \A b \in 1..e : (\A i \in b..e : i \in V) => b \in c
    OBVIOUS
  <2>5. c # {} /\ c \in SUBSET Nat /\ start(e) = Min(c)
    BY <1>3, <2>1, <2>2
  <2> HIDE DEF c, V
  <2>6. \E m \in c : \A b \in c : m <= b
    BY <2>5, SmallestNat
  <2>7. start(e) \in c /\ \A b \in c : start(e) <= b
    <3>1. start(e) = CHOOSE m \in c : \A b \in c : m <= b
      BY <2>5 DEF Min
    <3>2. QED
      BY <2>6, <3>1
  <2>8. QED
    BY <2>1, <2>3, <2>4, <2>7
<1>5. ASSUME NEW e \in E, NEW f \in E, e < f PROVE e < start(f)
  <2>1. e \in 1..n /\ f \in 1..n /\ start(f) \in 1..f /\ \A i \in start(f)..f : i \in V
    BY <1>4
  <2>2. e = n \/ e + 1 \notin V
    BY <1>1
  <2>3. e # n /\ e + 1 <= f
    BY <1>5, <2>1
  <2> HIDE DEF V
  <2>4. ~(start(f) <= e + 1)
    BY <2>1, <2>2, <2>3
  <2>5. QED
    BY <2>1, <2>4
<1>6. ASSUME NEW i \in V PROVE \E e \in E : start(e) <= i /\ i <= e
  <2> DEFINE T == {e \in i..n : e = n \/ e + 1 \notin V}
  <2>1. i \in 1..n /\ i \in Nat
    OBVIOUS
  <2>2. n \in T /\ T \in SUBSET Nat
    BY <2>1
  <2>3. PICK e \in T : \A m \in T : e <= m
    <3> HIDE DEF T
    <3>1. QED
      BY <2>2, SmallestNat
  <2>4. e \in i..n /\ e \in Nat /\ (e = n \/ e + 1 \notin V)
    BY <2>1
  <2>5. \A j \in i..n : j < e => j + 1 \in V
    <3>1. SUFFICES ASSUME NEW j \in i..n, j < e, j + 1 \notin V PROVE FALSE
      OBVIOUS
    <3>2. j \in T
      BY <3>1
    <3>3. QED
      BY <2>1, <2>3, <2>4, <3>1, <3>2
  <2> HIDE DEF T, V
  <2>6. \A j \in i..e : j \in V
    <3>1. SUFFICES ASSUME NEW j \in i..e, j \notin V PROVE FALSE
      OBVIOUS
    <3>2. CASE j = i
      BY <1>6, <3>1, <3>2
    <3>3. CASE j # i
      <4>1. j - 1 \in i..n /\ j - 1 < e /\ (j - 1) + 1 = j
        BY <2>1, <2>4, <3>1, <3>3
      <4>2. QED
        BY <2>5, <3>1, <4>1
    <3>4. QED
      BY <3>2, <3>3
  <2>7. e \in V /\ e \in 1..n /\ i \in 1..e
    BY <2>1, <2>4, <2>6
  <2>8. e \in E
    BY <1>1, <2>4, <2>7
  <2>9. start(e) <= i /\ i <= e
    BY <1>4, <2>6, <2>7, <2>8
  <2>10. QED
    BY <2>8, <2>9
<1>7. \A i \in V : i \in 1..n /\ IsVerbatim(tags[i])
  OBVIOUS
<1>8. \A i \in 1..n : IsVerbatim(tags[i]) => i \in V
  OBVIOUS
<1> HIDE DEF V
<1>9. QED
  BY <1>2, <1>4, <1>5, <1>6, <1>7, <1>8 DEF E, start

\* A document of n lines has the verbatim lines s[k] to e[k], for k in 1..m.
Divided(text, n, m, s, e) ==
    /\ n = Len(Lines(text)) /\ DOMAIN Lines(text) = 1..n
    /\ s \in [1..m -> 1..n] /\ e \in [1..m -> 1..n]
    /\ \A k \in 1..m : s[k] <= e[k]
    /\ \A k, l \in 1..m : k < l => e[k] < s[l]
    /\ \A i \in 1..n : IsVerbatim(Tags(Lines(text))[i])
                          <=> \E k \in 1..m : s[k] <= i /\ i <= e[k]
    /\ BlockEnds(Tags(Lines(text))) = {e[k] : k \in 1..m}
    /\ BlockEnds(Tags(Lines(text))) \in SUBSET (1..n)
    /\ IsFiniteSet(BlockEnds(Tags(Lines(text))))
    /\ Cardinality(BlockEnds(Tags(Lines(text)))) = m
    /\ Len(Blocks(text)) = m /\ DOMAIN Blocks(text) = 1..m
    /\ \A k \in 1..m : Blocks(text)[k] = Join(SubSeq(Lines(text), s[k], e[k]))

LEMMA DocumentIs ==
    ASSUME NEW S, NEW text \in Seq(S)
    PROVE  \E n \in Nat, m \in Nat : n >= 1 /\ \E s, e : Divided(text, n, m, s, e)
<1> DEFINE L == Lines(text)
           n == Len(L)
           tags == Tags(L)
           E == BlockEnds(tags)
           ends == Ascending(E)
           m == Len(ends)
           s == [k \in 1..m |-> BlockStart(tags, ends[k])]
           e == [k \in 1..m |-> ends[k]]
<1>1. L \in Seq(Seq(S)) /\ L # <<>>
  BY LinesAre DEF Pages
<1> HIDE DEF L
<1>2. n \in Nat /\ n >= 1 /\ DOMAIN L = 1..n
  BY <1>1, EmptySeq, LenProperties
<1>3. DOMAIN tags = 1..n /\ Len(tags) = n
  BY <1>1, TagsAre
<1> HIDE DEF n, tags
<1>4. /\ E \in SUBSET (1..n) /\ IsFiniteSet(E)
      /\ \A x \in E :
            /\ BlockStart(tags, x) \in 1..x
            /\ \A i \in BlockStart(tags, x)..x : IsVerbatim(tags[i])
      /\ \A x, y \in E : x < y => x < BlockStart(tags, y)
      /\ \A i \in 1..n : IsVerbatim(tags[i]) =>
            \E x \in E : BlockStart(tags, x) <= i /\ i <= x
  BY <1>2, <1>3, RunsAre
<1>5. /\ ends \in Seq(E) /\ m = Cardinality(E) /\ Range(ends) = E
      /\ \A i, j \in DOMAIN ends : i < j => ends[i] < ends[j]
  <2>1. E \in SUBSET Nat
    BY <1>2, <1>4
  <2> HIDE DEF E
  <2>2. QED
    BY <1>4, <2>1, AscendingIs
<1>6. Blocks(text) = BlocksOf(L, tags)
  BY DEF Blocks, L, tags
<1>7. BlocksOf(L, tags) = [k \in DOMAIN ends |-> Join(SubSeq(L, BlockStart(tags, ends[k]), ends[k]))]
  BY DEF BlocksOf
<1> HIDE DEF E, ends
<1>8. m \in Nat /\ DOMAIN ends = 1..m /\ \A k \in 1..m : ends[k] \in E
  BY <1>5, LenProperties, ElementOfSeq
<1>9. \A k \in 1..m : e[k] = ends[k] /\ s[k] = BlockStart(tags, e[k]) /\ e[k] \in E
  BY <1>8
<1>10. DOMAIN s = 1..m /\ DOMAIN e = 1..m /\ s = [k \in 1..m |-> s[k]] /\ e = [k \in 1..m |-> e[k]]
  OBVIOUS
<1> HIDE DEF s, e
<1>11. \A k \in 1..m : e[k] \in 1..n /\ s[k] \in 1..n /\ s[k] <= e[k]
  <2>1. SUFFICES ASSUME NEW k \in 1..m PROVE e[k] \in 1..n /\ s[k] \in 1..n /\ s[k] <= e[k]
    OBVIOUS
  <2>2. e[k] \in 1..n /\ s[k] \in 1..e[k]
    BY <1>4, <1>9
  <2>3. QED
    BY <1>2, <2>2
<1>12. s \in [1..m -> 1..n] /\ e \in [1..m -> 1..n]
  BY <1>10, <1>11
<1>13. \A k, l \in 1..m : k < l => e[k] < s[l]
  <2>1. SUFFICES ASSUME NEW k \in 1..m, NEW l \in 1..m, k < l PROVE e[k] < s[l]
    OBVIOUS
  <2>2. ends[k] < ends[l]
    BY <1>5, <1>8, <2>1
  <2>3. QED
    BY <1>4, <1>9, <2>2
<1>14. E = {e[k] : k \in 1..m}
  <2>1. \A x \in E : \E k \in 1..m : x = e[k]
    BY <1>5, <1>8, <1>9 DEF Range
  <2>2. QED
    BY <1>9, <2>1
<1>15. ASSUME NEW i \in 1..n
       PROVE  IsVerbatim(tags[i]) <=> \E k \in 1..m : s[k] <= i /\ i <= e[k]
  <2>1. ASSUME IsVerbatim(tags[i]) PROVE \E k \in 1..m : s[k] <= i /\ i <= e[k]
    <3>1. PICK x \in E : BlockStart(tags, x) <= i /\ i <= x
      BY <1>4, <2>1
    <3>2. PICK k \in 1..m : x = e[k]
      BY <1>14
    <3>3. QED
      BY <1>9, <3>1, <3>2
  <2>2. ASSUME NEW k \in 1..m, s[k] <= i, i <= e[k] PROVE IsVerbatim(tags[i])
    <3>1. \A j \in s[k]..e[k] : IsVerbatim(tags[j])
      BY <1>4, <1>9
    <3>2. i \in s[k]..e[k]
      BY <1>11, <2>2
    <3>3. QED
      BY <3>1, <3>2
  <2>3. QED
    BY <2>1, <2>2
<1>16. /\ DOMAIN Blocks(text) = 1..m
       /\ \A k \in 1..m : Blocks(text)[k] = Join(SubSeq(L, s[k], e[k]))
  BY <1>6, <1>7, <1>8, <1>9
<1>17. Len(Blocks(text)) = m
  <2> DEFINE b == Blocks(text)
             V == {b[k] : k \in 1..m}
  <2>1. DOMAIN b = 1..m /\ b = [k \in 1..m |-> b[k]]
    BY <1>6, <1>7, <1>8
  <2> HIDE DEF b
  <2>2. b \in [1..m -> V]
    BY <2>1
  <2> HIDE DEF V
  <2>3. b \in Seq(V)
    BY <1>8, <2>2, SeqDef
  <2>4. Len(b) = m
    BY <1>8, <2>2, <2>3, LenProperties
  <2>5. QED
    BY <2>4 DEF b
<1>18. n = Len(Lines(text)) /\ DOMAIN Lines(text) = 1..n /\ tags = Tags(Lines(text))
       /\ L = Lines(text)
  BY <1>2 DEF n, L, tags
<1>19. E = BlockEnds(Tags(Lines(text))) /\ Cardinality(E) = m
  BY <1>5, <1>18 DEF E
<1> HIDE DEF m
<1>20. Divided(text, n, m, s, e)
  BY <1>4, <1>8, <1>11, <1>12, <1>13, <1>14, <1>15, <1>16, <1>17, <1>18, <1>19 DEF Divided
<1>21. QED
  BY <1>2, <1>8, <1>20

\* One item more concerns the last page only.
LEMMA LineStepAfter ==
    ASSUME NEW S, NEW p \in Pages(S), NEW q \in Pages(S), NEW x \in S
    PROVE  p \o q \in Pages(S) /\ LineStep(p \o q, x) = p \o LineStep(q, x)
<1> DEFINE u == p \o q
           a == LineStep(u, x)
           b == LineStep(q, x)
           c == p \o b
           T == Seq(S)
           n == Len(p)
           k == Len(q)
<1>1. p \in Seq(T) /\ q \in Seq(T) /\ p # <<>>
  BY DEF Pages
<1> HIDE DEF T
<1>2. /\ u \in Seq(T) /\ Len(u) = n + k
      /\ n \in Nat /\ DOMAIN p = 1..n
      /\ k \in Nat /\ DOMAIN q = 1..k
      /\ \A i \in 1..n : u[i] = p[i]
      /\ \A i \in 1..k : u[n + i] = q[i]
  BY <1>1, ConcatItems
<1>3. n >= 1
  BY <1>1, <1>2, EmptySeq
<1>4. u \in Pages(S)
  <2>1. u # <<>>
    BY <1>2, <1>3, EmptySeq
  <2>2. QED
    BY <1>2, <2>1 DEF Pages, T
<1> HIDE DEF u
<1>5. /\ a \in Pages(S)
      /\ x = Newline => Len(a) = Len(u) + 1 /\ a[Len(u) + 1] = <<>>
      /\ x = Newline => \A i \in 1..Len(u) : a[i] = u[i]
      /\ x # Newline => Len(a) = Len(u) /\ a[Len(u)] = Append(u[Len(u)], x)
      /\ x # Newline => \A i \in 1..(Len(u) - 1) : a[i] = u[i]
  BY <1>4, LineStepIs
<1>6. /\ b \in Pages(S) /\ k >= 1
      /\ x = Newline => Len(b) = k + 1 /\ b[k + 1] = <<>>
      /\ x = Newline => \A i \in 1..k : b[i] = q[i]
      /\ x # Newline => Len(b) = k /\ b[k] = Append(q[k], x)
      /\ x # Newline => \A i \in 1..(k - 1) : b[i] = q[i]
  BY LineStepIs
<1> HIDE DEF a, b, n, k
<1>7. a \in Seq(T) /\ b \in Seq(T)
  BY <1>5, <1>6 DEF Pages, T
<1>8. /\ c \in Seq(T) /\ Len(c) = n + Len(b)
      /\ \A i \in 1..n : c[i] = p[i]
      /\ \A i \in 1..Len(b) : c[n + i] = b[i]
  <2>1. n = Len(p)
    BY DEF n
  <2>2. QED
    BY <1>1, <1>7, <2>1, ConcatItems
<1> HIDE DEF c
<1>9. a = c
  <2>1. CASE x = Newline
    <3>1. Len(a) = n + k + 1 /\ Len(c) = n + k + 1
      <4>1. Len(u) = n + k /\ n \in Nat /\ k \in Nat
        BY <1>2
      <4>2. Len(a) = Len(u) + 1 /\ Len(b) = k + 1
        BY <1>5, <1>6, <2>1
      <4>3. Len(c) = n + Len(b)
        BY <1>8
      <4>4. QED
        BY ONLY <4>1, <4>2, <4>3
    <3>2. ASSUME NEW i \in 1..(n + k + 1) PROVE a[i] = c[i]
      <4>1. CASE i <= n
        <5>1. i \in 1..n /\ i \in 1..Len(u)
          BY <1>2, <4>1
        <5>2. QED
          BY <1>2, <1>5, <1>8, <2>1, <5>1
      <4>2. CASE i > n /\ i <= n + k
        <5>1. i - n \in 1..k /\ n + (i - n) = i /\ i \in 1..Len(u) /\ i - n \in 1..Len(b)
          BY <1>2, <1>6, <2>1, <4>2
        <5>2. c[n + (i - n)] = q[i - n] /\ u[n + (i - n)] = q[i - n]
          BY <1>2, <1>6, <1>8, <2>1, <5>1
        <5>3. QED
          BY <1>5, <2>1, <5>1, <5>2
      <4>3. CASE i = n + k + 1
        <5>1. k + 1 \in 1..Len(b) /\ n + (k + 1) = i /\ i = Len(u) + 1
          BY <1>2, <1>6, <2>1, <4>3
        <5>2. c[n + (k + 1)] = <<>>
          BY <1>6, <1>8, <2>1, <5>1
        <5>3. QED
          BY <1>5, <2>1, <5>1, <5>2
      <4>4. QED
        BY <1>2, <4>1, <4>2, <4>3
    <3>3. QED
      BY <1>7, <1>8, <3>1, <3>2, SeqEqual
  <2>2. CASE x # Newline
    <3>1. Len(a) = n + k /\ Len(c) = n + k
      BY <1>2, <1>5, <1>6, <1>8, <2>2
    <3>2. ASSUME NEW i \in 1..(n + k) PROVE a[i] = c[i]
      <4>1. CASE i <= n
        <5>1. i \in 1..n /\ i \in 1..(Len(u) - 1)
          BY <1>2, <1>6, <4>1
        <5>2. QED
          BY <1>2, <1>5, <1>8, <2>2, <5>1
      <4>2. CASE i > n /\ i < n + k
        <5>1. i - n \in 1..k /\ n + (i - n) = i /\ i \in 1..(Len(u) - 1) /\ i - n \in 1..Len(b)
              /\ i - n \in 1..(k - 1)
          BY <1>2, <1>6, <2>2, <4>2
        <5>2. c[n + (i - n)] = q[i - n] /\ u[n + (i - n)] = q[i - n]
          BY <1>2, <1>6, <1>8, <2>2, <5>1
        <5>3. QED
          BY <1>5, <2>2, <5>1, <5>2
      <4>3. CASE i = n + k
        <5>1. k \in 1..Len(b) /\ k \in 1..k /\ n + k = i /\ i = Len(u)
          BY <1>2, <1>6, <2>2, <4>3
        <5>2. c[n + k] = Append(q[k], x) /\ u[n + k] = q[k]
          BY <1>2, <1>6, <1>8, <2>2, <5>1
        <5>3. QED
          BY <1>5, <2>2, <5>1, <5>2
      <4>4. QED
        BY <1>2, <4>1, <4>2, <4>3
    <3>3. QED
      BY <1>7, <1>8, <3>1, <3>2, SeqEqual
  <2>3. QED
    BY <2>1, <2>2
<1>10. QED
  BY <1>4, <1>9 DEF a, b, c, u

\* A text is split at any of its newlines.
LEMMA LinesConcat ==
    ASSUME NEW S, Newline \in S, NEW x \in Seq(S), NEW y \in Seq(S)
    PROVE  Lines((x \o <<Newline>>) \o y) = Lines(x) \o Lines(y)
<1> DEFINE z == x \o <<Newline>>
           P == Lines(x)
           Q == {t \in Seq(S) : Lines(z \o t) = P \o Lines(t)}
<1>1. P \in Pages(S) /\ \A t \in Seq(S) : Lines(t) \in Pages(S)
  BY LinesAre
<1>2. z = Append(x, Newline) /\ z \in Seq(S)
  <2>1. z = Append(x, Newline)
    BY AppendIsConcat
  <2>2. QED
    BY <2>1, AppendProperties
<1>3. Lines(z) = Append(P, <<>>)
  <2>1. Lines(z) = LineStep(P, Newline)
    BY <1>2, LinesAppend
  <2>2. QED
    BY <2>1 DEF LineStep
<1>4. Lines(<<>>) = << <<>> >>
  <2>1. <<>> \in Seq(S) /\ Len(<<>>) = 0
    BY EmptySeq
  <2>2. \E acc \in [0..Len(<<>>) -> Pages(S)] :
           acc[0] = << <<>> >> /\ Lines(<<>>) = acc[Len(<<>>)]
    BY <2>1, LinesLoop
  <2>3. QED
    BY <2>1, <2>2
<1> HIDE DEF z, P
<1>5. <<>> \in Q
  <2> DEFINE none == <<>>
             T == Seq(S)
  <2>1. P \in Seq(T) /\ none \in T
    BY <1>1, EmptySeq DEF Pages
  <2>2. Append(P, none) = P \o <<none>>
    <3> HIDE DEF none, T
    <3>1. QED
      BY <2>1, AppendIsConcat
  <2>3. z \o <<>> = z /\ <<>> \in Seq(S)
    BY <1>2, ConcatLaws, EmptySeq
  <2>4. Lines(z \o <<>>) = P \o Lines(<<>>)
    BY <1>3, <1>4, <2>2, <2>3
  <2>5. QED
    BY <2>3, <2>4
<1>6. ASSUME NEW t \in Q, NEW c \in S PROVE Append(t, c) \in Q
  <2>1. t \in Seq(S) /\ Lines(z \o t) = P \o Lines(t)
    OBVIOUS
  <2> HIDE DEF Q
  <2>2. Append(t, c) \in Seq(S) /\ z \o Append(t, c) = Append(z \o t, c) /\ z \o t \in Seq(S)
    BY <1>2, <2>1, AppendProperties, ConcatLaws
  <2>3. /\ Lines(Append(z \o t, c)) = LineStep(Lines(z \o t), c)
        /\ Lines(Append(t, c)) = LineStep(Lines(t), c)
    BY <2>1, <2>2, LinesAppend
  <2>4. Lines(t) \in Pages(S)
    BY <1>1, <2>1
  <2>5. LineStep(P \o Lines(t), c) = P \o LineStep(Lines(t), c)
    BY <1>1, <2>4, LineStepAfter
  <2>6. QED
    BY <2>1, <2>2, <2>3, <2>5 DEF Q
<1>7. \A t \in Seq(S) : t \in Q
  <2>1. Q \in SUBSET Seq(S)
    OBVIOUS
  <2> HIDE DEF Q
  <2>2. QED
    BY <1>5, <1>6, <2>1, SequencesAll
<1>8. QED
  BY <1>7 DEF z, P

----------------------------------------------------------------------------
\* The code lines of a text, and that a text has none.
CodeOf(x, C) == CodeLines(Lines(x), C)
CodeFree(x, C) == \A p \in DOMAIN x : IsWord(x[p]) => x[p] \notin C

\* The code lines are lines.
LEMMA CodeType ==
    ASSUME NEW T, NEW p \in Seq(T), NEW C
    PROVE  CodeLines(p, C) \in Seq(T)
BY OnlyIs DEF CodeLines

\* The code lines of two texts of lines, one after the other.
LEMMA CodeConcat ==
    ASSUME NEW T, NEW p \in Seq(T), NEW q \in Seq(T), NEW C
    PROVE  CodeLines(p \o q, C) = CodeLines(p, C) \o CodeLines(q, C)
<1> DEFINE D == {l \in T : HasWord(l) /\ TheWord(l) \in C}
           Held(u) == {l \in Range(u) : HasWord(l) /\ TheWord(l) \in C}
<1>1. ASSUME NEW u \in Seq(T) PROVE CodeLines(u, C) = Only(u, D)
  <2>1. CodeLines(u, C) = Only(u, Held(u))
    BY DEF CodeLines
  <2>2. \A l \in Range(u) : l \in T
    BY LenProperties, ElementOfSeq DEF Range
  <2>3. \A l \in Range(u) : l \in Held(u) <=> l \in D
    BY <2>2
  <2> HIDE DEF D, Held
  <2>4. QED
    BY <2>1, <2>3, OnlyAgree
<1> HIDE DEF D
<1>2. p \o q \in Seq(T)
  BY ConcatLaws
<1>3. Only(p \o q, D) = Only(p, D) \o Only(q, D)
  BY OnlyConcat
<1>4. QED
  BY <1>1, <1>2, <1>3

\* Whatever the lines are made of.
LEMMA CodeOfBoth ==
    ASSUME NEW p, NEW q, NEW C, \E T : p \in Seq(T) /\ q \in Seq(T)
    PROVE  CodeLines(p \o q, C) = CodeLines(p, C) \o CodeLines(q, C)
<1>1. PICK T : p \in Seq(T) /\ q \in Seq(T)
  OBVIOUS
<1>2. QED
  BY <1>1, CodeConcat

\* A text that is cut at a newline.
LEMMA CodeSplits ==
    ASSUME NEW S, Newline \in S, NEW x \in Seq(S), NEW y \in Seq(S), NEW C
    PROVE  CodeOf((x \o <<Newline>>) \o y, C) = CodeOf(x, C) \o CodeOf(y, C)
<1>1. Lines(x) \in Seq(Seq(S)) /\ Lines(y) \in Seq(Seq(S))
  BY LinesAre DEF Pages
<1>2. Lines((x \o <<Newline>>) \o y) = Lines(x) \o Lines(y)
  BY LinesConcat
<1>3. \E T : Lines(x) \in Seq(T) /\ Lines(y) \in Seq(T)
  BY <1>1
<1>4. CodeLines(Lines(x) \o Lines(y), C) = CodeLines(Lines(x), C) \o CodeLines(Lines(y), C)
  BY <1>3, CodeOfBoth
<1>5. QED
  BY <1>2, <1>4 DEF CodeOf

\* They are lines.
LEMMA CodeOfType ==
    ASSUME NEW S, NEW x \in Seq(S), NEW C
    PROVE  CodeOf(x, C) \in Seq(Seq(S))
<1> SUFFICES ASSUME NEW p, p = Lines(x), NEW T, T = Seq(S) PROVE CodeOf(x, C) \in Seq(T)
  OBVIOUS
<1>1. p \in Seq(T)
  BY LinesAre DEF Pages
<1>2. QED
  BY <1>1, CodeType DEF CodeOf

\* No line is code, unless its word is.
LEMMA NoCodeLines ==
    ASSUME NEW ls \in Seq(Seq(Raw)), NEW C,
           \A l \in Range(ls) : \A w \in Range(l) : IsWord(w) => w \notin C
    PROVE  CodeLines(ls, C) = <<>>
<1> DEFINE D == {l \in Range(ls) : HasWord(l) /\ TheWord(l) \in C}
<1>1. \A l \in Range(ls) : l \in Seq(Raw)
  BY LenProperties, ElementOfSeq DEF Range
<1>2. \A l \in Range(ls) : l \notin D
  BY <1>1, WordIs
<1>3. CodeLines(ls, C) = Only(ls, D)
  BY DEF CodeLines
<1> HIDE DEF D
<1>4. Only(ls, D) = <<>>
  <2> DEFINE T == Seq(Raw)
  <2>1. ls \in Seq(T)
    OBVIOUS
  <2> HIDE DEF T
  <2>2. QED
    BY <1>2, <2>1, OnlyNone
<1>5. QED
  BY <1>3, <1>4

LEMMA NoCodeOf ==
    ASSUME NEW x \in Seq(Raw), NEW C, CodeFree(x, C)
    PROVE  CodeOf(x, C) = <<>>
<1>1. Lines(x) \in Seq(Seq(Raw)) /\ Cut(Lines(x), x, Len(x))
  BY LinesAre DEF Pages
<1>2. DOMAIN x = 1..Len(x)
  BY LenProperties
<1> DEFINE L == Lines(x)
<1>3. \A l \in Range(L) : \A w \in Range(l) : IsWord(w) => w \notin C
  <2>1. \A i \in DOMAIN L : \A w \in Range(L[i]) : \E k \in 1..Len(x) : w = x[k]
    BY <1>1 DEF Cut
  <2>2. \A k \in 1..Len(x) : IsWord(x[k]) => x[k] \notin C
    BY <1>2 DEF CodeFree
  <2> HIDE DEF L
  <2>3. \A l \in Range(L) : \E i \in DOMAIN L : l = L[i]
    BY DEF Range
  <2>4. QED
    BY <2>1, <2>2, <2>3
<1>4. CodeLines(Lines(x), C) = <<>>
  BY <1>1, <1>3, NoCodeLines
<1>5. QED
  BY <1>4 DEF CodeOf

----------------------------------------------------------------------------
\* Putting the blocks back (restoreBlocks): what has been put together ends with
\* an open line or with a block that a newline follows, and holds the code of the
\* blocks that were reached.

\* The rest of a text.
LEMMA RestIs ==
    ASSUME NEW B, NEW a \in Seq(B), NEW i \in 1..Len(a), NEW r, r = SubSeq(a, i + 1, Len(a))
    PROVE  /\ IsBlank(r) <=> \A j \in (i + 1)..Len(a) : IsSpace(a[j])
           /\ i < Len(a) => r[1] = a[i + 1]
<1> DEFINE n == Len(a)
<1>1. n \in Nat /\ \A j \in 1..n : a[j] \in B
  BY LenProperties, ElementOfSeq
<1>2. \A j \in (i + 1)..n : a[j] \in B
  BY <1>1
<1>3. /\ r \in Seq(B)
      /\ Len(r) = IF i + 1 <= n THEN n - (i + 1) + 1 ELSE 0
      /\ \A k \in 1..(n - (i + 1) + 1) : r[k] = a[(i + 1) + k - 1]
  <2> DEFINE lo == i + 1
  <2>1. lo \in Int /\ n \in Int
    BY <1>1
  <2>2. \A j \in lo..n : a[j] \in B
    BY <1>2
  <2> HIDE DEF lo, n
  <2>3. /\ SubSeq(a, lo, n) \in Seq(B)
        /\ Len(SubSeq(a, lo, n)) = IF lo <= n THEN n - lo + 1 ELSE 0
        /\ \A k \in 1..(n - lo + 1) : SubSeq(a, lo, n)[k] = a[lo + k - 1]
    BY <2>1, <2>2, SubSeqProperties
  <2>4. QED
    BY <2>3 DEF lo, n
<1>4. Len(r) = n - i /\ DOMAIN r = 1..(n - i) /\ n - i \in Nat
  <2>1. Len(r) = n - i /\ n - i \in Nat
    BY <1>1, <1>3
  <2>2. QED
    BY <1>3, <2>1, LenProperties
<1> HIDE DEF n
<1>5. \A k \in 1..(n - i) : r[k] = a[i + k]
  <2>1. SUFFICES ASSUME NEW k \in 1..(n - i) PROVE r[k] = a[i + k]
    OBVIOUS
  <2>2. k \in 1..(n - (i + 1) + 1) /\ (i + 1) + k - 1 = i + k
    BY <1>1
  <2>3. QED
    BY <1>3, <2>2
<1>6. ASSUME IsBlank(r), NEW j \in (i + 1)..n PROVE IsSpace(a[j])
  <2>1. j - i \in 1..(n - i) /\ i + (j - i) = j
    BY <1>1
  <2>2. IsSpace(r[j - i]) /\ r[j - i] = a[i + (j - i)]
    BY <1>4, <1>5, <1>6, <2>1 DEF IsBlank
  <2>3. QED
    BY <2>1, <2>2
<1>7. ASSUME \A j \in (i + 1)..n : IsSpace(a[j]) PROVE IsBlank(r)
  <2>1. \A k \in 1..(n - i) : i + k \in (i + 1)..n
    BY <1>1
  <2>2. QED
    BY <1>4, <1>5, <1>7, <2>1 DEF IsBlank
<1>8. i < n => r[1] = a[i + 1]
  <2>1. i < n => 1 \in 1..(n - i)
    BY <1>1
  <2>2. QED
    BY <1>5, <2>1
<1>9. QED
  BY <1>6, <1>7, <1>8 DEF n

\* Counting sentinels.
LEMMA SentinelsAre ==
    ASSUME NEW B, NEW a \in Seq(B)
    PROVE  /\ Sentinels(a, 0) = 0
           /\ \A i \in 1..Len(a) :
                 /\ Sentinels(a, i) \in Nat
                 /\ a[i] = Sentinel => Sentinels(a, i) = Sentinels(a, i - 1) + 1
                 /\ a[i] # Sentinel => Sentinels(a, i) = Sentinels(a, i - 1)
                 /\ Sentinels(a, i) <= Sentinels(a, Len(a))
<1> DEFINE A(i) == {j \in 1..i : a[j] = Sentinel}
<1>1. Len(a) \in Nat
  BY LenProperties
<1>2. \A i : Sentinels(a, i) = Cardinality(A(i))
  BY DEF Sentinels, Quantify
<1>3. \A i \in Nat : IsFiniteSet(A(i)) /\ Cardinality(A(i)) \in Nat
  <2>1. SUFFICES ASSUME NEW i \in Nat PROVE IsFiniteSet(A(i)) /\ Cardinality(A(i)) \in Nat
    OBVIOUS
  <2>2. IsFiniteSet(1..i) /\ A(i) \subseteq 1..i
    BY FS_Interval
  <2> HIDE DEF A
  <2>3. QED
    BY <2>2, FS_Subset, FS_CardinalityType
<1>4. A(0) = {}
  OBVIOUS
<1>5. ASSUME NEW i \in 1..Len(a)
      PROVE  /\ a[i] = Sentinel => A(i) = A(i - 1) \cup {i} /\ i \notin A(i - 1)
             /\ a[i] # Sentinel => A(i) = A(i - 1)
             /\ A(i) \subseteq A(Len(a))
  <2>1. i \in Nat /\ 1..i = (1..(i - 1)) \cup {i} /\ i \notin 1..(i - 1) /\ 1..i \subseteq 1..Len(a)
    BY <1>1
  <2>2. QED
    BY <2>1
<1> HIDE DEF A
<1>6. ASSUME NEW i \in 1..Len(a)
      PROVE  /\ Cardinality(A(i)) \in Nat
             /\ a[i] = Sentinel => Cardinality(A(i)) = Cardinality(A(i - 1)) + 1
             /\ a[i] # Sentinel => Cardinality(A(i)) = Cardinality(A(i - 1))
             /\ Cardinality(A(i)) <= Cardinality(A(Len(a)))
  <2>1. i \in Nat /\ i - 1 \in Nat
    BY <1>1
  <2>2. IsFiniteSet(A(i - 1)) /\ IsFiniteSet(A(Len(a))) /\ Cardinality(A(i)) \in Nat
    BY <1>1, <1>3, <2>1
  <2>3. QED
    BY <1>5, <2>2, FS_AddElement, FS_Subset
<1>7. Cardinality(A(0)) = 0
  BY <1>4, FS_EmptySet
<1>8. QED
  BY <1>2, <1>6, <1>7

\* Whatever follows without code leaves the code lines c.
Open(x, c, C) == \A f \in Seq(Raw) : CodeFree(f, C) => CodeOf(x \o f, C) = c

\* One item that is no code.
LEMMA OpenMore ==
    ASSUME NEW x \in Seq(Raw), NEW c, NEW C, Open(x, c, C),
           NEW y \in Raw, IsWord(y) => y \notin C
    PROVE  Open(x \o <<y>>, c, C)
<1>1. <<y>> \in Seq(Raw) /\ DOMAIN <<y>> = 1..1 /\ <<y>>[1] = y
  OBVIOUS
<1>2. ASSUME NEW f \in Seq(Raw), CodeFree(f, C) PROVE CodeOf((x \o <<y>>) \o f, C) = c
  <2> DEFINE z == <<y>>
  <2>1. z \in Seq(Raw) /\ DOMAIN z = 1..1 /\ z[1] = y /\ Len(z) = 1
    OBVIOUS
  <2> HIDE DEF z
  <2>2. /\ z \o f \in Seq(Raw) /\ DOMAIN (z \o f) = 1..(1 + Len(f)) /\ Len(f) \in Nat
        /\ DOMAIN f = 1..Len(f)
        /\ \A p \in 1..1 : (z \o f)[p] = z[p]
        /\ \A p \in 1..Len(f) : (z \o f)[1 + p] = f[p]
    <3>0. z \in Seq(Raw)
      BY <2>1
    <3>1. /\ z \o f \in Seq(Raw) /\ DOMAIN (z \o f) = 1..(Len(z) + Len(f)) /\ Len(f) \in Nat
          /\ DOMAIN f = 1..Len(f)
          /\ \A p \in 1..Len(z) : (z \o f)[p] = z[p]
          /\ \A p \in 1..Len(f) : (z \o f)[Len(z) + p] = f[p]
      BY ONLY f \in Seq(Raw), <3>0, ConcatItems
    <3>2. QED
      BY ONLY <2>1, <3>1
  <2>3. ASSUME NEW p \in DOMAIN (z \o f), IsWord((z \o f)[p]) PROVE (z \o f)[p] \notin C
    <3>1. CASE p = 1
      BY <2>1, <2>2, <2>3, <3>1
    <3>2. CASE p # 1
      <4>1. p - 1 \in 1..Len(f) /\ 1 + (p - 1) = p
        BY <2>2, <3>2
      <4>2. (z \o f)[1 + (p - 1)] = f[p - 1]
        BY <2>2, <4>1
      <4>3. (z \o f)[p] = f[p - 1] /\ p - 1 \in DOMAIN f
        BY <2>2, <4>1, <4>2
      <4>4. QED
        BY <1>2, <2>3, <4>3 DEF CodeFree
    <3>3. QED
      BY <3>1, <3>2
  <2>4. CodeFree(z \o f, C)
    BY <2>3 DEF CodeFree
  <2>5. CodeOf(x \o (z \o f), C) = c
    BY <2>2, <2>4 DEF Open
  <2>6. x \o (z \o f) = (x \o z) \o f
    BY <2>1, ConcatLaws
  <2>7. CodeOf((x \o z) \o f, C) = c
    BY <2>5, <2>6
  <2>8. QED
    BY <2>7 DEF z
<1>3. QED
  BY <1>2 DEF Open

\* A line has ended.
LEMMA OpenNew ==
    ASSUME NEW x \in Seq(Raw), NEW C
    PROVE  Open(x \o <<Newline>>, CodeOf(x, C), C)
<1>0. Newline \in Raw
  BY DEF Raw
<1>1. ASSUME NEW f \in Seq(Raw), CodeFree(f, C)
      PROVE  CodeOf((x \o <<Newline>>) \o f, C) = CodeOf(x, C)
  <2> DEFINE c == CodeOf(x, C)
             T == Seq(Raw)
  <2>1. CodeOf((x \o <<Newline>>) \o f, C) = c \o CodeOf(f, C)
    BY <1>0, CodeSplits
  <2>2. CodeOf(f, C) = <<>>
    BY <1>1, NoCodeOf
  <2>3. c \in Seq(T)
    BY CodeOfType
  <2> HIDE DEF c, T
  <2>4. c \o <<>> = c
    BY <2>3, ConcatLaws
  <2>5. QED
    BY <2>1, <2>2, <2>4 DEF c
<1>2. QED
  BY <1>1 DEF Open

\* Nothing follows.
LEMMA OpenNow ==
    ASSUME NEW x \in Seq(Raw), NEW c, NEW C, Open(x, c, C)
    PROVE  CodeOf(x, C) = c
<1>1. <<>> \in Seq(Raw) /\ DOMAIN <<>> = {}
  BY EmptySeq, LenProperties
<1>2. CodeFree(<<>>, C)
  BY <1>1 DEF CodeFree
<1>3. CodeOf(x \o <<>>, C) = c
  BY <1>1, <1>2 DEF Open
<1>4. x \o <<>> = x
  BY ConcatLaws
<1>5. QED
  BY <1>3, <1>4

\* What stands for a sentinel: its block, and newlines where they are missing.
LEMMA PieceIs ==
    ASSUME NEW a \in Seq(Raw), NEW i \in 1..Len(a), NEW blocks, a[i] = Sentinel
    PROVE  \E after \in BOOLEAN :
             /\ after \/ (\A j \in (i + 1)..Len(a) : IsSpace(a[j])) \/ a[i + 1] = Newline
             /\ Spliced(a, blocks, i) =
                   (IF i > 1 /\ a[i - 1] # Newline THEN <<Newline>> ELSE <<>>)
                      \o blocks[Sentinels(a, i)]
                      \o (IF after THEN <<Newline>> ELSE <<>>)
<1> DEFINE rest == SubSeq(a, i + 1, Len(a))
           after == ~IsBlank(rest) /\ rest[1] # Newline
<1>1. /\ IsBlank(rest) <=> \A j \in (i + 1)..Len(a) : IsSpace(a[j])
      /\ i < Len(a) => rest[1] = a[i + 1]
  BY RestIs
<1>2. Spliced(a, blocks, i) =
         (IF i > 1 /\ a[i - 1] # Newline THEN <<Newline>> ELSE <<>>)
            \o blocks[Sentinels(a, i)]
            \o (IF after THEN <<Newline>> ELSE <<>>)
  BY DEF Spliced
<1> HIDE DEF rest
<1>3. ~(i < Len(a)) => (i + 1)..Len(a) = {}
  BY LenProperties
<1>4. after \/ (\A j \in (i + 1)..Len(a) : IsSpace(a[j])) \/ a[i + 1] = Newline
  BY <1>1, <1>3
<1>5. after \in BOOLEAN
  OBVIOUS
<1> HIDE DEF after
<1>6. QED
  BY <1>2, <1>4, <1>5

\* What has been put together of an answer when it was read up to i: it ends
\* with an open line, or with a block that a newline of the answer follows.
SoFar(a, acc, codes, C, q, i) ==
    LET k == Sentinels(a, i)
    IN  /\ acc[i] \in Seq(Raw) /\ CodeOf(acc[i], C) = codes[k]
        /\ \/ Open(acc[i], codes[k], C)
           \/ i >= 1 /\ a[i] = Sentinel /\ (i < q => a[i + 1] = Newline)
        /\ i >= 1 /\ a[i] = Newline =>
              \E u \in Seq(Raw) : acc[i] = u \o <<Newline>> /\ CodeOf(u, C) = codes[k]

\* A block after a line that has ended.
LEMMA BlockPut ==
    ASSUME NEW C, NEW u \in Seq(Raw), NEW b \in Seq(Raw)
    PROVE  /\ (u \o <<Newline>>) \o b \in Seq(Raw)
           /\ CodeOf((u \o <<Newline>>) \o b, C) = CodeOf(u, C) \o CodeOf(b, C)
           /\ u \o (<<Newline>> \o b) = (u \o <<Newline>>) \o b
<1> DEFINE nl == <<Newline>>
<1>1. Newline \in Raw
  BY DEF Raw
<1>2. CodeOf((u \o <<Newline>>) \o b, C) = CodeOf(u, C) \o CodeOf(b, C)
  BY <1>1, CodeSplits, SMTT(60)
<1>3. nl \in Seq(Raw)
  BY <1>1
<1> HIDE DEF nl
<1>4. u \o nl \in Seq(Raw) /\ u \o (nl \o b) = (u \o nl) \o b
  BY <1>3, Assoc
<1>5. (u \o nl) \o b \in Seq(Raw)
  BY <1>4, Assoc
<1>6. QED
  BY <1>2, <1>4, <1>5 DEF nl

\* A block at the beginning.
LEMMA BlockFirst ==
    ASSUME NEW C, NEW b \in Seq(Raw)
    PROVE  /\ <<>> \o (<<>> \o b) = b /\ <<>> \o b = b
           /\ CodeOf(b, C) = <<>> \o CodeOf(b, C)
<1> DEFINE T == Seq(Raw)
           c == CodeOf(b, C)
<1>1. c \in Seq(T)
  BY CodeOfType
<1> HIDE DEF T, c
<1>2. c = <<>> \o c
  BY <1>1, ConcatLaws
<1>3. <<>> \o b = b
  BY ConcatLaws
<1>4. QED
  BY <1>2, <1>3 DEF c

\* One item more of the answer.
LEMMA SpliceStep ==
    ASSUME NEW C, NEW a \in Seq(Raw), CodeFree(a, C), NEW q \in 0..Len(a),
           \A j \in 1..Len(a) : j < q /\ a[j] = Sentinel =>
              \E l \in (j + 1)..Len(a) : ~IsSpace(a[l]),
           NEW blocks, NEW m \in Nat, Sentinels(a, Len(a)) = m,
           \A k \in 1..m : blocks[k] \in Seq(Raw),
           NEW codes, codes[0] = <<>>, \A k \in 1..m : codes[k] = codes[k - 1] \o CodeOf(blocks[k], C),
           NEW acc, acc[0] = <<>>, NEW i \in 1..q, SoFar(a, acc, codes, C, q, i - 1),
           acc[i] = acc[i - 1] \o Spliced(a, blocks, i)
    PROVE  SoFar(a, acc, codes, C, q, i)
<1> DEFINE kk == Sentinels(a, i - 1)
           k == Sentinels(a, i)
           x == acc[i - 1]
<1>1. /\ Len(a) \in Nat /\ DOMAIN a = 1..Len(a) /\ i \in 1..Len(a) /\ i >= 1 /\ i \in Nat
      /\ a[i] \in Raw /\ (IsWord(a[i]) => a[i] \notin C)
  <2>1. Len(a) \in Nat /\ DOMAIN a = 1..Len(a)
    BY LenProperties
  <2>2. i \in 1..Len(a) /\ i >= 1 /\ i \in Nat
    BY <2>1
  <2>3. QED
    BY <2>1, <2>2, ElementOfSeq DEF CodeFree
<1>2. /\ x \in Seq(Raw) /\ CodeOf(x, C) = codes[kk]
      /\ \/ Open(x, codes[kk], C)
         \/ i - 1 >= 1 /\ a[i - 1] = Sentinel /\ (i - 1 < q => a[i] = Newline)
      /\ i - 1 >= 1 /\ a[i - 1] = Newline =>
            \E u \in Seq(Raw) : x = u \o <<Newline>> /\ CodeOf(u, C) = codes[kk]
  <2>1. (i - 1) + 1 = i
    BY <1>1
  <2>2. QED
    BY <2>1 DEF SoFar
<1>3. Newline # Sentinel /\ Newline \in Raw /\ ~IsSpace(Sentinel)
  BY DEF Raw, Newline, Sentinel, Indent, Item, IsSpace
<1> DEFINE nl == Newline
           se == Sentinel
<1>4. /\ a[i] = Sentinel => k = kk + 1
      /\ a[i] # Sentinel => k = kk
      /\ k \in Nat /\ k <= m /\ Sentinels(a, 0) = 0
  BY <1>1, SentinelsAre
<1>5. kk \in Nat
  <2>1. CASE i = 1
    BY <1>4, <2>1
  <2>2. CASE i # 1
    <3>1. i - 1 \in 1..Len(a)
      BY <1>1, <2>2
    <3>2. QED
      BY <3>1, SentinelsAre
  <2>3. QED
    BY <2>1, <2>2
<1>6. SUFFICES /\ acc[i] \in Seq(Raw) /\ CodeOf(acc[i], C) = codes[k]
               /\ \/ Open(acc[i], codes[k], C)
                  \/ i >= 1 /\ a[i] = Sentinel /\ (i < q => a[i + 1] = Newline)
               /\ i >= 1 /\ a[i] = Newline =>
                     \E u \in Seq(Raw) : acc[i] = u \o <<Newline>> /\ CodeOf(u, C) = codes[k]
  BY DEF SoFar
<1> HIDE DEF kk, k, x
<1>7. CASE a[i] # Sentinel
  <2>1. Spliced(a, blocks, i) = <<a[i]>>
    BY <1>7 DEF Spliced
  <2>2. acc[i] = x \o <<a[i]>> /\ k = kk
    BY <1>4, <1>7, <2>1 DEF x
  <2>3. x \o <<a[i]>> \in Seq(Raw)
    <3> DEFINE z == <<a[i]>>
    <3>1. z \in Seq(Raw)
      BY <1>1
    <3> HIDE DEF z
    <3>2. x \o z \in Seq(Raw)
      BY <1>2, <3>1, ConcatLaws
    <3>3. QED
      BY <3>2 DEF z
  <2>4. Open(x \o <<a[i]>>, codes[kk], C)
    <3>1. CASE Open(x, codes[kk], C)
      BY <1>1, <1>2, <3>1, OpenMore
    <3>2. CASE i - 1 >= 1 /\ a[i - 1] = Sentinel /\ (i - 1 < q => a[i] = Newline)
      <4>1. a[i] = Newline
        BY <1>1, <3>2
      <4>2. Open(x \o <<Newline>>, CodeOf(x, C), C)
        BY <1>2, OpenNew
      <4>3. QED
        BY <1>2, <4>1, <4>2
    <3>3. QED
      BY <1>2, <3>1, <3>2
  <2>5. CodeOf(x \o <<a[i]>>, C) = codes[kk]
    BY <2>3, <2>4, OpenNow
  <2>6. QED
    BY <1>2, <2>2, <2>3, <2>4, <2>5
<1>8. CASE a[i] = Sentinel
  <2> DEFINE b == blocks[k]
             c == codes[kk]
             newline == i > 1 /\ a[i - 1] # Newline
             y == x \o ((IF newline THEN <<Newline>> ELSE <<>>) \o b)
  <2>1. k = kk + 1 /\ k \in 1..m /\ b \in Seq(Raw) /\ codes[k] = c \o CodeOf(b, C)
    <3>1. k = kk + 1 /\ k \in 1..m /\ k - 1 = kk
      BY <1>4, <1>5, <1>8
    <3>2. QED
      BY <3>1
  <2>2. Open(x, c, C)
    BY <1>1, <1>2, <1>3, <1>8
  <2>3. y \in Seq(Raw) /\ CodeOf(y, C) = c \o CodeOf(b, C)
    <3>1. CASE i = 1
      <4>1. i - 1 = 0 /\ ~newline
        BY <3>1
      <4>2. kk = 0 /\ x = <<>>
        BY <1>4, <4>1 DEF kk, x
      <4>3. c = <<>> /\ y = <<>> \o (<<>> \o b)
        BY <4>1, <4>2
      <4>4. y = b /\ CodeOf(b, C) = <<>> \o CodeOf(b, C)
        BY <2>1, <4>3, BlockFirst
      <4> HIDE DEF y, b, c
      <4>5. QED
        BY <2>1, <4>3, <4>4
    <3>2. CASE newline
      <4>1. y = x \o (<<Newline>> \o b)
        BY <3>2
      <4> HIDE DEF y, b, c
      <4>2. x \in Seq(Raw) /\ b \in Seq(Raw) /\ c = CodeOf(x, C)
        BY <1>2, <2>1 DEF c
      <4>3. /\ (x \o <<Newline>>) \o b \in Seq(Raw)
            /\ CodeOf((x \o <<Newline>>) \o b, C) = CodeOf(x, C) \o CodeOf(b, C)
            /\ x \o (<<Newline>> \o b) = (x \o <<Newline>>) \o b
        BY ONLY <4>2, BlockPut
      <4>4. QED
        BY ONLY <4>1, <4>2, <4>3
    <3>3. CASE i # 1 /\ ~newline
      <4>0. i > 1
        BY <1>1, <3>3
      <4>1. i - 1 >= 1 /\ a[i - 1] = Newline
        BY <1>1, <3>3, <4>0
      <4>2. PICK u \in Seq(Raw) : x = u \o <<Newline>> /\ CodeOf(u, C) = codes[kk]
        BY <1>2, <4>1
      <4>3. y = x \o (<<>> \o b)
        BY <3>3
      <4>4. y = (u \o <<Newline>>) \o b
        BY <2>1, <4>2, <4>3, BlockFirst
      <4> HIDE DEF y, b, c
      <4>5. u \in Seq(Raw) /\ b \in Seq(Raw) /\ c = CodeOf(u, C)
        BY <2>1, <4>2 DEF c
      <4>6. /\ (u \o <<Newline>>) \o b \in Seq(Raw)
            /\ CodeOf((u \o <<Newline>>) \o b, C) = CodeOf(u, C) \o CodeOf(b, C)
        BY ONLY <4>5, BlockPut
      <4>7. QED
        BY ONLY <4>4, <4>5, <4>6
    <3>4. QED
      BY <3>1, <3>2, <3>3
  <2>4. PICK after \in BOOLEAN :
          /\ after \/ (\A j \in (i + 1)..Len(a) : IsSpace(a[j])) \/ a[i + 1] = Newline
          /\ Spliced(a, blocks, i) =
                (IF i > 1 /\ a[i - 1] # Newline THEN <<Newline>> ELSE <<>>)
                   \o blocks[Sentinels(a, i)]
                   \o (IF after THEN <<Newline>> ELSE <<>>)
    BY <1>1, <1>8, PieceIs
  <2> DEFINE before == IF newline THEN <<Newline>> ELSE <<>>
             end == IF after THEN <<Newline>> ELSE <<>>
  <2>5. acc[i] = y \o end
    <3>1. before \in Seq(Raw) /\ end \in Seq(Raw)
      <4>1. <<Newline>> \in Seq(Raw) /\ <<>> \in Seq(Raw)
        BY <1>3
      <4>2. QED
        BY <4>1
    <3>2. acc[i] = x \o ((before \o b) \o end)
      BY <2>4 DEF x, k
    <3>3. y = x \o (before \o b)
      OBVIOUS
    <3>4. b \in Seq(Raw)
      BY <2>1
    <3> HIDE DEF before, end, b, y
    <3>5. x \o ((before \o b) \o end) = (x \o (before \o b)) \o end
      <4>1. x \in Seq(Raw)
        BY <1>2
      <4>2. before \o b \in Seq(Raw)
        BY ONLY <3>1, <3>4, Assoc
      <4> DEFINE w == before \o b
      <4> HIDE DEF w
      <4>3. x \o (w \o end) = (x \o w) \o end
        <5>1. w \in Seq(Raw)
          BY <4>2 DEF w
        <5>2. QED
          BY ONLY <3>1, <4>1, <5>1, Assoc
      <4>4. QED
        BY ONLY <4>3 DEF w
    <3>6. QED
      BY <3>2, <3>3, <3>5
  <2> HIDE DEF y, b, c
  <2>6. CASE after
    <3>1. acc[i] = y \o <<Newline>>
      BY <2>5, <2>6
    <3>2. Open(y \o <<Newline>>, CodeOf(y, C), C)
      BY <2>3, OpenNew
    <3>3. y \o <<Newline>> \in Seq(Raw)
      <4> DEFINE z == <<Newline>>
      <4>1. z \in Seq(Raw)
        BY <1>3
      <4> HIDE DEF z
      <4>2. y \o z \in Seq(Raw)
        BY <2>3, <4>1, ConcatLaws
      <4>3. QED
        BY <4>2 DEF z
    <3>4. CodeOf(y \o <<Newline>>, C) = CodeOf(y, C)
      BY <3>2, <3>3, OpenNow
    <3>5. QED
      BY <1>3, <1>8, <2>1, <2>3, <3>1, <3>2, <3>3, <3>4
  <2>7. CASE ~after
    <3>1. acc[i] = y
      <4>1. acc[i] = y \o <<>>
        BY <2>5, <2>7
      <4>2. y \o <<>> = y
        BY <2>3, ConcatLaws
      <4>3. QED
        BY <4>1, <4>2
    <3>2. i < q => a[i + 1] = Newline
      BY <1>1, <1>8, <2>4, <2>7
    <3>3. QED
      BY <1>1, <1>3, <1>8, <2>1, <2>3, <3>1, <3>2
  <2>8. QED
    BY <2>6, <2>7
<1>9. QED
  BY <1>7, <1>8

\* Lines without code add none.
LEMMA GapCode ==
    ASSUME NEW L \in Seq(Seq(Raw)), NEW C, NEW a \in 0..Len(L), NEW b \in a..Len(L),
           \A i \in (a + 1)..b : \A w \in Range(L[i]) : IsWord(w) => w \notin C
    PROVE  CodeLines(SubSeq(L, 1, b), C) = CodeLines(SubSeq(L, 1, a), C)
<1> DEFINE T == Seq(Raw)
           p == SubSeq(L, 1, a)
           g == SubSeq(L, a + 1, b)
<1>1. L \in Seq(T) /\ Len(L) \in Nat /\ \A i \in 1..Len(L) : L[i] \in T
  BY LenProperties, ElementOfSeq
<1> HIDE DEF T
<1>2. 1 \in 1..(Len(L) + 1) /\ a \in (1 - 1)..Len(L) /\ b \in a..Len(L) /\ a \in Int /\ b \in Int
  BY <1>1
<1>3. SubSeq(L, 1, b) = p \o g
  BY <1>1, <1>2, ConcatAdjacentSubSeq
<1>4. p \in Seq(T)
  BY <1>1, <1>2, SubSeqProperties
<1>5. g \in Seq(T) /\ Len(g) = (IF a + 1 <= b THEN b - (a + 1) + 1 ELSE 0)
      /\ \A i \in 1..(b - (a + 1) + 1) : g[i] = L[(a + 1) + i - 1]
  <2>1. a + 1 \in Int /\ b \in Int /\ \A i \in (a + 1)..b : L[i] \in T
    BY <1>1, <1>2
  <2>2. QED
    BY <2>1, SubSeqProperties
<1>6. \A l \in Range(g) : \A w \in Range(l) : IsWord(w) => w \notin C
  <2>1. ASSUME NEW i \in DOMAIN g PROVE \E k \in (a + 1)..b : g[i] = L[k]
    <3>1. i \in 1..Len(g)
      BY <1>5, LenProperties
    <3>2. i \in 1..(b - (a + 1) + 1)
      BY <1>2, <1>5, <3>1
    <3>3. (a + 1) + i - 1 \in (a + 1)..b
      BY <1>2, <3>2
    <3>4. QED
      BY <1>5, <3>2, <3>3
  <2>2. QED
    BY <2>1 DEF Range
<1> HIDE DEF p, g
<1>7. CodeLines(g, C) = <<>>
  BY <1>5, <1>6, NoCodeLines DEF T
<1>8. CodeLines(p \o g, C) = CodeLines(p, C) \o CodeLines(g, C)
  BY <1>4, <1>5, CodeConcat
<1>9. CodeLines(p, C) \o <<>> = CodeLines(p, C)
  <2>1. CodeLines(p, C) \in Seq(T)
    BY <1>4, CodeType
  <2>2. QED
    BY ONLY <2>1, ConcatLaws
<1>10. QED
  BY <1>3, <1>7, <1>8, <1>9 DEF p

\* The code lines are those of the runs, if there are none between them.
LEMMA RunsCode ==
    ASSUME NEW L \in Seq(Seq(Raw)), NEW C, NEW m \in Nat,
           NEW s \in [1..m -> 1..Len(L)], NEW e \in [1..m -> 1..Len(L)],
           \A k \in 1..m : s[k] <= e[k],
           \A k, l \in 1..m : k < l => e[k] < s[l],
           \A i \in 1..Len(L) : (\A k \in 1..m : ~(s[k] <= i /\ i <= e[k])) =>
              \A w \in Range(L[i]) : IsWord(w) => w \notin C
    PROVE  \E codes : /\ codes[0] = <<>> /\ codes[m] = CodeLines(L, C)
                  /\ \A k \in 1..m : codes[k] = codes[k - 1] \o CodeLines(SubSeq(L, s[k], e[k]), C)
<1> DEFINE n == Len(L)
           T == Seq(Raw)
           to(k) == IF k = 0 THEN 0 ELSE e[k]
           part(k) == CodeLines(SubSeq(L, 1, to(k)), C)
           codes == [k \in 0..m |-> part(k)]
<1>1. L \in Seq(T) /\ n \in Nat /\ \A i \in 1..n : L[i] \in T
  BY LenProperties, ElementOfSeq
<1>2. \A k \in 1..m : s[k] \in 1..n /\ e[k] \in 1..n /\ k \in Nat /\ k >= 1 /\ k - 1 \in 0..m
  BY <1>1
<1> HIDE DEF T, n
<1>3. \A k \in 0..m : to(k) \in 0..n
  BY <1>1, <1>2
<1>a. to(0) = 0 /\ \A k \in 1..m : to(k) = e[k]
  BY <1>2
<1> HIDE DEF to
<1>4. part(0) = <<>>
  <2>1. SubSeq(L, 1, 0) = <<>> /\ <<>> \in Seq(Seq(Raw))
    BY SubSeqEmpty, EmptySeq
  <2>2. \A l \in Range(<<>>) : \A w \in Range(l) : IsWord(w) => w \notin C
    BY DEF Range
  <2>3. CodeLines(<<>>, C) = <<>>
    BY <2>1, <2>2, NoCodeLines
  <2>4. QED
    BY <1>a, <2>1, <2>3
<1>5. ASSUME NEW k \in 1..m
      PROVE  part(k) = part(k - 1) \o CodeLines(SubSeq(L, s[k], e[k]), C)
  <2> DEFINE a == to(k - 1)
             b == s[k] - 1
  <2>1. k \in Nat /\ k >= 1 /\ k - 1 \in 0..m /\ to(k) = e[k] /\ s[k] \in 1..n /\ e[k] \in 1..n
        /\ s[k] <= e[k]
    BY <1>2, <1>a
  <2>2. k # 1 => k - 1 \in 1..m /\ k - 1 < k /\ a = e[k - 1]
    BY <1>a, <2>1
  <2>3. a \in 0..n /\ a <= b /\ b \in a..n
    <3>1. a \in 0..n
      BY <1>3, <2>1
    <3>2. CASE k = 1
      <4>1. k - 1 = 0
        BY <3>2
      <4>2. a = 0
        BY <1>a, <4>1
      <4> HIDE DEF a
      <4>3. QED
        BY <1>1, <2>1, <4>2
    <3>3. CASE k # 1
      <4>1. k - 1 \in 1..m /\ k - 1 < k /\ a = e[k - 1]
        BY <2>2, <3>3
      <4>2. e[k - 1] < s[k]
        BY <4>1
      <4> HIDE DEF a
      <4>3. a < s[k] /\ a \in Int /\ s[k] \in Int /\ n \in Nat
        BY <1>1, <2>1, <3>1, <4>1, <4>2
      <4>4. QED
        BY <2>1, <3>1, <4>3
    <3>4. QED
      BY <3>2, <3>3
  <2> HIDE DEF a
  <2>4. ASSUME NEW i \in (a + 1)..b PROVE \A w \in Range(L[i]) : IsWord(w) => w \notin C
    <3>1. i \in 1..n /\ a < i /\ i < s[k]
      BY <1>1, <2>1, <2>3
    <3>2. ASSUME NEW l \in 1..m PROVE ~(s[l] <= i /\ i <= e[l])
      <4>1. l \in Nat /\ s[l] \in Int /\ e[l] \in Int /\ i \in Int
        BY <1>2, <3>1
      <4>2. CASE l = k
        BY <2>1, <3>1, <4>1, <4>2
      <4>3. CASE k < l
        BY <1>2, <2>1, <3>1, <4>1, <4>3
      <4>4. CASE l < k
        <5>1. k # 1 /\ k - 1 \in 1..m /\ e[k - 1] < i /\ e[k - 1] \in Int /\ s[k - 1] \in Int
              /\ s[k - 1] <= e[k - 1]
          BY <1>2, <2>1, <2>2, <3>1, <4>1, <4>4
        <5>2. CASE l = k - 1
          BY <4>1, <5>1, <5>2
        <5>3. CASE l < k - 1
          <6>1. e[l] < s[k - 1]
            BY <5>1, <5>3
          <6>2. QED
            BY <4>1, <5>1, <6>1
        <5>4. QED
          BY <2>1, <4>1, <4>4, <5>2, <5>3
      <4>5. QED
        BY <2>1, <4>1, <4>2, <4>3, <4>4
    <3>3. QED
      BY <3>1, <3>2 DEF n
  <2>5. CodeLines(SubSeq(L, 1, b), C) = CodeLines(SubSeq(L, 1, a), C)
    BY <2>3, <2>4, GapCode DEF n
  <2> DEFINE p == SubSeq(L, 1, b)
             r == SubSeq(L, s[k], e[k])
  <2>6. SubSeq(L, 1, e[k]) = p \o r
    <3>1. 1 \in 1..(n + 1) /\ b \in (1 - 1)..n /\ e[k] \in b..n /\ b + 1 = s[k]
      BY <1>1, <2>1, <2>3
    <3>2. SubSeq(L, 1, b) \o SubSeq(L, b + 1, e[k]) = SubSeq(L, 1, e[k])
      BY <1>1, <3>1, ConcatAdjacentSubSeq DEF n
    <3>3. QED
      BY <3>1, <3>2
  <2>7. p \in Seq(T) /\ r \in Seq(T)
    <3>1. 1 \in Int /\ b \in Int /\ s[k] \in Int /\ e[k] \in Int
          /\ (\A i \in 1..b : L[i] \in T) /\ (\A i \in s[k]..e[k] : L[i] \in T)
      BY <1>1, <2>1, <2>3
    <3>2. QED
      BY <3>1, SubSeqProperties
  <2> HIDE DEF p, r
  <2>8. CodeLines(p \o r, C) = CodeLines(p, C) \o CodeLines(r, C)
    BY ONLY <2>7, CodeConcat
  <2>9. QED
    <3>1. part(k) = CodeLines(p \o r, C)
      BY <1>a, <2>6
    <3>2. part(k - 1) = CodeLines(p, C)
      BY <2>5 DEF a, p
    <3>3. QED
      BY <2>8, <3>1, <3>2 DEF r
<1>6. part(m) = CodeLines(L, C)
  <2>1. to(m) \in 0..n /\ n \in to(m)..n
    BY <1>1, <1>3
  <2>2. ASSUME NEW i \in (to(m) + 1)..n PROVE \A w \in Range(L[i]) : IsWord(w) => w \notin C
    <3>1. i \in 1..n /\ to(m) < i
      BY <1>1, <2>1
    <3>2. ASSUME NEW l \in 1..m PROVE ~(s[l] <= i /\ i <= e[l])
      <4>1. l \in Nat /\ l >= 1 /\ m # 0 /\ m \in 1..m /\ e[m] < i /\ s[l] \in Int /\ e[l] \in Int /\ i \in Int
            /\ s[m] \in Int /\ e[m] \in Int /\ s[m] <= e[m]
        <5>1. l \in Nat /\ l >= 1 /\ m # 0 /\ m \in 1..m
          OBVIOUS
        <5>2. e[m] < i
          BY <1>a, <3>1, <5>1
        <5>3. QED
          BY <1>1, <1>2, <3>1, <5>1, <5>2
      <4>2. CASE l = m
        BY <4>1, <4>2
      <4>3. CASE l < m
        <5>1. e[l] < s[m]
          BY <4>1, <4>3
        <5>2. QED
          BY <4>1, <5>1
      <4>4. QED
        BY <4>1, <4>2, <4>3
    <3>3. QED
      BY <3>1, <3>2 DEF n
  <2>3. CodeLines(SubSeq(L, 1, n), C) = CodeLines(SubSeq(L, 1, to(m)), C)
    BY <2>1, <2>2, GapCode DEF n
  <2>4. SubSeq(L, 1, n) = L
    BY <1>1, SubSeqFull DEF n
  <2>5. QED
    BY <2>3, <2>4
<1> HIDE DEF part
<1>7. codes[0] = <<>> /\ codes[m] = CodeLines(L, C)
  BY <1>4, <1>6
<1>8. \A k \in 1..m : codes[k] = codes[k - 1] \o CodeLines(SubSeq(L, s[k], e[k]), C)
  <2> SUFFICES ASSUME NEW k \in 1..m
               PROVE  codes[k] = codes[k - 1] \o CodeLines(SubSeq(L, s[k], e[k]), C)
    OBVIOUS
  <2>1. k \in 0..m /\ k - 1 \in 0..m
    BY <1>2
  <2>2. codes[k] = part(k) /\ codes[k - 1] = part(k - 1)
    BY <2>1
  <2>3. QED
    BY <1>5, <2>2
<1> HIDE DEF codes
<1>9. QED
  BY <1>7, <1>8

\* There is no newline in a line.
LEMMA LinesBare ==
    ASSUME NEW S, NEW text \in Seq(S)
    PROVE  Lines(text) \in Seq(Seq(S \ {Newline}))
<1> DEFINE L == Lines(text)
           B == S \ {Newline}
<1>1. L \in Seq(Seq(S)) /\ Cut(L, text, Len(text))
  BY LinesAre DEF Pages
<1> HIDE DEF L
<1>2. Len(L) \in Nat /\ DOMAIN L = 1..Len(L) /\ \A i \in DOMAIN L : L[i] \in Seq(S)
  BY <1>1, LenProperties, ElementOfSeq
<1>3. ASSUME NEW i \in 1..Len(L) PROVE L[i] \in Seq(B)
  <2> DEFINE l == L[i]
  <2>1. l \in Seq(S) /\ \A x \in Range(l) : x # Newline
    BY <1>1, <1>2 DEF Cut
  <2> HIDE DEF l
  <2>2. Len(l) \in Nat /\ DOMAIN l = 1..Len(l) /\ \A j \in 1..Len(l) : l[j] \in S
    BY <2>1, LenProperties, ElementOfSeq
  <2>3. \A j \in 1..Len(l) : l[j] \in B
    BY <2>1, <2>2 DEF Range
  <2>4. l = [j \in 1..Len(l) |-> l[j]]
    BY <2>1, <2>2, SMT
  <2>5. l \in Seq(B)
    BY ONLY <2>2, <2>3, <2>4, IsASeq
  <2>6. QED
    BY <2>5 DEF l
<1>4. L = [i \in 1..Len(L) |-> L[i]]
  BY <1>1, <1>2, SMT
<1>5. L \in Seq(Seq(B))
  BY ONLY <1>2, <1>3, <1>4, IsASeq
<1>6. QED
  BY <1>5 DEF L

\* What is code in a document is in its blocks.
LEMMA BlocksCode ==
    ASSUME NEW text \in Seq(Raw), NEW C, NEW n \in Nat, NEW m \in Nat, NEW s, NEW e,
           Divided(text, n, m, s, e),
           \A k \in DOMAIN Lines(text) : \A x \in Range(Lines(text)[k]) :
              IsWord(x) /\ x \in C => IsVerbatim(Tags(Lines(text))[k])
    PROVE  /\ \A k \in 1..m : Blocks(text)[k] \in Seq(Raw)
           /\ \E codes : /\ codes[0] = <<>> /\ codes[m] = CodeLines(Lines(text), C)
                     /\ \A k \in 1..m : codes[k] = codes[k - 1] \o CodeOf(Blocks(text)[k], C)
<1> DEFINE L == Lines(text)
           B == Raw \ {Newline}
           ls(k) == SubSeq(L, s[k], e[k])
<1>1. L \in Seq(Seq(B)) /\ L \in Seq(Seq(Raw)) /\ n = Len(L) /\ DOMAIN L = 1..n
  BY LinesBare, LinesAre DEF Pages, Divided
<1>2. /\ s \in [1..m -> 1..n] /\ e \in [1..m -> 1..n]
      /\ \A k \in 1..m : s[k] <= e[k]
      /\ \A k, l \in 1..m : k < l => e[k] < s[l]
      /\ \A k \in 1..m : Blocks(text)[k] = Join(ls(k))
  BY DEF Divided
<1>3. \A i \in 1..n : IsVerbatim(Tags(L)[i]) <=> \E k \in 1..m : s[k] <= i /\ i <= e[k]
  BY DEF Divided
<1>4. \A k \in 1..n : \A x \in Range(L[k]) : IsWord(x) /\ x \in C => IsVerbatim(Tags(L)[k])
  BY <1>1
<1> HIDE DEF L
<1>5. Newline \in Raw
  BY DEF Raw
<1>6. ASSUME NEW k \in 1..m
      PROVE  ls(k) \in Seq(Seq(B)) /\ ls(k) \in Seq(Seq(Raw)) /\ ls(k) # <<>>
  <2>1. s[k] \in 1..n /\ e[k] \in 1..n /\ s[k] <= e[k]
    BY <1>2
  <2>2. /\ s[k] \in Int /\ e[k] \in Int
        /\ \A i \in s[k]..e[k] : L[i] \in Seq(B) /\ L[i] \in Seq(Raw)
    <3>1. \A i \in 1..n : L[i] \in Seq(B) /\ L[i] \in Seq(Raw)
      BY <1>1, ElementOfSeq
    <3>2. \A i \in s[k]..e[k] : i \in 1..n
      BY <2>1
    <3>3. QED
      BY <2>1, <3>1, <3>2
  <2>3. ls(k) \in Seq(Seq(B)) /\ ls(k) \in Seq(Seq(Raw)) /\ Len(ls(k)) = e[k] - s[k] + 1
    BY <2>1, <2>2, SubSeqProperties
  <2> HIDE DEF ls
  <2>4. ls(k) # <<>>
    <3>1. Len(ls(k)) >= 1
      BY <2>1, <2>2, <2>3
    <3>2. Len(<<>>) = 0
      BY EmptySeq
    <3>3. QED
      BY <3>1, <3>2
  <2>5. QED
    BY <2>3, <2>4
<1>7. PICK codes : /\ codes[0] = <<>> /\ codes[m] = CodeLines(L, C)
               /\ \A k \in 1..m : codes[k] = codes[k - 1] \o CodeLines(SubSeq(L, s[k], e[k]), C)
  <2>1. \A i \in 1..Len(L) : (\A k \in 1..m : ~(s[k] <= i /\ i <= e[k])) =>
              \A w \in Range(L[i]) : IsWord(w) => w \notin C
    BY <1>1, <1>3, <1>4
  <2>2. s \in [1..m -> 1..Len(L)] /\ e \in [1..m -> 1..Len(L)] /\ L \in Seq(Seq(Raw))
    BY <1>1, <1>2
  <2>3. QED
    BY <1>2, <2>1, <2>2, RunsCode
<1> HIDE DEF ls
<1>8. ASSUME NEW k \in 1..m
      PROVE  /\ Blocks(text)[k] \in Seq(Raw)
             /\ CodeOf(Blocks(text)[k], C) = CodeLines(SubSeq(L, s[k], e[k]), C)
  <2>1. Blocks(text)[k] = Join(ls(k)) /\ ls(k) \in Seq(Seq(B)) /\ ls(k) \in Seq(Seq(Raw))
        /\ ls(k) # <<>>
    BY <1>2, <1>6
  <2>2. Join(ls(k)) \in Seq(Raw)
    BY <1>5, <2>1, JoinPlaces
  <2>3. Lines(Join(ls(k))) = ls(k)
    BY <1>5, <2>1, JoinedSplits
  <2>4. QED
    BY <2>1, <2>2, <2>3 DEF CodeOf, ls
<1>9. QED
  BY <1>7, <1>8 DEF L

\* Nothing but space comes after the place i.
Blank(a, i) == \A j \in (i + 1)..Len(a) : IsSpace(a[j])

\* The last sentinel if only space comes after it, or else the end.
LEMMA LastPut ==
    ASSUME NEW a \in Seq(Raw)
    PROVE  \E q \in 0..Len(a) :
             /\ \A j \in 1..Len(a) : j < q /\ a[j] = Sentinel => ~Blank(a, j)
             /\ q = Len(a) \/ Blank(a, q)
             /\ \/ q >= 1 /\ a[q] = Sentinel /\ Blank(a, q)
                \/ q = Len(a) /\ \A j \in 1..Len(a) : a[j] = Sentinel => ~Blank(a, j)
<1> DEFINE W == {j \in 1..Len(a) : a[j] = Sentinel /\ Blank(a, j)}
<1>1. Len(a) \in Nat
  BY LenProperties
<1>2. CASE W = {}
  <2>1. \A j \in 1..Len(a) : a[j] = Sentinel => ~Blank(a, j)
    BY <1>2
  <2>2. Len(a) \in 0..Len(a)
    BY <1>1
  <2>3. QED
    BY <2>1, <2>2
<1>3. CASE W # {}
  <2>1. PICK q \in W : TRUE
    BY <1>3
  <2>2. q \in 1..Len(a) /\ a[q] = Sentinel /\ Blank(a, q)
    BY <2>1
  <2>3. ASSUME NEW j \in 1..Len(a), j < q PROVE ~Blank(a, j)
    <3>1. q \in (j + 1)..Len(a) /\ ~IsSpace(a[q])
      BY <1>1, <2>2, <2>3 DEF IsSpace, Sentinel, Newline, Indent, Item
    <3>2. QED
      BY <3>1 DEF Blank
  <2>4. q \in 0..Len(a) /\ q >= 1
    BY <1>1, <2>2
  <2>5. QED
    BY <2>2, <2>3, <2>4
<1>4. QED
  BY <1>2, <1>3

\* One space more.
LEMMA BlankMore ==
    ASSUME NEW t \in Seq(Raw), IsBlank(t), NEW y \in Raw, IsSpace(y)
    PROVE  t \o <<y>> \in Seq(Raw) /\ IsBlank(t \o <<y>>)
<1> DEFINE u == t \o <<y>>
<1>1. <<y>> \in Seq(Raw) /\ Len(<<y>>) = 1 /\ <<y>>[1] = y
  OBVIOUS
<1>2. u \in Seq(Raw) /\ DOMAIN u = 1..(Len(t) + 1)
      /\ \A i \in 1..(Len(t) + 1) : u[i] = IF i <= Len(t) THEN t[i] ELSE <<y>>[i - Len(t)]
  BY <1>1, SMT
<1>3. Len(t) \in Nat /\ DOMAIN t = 1..Len(t)
  BY LenProperties
<1> HIDE DEF u
<1>4. ASSUME NEW i \in DOMAIN u PROVE IsSpace(u[i])
  <2>1. i \in 1..(Len(t) + 1)
    BY <1>2
  <2>2. CASE i <= Len(t)
    <3>1. u[i] = t[i] /\ i \in DOMAIN t
      BY <1>2, <1>3, <2>1, <2>2
    <3>2. QED
      BY <3>1 DEF IsBlank
  <2>3. CASE ~(i <= Len(t))
    <3>1. i - Len(t) = 1
      BY <1>3, <2>1, <2>3
    <3>2. u[i] = y
      BY <1>1, <1>2, <2>1, <2>3, <3>1
    <3>3. QED
      BY <3>2
  <2>4. QED
    BY <2>2, <2>3
<1>5. QED
  BY <1>2, <1>4 DEF IsBlank, u

\* The pieces of what is put together.
LEMMA PiecesAre ==
    ASSUME NEW a \in Seq(Raw), NEW blocks, NEW m \in Nat, Sentinels(a, Len(a)) = m,
           \A k \in 1..m : blocks[k] \in Seq(Raw),
           NEW ss, ss = [i \in DOMAIN a |-> Spliced(a, blocks, i)]
    PROVE  /\ ss \in Seq(Seq(Raw)) /\ Len(ss) = Len(a) /\ Restored(a, blocks) = FlattenSeq(ss)
           /\ \A i \in 1..Len(a) : ss[i] = Spliced(a, blocks, i)
<1> DEFINE n == Len(a)
<1>1. n \in Nat /\ DOMAIN a = 1..n /\ \A i \in 1..n : a[i] \in Raw
  BY LenProperties, ElementOfSeq
<1>2. Newline \in Raw /\ <<Newline>> \in Seq(Raw) /\ <<>> \in Seq(Raw)
  BY DEF Raw
<1>3. ASSUME NEW i \in 1..n PROVE Spliced(a, blocks, i) \in Seq(Raw)
  <2>1. CASE a[i] # Sentinel
    <3>1. Spliced(a, blocks, i) = <<a[i]>>
      BY <2>1 DEF Spliced
    <3>2. a[i] \in Raw
      BY <1>1
    <3>3. QED
      BY <3>1, <3>2
  <2>2. CASE a[i] = Sentinel
    <3> DEFINE b == blocks[Sentinels(a, i)]
    <3>1. b \in Seq(Raw)
      <4>1. /\ Sentinels(a, i) = Sentinels(a, i - 1) + 1 /\ Sentinels(a, i) \in Nat
            /\ Sentinels(a, i) <= m /\ Sentinels(a, 0) = 0
        BY <1>1, <2>2, SentinelsAre
      <4>2. i = 1 \/ i - 1 \in 1..n
        BY <1>1
      <4>3. Sentinels(a, i - 1) \in Nat
        <5>1. CASE i = 1
          BY <4>1, <5>1
        <5>2. CASE i - 1 \in 1..n
          BY <5>2, SentinelsAre
        <5>3. QED
          BY <4>2, <5>1, <5>2
      <4>4. Sentinels(a, i) \in 1..m
        BY <4>1, <4>3
      <4>5. QED
        BY <4>4
    <3>2. PICK after \in BOOLEAN :
            Spliced(a, blocks, i) =
                (IF i > 1 /\ a[i - 1] # Newline THEN <<Newline>> ELSE <<>>)
                   \o b \o (IF after THEN <<Newline>> ELSE <<>>)
      BY <2>2, PieceIs
    <3> HIDE DEF b
    <3> DEFINE before == IF i > 1 /\ a[i - 1] # Newline THEN <<Newline>> ELSE <<>>
               end == IF after THEN <<Newline>> ELSE <<>>
    <3>3. before \in Seq(Raw) /\ end \in Seq(Raw) /\ Spliced(a, blocks, i) = (before \o b) \o end
      BY <1>2, <3>2
    <3> HIDE DEF before, end
    <3>4. (before \o b) \o end \in Seq(Raw)
      <4>1. before \o b \in Seq(Raw)
        BY ONLY <3>1, <3>3, ConcatLaws
      <4> DEFINE w == before \o b
      <4>2. w \in Seq(Raw)
        BY <4>1
      <4> HIDE DEF w
      <4>3. w \o end \in Seq(Raw)
        BY ONLY <3>3, <4>2, ConcatLaws
      <4>4. QED
        BY <4>3 DEF w
    <3>5. QED
      BY <3>3, <3>4
  <2>3. QED
    BY <2>1, <2>2
<1>4. /\ ss \in Seq(Seq(Raw)) /\ Len(ss) = n
      /\ \A i \in 1..n : ss[i] = Spliced(a, blocks, i)
  <2>1. ss = [i \in 1..n |-> Spliced(a, blocks, i)]
    BY <1>1
  <2>2. ss \in Seq(Seq(Raw))
    BY ONLY <1>1, <1>3, <2>1, IsASeq
  <2>3. \A i \in 1..n : ss[i] = Spliced(a, blocks, i)
    BY <2>1
  <2>4. DOMAIN ss = 1..n
    BY <2>1
  <2>5. Len(ss) = n
    BY <1>1, <2>2, <2>4, LenProperties
  <2>6. QED
    BY <2>2, <2>3, <2>5
<1>5. Restored(a, blocks) = FlattenSeq(ss)
  BY DEF Restored
<1>6. QED
  BY <1>4, <1>5

\* What is code in the first k blocks.
Grows(codes, m, blocks, C) ==
    /\ codes[0] = <<>>
    /\ \A k \in 1..m : /\ blocks[k] \in Seq(Raw)
                       /\ codes[k] = codes[k - 1] \o CodeOf(blocks[k], C)

\* The text x has the code lines c, but for space after a block at its end.
HasCode(x, c, C) ==
    \E y \in Seq(Raw), t \in Seq(Raw) : x = y \o t /\ IsBlank(t) /\ CodeOf(y, C) = c

\* Code put back into an answer without code: what it was, in its order, but
\* for space after a block at the end.
LEMMA PutBack ==
    ASSUME NEW C, NEW a \in Seq(Raw), CodeFree(a, C),
           NEW blocks, NEW m \in Nat, Sentinels(a, Len(a)) = m,
           NEW codes, Grows(codes, m, blocks, C)
    PROVE  HasCode(Restored(a, blocks), codes[m], C)
<1> DEFINE n == Len(a)
           ss == [i \in DOMAIN a |-> Spliced(a, blocks, i)]
<1>0. /\ codes[0] = <<>> /\ \A k \in 1..m : blocks[k] \in Seq(Raw)
      /\ \A k \in 1..m : codes[k] = codes[k - 1] \o CodeOf(blocks[k], C)
  BY DEF Grows
<1>1. n \in Nat /\ DOMAIN a = 1..n /\ \A i \in 1..n : a[i] \in Raw
  BY LenProperties, ElementOfSeq
<1>2. Newline \in Raw /\ <<Newline>> \in Seq(Raw) /\ <<>> \in Seq(Raw)
  BY DEF Raw
<1>4. /\ ss \in Seq(Seq(Raw)) /\ Len(ss) = n /\ Restored(a, blocks) = FlattenSeq(ss)
      /\ \A i \in 1..n : ss[i] = Spliced(a, blocks, i)
  BY <1>0, PiecesAre
<1>5. Restored(a, blocks) = FlattenSeq(ss)
  BY <1>4
<1> HIDE DEF ss
<1>6. PICK acc \in [0..n -> Seq(Raw)] :
         /\ acc[0] = <<>> /\ FlattenSeq(ss) = acc[n]
         /\ \A i \in 1..n : acc[i] = acc[i - 1] \o Spliced(a, blocks, i)
  <2>1. PICK acc \in [0..Len(ss) -> Seq(Raw)] :
             /\ acc[0] = <<>>
             /\ \A i \in 1..Len(ss) : acc[i] = acc[i - 1] \o ss[i]
             /\ FlattenSeq(ss) = acc[Len(ss)]
    BY <1>4, FlattenIs
  <2>2. QED
    BY <1>4, <2>1
<1>7. PICK q \in 0..n :
             /\ \A j \in 1..n : j < q /\ a[j] = Sentinel => ~Blank(a, j)
             /\ q = n \/ Blank(a, q)
             /\ \/ q >= 1 /\ a[q] = Sentinel /\ Blank(a, q)
                \/ q = n /\ \A j \in 1..n : a[j] = Sentinel => ~Blank(a, j)
  BY LastPut
<1>8. SoFar(a, acc, codes, C, q, 0)
  <2>1. Sentinels(a, 0) = 0
    BY SentinelsAre
  <2>2. acc[0] \in Seq(Raw) /\ CodeOf(acc[0], C) = <<>> /\ CodeFree(<<>>, C)
    <3>1. CodeFree(<<>>, C)
      BY DEF CodeFree
    <3>2. QED
      BY <1>2, <1>6, <3>1, NoCodeOf
  <2>3. Open(<<>>, <<>>, C)
    <3>1. ASSUME NEW f \in Seq(Raw), CodeFree(f, C) PROVE CodeOf(<<>> \o f, C) = <<>>
      <4>1. <<>> \o f = f
        BY ConcatLaws
      <4>2. QED
        BY <3>1, <4>1, NoCodeOf
    <3>2. QED
      BY <3>1 DEF Open
  <2>4. QED
    BY <1>0, <1>6, <2>1, <2>2, <2>3 DEF SoFar
<1>9. SoFar(a, acc, codes, C, q, q)
  <2> DEFINE Q == {i \in 0..q : SoFar(a, acc, codes, C, q, i)}
  <2>1. q \in Nat /\ 0 \in Q
    BY <1>1, <1>8
  <2>2. ASSUME NEW i \in 1..q, i - 1 \in Q PROVE i \in Q
    <3>1. SoFar(a, acc, codes, C, q, i - 1) /\ i \in 0..q /\ i \in 1..n
      BY <1>1, <2>2
    <3>2. acc[i] = acc[i - 1] \o Spliced(a, blocks, i)
      BY <1>6, <3>1
    <3>3. \A j \in 1..Len(a) : j < q /\ a[j] = Sentinel =>
              \E l \in (j + 1)..Len(a) : ~IsSpace(a[l])
      BY <1>7 DEF Blank
    <3>4. SoFar(a, acc, codes, C, q, i)
      BY <1>0, <1>6, <3>1, <3>2, <3>3, SpliceStep
    <3>5. QED
      BY <3>1, <3>4
  <2> HIDE DEF Q
  <2>3. \A i \in 0..q : i \in Q
    BY <2>1, <2>2, UpTo
  <2>4. QED
    BY <2>1, <2>3 DEF Q
<1>10. ASSUME Blank(a, q)
       PROVE  /\ Sentinels(a, n) = Sentinels(a, q)
              /\ \E t \in Seq(Raw) : IsBlank(t) /\ acc[n] = acc[q] \o t
  <2> DEFINE Good(j) == /\ Sentinels(a, q + j) = Sentinels(a, q)
                        /\ \E t \in Seq(Raw) : IsBlank(t) /\ acc[q + j] = acc[q] \o t
             Q == {j \in 0..(n - q) : Good(j)}
  <2>1. q \in Nat /\ n - q \in Nat /\ q + 0 = q /\ q + (n - q) = n /\ acc[q] \in Seq(Raw)
    BY <1>1, <1>6
  <2>2. 0 \in Q
    <3>1. IsBlank(<<>>) /\ acc[q] \o <<>> = acc[q]
      BY <1>2, <2>1, ConcatLaws DEF IsBlank
    <3>2. Sentinels(a, q + 0) = Sentinels(a, q) /\ acc[q + 0] = acc[q] \o <<>>
      BY <2>1, <3>1
    <3>3. Good(0)
      BY <1>2, <3>1, <3>2
    <3> HIDE DEF Good
    <3>4. 0 \in 0..(n - q)
      BY <2>1
    <3>5. QED
      BY <3>3, <3>4
  <2>3. ASSUME NEW j \in 1..(n - q), j - 1 \in Q PROVE j \in Q
    <3> DEFINE i == q + j
    <3>1. i \in 1..n /\ i - 1 = q + (j - 1) /\ i \in (q + 1)..n /\ j \in 0..(n - q)
      BY <1>1, <2>1
    <3>2. Good(j - 1)
      BY <2>3
    <3>3. IsSpace(a[i])
      BY <1>10, <3>1 DEF Blank
    <3>4. a[i] # Sentinel
      BY <3>3 DEF IsSpace, Sentinel, Newline, Indent, Item
    <3>5. Sentinels(a, i) = Sentinels(a, q)
      BY <3>1, <3>2, <3>4, SentinelsAre
    <3>6. PICK t \in Seq(Raw) : IsBlank(t) /\ acc[i - 1] = acc[q] \o t
      BY <3>1, <3>2
    <3>7. acc[i] = acc[i - 1] \o <<a[i]>>
      BY <1>6, <3>1, <3>4 DEF Spliced
    <3>8. a[i] \in Raw
      BY <1>1, <3>1
    <3> HIDE DEF i
    <3>9. t \o <<a[i]>> \in Seq(Raw) /\ IsBlank(t \o <<a[i]>>)
      BY <3>3, <3>6, <3>8, BlankMore
    <3>10. acc[i] = acc[q] \o (t \o <<a[i]>>)
      <4> DEFINE y == <<a[i]>>
                 x == acc[q]
      <4>1. y \in Seq(Raw)
        BY <3>8
      <4>2. x \in Seq(Raw)
        BY <2>1
      <4> HIDE DEF y, x
      <4>0. t \in Seq(Raw)
        BY <3>6
      <4>3. x \o (t \o y) = (x \o t) \o y
        BY ONLY <4>0, <4>1, <4>2, Assoc
      <4>4. QED
        BY <3>6, <3>7, <4>3 DEF x, y
    <3>11. Good(j)
      BY <3>5, <3>9, <3>10 DEF i
    <3> HIDE DEF Good
    <3>12. QED
      BY <3>1, <3>11
  <2> HIDE DEF Q
  <2>4. \A j \in 0..(n - q) : j \in Q
    BY <2>1, <2>2, <2>3, UpTo
  <2>5. n - q \in 0..(n - q)
    BY <2>1
  <2>6. Good(n - q)
    BY <2>4, <2>5 DEF Q
  <2>7. QED
    BY <2>1, <2>6
<1>11. PICK t \in Seq(Raw) : IsBlank(t) /\ acc[n] = acc[q] \o t /\ Sentinels(a, n) = Sentinels(a, q)
  <2>1. CASE Blank(a, q)
    BY <1>10, <2>1
  <2>2. CASE q = n
    <3>1. acc[n] \o <<>> = acc[n] /\ IsBlank(<<>>)
      <4>0. n \in 0..n
        BY <1>1
      <4>1. acc[n] \in Seq(Raw)
        BY <1>6, <4>0
      <4>2. QED
        BY <4>1, ConcatLaws DEF IsBlank
    <3>2. QED
      BY <1>2, <2>2, <3>1
  <2>3. QED
    BY <1>7, <2>1, <2>2
<1>12. acc[q] \in Seq(Raw) /\ CodeOf(acc[q], C) = codes[m]
  BY <1>9, <1>11 DEF SoFar
<1>13. QED
  BY <1>5, <1>6, <1>11, <1>12 DEF HasCode

\* A text without some items.
LEMMA WithoutIs ==
    ASSUME NEW S, NEW text \in Seq(S), NEW D
    PROVE  /\ Without(text, D) \in Seq(S)
           /\ Range(Without(text, D)) \subseteq Range(text)
<1> DEFINE P == DOMAIN text \ D
           kept == Ascending(P)
           w == Without(text, D)
<1>1. Len(text) \in Nat /\ DOMAIN text = 1..Len(text) /\ \A i \in DOMAIN text : text[i] \in S
  BY LenProperties, ElementOfSeq
<1>2. P \in SUBSET Nat /\ IsFiniteSet(P)
  <2>1. IsFiniteSet(1..Len(text)) /\ P \subseteq 1..Len(text)
    BY <1>1, FS_Interval
  <2>2. \A i \in 1..Len(text) : i \in Nat
    BY <1>1
  <2> HIDE DEF P
  <2>3. QED
    BY <2>1, <2>2, FS_Subset
<1>3. kept \in Seq(P)
  <2> HIDE DEF P
  <2>1. QED
    BY <1>2, AscendingIs
<1>4. w = [k \in DOMAIN kept |-> text[kept[k]]]
  BY DEF Without
<1> HIDE DEF kept, w
<1>5. Len(kept) \in Nat /\ DOMAIN kept = 1..Len(kept) /\ \A k \in DOMAIN kept : kept[k] \in P
  BY <1>3, LenProperties, ElementOfSeq
<1>6. \A k \in 1..Len(kept) : text[kept[k]] \in S /\ text[kept[k]] \in Range(text)
  BY <1>1, <1>5 DEF Range
<1>7. w = [k \in 1..Len(kept) |-> text[kept[k]]]
  BY <1>4, <1>5
<1>8. w \in Seq(S)
  BY ONLY <1>5, <1>6, <1>7, IsASeq
<1>9. Range(w) \subseteq Range(text)
  BY <1>6, <1>7 DEF Range
<1>10. QED
  BY <1>8, <1>9 DEF w

\* What an answer is made of.
LEMMA AnswerIs ==
    ASSUME NEW S, Sentinel \in S, NEW text \in Seq(S), NEW a \in Answers(text)
    PROVE  a \in Seq(S) /\ Range(a) \subseteq Range(text) \cup {Sentinel}
<1> DEFINE D == DOMAIN text
<1>0. \/ \E i, j \in D : a = Without(text, {i, j})
      \/ \E i, j \in D : a = Without([text EXCEPT ![i] = Sentinel], {j})
      \/ a \in {<<>>, text, text \o text}
  BY DEF Answers
<1>1. ASSUME NEW i \in D, NEW j \in D, a = Without(text, {i, j})
      PROVE  a \in Seq(S) /\ Range(a) \subseteq Range(text) \cup {Sentinel}
  BY <1>1, WithoutIs
<1>2. ASSUME NEW i \in D, NEW j \in D, a = Without([text EXCEPT ![i] = Sentinel], {j})
      PROVE  a \in Seq(S) /\ Range(a) \subseteq Range(text) \cup {Sentinel}
  <2> DEFINE t == [text EXCEPT ![i] = Sentinel]
  <2>2. DOMAIN t = DOMAIN text /\ \A k \in DOMAIN t : t[k] = text[k] \/ t[k] = Sentinel
    OBVIOUS
  <2>3. t \in Seq(S)
    <3>1. i \in 1..Len(text)
      BY LenProperties
    <3>2. QED
      BY <3>1, ExceptSeq
  <2>4. Range(t) \subseteq Range(text) \cup {Sentinel}
    BY <2>2 DEF Range
  <2> HIDE DEF t
  <2>5. a = Without(t, {j})
    BY <1>2 DEF t
  <2>6. QED
    BY <2>3, <2>4, <2>5, WithoutIs
<1>3. CASE a = <<>>
  <2>1. Range(<<>>) = {} /\ <<>> \in Seq(S)
    BY DEF Range
  <2>2. QED
    BY <1>3, <2>1
<1>4. CASE a = text
  BY <1>4
<1>5. CASE a = text \o text
  <2>1. text \o text \in Seq(S)
    BY ConcatLaws
  <2>2. Range(text \o text) \subseteq Range(text)
    <3>1. Len(text) \in Nat /\ DOMAIN text = 1..Len(text)
      BY LenProperties
    <3>2. \A k \in 1..(Len(text) + Len(text)) :
             (text \o text)[k] = IF k <= Len(text) THEN text[k] ELSE text[k - Len(text)]
      BY <3>1, SMT
    <3>3. DOMAIN (text \o text) = 1..(Len(text) + Len(text))
      BY <3>1, SMT
    <3>4. \A k \in 1..(Len(text) + Len(text)) :
             k <= Len(text) => k \in 1..Len(text)
      BY <3>1
    <3>5. \A k \in 1..(Len(text) + Len(text)) :
             ~(k <= Len(text)) => k - Len(text) \in 1..Len(text)
      BY <3>1
    <3>6. QED
      BY <3>1, <3>2, <3>3, <3>4, <3>5 DEF Range
  <2>3. QED
    BY <1>5, <2>1, <2>2
<1>7. QED
  BY <1>0, <1>1, <1>2, <1>3, <1>4, <1>5

\* The lines that are someone's code have words.
LEMMA CodeOfWorded ==
    ASSUME NEW T, NEW p \in Seq(T), NEW C
    PROVE  CodeLines(p, C) = CodeLines(Worded(p), C)
<1> DEFINE A == {l \in Range(p) : HasWord(l)}
           D == {l \in T : HasWord(l) /\ TheWord(l) \in C}
           w == Only(p, A)
<1>1. w \in Seq(T) /\ w = Worded(p)
  BY OnlyIs DEF Worded
<1>2. ASSUME NEW u \in Seq(T) PROVE CodeLines(u, C) = Only(u, D)
  <2> DEFINE H == {l \in Range(u) : HasWord(l) /\ TheWord(l) \in C}
  <2>1. \A x \in Range(u) : x \in H <=> x \in D
    BY LenProperties, ElementOfSeq DEF Range
  <2> HIDE DEF H, D
  <2>2. Only(u, H) = Only(u, D)
    BY <2>1, OnlyAgree
  <2>3. QED
    BY <2>2 DEF CodeLines, H
<1>3. Only(w, D) = Only(p, D)
  <2>1. \A x \in Range(p) : x \in D => x \in A
    OBVIOUS
  <2> HIDE DEF A, D
  <2>2. QED
    BY <2>1, OnlyTwice
<1>4. QED
  BY <1>1, <1>2, <1>3

\* Where the blocks have been put back: the text that was masked, and what was
\* asked about it and answered.
LEMMA UnmaskingIs ==
    ASSUME LayersOK, MaskOK, Unmasking, NEW read, read = ReadText(in.text)
    PROVE  /\ IsGiven(in.text) /\ OneWord(Lines(in.text)) /\ read \in Seq(Raw)
           /\ sent = Masked(read) /\ answer \in Answers(sent)
           /\ ~Contains(read, Sentinel)
           /\ IF Blocks(read) = <<>> THEN cur = answer
              ELSE CanRestore(answer, Blocks(read)) /\ cur = Restored(answer, Blocks(read))
<1>1. in = CallIn(call) /\ Unmasked /\ call \in Calls
  BY DEF MaskOK, Unmasking, LayersOK
<1>2. IsGiven(in.text) /\ OneWord(Lines(in.text))
  BY <1>1, HookAssumption DEF CallIn
<1>3. read \in Seq(Raw)
  BY <1>2, ReadIsGiven
<1>4. QED
  BY <1>1, <1>2, <1>3 DEF Unmasked

\* The masked text and its answers are without code.
LEMMA AnswersBare ==
    ASSUME NEW read \in Seq(Raw), NEW C,
           \A k \in DOMAIN Lines(read) : \A x \in Range(Lines(read)[k]) :
              IsWord(x) /\ x \in C => IsVerbatim(Tags(Lines(read))[k]),
           NEW a \in Answers(Masked(read))
    PROVE  a \in Seq(Raw) /\ CodeFree(a, C)
<1> DEFINE s == Masked(read)
<1>1. Sentinel \in Raw /\ Newline \in Raw /\ ~IsWord(Sentinel)
  BY DEF Raw, IsWord, Sentinel, Item
<1>2. s \in Seq(Raw)
  <2>1. Lines(read) \in Seq(Seq(Raw))
    BY LinesAre DEF Pages
  <2>2. MaskedLines(Lines(read), Tags(Lines(read))) \in Seq(Seq(Raw))
    BY <1>1, <2>1, MaskedAre
  <2>3. QED
    BY <1>1, <2>2, JoinPlaces DEF Masked
<1>3. ASSUME NEW p \in DOMAIN s, IsWord(s[p]) PROVE s[p] \notin C
  <2>1. \E i \in DOMAIN Lines(read) :
           ~IsVerbatim(Tags(Lines(read))[i]) /\ s[p] \in Range(Lines(read)[i])
    BY <1>1, <1>3, WordsMasked
  <2>2. QED
    BY <1>3, <2>1
<1> HIDE DEF s
<1>4. a \in Seq(Raw) /\ Range(a) \subseteq Range(s) \cup {Sentinel}
  BY <1>1, <1>2, AnswerIs DEF s
<1>5. ASSUME NEW p \in DOMAIN a, IsWord(a[p]) PROVE a[p] \notin C
  <2>1. a[p] \in Range(s)
    BY <1>1, <1>4, <1>5 DEF Range
  <2>2. PICK j \in DOMAIN s : a[p] = s[j]
    BY <2>1 DEF Range
  <2>3. QED
    BY <1>3, <1>5, <2>2
<1>6. QED
  BY <1>4, <1>5 DEF CodeFree

\* The code of a document comes back.
LEMMA CodeBack ==
    ASSUME LayersOK, MaskOK
    PROVE  CodeComesBack
<1> SUFFICES ASSUME Unmasking, LinesKept(in.text)
             PROVE  \E n \in 0..Len(cur) :
                       /\ IsBlank(SubSeq(cur, n + 1, Len(cur)))
                       /\ CodeLines(Lines(SubSeq(cur, 1, n)), VerbatimWords(in.text))
                             = CodeLines(Lines(Original(in.text)), VerbatimWords(in.text))
  BY DEF CodeComesBack
<1> DEFINE read == ReadText(in.text)
           C == VerbatimWords(in.text)
           L == Lines(read)
           blocks == Blocks(read)
           source == Lines(Original(in.text))
<1>1. /\ IsGiven(in.text) /\ read \in Seq(Raw)
      /\ answer \in Answers(Masked(read)) /\ ~Contains(read, Sentinel)
      /\ IF Blocks(read) = <<>> THEN cur = answer
         ELSE CanRestore(answer, Blocks(read)) /\ cur = Restored(answer, Blocks(read))
  BY UnmaskingIs
<1>2. \A k \in DOMAIN L : \A x \in Range(L[k]) :
         IsWord(x) /\ x \in C => IsVerbatim(Tags(L)[k])
  BY <1>1, JudgedAlike
<1>3. Worded(L) = Worded(source)
  BY DEF LinesKept
<1>4. CodeLines(L, C) = CodeLines(source, C)
  <2>1. Original(in.text) \in Seq(Raw)
    BY <1>1, ReadKept
  <2>2. L \in Seq(Seq(Raw)) /\ source \in Seq(Seq(Raw))
    BY <1>1, <2>1, LinesAre DEF Pages
  <2> HIDE DEF L, C, source
  <2>3. CodeLines(L, C) = CodeLines(Worded(L), C) /\ CodeLines(source, C) = CodeLines(Worded(source), C)
    BY <2>2, CodeOfWorded
  <2>4. QED
    BY <1>3, <2>3
<1>5. answer \in Seq(Raw) /\ CodeFree(answer, C)
  BY <1>1, <1>2, AnswersBare
<1>6. PICK n \in Nat, m \in Nat : n >= 1 /\ \E s, e : Divided(read, n, m, s, e)
  BY <1>1, DocumentIs
<1>7. PICK s, e : Divided(read, n, m, s, e)
  BY <1>6
<1>8. Len(blocks) = m /\ DOMAIN blocks = 1..m
  BY <1>7 DEF Divided
<1>9. /\ \A k \in 1..m : blocks[k] \in Seq(Raw)
      /\ \E codes : /\ codes[0] = <<>> /\ codes[m] = CodeLines(L, C)
                /\ \A k \in 1..m : codes[k] = codes[k - 1] \o CodeOf(blocks[k], C)
  BY <1>1, <1>2, <1>7, BlocksCode
<1> SUFFICES \E n_1 \in 0..Len(cur) :
                /\ IsBlank(SubSeq(cur, n_1 + 1, Len(cur)))
                /\ CodeOf(SubSeq(cur, 1, n_1), C) = CodeLines(L, C)
  BY <1>4 DEF CodeOf
<1> HIDE DEF read, C, L, blocks, source
<1>10. PICK x \in Seq(Raw), t \in Seq(Raw) :
          cur = x \o t /\ IsBlank(t) /\ CodeOf(x, C) = CodeLines(L, C)
  <2>1. PICK codes : /\ codes[0] = <<>> /\ codes[m] = CodeLines(L, C)
                 /\ \A k \in 1..m : codes[k] = codes[k - 1] \o CodeOf(blocks[k], C)
    BY <1>9
  <2>2. CASE blocks = <<>>
    <3>1. m = 0 /\ cur = answer
      BY <1>1, <1>8, <2>2, EmptySeq DEF blocks
    <3>2. CodeOf(answer, C) = CodeLines(L, C)
      BY <1>5, <2>1, <3>1, NoCodeOf
    <3>3. answer = answer \o <<>> /\ <<>> \in Seq(Raw) /\ IsBlank(<<>>)
      BY <1>5, ConcatLaws DEF IsBlank
    <3>4. QED
      BY <1>5, <3>1, <3>2, <3>3
  <2>3. CASE blocks # <<>>
    <3>1. Sentinels(answer, Len(answer)) = m /\ cur = Restored(answer, blocks)
      BY <1>1, <1>8, <2>3 DEF blocks, CanRestore
    <3>2. Grows(codes, m, blocks, C) /\ m \in Nat
      BY <1>9, <2>1, <3>1 DEF Grows
    <3>3. HasCode(Restored(answer, blocks), codes[m], C)
      BY ONLY <1>5, <3>1, <3>2, PutBack
    <3>4. QED
      BY <2>1, <3>1, <3>3 DEF HasCode
  <2>4. QED
    BY <2>2, <2>3
<1>11. /\ SubSeq(cur, 1, Len(x)) = x
       /\ SubSeq(cur, Len(x) + 1, Len(cur)) = t
       /\ Len(x) \in 0..Len(cur)
  BY <1>10, Halves
<1>12. QED
  BY <1>10, <1>11

----------------------------------------------------------------------------
\* Places: the words and the sentinels of what the model answered are still in
\* the order of the lines they stand for, and so are the words of what is put
\* together from it.

\* The lines that a masked document has, in their order.
Shown(lines, tags, ml, shown) ==
    /\ shown \in [DOMAIN ml -> DOMAIN lines]
    /\ \A i, j \in DOMAIN ml : i < j => shown[i] < shown[j]
    /\ \A k \in DOMAIN ml :
          \/ shown[k] \in BlockEnds(tags) /\ ml[k] = <<Sentinel>>
          \/ ~IsVerbatim(tags[shown[k]]) /\ ml[k] = lines[shown[k]]

LEMMA MaskedOrder ==
    ASSUME NEW S, NEW lines \in Seq(Seq(S)), NEW tags, NEW ml, ml = MaskedLines(lines, tags)
    PROVE  \E shown : Shown(lines, tags, ml, shown)
<1> DEFINE T == {i \in DOMAIN lines : ~IsVerbatim(tags[i]) \/ i \in BlockEnds(tags)}
           shown == Ascending(T)
<1>1. T \in SUBSET Nat /\ IsFiniteSet(T)
  <2>1. Len(lines) \in Nat /\ DOMAIN lines = 1..Len(lines)
    BY LenProperties
  <2>2. IsFiniteSet(1..Len(lines)) /\ T \subseteq 1..Len(lines)
    BY <2>1, FS_Interval
  <2>3. QED
    BY <2>1, <2>2, FS_Subset
<1>2. shown \in Seq(T) /\ \A i, j \in DOMAIN shown : i < j => shown[i] < shown[j]
  <2> HIDE DEF T
  <2>1. QED
    BY <1>1, AscendingIs
<1>3. ml = [k \in DOMAIN shown |->
               IF IsVerbatim(tags[shown[k]]) THEN <<Sentinel>> ELSE lines[shown[k]]]
  BY DEF MaskedLines
<1> HIDE DEF shown
<1>4. DOMAIN ml = DOMAIN shown /\ \A k \in DOMAIN shown : shown[k] \in T
  <2> HIDE DEF T
  <2>1. DOMAIN shown = 1..Len(shown) /\ \A k \in DOMAIN shown : shown[k] \in T
    BY <1>2, LenProperties, ElementOfSeq
  <2>2. QED
    BY <1>3, <2>1
<1>5. ASSUME NEW k \in DOMAIN ml
      PROVE  /\ shown[k] \in DOMAIN lines
             /\ \/ shown[k] \in BlockEnds(tags) /\ ml[k] = <<Sentinel>>
                \/ ~IsVerbatim(tags[shown[k]]) /\ ml[k] = lines[shown[k]]
  <2>1. shown[k] \in T /\ k \in DOMAIN shown
    BY <1>4
  <2>2. CASE IsVerbatim(tags[shown[k]])
    <3>1. ml[k] = <<Sentinel>>
      BY <1>3, <2>1, <2>2
    <3>2. QED
      BY <2>1, <2>2, <3>1
  <2>3. CASE ~IsVerbatim(tags[shown[k]])
    <3>1. ml[k] = lines[shown[k]]
      BY <1>3, <2>1, <2>3
    <3>2. QED
      BY <2>1, <2>3, <3>1
  <2>4. QED
    BY <2>2, <2>3
<1>6. shown \in [DOMAIN ml -> DOMAIN lines]
  <2>1. shown \in [DOMAIN shown -> T]
    <3> HIDE DEF T
    <3>1. DOMAIN shown = 1..Len(shown) /\ shown \in [1..Len(shown) -> T]
      BY <1>2, LenProperties
    <3>2. QED
      BY <3>1
  <2>2. QED
    BY <1>4, <2>1
<1>7. QED
  BY <1>2, <1>4, <1>5, <1>6 DEF Shown

\* The line of a document that an item of the masked one stands for.
Visible(x) == IsWord(x) \/ x = Sentinel
Ranked(a, R, lines, tags) ==
    /\ R \in [DOMAIN a -> DOMAIN lines]
    /\ \A p, q \in DOMAIN a : p < q /\ Visible(a[p]) /\ Visible(a[q]) => R[p] < R[q]
    /\ \A p \in DOMAIN a :
          /\ IsWord(a[p]) => ~IsVerbatim(tags[R[p]]) /\ a[p] \in Range(lines[R[p]])
          /\ a[p] = Sentinel => R[p] \in BlockEnds(tags)

LEMMA SentRanked ==
    ASSUME NEW text \in Seq(Raw), ~Contains(text, Sentinel), NEW L, L = Lines(text),
           NEW tags, tags = Tags(L), OneWord(L), NEW s, s = Masked(text)
    PROVE  s \in Seq(Raw) /\ \E R : Ranked(s, R, L, tags)
<1> DEFINE ml == MaskedLines(L, tags)
<1>1. Sentinel \in Raw /\ Newline \in Raw /\ ~IsWord(Sentinel) /\ ~IsWord(Newline)
      /\ Newline # Sentinel
  BY DEF Raw, IsWord, Sentinel, Newline, Item, Indent
<1>2. L \in Seq(Seq(Raw)) /\ Cut(L, text, Len(text))
  BY LinesAre DEF Pages
<1>3. ml \in Seq(Seq(Raw))
  BY <1>1, <1>2, MaskedAre
<1>4. s = Join(ml)
  BY DEF Masked
<1>5. PICK shown : Shown(L, tags, ml, shown)
  BY <1>2, MaskedOrder
<1> HIDE DEF ml
<1>6. s \in Seq(Raw) /\ \E g, o : JoinedFrom(s, ml, g, o)
  BY <1>1, <1>3, <1>4, JoinPlaces
<1>7. PICK g, o : JoinedFrom(s, ml, g, o)
  BY <1>6
<1> DEFINE R == [p \in DOMAIN s |-> shown[g[p]]]
<1>8. \A p \in DOMAIN s : g[p] \in DOMAIN ml /\ R[p] = shown[g[p]] /\ R[p] \in DOMAIN L
  BY <1>5, <1>7 DEF JoinedFrom, Shown
<1>9. R \in [DOMAIN s -> DOMAIN L]
  BY <1>8
<1> HIDE DEF R
<1>10. \A i \in DOMAIN L : \A x \in Range(L[i]) : x # Sentinel
  <2>1. ASSUME NEW i \in DOMAIN L, NEW x \in Range(L[i]) PROVE x # Sentinel
    <3>1. \E k \in 1..Len(text) : x = text[k]
      BY <1>2 DEF Cut
    <3>2. QED
      BY <3>1 DEF Contains
  <2>2. QED
    BY <2>1
<1>11. ASSUME NEW p \in DOMAIN s, Visible(s[p])
       PROVE  /\ o[p] \in DOMAIN ml[g[p]] /\ s[p] = ml[g[p]][o[p]]
              /\ \/ s[p] = Sentinel /\ R[p] \in BlockEnds(tags) /\ o[p] = 1
                    /\ ml[g[p]] = <<Sentinel>>
                 \/ /\ IsWord(s[p]) /\ ~IsVerbatim(tags[R[p]])
                    /\ s[p] \in Range(L[R[p]]) /\ ml[g[p]] = L[R[p]]
  <2>1. s[p] # Newline
    BY <1>1, <1>11 DEF Visible
  <2>2. o[p] \in DOMAIN ml[g[p]] /\ s[p] = ml[g[p]][o[p]]
    BY <1>7, <2>1 DEF JoinedFrom
  <2>3. CASE R[p] \in BlockEnds(tags) /\ ml[g[p]] = <<Sentinel>>
    <3>1. DOMAIN <<Sentinel>> = {1} /\ <<Sentinel>>[1] = Sentinel
      OBVIOUS
    <3>2. o[p] = 1 /\ s[p] = Sentinel
      BY <2>2, <2>3, <3>1
    <3>3. QED
      BY <2>2, <2>3, <3>2
  <2>4. CASE ~IsVerbatim(tags[R[p]]) /\ ml[g[p]] = L[R[p]]
    <3>1. s[p] \in Range(L[R[p]])
      BY <2>2, <2>4 DEF Range
    <3>2. IsWord(s[p])
      BY <1>8, <1>10, <1>11, <3>1 DEF Visible
    <3>3. QED
      BY <2>2, <2>4, <3>1, <3>2
  <2>5. QED
    BY <1>5, <1>8, <2>3, <2>4 DEF Shown
<1>12. ASSUME NEW p \in DOMAIN s, NEW q \in DOMAIN s, p < q, Visible(s[p]), Visible(s[q])
       PROVE  R[p] < R[q]
  <2>1. g[p] < g[q] \/ (g[p] = g[q] /\ o[p] < o[q])
    BY <1>7, <1>12 DEF JoinedFrom
  <2>2. CASE g[p] < g[q]
    BY <1>5, <1>8, <2>2 DEF Shown
  <2>3. CASE g[p] = g[q] /\ o[p] < o[q]
    <3>1. o[p] \in Nat /\ o[q] \in Nat /\ o[p] # o[q]
      <4>1. o[p] \in Nat /\ o[q] \in Nat
        BY <1>7 DEF JoinedFrom
      <4>2. QED
        BY <2>3, <4>1
    <3>2. R[p] = R[q]
      BY <1>8, <2>3
    <3>3. ml[g[p]] # <<Sentinel>> \/ FALSE
      <4>1. SUFFICES ASSUME ml[g[p]] = <<Sentinel>> PROVE FALSE
        OBVIOUS
      <4>2. DOMAIN <<Sentinel>> = {1}
        OBVIOUS
      <4>3. o[p] \in DOMAIN <<Sentinel>> /\ o[q] \in DOMAIN <<Sentinel>>
        BY <1>11, <1>12, <2>3, <4>1
      <4>4. QED
        BY <3>1, <4>2, <4>3
    <3>4. /\ IsWord(s[p]) /\ IsWord(s[q]) /\ ml[g[p]] = L[R[p]] /\ ml[g[q]] = L[R[p]]
          /\ o[p] \in DOMAIN L[R[p]] /\ o[q] \in DOMAIN L[R[p]]
          /\ s[p] = L[R[p]][o[p]] /\ s[q] = L[R[p]][o[q]]
      BY <1>11, <1>12, <2>3, <3>2, <3>3
    <3>5. L[R[p]] \in Range(L)
      BY <1>8 DEF Range
    <3>6. o[p] = o[q]
      BY <3>4, <3>5 DEF OneWord
    <3>7. QED
      BY <3>1, <3>6
  <2>4. QED
    BY <2>1, <2>2, <2>3
<1>13. Ranked(s, R, L, tags)
  <2>1. ASSUME NEW p \in DOMAIN s
        PROVE  /\ IsWord(s[p]) => ~IsVerbatim(tags[R[p]]) /\ s[p] \in Range(L[R[p]])
               /\ s[p] = Sentinel => R[p] \in BlockEnds(tags)
    BY <1>1, <1>11 DEF Visible
  <2>2. QED
    BY <1>9, <1>12, <2>1 DEF Ranked
<1>14. QED
  BY <1>6, <1>13

\* So are those of an answer that only left something out.
LEMMA AnswerRanked ==
    ASSUME NEW s \in Seq(Raw), NEW R, NEW L, NEW tags, Ranked(s, R, L, tags),
           NEW a \in Seq(Raw), IsSubsequence(a, s)
    PROVE  \E V : Ranked(a, V, L, tags)
<1>1. PICK f : FoundAt(a, Len(a), s, Len(s), f)
  BY SubsequenceIs
<1>2. DOMAIN a = 1..Len(a) /\ DOMAIN s = 1..Len(s)
  BY LenProperties
<1>3. /\ \A p \in DOMAIN a : f[p] \in DOMAIN s /\ a[p] = s[f[p]]
      /\ \A p, q \in DOMAIN a : p < q => f[p] < f[q]
  BY <1>1, <1>2 DEF FoundAt
<1> DEFINE V == [p \in DOMAIN a |-> R[f[p]]]
<1>4. V \in [DOMAIN a -> DOMAIN L] /\ \A p \in DOMAIN a : V[p] = R[f[p]]
  BY <1>3 DEF Ranked
<1> HIDE DEF V
<1>5. \A p, q \in DOMAIN a : p < q /\ Visible(a[p]) /\ Visible(a[q]) => V[p] < V[q]
  BY <1>3, <1>4 DEF Ranked
<1>6. \A p \in DOMAIN a :
          /\ IsWord(a[p]) => ~IsVerbatim(tags[V[p]]) /\ a[p] \in Range(L[V[p]])
          /\ a[p] = Sentinel => V[p] \in BlockEnds(tags)
  BY <1>3, <1>4 DEF Ranked
<1>7. QED
  BY <1>4, <1>5, <1>6 DEF Ranked

\* The k-th sentinel stands for the k-th block.
LEMMA SentinelStands ==
    ASSUME NEW text, NEW n \in Nat, NEW m \in Nat, NEW s, NEW e, Divided(text, n, m, s, e),
           NEW a \in Seq(Raw), Sentinels(a, Len(a)) = m,
           NEW R, Ranked(a, R, Lines(text), Tags(Lines(text))),
           NEW p \in DOMAIN a, a[p] = Sentinel
    PROVE  Sentinels(a, p) \in 1..m /\ R[p] = e[Sentinels(a, p)]
<1> DEFINE E == BlockEnds(Tags(Lines(text)))
           A == {j \in DOMAIN a : a[j] = Sentinel}
           f == [j \in A |-> R[j]]
<1>1. /\ E = {e[k] : k \in 1..m} /\ E \in SUBSET (1..n) /\ IsFiniteSet(E) /\ Cardinality(E) = m
      /\ e \in [1..m -> 1..n] /\ s \in [1..m -> 1..n]
      /\ \A k \in 1..m : s[k] <= e[k]
      /\ \A k, l \in 1..m : k < l => e[k] < s[l]
  BY DEF Divided
<1>2. /\ \A i, j \in DOMAIN a : i < j /\ Visible(a[i]) /\ Visible(a[j]) => R[i] < R[j]
      /\ \A j \in DOMAIN a : a[j] = Sentinel => R[j] \in E
  BY DEF Ranked
<1>3. Len(a) \in Nat /\ DOMAIN a = 1..Len(a) /\ p \in 1..Len(a)
  BY LenProperties
<1>4. \A i \in 1..Len(a) : Sentinels(a, i) = Cardinality({j \in A : j <= i})
  <2>1. ASSUME NEW i \in 1..Len(a) PROVE Sentinels(a, i) = Cardinality({j \in A : j <= i})
    <3>1. Sentinels(a, i) = Cardinality({j \in 1..i : a[j] = Sentinel})
      BY DEF Sentinels, Quantify
    <3>2. {j \in 1..i : a[j] = Sentinel} = {j \in A : j <= i}
      BY <1>3
    <3>3. QED
      BY <3>1, <3>2
  <2>2. QED
    BY <2>1
<1>5. A \in SUBSET Nat /\ IsFiniteSet(A) /\ E \in SUBSET Nat
  <2>1. IsFiniteSet(1..Len(a)) /\ A \subseteq 1..Len(a)
    BY <1>3, FS_Interval
  <2>2. QED
    BY <1>1, <1>3, <2>1, FS_Subset
<1>6. Cardinality(A) = m
  <2>1. {j \in A : j <= Len(a)} = A
    BY <1>3
  <2>2. Len(a) \in 1..Len(a)
    BY <1>3
  <2>3. QED
    BY <1>4, <2>1, <2>2
<1>7. p \in A
  OBVIOUS
<1>8. f \in [A -> E] /\ \A i, j \in A : i < j => f[i] < f[j]
  <2>1. \A j \in A : j \in DOMAIN a /\ Visible(a[j]) /\ R[j] \in E
    BY <1>2 DEF Visible
  <2>2. \A j \in A : f[j] = R[j]
    OBVIOUS
  <2> HIDE DEF A, E
  <2>3. f \in [A -> E]
    BY <2>1
  <2> HIDE DEF f
  <2>4. \A i, j \in A : i < j => f[i] < f[j]
    BY <1>2, <2>1, <2>2
  <2>5. QED
    BY <2>3, <2>4
<1>9. f[p] = R[p]
  BY <1>7
<1> HIDE DEF A, E, f
<1>10. Cardinality({j \in A : j <= p}) = Cardinality({x \in E : x <= f[p]})
  <2>1. IsFiniteSet(E) /\ Cardinality(A) = Cardinality(E)
    BY <1>1, <1>6
  <2>2. QED
    BY ONLY <1>5, <1>7, <1>8, <2>1, SameRank
<1>11. PICK k \in 1..m : R[p] = e[k]
  <2>1. R[p] \in E
    BY <1>2, <1>3
  <2>2. QED
    BY <1>1, <2>1
<1>12. Cardinality({x \in {e[l] : l \in 1..m} : x <= e[k]}) = k
  <2>1. \A l \in 1..m : e[l] \in Nat /\ s[l] \in Nat /\ s[l] <= e[l]
    BY <1>1
  <2>2. \A i, l \in 1..m : i < l => e[i] < e[l]
    <3>1. ASSUME NEW i \in 1..m, NEW l \in 1..m, i < l PROVE e[i] < e[l]
      <4>1. e[i] < s[l] /\ s[l] <= e[l]
        BY <1>1, <3>1
      <4>2. QED
        BY <2>1, <4>1
    <3>2. QED
      BY <3>1
  <2>3. QED
    BY <2>1, <2>2, CountTo
<1>13. Sentinels(a, p) = k
  <2>1. {x \in E : x <= f[p]} = {x \in {e[l] : l \in 1..m} : x <= e[k]}
    BY <1>1, <1>9, <1>11
  <2>2. QED
    BY <1>3, <1>4, <1>10, <1>12, <2>1
<1>14. QED
  BY <1>11, <1>13

\* The words of some lines that were joined come line by line.
InLines(b, L, from, to, G) ==
    /\ G \in [DOMAIN b -> from..to]
    /\ \A i \in DOMAIN b : IsWord(b[i]) => b[i] \in Range(L[G[i]])
    /\ \A i, j \in DOMAIN b : i < j /\ IsWord(b[i]) /\ IsWord(b[j]) => G[i] < G[j]

LEMMA BlockWords ==
    ASSUME NEW L \in Seq(Seq(Raw)), OneWord(L), NEW from \in 1..Len(L), NEW to \in from..Len(L),
           NEW b, b = Join(SubSeq(L, from, to))
    PROVE  \E G : InLines(b, L, from, to, G)
<1> DEFINE p == SubSeq(L, from, to)
<1>1. Len(L) \in Nat /\ DOMAIN L = 1..Len(L) /\ \A i \in 1..Len(L) : L[i] \in Seq(Raw)
  BY LenProperties, ElementOfSeq
<1>2. /\ p \in Seq(Seq(Raw)) /\ DOMAIN p = 1..(to - from + 1)
      /\ \A i \in 1..(to - from + 1) : p[i] = L[from + i - 1]
  <2>1. from \in Int /\ to \in Int /\ from <= to /\ \A i \in from..to : L[i] \in Seq(Raw)
    BY <1>1
  <2>2. /\ p \in Seq(Seq(Raw)) /\ Len(p) = (IF from <= to THEN to - from + 1 ELSE 0)
        /\ \A i \in 1..(to - from + 1) : p[i] = L[from + i - 1]
    BY <2>1, SubSeqProperties
  <2>3. QED
    BY <2>1, <2>2, LenProperties
<1> HIDE DEF p
<1>3. Newline \in Raw /\ ~IsWord(Newline)
  BY DEF Raw, IsWord, Newline, Item
<1>4. b \in Seq(Raw) /\ \E g, o : JoinedFrom(b, p, g, o)
  BY <1>2, <1>3, JoinPlaces DEF p
<1>5. PICK g, o : JoinedFrom(b, p, g, o)
  BY <1>4
<1> DEFINE G == [i \in DOMAIN b |-> from + g[i] - 1]
<1>6. \A i \in DOMAIN b :
         /\ g[i] \in 1..(to - from + 1) /\ G[i] = from + g[i] - 1 /\ p[g[i]] = L[G[i]]
         /\ G[i] \in from..to /\ G[i] \in 1..Len(L) /\ o[i] \in Nat
  <2>1. \A i \in DOMAIN b : g[i] \in 1..(to - from + 1) /\ o[i] \in Nat
    BY <1>2, <1>5 DEF JoinedFrom
  <2>2. \A c \in 1..(to - from + 1) : from + c - 1 \in from..to /\ from + c - 1 \in 1..Len(L)
    BY <1>1
  <2>3. QED
    BY <1>2, <2>1, <2>2
<1>7. G \in [DOMAIN b -> from..to]
  BY <1>6
<1> HIDE DEF G
<1>8. ASSUME NEW i \in DOMAIN b, IsWord(b[i])
      PROVE  o[i] \in DOMAIN L[G[i]] /\ b[i] = L[G[i]][o[i]]
  BY <1>3, <1>5, <1>6, <1>8 DEF JoinedFrom
<1>9. ASSUME NEW i \in DOMAIN b, NEW j \in DOMAIN b, i < j, IsWord(b[i]), IsWord(b[j])
      PROVE  G[i] < G[j]
  <2>1. g[i] < g[j] \/ (g[i] = g[j] /\ o[i] < o[j])
    BY <1>5, <1>9 DEF JoinedFrom
  <2>2. CASE g[i] < g[j]
    <3>1. g[i] \in Int /\ g[j] \in Int /\ G[i] = from + g[i] - 1 /\ G[j] = from + g[j] - 1
      BY <1>6
    <3>2. QED
      BY <1>1, <2>2, <3>1
  <2>3. CASE g[i] = g[j] /\ o[i] < o[j]
    <3>1. G[i] = G[j] /\ o[i] # o[j]
      <4>1. /\ G[i] = from + g[i] - 1 /\ G[j] = from + g[j] - 1
            /\ o[i] \in Nat /\ o[j] \in Nat
        BY <1>6
      <4>2. QED
        BY <2>3, <4>1
    <3>2. L[G[i]] \in Range(L)
      BY <1>1, <1>6 DEF Range
    <3>3. /\ o[i] \in DOMAIN L[G[i]] /\ o[j] \in DOMAIN L[G[i]]
          /\ IsWord(L[G[i]][o[i]]) /\ IsWord(L[G[i]][o[j]])
      BY <1>8, <1>9, <3>1
    <3>4. QED
      BY <3>1, <3>2, <3>3 DEF OneWord
  <2>4. QED
    BY <2>1, <2>2, <2>3
<1>10. \A i \in DOMAIN b : IsWord(b[i]) => b[i] \in Range(L[G[i]])
  BY <1>8 DEF Range
<1>11. QED
  BY <1>7, <1>9, <1>10 DEF InLines

\* What has no words, before or after.
LEMMA WordsAfter ==
    ASSUME NEW x \in Seq(Raw), \A i \in DOMAIN x : ~IsWord(x[i]), NEW b \in Seq(Raw),
           NEW L, NEW from \in Int, NEW to \in Int, from <= to, NEW G, InLines(b, L, from, to, G)
    PROVE  \E H : InLines(x \o b, L, from, to, H)
<1> DEFINE n == Len(x)
           k == Len(b)
           u == x \o b
           H == [i \in DOMAIN u |-> IF i <= n THEN from ELSE G[i - n]]
<1>1. n \in Nat /\ k \in Nat /\ DOMAIN x = 1..n /\ DOMAIN b = 1..k
  BY LenProperties
<1>2. DOMAIN u = 1..(n + k) /\ \A i \in 1..(n + k) : u[i] = IF i <= n THEN x[i] ELSE b[i - n]
  BY <1>1, SMT
<1> HIDE DEF u, n, k
<1>3. \A i \in 1..(n + k) : ~(i <= n) => i - n \in 1..k
  BY <1>1
<1>4. /\ \A i \in 1..k : G[i] \in from..to
      /\ \A i \in 1..k : IsWord(b[i]) => b[i] \in Range(L[G[i]])
      /\ \A i, j \in 1..k : i < j /\ IsWord(b[i]) /\ IsWord(b[j]) => G[i] < G[j]
  BY <1>1 DEF InLines
<1>5. H \in [1..(n + k) -> from..to]
  <2>1. from \in from..to
    OBVIOUS
  <2>2. QED
    BY <1>2, <1>3, <1>4, <2>1
<1>6. \A i \in 1..(n + k) : H[i] = IF i <= n THEN from ELSE G[i - n]
  BY <1>2
<1> HIDE DEF H
<1>7. ASSUME NEW i \in 1..(n + k), IsWord(u[i])
      PROVE  ~(i <= n) /\ u[i] = b[i - n] /\ H[i] = G[i - n] /\ i - n \in 1..k
  <2>1. ~(i <= n)
    <3>1. SUFFICES ASSUME i <= n PROVE FALSE
      OBVIOUS
    <3>2. i \in 1..n /\ u[i] = x[i]
      BY <1>1, <1>2, <3>1
    <3>3. QED
      BY <1>1, <1>7, <3>2
  <2>2. QED
    BY <1>2, <1>3, <1>6, <2>1
<1>8. \A i \in 1..(n + k) : IsWord(u[i]) => u[i] \in Range(L[H[i]])
  BY <1>4, <1>7
<1>9. ASSUME NEW i \in 1..(n + k), NEW j \in 1..(n + k), i < j, IsWord(u[i]), IsWord(u[j])
      PROVE  H[i] < H[j]
  <2>1. i - n < j - n
    BY <1>1, <1>9
  <2>2. QED
    BY <1>4, <1>7, <1>9, <2>1
<1>10. InLines(u, L, from, to, H)
  BY <1>2, <1>5, <1>8, <1>9 DEF InLines
<1>11. QED
  BY <1>10 DEF u

LEMMA WordsBefore ==
    ASSUME NEW x \in Seq(Raw), \A i \in DOMAIN x : ~IsWord(x[i]), NEW b \in Seq(Raw),
           NEW L, NEW from \in Int, NEW to \in Int, from <= to, NEW G, InLines(b, L, from, to, G)
    PROVE  \E H : InLines(b \o x, L, from, to, H)
<1> DEFINE n == Len(x)
           k == Len(b)
           u == b \o x
           H == [i \in DOMAIN u |-> IF i <= k THEN G[i] ELSE to]
<1>1. n \in Nat /\ k \in Nat /\ DOMAIN x = 1..n /\ DOMAIN b = 1..k
  BY LenProperties
<1>2. DOMAIN u = 1..(k + n) /\ \A i \in 1..(k + n) : u[i] = IF i <= k THEN b[i] ELSE x[i - k]
  BY <1>1, SMT
<1> HIDE DEF u, n, k
<1>3. \A i \in 1..(k + n) : (~(i <= k) => i - k \in 1..n) /\ (i <= k => i \in 1..k)
  BY <1>1
<1>4. /\ \A i \in 1..k : G[i] \in from..to
      /\ \A i \in 1..k : IsWord(b[i]) => b[i] \in Range(L[G[i]])
      /\ \A i, j \in 1..k : i < j /\ IsWord(b[i]) /\ IsWord(b[j]) => G[i] < G[j]
  BY <1>1 DEF InLines
<1>5. H \in [1..(k + n) -> from..to]
  <2>1. to \in from..to
    OBVIOUS
  <2>2. QED
    BY <1>2, <1>3, <1>4, <2>1
<1>6. \A i \in 1..(k + n) : H[i] = IF i <= k THEN G[i] ELSE to
  BY <1>2
<1> HIDE DEF H
<1>7. ASSUME NEW i \in 1..(k + n), IsWord(u[i])
      PROVE  i \in 1..k /\ u[i] = b[i] /\ H[i] = G[i]
  <2>1. i <= k
    <3>1. SUFFICES ASSUME ~(i <= k) PROVE FALSE
      OBVIOUS
    <3>2. i - k \in 1..n /\ u[i] = x[i - k]
      BY <1>2, <1>3, <3>1
    <3>3. QED
      BY <1>1, <1>7, <3>2
  <2>2. QED
    BY <1>2, <1>3, <1>6, <2>1
<1>8. \A i \in 1..(k + n) : IsWord(u[i]) => u[i] \in Range(L[H[i]])
  BY <1>4, <1>7
<1>9. ASSUME NEW i \in 1..(k + n), NEW j \in 1..(k + n), i < j, IsWord(u[i]), IsWord(u[j])
      PROVE  H[i] < H[j]
  BY <1>4, <1>7, <1>9
<1>10. InLines(u, L, from, to, H)
  BY <1>2, <1>5, <1>8, <1>9 DEF InLines
<1>11. QED
  BY <1>10 DEF u

\* The words of a piece are of the lines from[p] to R[p].
Start(a, R, s, p) == IF a[p] = Sentinel THEN s[Sentinels(a, p)] ELSE R[p]

LEMMA PieceWords ==
    ASSUME NEW text \in Seq(Raw), OneWord(Lines(text)), NEW n \in Nat, NEW m \in Nat,
           NEW s, NEW e, Divided(text, n, m, s, e),
           NEW a \in Seq(Raw), Sentinels(a, Len(a)) = m,
           NEW R, Ranked(a, R, Lines(text), Tags(Lines(text))), NEW p \in DOMAIN a
    PROVE  /\ Start(a, R, s, p) \in 1..n /\ R[p] \in 1..n
           /\ \E H : InLines(Spliced(a, Blocks(text), p), Lines(text), Start(a, R, s, p), R[p], H)
<1> DEFINE L == Lines(text)
           r == R[p]
<1>1. L \in Seq(Seq(Raw)) /\ n = Len(L) /\ DOMAIN L = 1..n
  BY LinesAre DEF Pages, Divided
<1>2. r \in 1..n /\ (IsWord(a[p]) => a[p] \in Range(L[r]))
  BY <1>1 DEF Ranked
<1>3. a[p] \in Raw /\ DOMAIN a = 1..Len(a) /\ p \in 1..Len(a) /\ Len(a) \in Nat
  BY LenProperties, ElementOfSeq
<1> HIDE DEF L, r
<1>4. CASE a[p] # Sentinel
  <2>1. Start(a, R, s, p) = r /\ Spliced(a, Blocks(text), p) = <<a[p]>>
    BY <1>4 DEF Start, Spliced, r
  <2> DEFINE x == <<a[p]>>
             H == [i \in DOMAIN x |-> r]
  <2>2. DOMAIN x = {1} /\ x[1] = a[p]
    OBVIOUS
  <2> HIDE DEF x
  <2>3. H \in [DOMAIN x -> r..r] /\ H[1] = r
    BY <1>2, <2>2
  <2> HIDE DEF H
  <2>4. InLines(x, L, r, r, H)
    <3>1. \A i \in DOMAIN x : IsWord(x[i]) => x[i] \in Range(L[H[i]])
      BY <1>2, <2>2, <2>3
    <3>2. \A i, j \in DOMAIN x : ~(i < j)
      BY <2>2
    <3>3. QED
      BY <2>3, <3>1, <3>2 DEF InLines
  <2>5. QED
    BY <1>2, <2>1, <2>4 DEF x, L, r
<1>5. CASE a[p] = Sentinel
  <2> DEFINE k == Sentinels(a, p)
             b == Blocks(text)[k]
  <2>1. k \in 1..m /\ r = e[k]
    <3>1. Sentinels(a, p) \in 1..m /\ R[p] = e[Sentinels(a, p)]
      BY ONLY n \in Nat, m \in Nat, Divided(text, n, m, s, e), a \in Seq(Raw),
              Sentinels(a, Len(a)) = m, Ranked(a, R, Lines(text), Tags(Lines(text))),
              p \in DOMAIN a, <1>5, SentinelStands
    <3>2. QED
      BY <3>1 DEF r
  <2>2. s[k] \in 1..n /\ e[k] \in 1..n /\ s[k] <= e[k] /\ b = Join(SubSeq(L, s[k], e[k]))
    BY <2>1 DEF Divided, L
  <2>3. Start(a, R, s, p) = s[k]
    BY <1>5 DEF Start
  <2>4. s[k] \in 1..Len(L) /\ e[k] \in s[k]..Len(L) /\ OneWord(L)
    BY <1>1, <2>2 DEF L
  <2>5. \E G : InLines(b, L, s[k], e[k], G)
    BY <1>1, <2>2, <2>4, BlockWords
  <2>6. b \in Seq(Raw)
    <3>1. \A x \in 1..m : Blocks(text)[x] \in Seq(Raw)
      <4> SUFFICES ASSUME NEW C, C = {} PROVE \A x \in 1..m : Blocks(text)[x] \in Seq(Raw)
        OBVIOUS
      <4>1. \A c \in DOMAIN Lines(text) : \A x \in Range(Lines(text)[c]) :
               IsWord(x) /\ x \in C => IsVerbatim(Tags(Lines(text))[c])
        OBVIOUS
      <4>2. QED
        BY <4>1, BlocksCode
    <3>2. QED
      BY <2>1, <3>1
  <2>7. PICK after \in BOOLEAN :
          Spliced(a, Blocks(text), p) =
                (IF p > 1 /\ a[p - 1] # Newline THEN <<Newline>> ELSE <<>>)
                   \o Blocks(text)[Sentinels(a, p)]
                   \o (IF after THEN <<Newline>> ELSE <<>>)
    BY <1>3, <1>5, PieceIs
  <2> DEFINE before == IF p > 1 /\ a[p - 1] # Newline THEN <<Newline>> ELSE <<>>
             end == IF after THEN <<Newline>> ELSE <<>>
  <2>8. Spliced(a, Blocks(text), p) = (before \o b) \o end
    BY <2>7
  <2>9. /\ before \in Seq(Raw) /\ \A i \in DOMAIN before : ~IsWord(before[i])
        /\ end \in Seq(Raw) /\ \A i \in DOMAIN end : ~IsWord(end[i])
    <3> DEFINE nl == <<Newline>>
               none == <<>>
    <3>1. nl \in Seq(Raw) /\ \A i \in DOMAIN nl : ~IsWord(nl[i])
      BY DEF Raw, IsWord, Newline, Item
    <3>2. none \in Seq(Raw) /\ \A i \in DOMAIN none : ~IsWord(none[i])
      OBVIOUS
    <3>3. before \in {nl, none} /\ end \in {nl, none}
      OBVIOUS
    <3> HIDE DEF nl, none, before, end
    <3>4. QED
      BY <3>1, <3>2, <3>3
  <2> HIDE DEF before, end, b, k
  <2>10. s[k] \in Int /\ e[k] \in Int /\ s[k] <= e[k]
    BY <2>2
  <2>11. PICK G : InLines(b, L, s[k], e[k], G)
    BY <2>5
  <2>12. before \o b \in Seq(Raw) /\ \E H : InLines(before \o b, L, s[k], e[k], H)
    <3>1. before \o b \in Seq(Raw)
      BY ONLY <2>6, <2>9, ConcatLaws
    <3>2. \E H : InLines(before \o b, L, s[k], e[k], H)
      BY ONLY <2>6, <2>9, <2>10, <2>11, WordsAfter
    <3>3. QED
      BY <3>1, <3>2
  <2> DEFINE w == before \o b
  <2>13. PICK H : w \in Seq(Raw) /\ InLines(w, L, s[k], e[k], H)
    BY <2>12
  <2> HIDE DEF w
  <2>14. \E J : InLines(w \o end, L, s[k], e[k], J)
    BY ONLY <2>9, <2>10, <2>13, WordsBefore
  <2>15. QED
    BY <1>2, <2>1, <2>2, <2>3, <2>8, <2>14 DEF w, L, r
<1>6. QED
  BY <1>4, <1>5

\* The lines of one piece come before those of the next.
LEMMA PiecesApart ==
    ASSUME NEW text \in Seq(Raw), NEW n \in Nat, NEW m \in Nat,
           NEW s, NEW e, Divided(text, n, m, s, e),
           NEW a \in Seq(Raw), Sentinels(a, Len(a)) = m,
           NEW R, Ranked(a, R, Lines(text), Tags(Lines(text))),
           NEW p \in DOMAIN a, NEW q \in DOMAIN a, p < q, Visible(a[p]), Visible(a[q])
    PROVE  R[p] < Start(a, R, s, q)
<1> DEFINE tags == Tags(Lines(text))
<1>1. R[p] < R[q] /\ (IsWord(a[p]) => ~IsVerbatim(tags[R[p]]))
      /\ R[p] \in DOMAIN Lines(text) /\ R[q] \in DOMAIN Lines(text)
  BY DEF Ranked
<1>2. /\ DOMAIN Lines(text) = 1..n
      /\ s \in [1..m -> 1..n] /\ e \in [1..m -> 1..n]
      /\ \A k \in 1..m : s[k] <= e[k]
      /\ \A k, l \in 1..m : k < l => e[k] < s[l]
      /\ \A i \in 1..n : IsVerbatim(tags[i]) <=> \E k \in 1..m : s[k] <= i /\ i <= e[k]
  BY DEF Divided
<1> HIDE DEF tags
<1>3. CASE a[q] # Sentinel
  BY <1>1, <1>3 DEF Start
<1>4. CASE a[q] = Sentinel
  <2> DEFINE k == Sentinels(a, q)
  <2>1. k \in 1..m /\ R[q] = e[k] /\ Start(a, R, s, q) = s[k]
    BY <1>4, SentinelStands DEF Start
  <2> HIDE DEF k
  <2>2. CASE a[p] = Sentinel
    <3> DEFINE l == Sentinels(a, p)
    <3>1. l \in 1..m /\ R[p] = e[l]
      BY <2>2, SentinelStands
    <3> HIDE DEF l
    <3>2. s[k] \in Int /\ e[k] \in Int /\ s[l] \in Int /\ e[l] \in Int /\ k \in Int /\ l \in Int
          /\ s[k] <= e[k] /\ s[l] <= e[l] /\ e[l] < e[k]
      BY <1>1, <1>2, <2>1, <3>1
    <3>3. l < k
      <4>1. l # k
        BY <3>2
      <4>2. ~(k < l)
        <5>1. k < l => e[k] < s[l]
          BY <1>2, <2>1, <3>1
        <5>2. QED
          BY <3>2, <5>1
      <4>3. QED
        BY <3>2, <4>1, <4>2
    <3>4. e[l] < s[k]
      BY <1>2, <2>1, <3>1, <3>3
    <3>5. QED
      BY <2>1, <3>1, <3>4
  <2>3. CASE IsWord(a[p])
    <3>1. ~IsVerbatim(tags[R[p]]) /\ R[p] \in 1..n /\ R[p] < e[k]
      BY <1>1, <1>2, <2>1, <2>3
    <3>2. ~(s[k] <= R[p] /\ R[p] <= e[k])
      BY <1>2, <2>1, <3>1
    <3>3. s[k] \in Int /\ e[k] \in Int /\ R[p] \in Int
      BY <1>2, <2>1, <3>1
    <3>4. R[p] < s[k]
      BY <3>1, <3>2, <3>3
    <3>5. QED
      BY <2>1, <3>4
  <2>4. QED
    BY <2>2, <2>3 DEF Visible
<1>5. QED
  BY <1>3, <1>4

\* Words of a text are of lines in the order of the words.
InOrderOf(text, L) ==
    \A i, j \in DOMAIN text : i < j /\ IsWord(text[i]) /\ IsWord(text[j]) =>
        \E p, q \in DOMAIN L : p < q /\ text[i] \in Range(L[p]) /\ text[j] \in Range(L[q])

\* An answer is put together from its pieces.
LEMMA PiecesExist ==
    ASSUME NEW a \in Seq(Raw), NEW blocks, NEW m \in Nat, Sentinels(a, Len(a)) = m,
           \A k \in 1..m : blocks[k] \in Seq(Raw)
    PROVE  \E ss : /\ ss \in Seq(Seq(Raw)) /\ Len(ss) = Len(a)
                   /\ Restored(a, blocks) = FlattenSeq(ss)
                   /\ \A i \in 1..Len(a) : ss[i] = Spliced(a, blocks, i)
<1> DEFINE ss == [i \in DOMAIN a |-> Spliced(a, blocks, i)]
<1>1. /\ ss \in Seq(Seq(Raw)) /\ Len(ss) = Len(a) /\ Restored(a, blocks) = FlattenSeq(ss)
      /\ \A i \in 1..Len(a) : ss[i] = Spliced(a, blocks, i)
  BY PiecesAre
<1> HIDE DEF ss
<1>2. QED
  BY <1>1

\* What is put together from an answer that only left something out is in the
\* order of the document.
LEMMA RestoredInOrder ==
    ASSUME NEW text \in Seq(Raw), OneWord(Lines(text)), NEW n \in Nat, NEW m \in Nat,
           NEW s, NEW e, Divided(text, n, m, s, e),
           NEW a \in Seq(Raw), Sentinels(a, Len(a)) = m,
           NEW R, Ranked(a, R, Lines(text), Tags(Lines(text))),
           NEW r, r = Restored(a, Blocks(text))
    PROVE  InOrderOf(r, Lines(text))
<1> DEFINE from(p) == Start(a, R, s, p)
<1>1. DOMAIN a = 1..Len(a) /\ Len(a) \in Nat
  BY LenProperties
<1>2. DOMAIN Lines(text) = 1..n
  BY DEF Divided
<1>3. \A k \in 1..m : Blocks(text)[k] \in Seq(Raw)
  <2> SUFFICES ASSUME NEW C, C = {} PROVE \A x \in 1..m : Blocks(text)[x] \in Seq(Raw)
    OBVIOUS
  <2>1. \A c \in DOMAIN Lines(text) : \A x \in Range(Lines(text)[c]) :
           IsWord(x) /\ x \in C => IsVerbatim(Tags(Lines(text))[c])
    OBVIOUS
  <2>2. QED
    BY <2>1, BlocksCode
<1>4. PICK ss : /\ ss \in Seq(Seq(Raw)) /\ Len(ss) = Len(a) /\ r = FlattenSeq(ss)
                /\ \A i \in 1..Len(a) : ss[i] = Spliced(a, Blocks(text), i)
  BY <1>3, PiecesExist
<1>5. PICK g, o : Places(r, ss, Len(a), g, o)
  <2>1. \E g, o : Places(FlattenSeq(ss), ss, Len(ss), g, o)
    BY <1>4, FlattenPlaces
  <2>2. QED
    BY <1>4, <2>1
<1>6. /\ \A i \in DOMAIN r : g[i] \in 1..Len(a) /\ o[i] \in DOMAIN ss[g[i]] /\ r[i] = ss[g[i]][o[i]]
      /\ \A i, j \in DOMAIN r : i < j => g[i] < g[j] \/ (g[i] = g[j] /\ o[i] < o[j])
  BY <1>5 DEF Places
<1>7. ASSUME NEW p \in 1..Len(a)
      PROVE  /\ from(p) \in 1..n /\ R[p] \in 1..n
             /\ \E H : InLines(ss[p], Lines(text), from(p), R[p], H)
  BY <1>1, <1>4, PieceWords
<1>8. ASSUME NEW p \in 1..Len(a), NEW c \in DOMAIN ss[p], IsWord(ss[p][c])
      PROVE  Visible(a[p])
  <2>1. CASE a[p] = Sentinel
    BY <2>1 DEF Visible
  <2>2. CASE a[p] # Sentinel
    <3>1. ss[p] = <<a[p]>>
      BY <1>4, <2>2 DEF Spliced
    <3>2. DOMAIN <<a[p]>> = {1} /\ <<a[p]>>[1] = a[p]
      OBVIOUS
    <3>3. ss[p][c] = a[p]
      BY <3>1, <3>2
    <3>4. QED
      BY <1>8, <3>3 DEF Visible
  <2>3. QED
    BY <2>1, <2>2
<1> HIDE DEF from
<1>9. ASSUME NEW i \in DOMAIN r, NEW j \in DOMAIN r, i < j, IsWord(r[i]), IsWord(r[j])
      PROVE  \E p, q \in 1..n :
                p < q /\ r[i] \in Range(Lines(text)[p]) /\ r[j] \in Range(Lines(text)[q])
  <2>1. /\ g[i] \in 1..Len(a) /\ o[i] \in DOMAIN ss[g[i]] /\ r[i] = ss[g[i]][o[i]]
        /\ g[j] \in 1..Len(a) /\ o[j] \in DOMAIN ss[g[j]] /\ r[j] = ss[g[j]][o[j]]
        /\ g[i] < g[j] \/ (g[i] = g[j] /\ o[i] < o[j])
    BY <1>6, <1>9
  <2>2. PICK H : InLines(ss[g[i]], Lines(text), from(g[i]), R[g[i]], H)
    BY <1>7, <2>1
  <2>3. PICK J : InLines(ss[g[j]], Lines(text), from(g[j]), R[g[j]], J)
    BY <1>7, <2>1
  <2>4. /\ from(g[i]) \in 1..n /\ R[g[i]] \in 1..n /\ from(g[j]) \in 1..n /\ R[g[j]] \in 1..n
    BY <1>7, <2>1
  <2>5. /\ H[o[i]] \in from(g[i])..R[g[i]] /\ r[i] \in Range(Lines(text)[H[o[i]]])
        /\ J[o[j]] \in from(g[j])..R[g[j]] /\ r[j] \in Range(Lines(text)[J[o[j]]])
    BY <1>9, <2>1, <2>2, <2>3 DEF InLines
  <2>6. CASE g[i] < g[j]
    <3>1. Visible(a[g[i]]) /\ Visible(a[g[j]])
      BY <1>8, <1>9, <2>1
    <3>2. R[g[i]] < from(g[j])
      BY <1>1, <2>1, <2>6, <3>1, PiecesApart DEF from
    <3>3. H[o[i]] \in 1..n /\ J[o[j]] \in 1..n /\ H[o[i]] < J[o[j]]
      BY <2>4, <2>5, <3>2
    <3>4. QED
      BY <2>5, <3>3
  <2>7. CASE g[i] = g[j] /\ o[i] < o[j]
    <3>1. o[j] \in DOMAIN ss[g[i]] /\ r[j] = ss[g[i]][o[j]]
      BY <2>1, <2>7
    <3>2. /\ H[o[i]] < H[o[j]] /\ H[o[j]] \in from(g[i])..R[g[i]]
          /\ r[j] \in Range(Lines(text)[H[o[j]]])
      BY <1>9, <2>1, <2>2, <2>7, <3>1 DEF InLines
    <3>3. H[o[i]] \in 1..n /\ H[o[j]] \in 1..n
      BY <2>4, <2>5, <3>2
    <3>4. QED
      BY <2>5, <3>2, <3>3
  <2>8. QED
    BY <2>1, <2>6, <2>7
<1>10. QED
  BY <1>2, <1>9 DEF InOrderOf

\* So is an answer about a document without blocks.
LEMMA AnswerInOrder ==
    ASSUME NEW L, NEW tags, NEW a \in Seq(Raw), NEW R, Ranked(a, R, L, tags)
    PROVE  InOrderOf(a, L)
<1>1. ASSUME NEW i \in DOMAIN a, NEW j \in DOMAIN a, i < j, IsWord(a[i]), IsWord(a[j])
      PROVE  \E p, q \in DOMAIN L : p < q /\ a[i] \in Range(L[p]) /\ a[j] \in Range(L[q])
  <2>1. R[i] \in DOMAIN L /\ R[j] \in DOMAIN L /\ R[i] < R[j]
        /\ a[i] \in Range(L[R[i]]) /\ a[j] \in Range(L[R[j]])
    BY <1>1 DEF Ranked, Visible
  <2>2. QED
    BY <2>1
<1>2. QED
  BY <1>1 DEF InOrderOf

\* The words of what is segmented are in the order of their lines in the document.
LEMMA OrderKept ==
    ASSUME NEW L \in Seq(Seq(Raw)), NEW O \in Seq(Seq(Raw)), Ends(L, O, Blanks), Apart(O),
           NEW p \in DOMAIN L, NEW q \in DOMAIN L, p < q,
           NEW x \in Range(L[p]), NEW y \in Range(L[q]), IsWord(x), IsWord(y)
    PROVE  LineOf(x, O) < LineOf(y, O)
<1>1. PICK f : Squeezed(f, L, O, Blanks)
  BY DEF Ends
<1>2. /\ DOMAIN L = 1..Len(L) /\ DOMAIN O = 1..Len(O) /\ Len(O) \in Nat
      /\ \A i \in DOMAIN L : L[i] \in Seq(Raw)
  BY LenProperties, ElementOfSeq
<1>3. ASSUME NEW i \in DOMAIN L, NEW z \in Range(L[i])
      PROVE  f[i] \in DOMAIN O /\ z \in Range(O[f[i]])
  <2>1. f[i] \in DOMAIN O /\ \E b \in Seq(Blanks) : O[f[i]] = b \o L[i]
    BY <1>1, <1>2 DEF Squeezed
  <2>2. PICK b \in Seq(Blanks) : O[f[i]] = b \o L[i]
    BY <2>1
  <2> DEFINE l == L[i]
  <2>3. b \in Seq(Raw) /\ l \in Seq(Raw) /\ O[f[i]] = b \o l /\ z \in Range(l)
    BY <1>2, <2>2, BlanksAre, SeqMonotonic
  <2> HIDE DEF l
  <2>4. Range(b \o l) = Range(b) \cup Range(l)
    BY <2>3, ConcatItems
  <2>5. QED
    BY <2>1, <2>3, <2>4
<1>4. ASSUME NEW k \in DOMAIN O, NEW z \in Range(O[k]), IsWord(z)
      PROVE  LineOf(z, O) = k
  <2>1. {c \in DOMAIN O : z \in Range(O[c])} = {k}
    BY <1>4 DEF Apart
  <2>2. k \in Int
    BY <1>2
  <2>3. LineOf(z, O) = Min({k})
    BY <2>1 DEF LineOf
  <2>4. Min({k}) = k
    BY <2>2 DEF Min
  <2>5. QED
    BY <2>3, <2>4
<1>5. LineOf(x, O) = f[p] /\ LineOf(y, O) = f[q]
  BY <1>3, <1>4
<1>6. f[p] < f[q]
  BY <1>1, <1>2 DEF Squeezed
<1>7. QED
  BY <1>5, <1>6

\* What comes back is in its place.
LEMMA BackInPlace ==
    ASSUME LayersOK, MaskOK
    PROVE  InPlace
<1> SUFFICES ASSUME Unmasking, IsSubsequence(answer, sent)
             PROVE  LET original == Lines(Original(in.text))
                    IN  \A i, j \in DOMAIN cur :
                           i < j /\ IsWord(cur[i]) /\ IsWord(cur[j]) =>
                               LineOf(cur[i], original) < LineOf(cur[j], original)
  BY DEF InPlace
<1> DEFINE read == ReadText(in.text)
           L == Lines(read)
           source == Original(in.text)
           O == Lines(source)
<1>1. /\ IsGiven(in.text) /\ OneWord(Lines(in.text)) /\ read \in Seq(Raw)
      /\ sent = Masked(read) /\ answer \in Answers(sent)
      /\ ~Contains(read, Sentinel)
      /\ IF Blocks(read) = <<>> THEN cur = answer
         ELSE CanRestore(answer, Blocks(read)) /\ cur = Restored(answer, Blocks(read))
  BY UnmaskingIs
<1>2. OneWord(L) /\ Ends(L, O, Blanks)
  BY <1>1, ReadSingle, ReadKept
<1>3. IsGiven(source)
  BY <1>1, ReadKept
<1>4. O \in Seq(Seq(Raw)) /\ Apart(O)
  BY <1>3, LinesAre DEF IsGiven, Pages
<1>5. L \in Seq(Seq(Raw))
  BY <1>1, LinesAre DEF Pages
<1>6. sent \in Seq(Raw) /\ \E R : Ranked(sent, R, L, Tags(L))
  BY <1>1, <1>2, SentRanked
<1>7. answer \in Seq(Raw)
  <2>1. Sentinel \in Raw
    BY DEF Raw
  <2>2. QED
    BY <1>1, <1>6, <2>1, AnswerIs
<1>8. PICK R : Ranked(answer, R, L, Tags(L))
  <2>1. PICK V : Ranked(sent, V, L, Tags(L))
    BY <1>6
  <2>2. QED
    BY <1>6, <1>7, <2>1, AnswerRanked
<1>9. InOrderOf(cur, L)
  <2>1. CASE Blocks(read) = <<>>
    <3>1. cur = answer
      BY <1>1, <2>1
    <3>2. InOrderOf(answer, L)
      BY <1>7, <1>8, AnswerInOrder
    <3>3. QED
      BY <3>1, <3>2
  <2>2. CASE Blocks(read) # <<>>
    <3>1. PICK n \in Nat, m \in Nat : n >= 1 /\ \E s, e : Divided(read, n, m, s, e)
      BY <1>1, DocumentIs
    <3>2. PICK s, e : Divided(read, n, m, s, e)
      BY <3>1
    <3>3. Sentinels(answer, Len(answer)) = m /\ cur = Restored(answer, Blocks(read))
      BY <1>1, <2>2, <3>2 DEF Divided, CanRestore
    <3>4. QED
      BY <1>1, <1>2, <1>7, <1>8, <3>2, <3>3, RestoredInOrder
  <2>3. QED
    BY <2>1, <2>2
<1> HIDE DEF L, O
<1>10. ASSUME NEW i \in DOMAIN cur, NEW j \in DOMAIN cur, i < j, IsWord(cur[i]), IsWord(cur[j])
       PROVE  LineOf(cur[i], O) < LineOf(cur[j], O)
  <2>1. PICK p \in DOMAIN L, q \in DOMAIN L :
           p < q /\ cur[i] \in Range(L[p]) /\ cur[j] \in Range(L[q])
    BY <1>9, <1>10 DEF InOrderOf
  <2>2. QED
    BY <1>2, <1>4, <1>5, <1>10, <2>1, OrderKept
<1>11. QED
  BY <1>10 DEF O

\* The verbatim lines of a document that went to the model (mdstructured.go) come
\* back untouched, each on a line of its own and in their order, whatever the document
\* and the answer, unless the collapse of a blank run took a line its indentation; and
\* what is left of a document from which the model only left something out is in its
\* place.
THEOREM BlocksReturn == Spec => []BlocksComeBack
<1>1. Init => LayersOK /\ TablesOK /\ MaskOK
  <2>1. ASSUME Init PROVE TablesOK /\ MaskOK
    <3>1. at = "idle" /\ done = <<>> /\ sent = NoText
      BY <2>1 DEF Init
    <3>2. QED
      BY <3>1 DEF TablesOK, Tabulated, MaskOK
  <2>2. QED
    BY <2>1, InitLayers
<1>2. IInv /\ LayersOK /\ TablesOK /\ MaskOK /\ [Next]_vars => (LayersOK /\ TablesOK /\ MaskOK)'
  BY LayersStep, TablesStep, MaskStep
<1>3. LayersOK /\ MaskOK => BlocksComeBack
  BY CodeBack, BackInPlace DEF BlocksComeBack
<1>4. QED
  BY <1>1, <1>2, <1>3, InvariantHolds, PTL DEF Spec
=============================================================================
