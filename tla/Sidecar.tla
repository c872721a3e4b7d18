------------------------------ MODULE Sidecar ------------------------------
(***************************************************************************)
(* The ML sidecar (model/app.py, model/route.py): requests on threads of   *)
(* one process, models loaded lazily under double-checked locks, and the   *)
(* compressor's inference behind a semaphore that sheds what has to wait.  *)
(* A thread inside a `with lock:' block is the holder of that lock.        *)
(***************************************************************************)
EXTENDS Naturals, FiniteSets

CONSTANTS
    Requests,
    Kind,               \* Kind[r]: the endpoint, see Kinds
    MaxConcurrency,     \* permits of _INFER_SEM
    MaxCrashes          \* bounds the ends of the process

\* /v1/compress; /v1/route/domain; /v1/route/embedding and /complexity, which
\* share one scorer and its embedder.
Kinds == {"compress", "domain", "embedding"}
RouteKinds == Kinds \ {"compress"}

ASSUME SidecarConstants ==
    /\ IsFiniteSet(Requests)
    /\ Kind \in [Requests -> Kinds]
    /\ MaxConcurrency \in Nat \ {0}
    /\ MaxCrashes \in Nat

VARIABLES
    phase,      \* of the process: "starting", "serving" or "down"
    at,         \* where each request's thread is
    obj,        \* the scorer or classifier it has got hold of
    current,    \* _route_scorer and _route_domain; 0 for None
    made,       \* how many of each were constructed
    loaded,     \* objects whose _model is set; <<"compress", 1>> is _compressor
    permits,    \* of the semaphore
    outcome,    \* what each request was answered
    crashes

vars == <<phase, at, obj, current, made, loaded, permits, outcome, crashes>>
process == <<phase, crashes>>
objects == <<obj, current, made>>

Steps == {"idle", "acquiring", "getting", "object", "making", "constructing",
          "checking", "model", "entered", "loading", "infer", "releasing", "done"}
Outcomes == {"none", "compressed", "skipped", "scored", "failed", "lost"}

-----------------------------------------------------------------------------
Model(r) == <<Kind[r], obj[r]>>
Goto(r, step) == at' = [at EXCEPT ![r] = step]

\* The thread is over.
Answer(r, what) ==
    /\ Goto(r, "done")
    /\ outcome' = [outcome EXCEPT ![r] = what]

\* Mutant: an error of the compressor is the caller's.
Finish_Raises(r, what) ==
    IF Kind[r] = "compress"
    THEN /\ Goto(r, "releasing")
         /\ outcome' = [outcome EXCEPT ![r] = what]
    ELSE Answer(r, what)

\* The end of the work: compress still has its permit to give back, and turns
\* an exception into a skip; the routing endpoints let it through as a 500.
Finish(r, what) ==
    IF Kind[r] = "compress"
    THEN /\ Goto(r, "releasing")
         /\ outcome' = [outcome EXCEPT ![r] = IF what = "failed" THEN "skipped" ELSE what]
    ELSE Answer(r, what)

-----------------------------------------------------------------------------
Init ==
    /\ phase = "starting"
    /\ at = [r \in Requests |-> "idle"]
    /\ obj = [r \in Requests |-> 0]
    /\ current = [k \in RouteKinds |-> 0]
    /\ made = [k \in RouteKinds |-> 0]
    /\ loaded = {}
    /\ permits = MaxConcurrency
    /\ outcome = [r \in Requests |-> "none"]
    /\ crashes = 0

\* _warm_model, before the first connection is accepted: a failure is logged.
Start ==
    /\ phase = "starting"
    /\ phase' = "serving"
    /\ loaded' \in {{}, {<<"compress", 1>>}}
    /\ UNCHANGED <<at, objects, permits, outcome, crashes>>

-----------------------------------------------------------------------------
(***************************************************************************)
(* /v1/compress around its inference.                                      *)
(***************************************************************************)
Arrive(r) ==
    /\ phase = "serving" /\ at[r] = "idle"
    /\ Goto(r, IF Kind[r] = "compress" THEN "acquiring" ELSE "getting")
    /\ UNCHANGED <<process, objects, loaded, permits, outcome>>

\* The gate, the size limit or the density of identifiers say no.
Skip(r) ==
    /\ phase = "serving" /\ at[r] = "idle"
    /\ Kind[r] = "compress"
    /\ Answer(r, "skipped")
    /\ UNCHANGED <<process, objects, loaded, permits>>

Acquire(r) ==
    /\ at[r] = "acquiring"
    /\ permits > 0
    /\ permits' = permits - 1
    /\ obj' = [obj EXCEPT ![r] = 1]
    /\ Goto(r, "checking")
    /\ UNCHANGED <<process, current, made, loaded, outcome>>

\* No permit within _INFER_WAIT_S: "busy".
Shed(r) ==
    /\ at[r] = "acquiring"
    /\ permits = 0
    /\ Answer(r, "skipped")
    /\ UNCHANGED <<process, objects, loaded, permits>>

\* Mutant: only a result gives the permit back, an exception does not.
Release_AfterResult(r) ==
    /\ at[r] = "releasing"
    /\ permits' = IF outcome[r] = "compressed" THEN permits + 1 ELSE permits
    /\ Goto(r, "done")
    /\ UNCHANGED <<process, objects, loaded, outcome>>

\* The finally clause.
Release(r) ==
    /\ at[r] = "releasing"
    /\ permits' = permits + 1
    /\ Goto(r, "done")
    /\ UNCHANGED <<process, objects, loaded, outcome>>

-----------------------------------------------------------------------------
(***************************************************************************)
(* _get_route_scorer and _get_route_domain, both under _route_lock.        *)
(***************************************************************************)
GetObject(r) ==
    /\ at[r] = "getting"
    /\ LET o == current[Kind[r]]
       IN  IF o = 0 THEN Goto(r, "object") /\ UNCHANGED obj
                    ELSE Goto(r, "checking") /\ obj' = [obj EXCEPT ![r] = o]
    /\ UNCHANGED <<process, current, made, loaded, permits, outcome>>

LockObject(r) ==
    /\ at[r] = "object"
    /\ \A q \in Requests : at[q] \notin {"making", "constructing"}
    /\ Goto(r, "making")
    /\ UNCHANGED <<process, objects, loaded, permits, outcome>>

\* Mutant: no second check under the lock.
RecheckObject_Unchecked(r) ==
    /\ at[r] = "making"
    /\ Goto(r, "constructing")
    /\ UNCHANGED <<process, objects, loaded, permits, outcome>>

RecheckObject(r) ==
    /\ at[r] = "making"
    /\ LET o == current[Kind[r]]
       IN  IF o = 0 THEN Goto(r, "constructing") /\ UNCHANGED obj
                    ELSE Goto(r, "checking") /\ obj' = [obj EXCEPT ![r] = o]
    /\ UNCHANGED <<process, current, made, loaded, permits, outcome>>

\* The new object is published and the lock left.
MakeObject(r) ==
    /\ at[r] = "constructing"
    /\ LET k == Kind[r]
       IN  /\ made' = [made EXCEPT ![k] = @ + 1]
           /\ current' = [current EXCEPT ![k] = made[k] + 1]
           /\ obj' = [obj EXCEPT ![r] = made[k] + 1]
    /\ Goto(r, "checking")
    /\ UNCHANGED <<process, loaded, permits, outcome>>

\* An empty text, or no candidates, is answered without a model.
AnswerEmpty(r) ==
    /\ at[r] = "checking"
    /\ Kind[r] # "compress"
    /\ Answer(r, "scored")
    /\ UNCHANGED <<process, objects, loaded, permits>>

-----------------------------------------------------------------------------
(***************************************************************************)
(* get_compressor, Embedder.__call__ and _predict_real: the model, under   *)
(* the lock of the compressor or of the object.                            *)
(***************************************************************************)
CheckModel(r) ==
    /\ at[r] = "checking"
    /\ Goto(r, IF Model(r) \in loaded THEN "infer" ELSE "model")
    /\ UNCHANGED <<process, objects, loaded, permits, outcome>>

LockModel(r) ==
    /\ at[r] = "model"
    /\ \A q \in Requests : at[q] \in {"entered", "loading"} => Model(q) # Model(r)
    /\ Goto(r, "entered")
    /\ UNCHANGED <<process, objects, loaded, permits, outcome>>

RecheckModel(r) ==
    /\ at[r] = "entered"
    /\ Goto(r, IF Model(r) \in loaded THEN "infer" ELSE "loading")
    /\ UNCHANGED <<process, objects, loaded, permits, outcome>>

\* What the model needs, its tokenizer or its conversion, is in place before the
\* check of another thread can see it.
LoadModel(r) ==
    /\ at[r] = "loading"
    /\ loaded' = loaded \cup {Model(r)}
    /\ Goto(r, "infer")
    /\ UNCHANGED <<process, objects, permits, outcome>>

\* Mutant: the load is tried again under the lock.
FailLoad_Retries(r) ==
    /\ at[r] = "loading"
    /\ Goto(r, "entered")
    /\ UNCHANGED <<process, objects, loaded, permits, outcome>>

FailLoad(r) ==
    /\ at[r] = "loading"
    /\ Finish(r, "failed")
    /\ UNCHANGED <<process, objects, loaded, permits>>

\* The inference; compress goes through the fidelity pass and the expansion
\* guardrail, either of which may skip.
Infer(r) ==
    /\ at[r] = "infer"
    /\ \E what \in IF Kind[r] = "compress" THEN {"compressed", "skipped", "failed"}
                                           ELSE {"scored", "failed"} :
          Finish(r, what)
    /\ UNCHANGED <<process, objects, loaded, permits>>

-----------------------------------------------------------------------------
\* The process is killed (out of memory) with everything it was doing, and is
\* started again by superviseSidecar.
Crash ==
    /\ phase # "down"
    /\ crashes < MaxCrashes
    /\ phase' = "down"
    /\ crashes' = crashes + 1
    /\ at' = [r \in Requests |-> IF at[r] = "idle" THEN "idle" ELSE "done"]
    /\ outcome' = [r \in Requests |->
                      IF at[r] \in {"idle", "done"} THEN outcome[r] ELSE "lost"]
    /\ obj' = [r \in Requests |-> 0]
    /\ current' = [k \in RouteKinds |-> 0]
    /\ made' = [k \in RouteKinds |-> 0]
    /\ loaded' = {}
    /\ permits' = MaxConcurrency

Restart ==
    /\ phase = "down"
    /\ phase' = "starting"
    /\ UNCHANGED <<at, objects, loaded, permits, outcome, crashes>>

\* What a thread does once its request has arrived.
Serve(r) ==
    \/ Acquire(r) \/ Shed(r) \/ Release(r)
    \/ GetObject(r) \/ LockObject(r) \/ RecheckObject(r) \/ MakeObject(r)
    \/ AnswerEmpty(r)
    \/ CheckModel(r) \/ LockModel(r) \/ RecheckModel(r) \/ LoadModel(r) \/ FailLoad(r)
    \/ Infer(r)

Next ==
    \/ \E r \in Requests : Arrive(r) \/ Skip(r) \/ Serve(r)
    \/ Start \/ Crash \/ Restart

Spec == Init /\ [][Next]_vars

\* Threads are scheduled, and loads and inferences end.
FairSpec == Spec /\ \A r \in Requests : WF_vars(Serve(r))

-----------------------------------------------------------------------------
\* The process and the threads keep their forms; compress fails open: a caller
\* never gets an error from it, unless the process dies.
TypeOK ==
    /\ phase \in {"starting", "serving", "down"}
    /\ at \in [Requests -> Steps]
    /\ obj \in [Requests -> Nat]
    /\ current \in [RouteKinds -> Nat]
    /\ made \in [RouteKinds -> Nat]
    /\ loaded \subseteq Kinds \X Nat
    /\ permits \in 0..MaxConcurrency
    /\ outcome \in [Requests -> Outcomes]
    /\ crashes \in 0..MaxCrashes
    /\ \A r \in Requests : Kind[r] = "compress" => outcome[r] # "failed"

\* Every permit is free or with a request between its acquire and its release:
\* none is lost on a failing load, a failing inference or a skip, so shedding
\* ends with the load that caused it, and inference stays bounded.
Holding(r) ==
    /\ Kind[r] = "compress"
    /\ at[r] \in {"checking", "model", "entered", "loading", "infer", "releasing"}
PermitsConserved ==
    permits + Cardinality({r \in Requests : Holding(r)}) = MaxConcurrency

\* In the life of a process each of the three models is loaded once, and by one
\* thread: no two objects of one kind ever load, and none is used while it loads
\* ("avoid concurrent double-load -> OOM").
LoadedOnce ==
    \A k \in Kinds :
        Cardinality({r \in Requests : Kind[r] = k /\ at[r] = "loading"})
        + Cardinality({m \in loaded : m[1] = k}) <= 1

\* No thread waits for ever, whoever holds a lock or the last permit, and though
\* every load may fail.
Finishes == \A r \in Requests : at[r] # "idle" ~> at[r] = "done"
=============================================================================
