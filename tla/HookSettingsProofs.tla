------------------------- MODULE HookSettingsProofs -------------------------
(***************************************************************************)
(* Proofs about HookSettings for any hooks, faults and bounds.  While no   *)
(* two writers have shared the temporary file, its one user is known and   *)
(* so is what it holds (Alone), and a copy that is not stale is the file   *)
(* with the entry merged in (CopyOK).  What a cleanup removes stays away   *)
(* because from its bootout on nothing can start the daemon (TornDown).    *)
(***************************************************************************)
EXTENDS HookSettings, TLAPS

Saving == {"open", "fill", "rename"}
Removing == {"load", "open", "fill", "rename", "unregister"}

\* What a writer is going to write is a settings file with at most one entry, and
\* none if it removes; the daemon only ever installs.
WriterOK(p) ==
    /\ proc[p].save.ours <= 1
    /\ proc[p].at \in Saving =>
          /\ proc[p].save.form = "json"
          /\ proc[p].want = "remove" => proc[p].save.ours = 0
    /\ p = "daemon" => proc[p].want = "install"

\* While no two writers have shared it, the temporary file is torn as long as its
\* one user writes it, and then is what that one meant to write.
Alone(p) ==
    /\ proc[p].at = "fill" => proc[p].holds = "tmp" /\ tmp.form = "torn"
    /\ proc[p].at = "rename" => tmp = proc[p].save
    /\ \A q \in Writers \ {p} :
          ~(proc[p].at \in {"fill", "rename"} /\ proc[q].at \in {"fill", "rename"})

\* A copy that is not stale is what the file says, with the entries merged in.
CopyOK(p) ==
    proc[p].at \in Saving /\ p \notin stale =>
        /\ proc[p].save.rest = file.rest
        /\ proc[p].save.users = file.users \ LookAlike

\* From the bootout of a cleanup to the next setup no daemon runs, and its job is
\* not loaded; once the command is over the job is gone for good.
TornDown ==
    /\ proc["cli"].want = "remove" /\ proc["cli"].at \in Removing =>
          ~up /\ agent # "loaded"
    /\ removed =>
          /\ ~up /\ agent # "loaded"
          /\ proc["cli"].at \notin Removing \/ proc["cli"].want = "remove"
          /\ proc["cli"].at \in {"idle", "stop"} => agent = "none"
          /\ proc["cli"].at # "agent"

\* What holds until two writers have shared the temporary file.
Safe ==
    /\ file.form # "torn"
    /\ \A p \in Writers : Alone(p)
    /\ "read" \notin Faults =>
          /\ \A p \in Writers : CopyOK(p)
          /\ Launchd /\ removed => file.ours = 0

\* The inductive invariant.
IInv ==
    /\ TypeOK
    /\ file.ours <= 1
    /\ tmp.ours <= 1
    /\ \A p \in Writers : WriterOK(p)
    /\ Launchd => TornDown
    /\ ~collided => Safe

-----------------------------------------------------------------------------
\* Every blank file is a settings file.
LEMMA BlankType == \A form \in {"missing", "json", "broken", "torn"} :
                       Blank(form) \in Contents
BY SettingsConstants DEF Blank, Contents

\* An idle writer is one.
LEMMA IdleType == Idle \in Writer
BY BlankType DEF Idle, Writer, Steps

\* A change of one writer leaves the other alone.
LEMMA OneWriter ==
    ASSUME TypeOK, NEW p \in Writers, NEW w \in Writer,
           proc' = [proc EXCEPT ![p] = w]
    PROVE  /\ proc' \in [Writers -> Writer]
           /\ proc'[p] = w
           /\ \A q \in Writers \ {p} : proc'[q] = proc[q]
BY DEF TypeOK

\* A writer whose save has returned keeps what it was to do, and nothing else.
LEMMA ReturnedType ==
    ASSUME TypeOK, NEW p \in Writers
    PROVE  /\ Returned(p) \in Writer
           /\ Returned(p).at = After(p)
           /\ Returned(p).want = proc[p].want
           /\ Returned(p).save = Blank("missing")
           /\ Returned(p).holds = "none"
<1>1. proc[p] \in Writer
  BY DEF TypeOK
<1>2. After(p) \in {"idle", "agent", "unregister"}
  BY DEF After
<1>3. Idle \in Writer /\ Idle.save = Blank("missing") /\ Idle.holds = "none"
  BY IdleType DEF Idle
<1> QED
  BY <1>1, <1>2, <1>3 DEF Returned, Writer, Steps

\* Merging keeps the other settings, and the hooks that are not like Whittle's.
LEMMA MergedType ==
    ASSUME NEW f \in Contents, NEW want
    PROVE  /\ Merged(f, want) \in Contents
           /\ Merged(f, want).form = "json"
           /\ Merged(f, want).ours <= 1
           /\ want = "remove" => Merged(f, want).ours = 0
           /\ Merged(f, want).rest = f.rest
           /\ Merged(f, want).users = f.users \ LookAlike
BY DEF Merged, Contents

\* The invariant holds at the start.
LEMMA InitIInv == Init => IInv
<1> SUFFICES ASSUME Init PROVE IInv
  OBVIOUS
<1>1. file \in Contents /\ file.ours <= 1 /\ file.form # "torn"
  BY BlankType, SettingsConstants DEF Init, Contents, Blank
<1>2. tmp \in Contents /\ tmp.ours <= 1
  BY BlankType DEF Init, Blank
<1>3. proc \in [Writers -> Writer] /\ \A p \in Writers : proc[p] = Idle
  BY IdleType DEF Init
<1>4. \A p \in Writers : proc[p].at = "idle" /\ proc[p].holds = "none"
                          /\ proc[p].want = "install" /\ proc[p].save.ours = 0
  BY <1>3 DEF Idle, Blank
<1>5. TypeOK
  <2>1. agent \in {"none", "registered", "loaded"}
    BY DEF Init
  <2>2. \A p \in Writers : proc[p].at = "fill" <=> proc[p].holds # "none"
    BY <1>4
  <2>3. proc["daemon"] = Idle
    BY <1>3 DEF Writers
  <2>4. edits \in 0..MaxEdits /\ commands \in 0..MaxCommands
    BY SettingsConstants DEF Init
  <2> QED
    BY <1>1, <1>2, <1>3, <2>1, <2>2, <2>3, <2>4 DEF TypeOK, Init
<1>6. \A p \in Writers : WriterOK(p)
  BY <1>4 DEF WriterOK, Saving
<1>7. TornDown
  BY <1>4 DEF TornDown, Removing, Init, Writers
<1>8. Safe
  <2>1. \A p \in Writers : Alone(p)
    BY <1>4 DEF Alone
  <2>2. \A p \in Writers : CopyOK(p)
    BY <1>4 DEF CopyOK, Saving
  <2> QED
    BY <1>1, <2>1, <2>2 DEF Safe, Init
<1> QED
  BY <1>1, <1>2, <1>5, <1>6, <1>7, <1>8 DEF IInv

\* What a load leaves behind: a merged copy of the file, or nothing.
Copies(p, w) ==
    /\ w.at = "open"
    /\ w.save.form = "json"
    /\ w.want = "remove" => w.save.ours = 0
    /\ "read" \notin Faults => /\ w.save.rest = file.rest
                               /\ w.save.users = file.users \ LookAlike
    /\ removed' = removed
GivesUp(p, w) ==
    /\ w.at = After(p)
    /\ \/ removed' = removed
       \/ /\ removed' = TRUE
          /\ proc[p].want = "remove"
          /\ "read" \notin Faults => file.ours = 0
Loads(p, w) ==
    /\ proc' = [proc EXCEPT ![p] = w]
    /\ w.want = proc[p].want
    /\ w.holds = "none"
    /\ w.save.ours <= 1
    /\ Copies(p, w) \/ GivesUp(p, w)

\* loadSettings and the merge that follows.
LEMMA LoadEffect ==
    ASSUME TypeOK, NEW p \in Writers, Load(p)
    PROVE  \E w \in Writer : Loads(p, w)
<1>1. proc \in [Writers -> Writer] /\ proc[p] \in Writer /\ proc[p].at = "load"
      /\ proc[p].holds = "none"
  BY DEF TypeOK, Load
<1>2. PICK f \in Contents :
        /\ "read" \notin Faults => f = file
        /\ \/ /\ proc' = [proc EXCEPT ![p].at = "open",
                                      ![p].save = Merged(f, proc[p].want)]
              /\ UNCHANGED removed
           \/ /\ proc[p].want = "remove" /\ f.ours = 0
              /\ proc' = [proc EXCEPT ![p] = Returned(p)]
              /\ removed' = TRUE
           \/ /\ proc' = [proc EXCEPT ![p] = Returned(p)]
              /\ UNCHANGED removed
  <2>1. file \in Contents /\ Blank("missing") \in Contents
    BY BlankType DEF TypeOK
  <2> QED
    BY <2>1 DEF Load
<1>3. CASE /\ proc' = [proc EXCEPT ![p].at = "open",
                                   ![p].save = Merged(f, proc[p].want)]
           /\ UNCHANGED removed
  <2> DEFINE w == [proc[p] EXCEPT !.at = "open", !.save = Merged(f, proc[p].want)]
  <2>1. proc' = [proc EXCEPT ![p] = w]
    BY <1>1, <1>3
  <2>2. Merged(f, proc[p].want) \in Contents
    BY MergedType
  <2>3. w \in Writer /\ w.at = "open" /\ w.want = proc[p].want
        /\ w.holds = "none" /\ w.save = Merged(f, proc[p].want)
    BY <1>1, <2>2 DEF Writer, Steps
  <2>4. Merged(f, proc[p].want).ours <= 1 /\ Copies(p, w)
    BY <1>2, <1>3, <2>3, MergedType DEF Copies
  <2> QED
    BY <2>1, <2>3, <2>4 DEF Loads
<1>4. CASE proc' = [proc EXCEPT ![p] = Returned(p)]
  <2>1. Returned(p).save.ours <= 1
    BY ReturnedType DEF Blank
  <2>2. GivesUp(p, Returned(p))
    BY <1>2, <1>4, ReturnedType DEF GivesUp
  <2> QED
    BY <1>4, <2>1, <2>2, ReturnedType DEF Loads
<1>5. \/ /\ proc' = [proc EXCEPT ![p].at = "open",
                                ![p].save = Merged(f, proc[p].want)]
         /\ UNCHANGED removed
      \/ proc' = [proc EXCEPT ![p] = Returned(p)]
  BY <1>2
<1> QED
  BY <1>3, <1>4, <1>5

\* Loading disturbs no other writer and takes a copy that is not stale.
LEMMA LoadStep ==
    ASSUME IInv, NEW p \in Writers, Load(p)
    PROVE  IInv'
<1> USE DEF IInv
<1>1. proc[p] \in Writer /\ proc[p].at = "load" /\ proc[p].holds = "none"
  BY DEF TypeOK, Load
<1>2. PICK w \in Writer : Loads(p, w)
  BY LoadEffect
<1>3. /\ proc' \in [Writers -> Writer]
      /\ proc'[p] = w
      /\ \A q \in Writers \ {p} : proc'[q] = proc[q]
  BY <1>2, OneWriter DEF Loads
<1>4. UNCHANGED <<file, tmp, up, agent, edits, commands, collided>>
      /\ stale' = stale \ {p}
  BY DEF Load
<1>5. TypeOK'
  <2>1. up \/ p # "daemon"
    BY <1>1 DEF TypeOK, Idle
  <2>2. w.at # "fill"
    BY <1>2 DEF Loads, Copies, GivesUp, After
  <2> QED
    BY <1>1, <1>2, <1>3, <1>4, <2>1, <2>2 DEF Loads, Copies, GivesUp, TypeOK, Writers
<1>6. \A q \in Writers : WriterOK(q)'
  BY <1>2, <1>3 DEF Loads, Copies, GivesUp, WriterOK, Saving, After
<1>7. Launchd => TornDown'
  BY <1>1, <1>2, <1>3, <1>4 DEF Loads, Copies, GivesUp, TornDown, Removing, After, Writers, TypeOK, Idle, WriterOK
<1>8. ~collided' => Safe'
  <2> SUFFICES ASSUME ~collided PROVE Safe'
    BY <1>4
  <2>1. \A q \in Writers : Alone(q)'
    BY <1>1, <1>2, <1>3, <1>4 DEF Loads, Copies, GivesUp, Safe, Alone, After
  <2>2. "read" \notin Faults => \A q \in Writers : CopyOK(q)'
    BY <1>1, <1>2, <1>3, <1>4 DEF Loads, Copies, GivesUp, Safe, CopyOK, After, Saving
  <2> QED
    BY <1>2, <1>4, <2>1, <2>2 DEF Loads, Copies, GivesUp, Safe
<1> QED
  BY <1>4, <1>5, <1>6, <1>7, <1>8
\* The file is opened and truncated.
LEMMA OpenStep ==
    ASSUME IInv, NEW p \in Writers, Open(p)
    PROVE  IInv'
<1> USE DEF IInv
<1>1. proc[p] \in Writer /\ proc[p].at = "open"
  BY DEF TypeOK, Open
<1>2. PICK w \in Writer :
        /\ proc' = [proc EXCEPT ![p] = w]
        /\ w.at = "fill" /\ w.holds = "tmp"
        /\ w.want = proc[p].want /\ w.save = proc[p].save
  <2> DEFINE w == [proc[p] EXCEPT !.at = "fill", !.holds = "tmp"]
  <2>1. w \in Writer
    BY <1>1 DEF Writer, Steps
  <2>2. proc' = [proc EXCEPT ![p] = w]
    BY <1>1 DEF Open, TypeOK
  <2> QED
    BY <1>1, <2>1, <2>2 DEF Writer
<1>3. /\ proc' \in [Writers -> Writer]
      /\ proc'[p] = w
      /\ \A q \in Writers \ {p} : proc'[q] = proc[q]
  BY <1>2, OneWriter
<1>4. /\ UNCHANGED <<file, up, agent, edits, commands, stale, removed>>
      /\ tmp' = Blank("torn")
      /\ collided' = (collided \/ \E q \in Writers \ {p} : proc[q].at \in {"fill", "rename"})
  BY DEF Open
<1>5. tmp' \in Contents /\ tmp'.ours <= 1 /\ tmp'.form = "torn"
  BY <1>4, BlankType DEF Blank
<1>6. TypeOK'
  <2>1. up \/ p # "daemon"
    BY <1>1 DEF TypeOK, Idle
  <2> QED
    BY <1>1, <1>2, <1>3, <1>4, <1>5, <2>1 DEF TypeOK, Writers
<1>7. \A q \in Writers : WriterOK(q)'
  BY <1>1, <1>2, <1>3 DEF WriterOK, Saving
<1>8. Launchd => TornDown'
  BY <1>1, <1>2, <1>3, <1>4 DEF TornDown, Removing, Writers, TypeOK, Idle, WriterOK
<1>9. ~collided' => Safe'
  <2> SUFFICES ASSUME ~collided' PROVE Safe'
    OBVIOUS
  <2>1. ~collided /\ \A q \in Writers \ {p} : proc[q].at \notin {"fill", "rename"}
    BY <1>4
  <2>2. \A q \in Writers : Alone(q)'
    BY <1>2, <1>3, <1>5, <2>1 DEF Alone
  <2>3. "read" \notin Faults => \A q \in Writers : CopyOK(q)'
    BY <1>1, <1>2, <1>3, <1>4, <2>1 DEF Safe, CopyOK, Saving
  <2> QED
    BY <1>4, <2>1, <2>2, <2>3 DEF Safe
<1> QED
  BY <1>4, <1>5, <1>6, <1>7, <1>8, <1>9

\* What is written ends up in the file the descriptor is open on.
LEMMA OverType ==
    ASSUME NEW old \in Contents, NEW new \in Contents, new.ours <= 1,
           NEW res \in Over(old, new)
    PROVE  /\ res \in Contents
           /\ res.ours <= 1
           /\ old.form = "torn" => res = new
BY BlankType DEF Over, Blank

\* Alone, a writer leaves its own content in the temporary file.
LEMMA FillStep ==
    ASSUME IInv, NEW p \in Writers, Fill(p)
    PROVE  IInv'
<1> USE DEF IInv
<1>1. proc[p] \in Writer /\ proc[p].at = "fill"
  BY DEF TypeOK, Fill
<1>2. PICK w \in Writer :
        /\ proc' = [proc EXCEPT ![p] = w]
        /\ w.at = "rename" /\ w.holds = "none"
        /\ w.want = proc[p].want /\ w.save = proc[p].save
  <2> DEFINE w == [proc[p] EXCEPT !.at = "rename", !.holds = "none"]
  <2>1. w \in Writer
    BY <1>1 DEF Writer, Steps
  <2>2. proc' = [proc EXCEPT ![p] = w]
    BY <1>1 DEF Fill, TypeOK
  <2> QED
    BY <1>1, <2>1, <2>2 DEF Writer
<1>3. /\ proc' \in [Writers -> Writer]
      /\ proc'[p] = w
      /\ \A q \in Writers \ {p} : proc'[q] = proc[q]
  BY <1>2, OneWriter
<1>4. UNCHANGED <<up, agent, edits, commands, collided, removed>>
  BY DEF Fill
<1>5. file \in Contents /\ tmp \in Contents /\ proc[p].save \in Contents
      /\ proc[p].save.ours <= 1
  BY <1>1 DEF TypeOK, Writer, WriterOK
<1>6. /\ file' \in Contents /\ file'.ours <= 1
      /\ tmp' \in Contents /\ tmp'.ours <= 1
      /\ stale' \subseteq Writers
  BY <1>5, OverType DEF Fill, TypeOK, Loaded
<1>7. TypeOK'
  <2>1. up \/ p # "daemon"
    BY <1>1 DEF TypeOK, Idle
  <2> QED
    BY <1>1, <1>2, <1>3, <1>4, <1>6, <2>1 DEF TypeOK, Writers
<1>8. \A q \in Writers : WriterOK(q)'
  BY <1>1, <1>2, <1>3 DEF WriterOK, Saving
<1>9. Launchd => TornDown'
  BY <1>1, <1>2, <1>3, <1>4 DEF TornDown, Removing, Writers, TypeOK, Idle, WriterOK
<1>10. ~collided' => Safe'
  <2> SUFFICES ASSUME ~collided PROVE Safe'
    BY <1>4
  <2>1. Alone(p) /\ proc[p].holds = "tmp" /\ tmp.form = "torn"
    BY <1>1 DEF Safe, Alone
  <2>2. UNCHANGED <<file, stale>> /\ tmp' = proc[p].save
    BY <1>5, <2>1, OverType DEF Fill
  <2>3. \A q \in Writers \ {p} : proc[q].at \notin {"fill", "rename"}
    BY <1>1, <2>1 DEF Alone
  <2>4. \A q \in Writers : Alone(q)'
    BY <1>2, <1>3, <2>2, <2>3 DEF Alone
  <2>5. "read" \notin Faults => \A q \in Writers : CopyOK(q)'
    BY <1>1, <1>2, <1>3, <2>2 DEF Safe, CopyOK, Saving
  <2> QED
    BY <1>4, <2>2, <2>4, <2>5 DEF Safe
<1> QED
  BY <1>6, <1>7, <1>8, <1>9, <1>10

\* A writer that gives up after its load leaves the rest as it is.
LEMMA GiveUpStep ==
    ASSUME IInv, NEW p \in Writers, proc[p].at \in {"fill", "rename"},
           proc' = [proc EXCEPT ![p] = Returned(p)],
           edits' \in 0..MaxEdits,
           UNCHANGED <<file, tmp, up, agent, commands, stale, collided, removed>>
    PROVE  IInv'
<1> USE DEF IInv
<1>1. /\ proc' \in [Writers -> Writer]
      /\ proc'[p] = Returned(p)
      /\ \A q \in Writers \ {p} : proc'[q] = proc[q]
  BY OneWriter, ReturnedType
<1>2. /\ proc'[p].at = After(p) /\ After(p) \in {"idle", "agent", "unregister"}
      /\ proc'[p].want = proc[p].want
      /\ proc'[p].save.ours <= 1 /\ proc'[p].holds = "none"
  BY <1>1, ReturnedType DEF After, Blank
<1>3. TypeOK'
  <2>1. up \/ p # "daemon"
    BY DEF TypeOK, Idle
  <2> QED
    BY <1>1, <1>2, <2>1 DEF TypeOK, Writers
<1>4. \A q \in Writers : WriterOK(q)'
  BY <1>1, <1>2 DEF WriterOK, Saving
<1>5. Launchd => TornDown'
  BY <1>1, <1>2 DEF TornDown, Removing, Writers, TypeOK, Idle, WriterOK, After
<1>6. ~collided' => Safe'
  <2> SUFFICES ASSUME ~collided PROVE Safe'
    OBVIOUS
  <2>1. \A q \in Writers : Alone(q)'
    BY <1>1, <1>2 DEF Safe, Alone
  <2>2. "read" \notin Faults => \A q \in Writers : CopyOK(q)'
    BY <1>1, <1>2 DEF Safe, CopyOK, Saving
  <2> QED
    BY <2>1, <2>2 DEF Safe
<1> QED
  BY <1>3, <1>4, <1>5, <1>6

\* A rename changes where other descriptors are open, nothing else of their writer.
LEMMA MovedEffect ==
    ASSUME TypeOK, NEW q \in Writers
    PROVE  /\ Moved(proc)[q] \in Writer
           /\ Moved(proc)[q].at = proc[q].at
           /\ Moved(proc)[q].want = proc[q].want
           /\ Moved(proc)[q].save = proc[q].save
           /\ Moved(proc)[q].holds # "none" <=> proc[q].holds # "none"
           /\ proc[q].holds = "none" => Moved(proc)[q] = proc[q]
<1>1. proc[q] \in Writer
  BY DEF TypeOK
<1> QED
  BY <1>1 DEF Moved, Writer

\* So does a file put in the place of settings.json.
LEMMA ReplacedEffect ==
    ASSUME TypeOK
    PROVE  /\ Replaced(proc) \in [Writers -> Writer]
           /\ \A q \in Writers :
                /\ Replaced(proc)[q].at = proc[q].at
                /\ Replaced(proc)[q].want = proc[q].want
                /\ Replaced(proc)[q].save = proc[q].save
                /\ Replaced(proc)[q].holds # "none" <=> proc[q].holds # "none"
                /\ proc[q].holds # "file" => Replaced(proc)[q] = proc[q]
<1>1. \A q \in Writers : proc[q] \in Writer
  BY DEF TypeOK
<1> QED
  BY <1>1 DEF Replaced, Writer

\* Alone, a rename puts the writer's own copy in place; the others' are stale.
LEMMA RenameStep ==
    ASSUME IInv, NEW p \in Writers, Rename(p)
    PROVE  IInv'
<1> USE DEF IInv
<1>1. proc[p] \in Writer /\ proc[p].at = "rename" /\ proc[p].holds = "none"
  BY DEF TypeOK, Rename
<1>2. /\ proc' \in [Writers -> Writer]
      /\ proc'[p] = Returned(p)
      /\ \A q \in Writers \ {p} : proc'[q] = Moved(proc)[q]
  <2>1. Moved(proc) \in [Writers -> Writer]
    BY MovedEffect DEF Moved
  <2> QED
    BY <2>1, ReturnedType DEF Rename
<1>3. /\ proc'[p].at = After(p) /\ After(p) \in {"idle", "agent", "unregister"}
      /\ proc'[p].want = proc[p].want
      /\ proc'[p].save.ours <= 1 /\ proc'[p].holds = "none"
  BY <1>2, ReturnedType DEF After, Blank
<1>4. \A q \in Writers \ {p} :
        /\ proc'[q].at = proc[q].at
        /\ proc'[q].want = proc[q].want
        /\ proc'[q].save = proc[q].save
        /\ proc'[q].holds # "none" <=> proc[q].holds # "none"
        /\ proc[q].holds = "none" => proc'[q] = proc[q]
  BY <1>2, MovedEffect
<1>5. /\ UNCHANGED <<up, agent, edits, commands, collided>>
      /\ file' = tmp /\ tmp' = Blank("missing")
      /\ stale' = (stale \cup Loaded) \ {p}
      /\ removed' = (removed \/ proc[p].want = "remove")
  BY DEF Rename
<1>6. tmp' \in Contents /\ tmp'.ours <= 1
  BY <1>5, BlankType DEF Blank
<1>7. up \/ p # "daemon"
  BY <1>1 DEF TypeOK, Idle
<1>8. TypeOK'
  <2>1. ~up' => proc'["daemon"] = Idle
    <3> SUFFICES ASSUME ~up PROVE proc'["daemon"] = Idle
      BY <1>5
    <3>1. p # "daemon" /\ "daemon" \in Writers /\ proc["daemon"] = Idle
      BY <1>7 DEF TypeOK, Writers
    <3>2. proc["daemon"].holds = "none"
      BY <3>1 DEF Idle
    <3> QED
      BY <1>4, <3>1, <3>2
  <2> QED
    BY <1>2, <1>3, <1>4, <1>5, <1>6, <2>1 DEF TypeOK, Loaded
<1>9. \A q \in Writers : WriterOK(q)'
  BY <1>2, <1>3, <1>4 DEF WriterOK, Saving
<1>10. Launchd => TornDown'
  <2> SUFFICES ASSUME TornDown PROVE TornDown'
    OBVIOUS
  <2>1. CASE p = "cli"
    BY <1>1, <1>3, <1>5, <2>1 DEF TornDown, Removing, After
  <2>2. CASE p = "daemon"
    <3>1. proc'["cli"].at = proc["cli"].at /\ proc'["cli"].want = proc["cli"].want
      BY <1>4, <2>2 DEF Writers
    <3>2. up /\ removed' = removed
      BY <1>5, <1>7, <2>2 DEF WriterOK, TypeOK
    <3> QED
      BY <1>5, <3>1, <3>2 DEF TornDown
  <2> QED
    BY <2>1, <2>2 DEF Writers
<1>11. ~collided' => Safe'
  <2> SUFFICES ASSUME ~collided PROVE Safe'
    BY <1>5
  <2>1. tmp = proc[p].save /\ proc[p].save.form = "json"
    BY <1>1 DEF Safe, Alone, WriterOK, Saving
  <2>2. \A q \in Writers \ {p} : proc[q].at \notin {"fill", "rename"}
    BY <1>1 DEF Safe, Alone
  <2>3. \A q \in Writers : Alone(q)'
    BY <1>3, <1>4, <2>2 DEF Alone
  <2>4. \A q \in Writers : CopyOK(q)'
    <3> SUFFICES ASSUME NEW q \in Writers, proc'[q].at \in Saving, q \notin stale'
                 PROVE  FALSE
      BY DEF CopyOK
    <3>1. q # p /\ proc[q].at \in Saving
      BY <1>3, <1>4 DEF Saving
    <3> QED
      BY <1>5, <3>1 DEF Loaded, Saving
  <2>5. Launchd /\ removed' => file'.ours = 0
    <3> SUFFICES ASSUME Launchd, removed' PROVE proc[p].save.ours = 0
      BY <1>5, <2>1
    <3>1. CASE proc[p].want = "remove"
      BY <1>1, <3>1 DEF WriterOK, Saving
    <3>2. CASE proc[p].want # "remove"
      <4>1. removed /\ TornDown
        BY <1>5, <3>2
      <4>2. p = "cli"
        BY <1>7, <4>1 DEF TornDown, Writers
      <4> QED
        BY <1>1, <3>2, <4>1, <4>2 DEF TornDown, Removing
    <3> QED
      BY <3>1, <3>2
  <2> QED
    BY <1>5, <2>1, <2>3, <2>4, <2>5 DEF Safe
<1> QED
  BY <1>5, <1>6, <1>8, <1>9, <1>10, <1>11

\* A step that changes a writer that is not saving, before or after, the daemon
\* being up or stopped by it.
LEMMA IdleWriters ==
    ASSUME IInv, proc' \in [Writers -> Writer],
           \A q \in Writers :
              \/ proc'[q] = proc[q]
              \/ /\ proc'[q].at \notin Saving
                 /\ proc'[q].holds = "none"
                 /\ proc'[q].save.ours <= 1
                 /\ q = "daemon" => proc'[q].want = "install",
           UNCHANGED <<file, tmp, stale, collided>>,
           removed' \in BOOLEAN, removed' => removed,
           up' \in BOOLEAN, ~up' => proc'["daemon"] = Idle,
           agent' \in {"none", "registered", "loaded"},
           edits' \in 0..MaxEdits, commands' \in 0..MaxCommands,
           Launchd => TornDown'
    PROVE  IInv'
<1> USE DEF IInv
<1>1. TypeOK'
  BY DEF TypeOK, Saving
<1>2. \A q \in Writers : WriterOK(q)'
  BY DEF WriterOK
<1>3. ~collided => Safe'
  <2> SUFFICES ASSUME ~collided PROVE Safe'
    OBVIOUS
  <2>1. \A q \in Writers : Alone(q)'
    BY DEF Safe, Alone, Saving
  <2>2. "read" \notin Faults => \A q \in Writers : CopyOK(q)'
    BY DEF Safe, CopyOK
  <2> QED
    BY <2>1, <2>2 DEF Safe
<1> QED
  BY <1>1, <1>2, <1>3

\* What an idle writer, and one that begins, look like.
LEMMA IdleFields ==
    /\ Idle.at = "idle" /\ Idle.want = "install" /\ Idle.holds = "none"
    /\ Idle.save.ours = 0
    /\ \A at \in Steps : /\ [Idle EXCEPT !.at = at] \in Writer
                        /\ [Idle EXCEPT !.at = at].at = at
                        /\ [Idle EXCEPT !.at = at].want = "install"
                        /\ [Idle EXCEPT !.at = at].holds = "none"
                        /\ [Idle EXCEPT !.at = at].save.ours = 0
<1>1. /\ Idle.at = "idle" /\ Idle.want = "install" /\ Idle.holds = "none"
      /\ Idle.save.ours = 0
  BY DEF Idle, Blank
<1> QED
  BY <1>1, IdleType DEF Writer

\* A command that is given finds the command line idle.
LEMMA GiveStep ==
    ASSUME IInv, NEW w \in Writer, Give(w),
           w.at \in {"stop", "load"}, w.holds = "none", w.save.ours <= 1,
           w.at = "load" => removed' = FALSE /\ w.want = "install",
           w.at = "stop" => removed' = removed
    PROVE  IInv'
<1>1. TypeOK /\ (Launchd => TornDown)
  BY DEF IInv
<1>2. /\ proc' \in [Writers -> Writer]
      /\ proc'["cli"] = w
      /\ proc'["daemon"] = proc["daemon"]
      /\ \A q \in Writers \ {"cli"} : proc'[q] = proc[q]
  BY <1>1, OneWriter DEF Give, Writers
<1>3. /\ proc["cli"].at = "idle"
      /\ UNCHANGED <<file, tmp, up, agent, edits, stale, collided>>
      /\ commands' \in 0..MaxCommands
  BY <1>1, SettingsConstants DEF Give, TypeOK
<1>4. Launchd => TornDown'
  BY <1>1, <1>2, <1>3 DEF TornDown, Removing
<1>5. removed' \in BOOLEAN /\ (removed' => removed)
  <2>1. CASE w.at = "load"
    <3>1. removed' = FALSE
      BY <2>1
    <3> QED
      BY <3>1
  <2>2. CASE w.at = "stop"
    <3>1. removed' = removed /\ removed \in BOOLEAN
      BY <1>1, <2>2 DEF TypeOK
    <3> QED
      BY <3>1
  <2> QED
    BY <2>1, <2>2
<1> QED
  BY <1>1, <1>2, <1>3, <1>4, <1>5, IdleWriters DEF TypeOK, Saving

\* setup, cleanup and stop begin.
LEMMA CommandStep ==
    ASSUME IInv, Setup \/ Cleanup \/ Stop
    PROVE  IInv'
<1>1. CASE Setup
  <2> DEFINE w == [Idle EXCEPT !.at = "load"]
  <2>1. w \in Writer /\ w.at = "load" /\ w.want = "install" /\ w.holds = "none"
        /\ w.save.ours <= 1
    BY IdleFields DEF Steps
  <2>2. Give(w) /\ removed' = FALSE
    BY <1>1 DEF Setup
  <2> HIDE DEF w
  <2> QED
    BY <2>1, <2>2, GiveStep
<1>2. CASE Cleanup
  <2> DEFINE w == [Idle EXCEPT !.at = "stop", !.want = "remove"]
  <2>1. w \in Writer /\ w.at = "stop" /\ w.holds = Idle.holds /\ w.save = Idle.save
    BY IdleType DEF Writer, Steps
  <2>2. w.holds = "none" /\ w.save.ours <= 1
    BY <2>1, IdleFields
  <2>3. Give(w) /\ removed' = removed
    BY <1>2 DEF Cleanup
  <2> HIDE DEF w
  <2> QED
    BY <2>1, <2>2, <2>3, GiveStep
<1>3. CASE Stop
  <2> DEFINE w == [Idle EXCEPT !.at = "stop"]
  <2>1. w \in Writer /\ w.at = "stop" /\ w.holds = "none" /\ w.save.ours <= 1
    BY IdleFields DEF Steps
  <2>2. Give(w) /\ removed' = removed
    BY <1>3 DEF Stop
  <2> HIDE DEF w
  <2> QED
    BY <2>1, <2>2, GiveStep
<1> QED
  BY <1>1, <1>2, <1>3

\* The bootout ends a heal in progress, and with it the job.
LEMMA StopDaemonStep ==
    ASSUME IInv, StopDaemon
    PROVE  IInv'
<1>1. TypeOK /\ (Launchd => TornDown) /\ proc["cli"] \in Writer
      /\ proc["cli"].at = "stop" /\ WriterOK("cli")
  BY DEF IInv, TypeOK, StopDaemon, Writers
<1>2. UNCHANGED <<file, tmp, edits, commands, stale, collided, removed>>
  BY DEF StopDaemon
<1> DEFINE w == [proc["cli"] EXCEPT !.at = IF proc["cli"].want = "remove"
                                           THEN "load" ELSE "idle"]
<1>3. /\ w \in Writer /\ w.want = proc["cli"].want /\ w.save = proc["cli"].save
      /\ w.holds = "none"
      /\ w.at = IF proc["cli"].want = "remove" THEN "load" ELSE "idle"
  BY <1>1 DEF TypeOK, Writer, Steps, Writers
<1>4. /\ proc' \in [Writers -> Writer]
      /\ proc'["cli"] = w
      /\ IF Launchd THEN proc'["daemon"] = Idle ELSE proc'["daemon"] = proc["daemon"]
      /\ IF Launchd
         THEN up' = FALSE /\ agent' = IF agent = "loaded" THEN "registered" ELSE agent
         ELSE UNCHANGED <<up, agent>>
  BY <1>1, <1>3, IdleType DEF StopDaemon, TypeOK, Writers
<1> HIDE DEF w
<1>5. Launchd => TornDown'
  BY <1>1, <1>2, <1>3, <1>4 DEF TornDown, Removing
<1>6. w.save.ours <= 1 /\ w.at \notin Saving
  BY <1>1, <1>3 DEF WriterOK, Saving
<1>7. \A q \in Writers :
         \/ proc'[q] = proc[q]
         \/ /\ proc'[q].at \notin Saving
            /\ proc'[q].holds = "none"
            /\ proc'[q].save.ours <= 1
            /\ q = "daemon" => proc'[q].want = "install"
  BY <1>3, <1>4, <1>6, IdleFields DEF Writers, Saving
<1>8. /\ up' \in BOOLEAN /\ (~up' => proc'["daemon"] = Idle)
      /\ agent' \in {"none", "registered", "loaded"}
  BY <1>1, <1>4 DEF TypeOK
<1> QED
  BY <1>1, <1>2, <1>4, <1>5, <1>7, <1>8, IdleWriters DEF TypeOK

\* A setup loads the job; it has ended the time since the last cleanup before.
LEMMA InstallAgentStep ==
    ASSUME IInv, InstallAgent
    PROVE  IInv'
<1>1. TypeOK /\ (Launchd => TornDown) /\ proc["cli"].at = "agent"
  BY DEF IInv, InstallAgent
<1>2. UNCHANGED <<file, tmp, edits, commands, stale, collided, removed>>
  BY DEF InstallAgent
<1>3. /\ proc' \in [Writers -> Writer]
      /\ proc'["cli"] = Idle
      /\ IF Launchd
         THEN proc'["daemon"] = Idle /\ up' = FALSE /\ agent' = "loaded"
         ELSE proc'["daemon"] = proc["daemon"] /\ UNCHANGED <<up, agent>>
  BY <1>1, IdleType DEF InstallAgent, TypeOK, Writers
<1>4. Launchd => TornDown'
  BY <1>1, <1>2, <1>3, IdleFields DEF TornDown, Removing
<1>5. \A q \in Writers :
         \/ proc'[q] = proc[q]
         \/ /\ proc'[q].at \notin Saving
            /\ proc'[q].holds = "none"
            /\ proc'[q].save.ours <= 1
            /\ q = "daemon" => proc'[q].want = "install"
  BY <1>3, IdleFields DEF Writers, Saving
<1>6. /\ up' \in BOOLEAN /\ (~up' => proc'["daemon"] = Idle)
      /\ agent' \in {"none", "registered", "loaded"}
  BY <1>1, <1>3 DEF TypeOK
<1> QED
  BY <1>1, <1>2, <1>3, <1>4, <1>5, <1>6, IdleWriters DEF TypeOK

\* The end of a cleanup: the job is gone.
LEMMA UnregisterStep ==
    ASSUME IInv, Unregister
    PROVE  IInv'
<1>1. TypeOK /\ (Launchd => TornDown) /\ proc["cli"].at = "unregister"
  BY DEF IInv, Unregister
<1>2. UNCHANGED <<file, tmp, up, edits, commands, stale, collided, removed>>
  BY DEF Unregister
<1>3. /\ proc' \in [Writers -> Writer]
      /\ proc'["cli"] = Idle
      /\ proc'["daemon"] = proc["daemon"]
      /\ agent' = IF Launchd THEN "none" ELSE agent
  BY <1>1, IdleType DEF Unregister, TypeOK, Writers
<1>4. Launchd => TornDown'
  BY <1>1, <1>2, <1>3, IdleFields DEF TornDown, Removing
<1>5. \A q \in Writers :
         \/ proc'[q] = proc[q]
         \/ /\ proc'[q].at \notin Saving
            /\ proc'[q].holds = "none"
            /\ proc'[q].save.ours <= 1
            /\ q = "daemon" => proc'[q].want = "install"
  BY <1>3, IdleFields DEF Writers, Saving
<1>6. /\ up' \in BOOLEAN /\ (~up' => proc'["daemon"] = Idle)
      /\ agent' \in {"none", "registered", "loaded"}
  BY <1>1, <1>2, <1>3 DEF TypeOK
<1> QED
  BY <1>1, <1>2, <1>3, <1>4, <1>5, <1>6, IdleWriters DEF TypeOK

\* The daemon starts, dies, or finds the hook missing.
LEMMA DaemonStep ==
    ASSUME IInv, StartDaemon \/ Login \/ DaemonDies \/ Heal
    PROVE  IInv'
<1>1. TypeOK /\ (Launchd => TornDown)
  BY DEF IInv
<1>2. UNCHANGED <<file, tmp, commands, stale, collided, removed>>
  BY DEF StartDaemon, Login, DaemonDies, Heal
<1>3. edits' \in 0..MaxEdits /\ up' \in BOOLEAN
      /\ agent' \in {"none", "registered", "loaded"}
  <2>1. edits' = edits \/ (edits < MaxEdits /\ edits' = edits + 1)
    BY DEF StartDaemon, Login, DaemonDies, Heal
  <2>2. edits' \in 0..MaxEdits
    BY <1>1, <2>1, SettingsConstants DEF TypeOK
  <2>3. up' = up \/ up' = TRUE \/ up' = FALSE
    BY DEF StartDaemon, Login, DaemonDies, Heal
  <2>4. agent' = agent \/ agent' = "loaded"
    BY DEF StartDaemon, Login, DaemonDies, Heal
  <2> QED
    BY <1>1, <2>2, <2>3, <2>4 DEF TypeOK
<1>4. \/ UNCHANGED proc
      \/ proc' = [proc EXCEPT !["daemon"] = Idle]
      \/ proc' = [proc EXCEPT !["daemon"] = [Idle EXCEPT !.at = "load"]]
  BY DEF StartDaemon, Login, DaemonDies, Heal
<1>5. /\ proc' \in [Writers -> Writer]
      /\ proc'["cli"] = proc["cli"]
      /\ proc'["daemon"] \in {proc["daemon"], Idle, [Idle EXCEPT !.at = "load"]}
  BY <1>1, <1>4, IdleFields, IdleType DEF TypeOK, Writers, Steps
<1>6. \A q \in Writers :
         \/ proc'[q] = proc[q]
         \/ /\ proc'[q].at \notin Saving
            /\ proc'[q].holds = "none"
            /\ proc'[q].save.ours <= 1
            /\ q = "daemon" => proc'[q].want = "install"
  <2> DEFINE l == [Idle EXCEPT !.at = "load"]
  <2>1. l.at = "load" /\ l.holds = "none" /\ l.save.ours = 0 /\ l.want = "install"
    BY IdleFields DEF Steps
  <2>2. proc'["daemon"] \in {proc["daemon"], Idle, l}
    BY <1>5
  <2> HIDE DEF l
  <2> QED
    BY <1>5, <2>1, <2>2, IdleFields DEF Writers, Saving
<1>7. ~up' => proc'["daemon"] = Idle
  BY <1>1 DEF TypeOK, Writers, StartDaemon, Login, DaemonDies, Heal
<1>8. Launchd => TornDown'
  BY <1>1, <1>2, <1>5 DEF TornDown, Removing, StartDaemon, Login, DaemonDies, Heal
<1> QED
  BY <1>1, <1>2, <1>3, <1>5, <1>6, <1>7, <1>8, IdleWriters DEF TypeOK

\* A foreign edit makes every copy stale and adds no entry.
LEMMA ForeignEditStep ==
    ASSUME IInv, ForeignEdit
    PROVE  IInv'
<1>1. TypeOK /\ file.ours <= 1 /\ edits < MaxEdits
  BY DEF IInv, ForeignEdit
<1>2. /\ UNCHANGED <<tmp, up, agent, commands, collided, removed>>
      /\ edits' = edits + 1
      /\ proc' = Replaced(proc)
      /\ stale' = stale \cup Loaded
  BY DEF ForeignEdit
<1>3. edits' \in 0..MaxEdits
  BY <1>1, <1>2, SettingsConstants DEF TypeOK
<1>4. /\ file' \in Contents
      /\ file'.form # "torn"
      /\ file'.ours <= file.ours
  <2>1. file \in Contents /\ edits + 1 \in 0..MaxEdits
    BY <1>1, <1>2, <1>3 DEF TypeOK
  <2>0. /\ file.ours \in Nat /\ file.users \subseteq UserHooks
        /\ file.rest \in 0..MaxEdits /\ file.ours <= file.ours
        /\ file = [form |-> file.form, ours |-> file.ours,
                   users |-> file.users, rest |-> file.rest]
    BY <2>1 DEF Contents
  <2>2. ASSUME NEW u \in UserHooks,
               file' = [file EXCEPT !.form = "json",
                                    !.users = IF u \in @ THEN @ \ {u} ELSE @ \cup {u}]
        PROVE  file' \in Contents /\ file'.form # "torn" /\ file'.ours <= file.ours
    <3>1. file' = [form |-> "json", ours |-> file.ours,
                   users |-> IF u \in file.users THEN file.users \ {u}
                             ELSE file.users \cup {u},
                   rest |-> file.rest]
      BY <2>0, <2>2
    <3> QED
      BY <2>0, <3>1 DEF Contents
  <2>3. ASSUME file' = [file EXCEPT !.form = "json", !.rest = edits + 1]
        PROVE  file' \in Contents /\ file'.form # "torn" /\ file'.ours <= file.ours
    <3>1. file' = [form |-> "json", ours |-> file.ours, users |-> file.users,
                   rest |-> edits + 1]
      BY <2>0, <2>3
    <3> QED
      BY <2>0, <2>1, <3>1 DEF Contents
  <2>4. ASSUME file' = [file EXCEPT !.form = "json", !.ours = 0]
        PROVE  file' \in Contents /\ file'.form # "torn" /\ file'.ours <= file.ours
    <3>1. file' = [form |-> "json", ours |-> 0, users |-> file.users,
                   rest |-> file.rest]
      BY <2>0, <2>4
    <3> QED
      BY <2>0, <3>1 DEF Contents
  <2>5. ASSUME file' = Blank("broken")
        PROVE  file' \in Contents /\ file'.form # "torn" /\ file'.ours <= file.ours
    BY <2>1, <2>5, SettingsConstants DEF Contents, Blank
  <2>6. ASSUME file' = [Blank("json") EXCEPT !.rest = edits + 1]
        PROVE  file' \in Contents /\ file'.form # "torn" /\ file'.ours <= file.ours
    BY <2>1, <2>6, SettingsConstants DEF Contents, Blank
  <2> QED
    BY <2>2, <2>3, <2>4, <2>5, <2>6 DEF ForeignEdit
<1>5. /\ proc' \in [Writers -> Writer]
      /\ \A q \in Writers :
           /\ proc'[q].at = proc[q].at
           /\ proc'[q].want = proc[q].want
           /\ proc'[q].save = proc[q].save
           /\ proc'[q].holds # "none" <=> proc[q].holds # "none"
           /\ proc[q].holds # "file" => proc'[q] = proc[q]
  BY <1>1, <1>2, ReplacedEffect
<1>6. TypeOK'
  <2>1. ~up' => proc'["daemon"] = Idle
    <3> SUFFICES ASSUME ~up PROVE proc'["daemon"] = Idle
      BY <1>2
    <3>1. proc["daemon"] = Idle
      BY <1>1 DEF TypeOK
    <3>2. "daemon" \in Writers /\ proc["daemon"].holds = "none"
      BY <3>1, IdleFields DEF Writers
    <3> QED
      BY <1>5, <3>1, <3>2
  <2>2. stale' \subseteq Writers
    BY <1>1, <1>2 DEF TypeOK, Loaded
  <2> QED
    BY <1>1, <1>2, <1>3, <1>4, <1>5, <2>1, <2>2 DEF TypeOK
<1>7. \A q \in Writers : WriterOK(q)'
  BY <1>5 DEF IInv, WriterOK
<1>8. Launchd => TornDown'
  BY <1>2, <1>5 DEF IInv, TornDown, Writers
<1>9. ~collided' => Safe'
  <2> SUFFICES ASSUME ~collided PROVE Safe'
    BY <1>2
  <2>1. Safe
    BY DEF IInv
  <2>2. \A q \in Writers : Alone(q)'
    BY <1>2, <1>5, <2>1 DEF Safe, Alone
  <2>3. \A q \in Writers : CopyOK(q)'
    BY <1>2, <1>5 DEF CopyOK, Loaded, Saving
  <2>4. ("read" \notin Faults /\ Launchd /\ removed) => file'.ours = 0
    BY <1>1, <1>4, <2>1 DEF Safe, TypeOK, Contents
  <2> QED
    BY <1>2, <1>4, <2>1, <2>2, <2>3, <2>4 DEF Safe
<1> QED
  BY <1>1, <1>2, <1>4, <1>6, <1>7, <1>8, <1>9 DEF IInv, TypeOK, Contents

\* The invariant is inductive.
LEMMA NextIInv == IInv /\ [Next]_vars => IInv'
<1> SUFFICES ASSUME IInv, [Next]_vars PROVE IInv'
  OBVIOUS
<1>1. ASSUME NEW p \in Writers, FailWrite(p)
      PROVE  IInv'
  <2>1. edits' \in 0..MaxEdits
    BY <1>1, SettingsConstants DEF FailWrite, IInv, TypeOK
  <2> QED
    BY <1>1, <2>1, GiveUpStep DEF FailWrite
<1>2. ASSUME NEW p \in Writers, FailRename(p)
      PROVE  IInv'
  <2>1. edits' \in 0..MaxEdits
    BY <1>2 DEF FailRename, IInv, TypeOK
  <2> QED
    BY <1>2, <2>1, GiveUpStep DEF FailRename
<1>3. ASSUME NEW p \in Writers, Save(p)
      PROVE  IInv'
  BY <1>2, <1>3, LoadStep, OpenStep, FillStep, RenameStep DEF Save
<1>4. CASE UNCHANGED vars
  BY <1>4 DEF vars, IInv, TypeOK, WriterOK, TornDown, Safe, Alone, CopyOK
<1> QED
  BY <1>1, <1>3, <1>4, CommandStep, StopDaemonStep, InstallAgentStep,
     UnregisterStep, DaemonStep, ForeignEditStep DEF Next

-----------------------------------------------------------------------------
\* The inductive invariant holds of every reachable state.
THEOREM Invariance == Spec => []IInv
BY InitIInv, NextIInv, PTL DEF Spec

\* The files, the writers and the agent keep their forms, for any hooks and faults.
THEOREM SettingsTypeCorrect == Spec => []TypeOK
<1>1. IInv => TypeOK
  BY DEF IInv
<1> QED
  BY Invariance, <1>1, PTL

\* Setups and heals leave one entry of Whittle's, however they overlap and whatever
\* fails, torn files and lost updates included.
THEOREM OneEntryHolds == Spec => []OneEntry
<1>1. IInv => OneEntry
  BY DEF IInv, OneEntry
<1> QED
  BY Invariance, <1>1, PTL

\* As long as no two writers shared the temporary file, settings.json is never torn.
THEOREM NeverTorn == Spec => []NeverHalfWritten
<1>1. IInv => NeverHalfWritten
  BY DEF IInv, Safe, NeverHalfWritten
<1> QED
  BY Invariance, <1>1, PTL

\* Where launchd runs the daemon and reads do not fail, a cleanup is final.
THEOREM TeardownIsFinal ==
    ASSUME Launchd, "read" \notin Faults
    PROVE  Spec => []TeardownSticks
<1>1. IInv => TeardownSticks
  BY DEF IInv, Safe, TeardownSticks
<1> QED
  BY Invariance, <1>1, PTL

\* Where reads do not fail, a save over the file its writer loaded drops nothing but
\* what looks like Whittle's.
THEOREM SavesMerge ==
    ASSUME "read" \notin Faults
    PROVE  Spec => SaveMerges
<1>1. ASSUME IInv, [Next]_vars, NEW p \in Writers, Saves(p), p \notin stale, ~collided
      PROVE  file'.rest = file.rest /\ file'.users = file.users \ LookAlike
  <2>1. proc[p].at = "rename" /\ tmp = proc[p].save /\ CopyOK(p)
    BY <1>1 DEF IInv, Safe, Alone, Saves
  <2>2. tmp.rest = file.rest /\ tmp.users = file.users \ LookAlike
    BY <1>1, <2>1 DEF CopyOK, Saving
  <2>3. \A q \in Writers \ {p} : proc[q].at # "fill"
    BY <1>1, <2>1 DEF IInv, Safe, Alone
  <2>4. file' # file /\ proc'[p].at # "rename"
    BY <1>1 DEF Saves
  <2>5. file' = tmp
    <3>1. \A q \in Writers : ~Fill(q)
      BY <2>1, <2>3 DEF Fill
    <3>2. ~ForeignEdit
      <4> SUFFICES ASSUME ForeignEdit PROVE FALSE
        OBVIOUS
      <4>1. proc'[p].at = proc[p].at
        BY <1>1, ReplacedEffect DEF ForeignEdit, IInv
      <4> QED
        BY <2>1, <2>4, <4>1
    <3> QED
      BY <1>1, <2>4, <3>1, <3>2
         DEF Next, Save, Load, Open, FailWrite, Rename, FailRename, Setup, Cleanup,
             Stop, Give, StopDaemon, InstallAgent, Unregister, StartDaemon, Login,
             DaemonDies, Heal, vars
  <2> QED
    BY <2>2, <2>5
<1>2. IInv /\ [Next]_vars =>
        [\A p \in Writers :
          Saves(p) /\ p \notin stale /\ ~collided =>
              /\ file'.rest = file.rest
              /\ file'.users = file.users \ LookAlike]_vars
  BY <1>1
<1> QED
  BY Invariance, <1>2, PTL DEF Spec, SaveMerges

=============================================================================
