---------------------------- MODULE HookSettings ----------------------------
(***************************************************************************)
(* Whittle's hook in ~/.claude/settings.json (cmd/whittle/setup.go): the   *)
(* commands setup, stop and cleanup, and the daemon's heal loop, each read *)
(* the file, change it and write it back, through one temporary file and   *)
(* without a lock, while Claude Code and the user edit it too.             *)
(***************************************************************************)
EXTENDS Naturals, FiniteSets

CONSTANTS
    UserHooks,      \* PostToolUse entries that are not this Whittle's
    Older,          \* those of an older Whittle
    LookAlike,      \* those whose text contains "/hook" or "whittle"
    Shadows,        \* those whose text contains "/hook"
    Launchd,        \* is there a launchd that runs the daemon (macOS)?
    Faults,         \* what may go wrong, see Load and FailWrite
    MaxEdits,       \* bounds foreign edits and failing writes together
    MaxCommands     \* bounds the commands the user gives

ASSUME SettingsConstants ==
    /\ Older \subseteq LookAlike
    /\ LookAlike \subseteq UserHooks
    /\ Shadows \subseteq LookAlike
    /\ Launchd \in BOOLEAN
    /\ Faults \subseteq {"read", "write"}
    /\ MaxEdits \in Nat
    /\ MaxCommands \in Nat

\* A settings file: absent, JSON, not JSON by someone's hand, or written in part.
\* ours counts Whittle's entries; rest stands for all other settings.
Contents ==
    [form : {"missing", "json", "broken", "torn"}, ours : Nat,
     users : SUBSET UserHooks, rest : 0..MaxEdits]
Blank(form) == [form |-> form, ours |-> 0, users |-> {}, rest |-> 0]

Writers == {"cli", "daemon"}
Steps == {"idle", "stop", "load", "open", "fill", "rename", "agent", "unregister"}

\* A writer: its step, what it is to do, what it is going to write, and the file
\* its descriptor is open on.
Writer == [at : Steps, want : {"install", "remove"}, save : Contents,
           holds : {"none", "tmp", "file", "gone"}]
Idle == [at |-> "idle", want |-> "install", save |-> Blank("missing"),
         holds |-> "none"]

VARIABLES
    file,       \* settings.json
    tmp,        \* settings.json.whittle.tmp
    proc,       \* the writers
    up,         \* does the daemon run?
    agent,      \* its launchd job: "none", "registered" or "loaded"
    edits,      \* foreign edits and failed writes so far
    commands,   \* commands so far
    stale,      \* writers that loaded a file that was changed since; history
    collided,   \* two writers have used the temporary file at once; history
    removed     \* cleanup removed the hook, no setup since; history

vars == <<file, tmp, proc, up, agent, edits, commands, stale, collided, removed>>

-----------------------------------------------------------------------------
\* loadSettings: a missing file is an empty one, anything but JSON an error.
Readable(f) == f.form \in {"missing", "json"}

\* hookInstalled looks for "/hook" anywhere among the PostToolUse entries.
HookSeen(f) == f.form = "json" /\ (f.ours > 0 \/ f.users \cap Shadows # {})

\* Mutant: the new entry comes on top of the old ones.
Merged_KeepsOurs(f, want) ==
    [form |-> "json",
     ours |-> IF want = "install" THEN f.ours + 1 ELSE 0,
     users |-> f.users \ LookAlike,
     rest |-> f.rest]

\* Mutant: the entries are replaced.
Merged_Clobbers(f, want) ==
    [form |-> "json",
     ours |-> IF want = "install" THEN 1 ELSE 0,
     users |-> {},
     rest |-> f.rest]

\* installClaudeHook and removeClaudeHook: every entry that looks like one of
\* Whittle's goes; install appends its own.
Merged(f, want) ==
    [form |-> "json",
     ours |-> IF want = "install" THEN 1 ELSE 0,
     users |-> f.users \ LookAlike,
     rest |-> f.rest]

\* Where a writer goes on when its installClaudeHook or removeClaudeHook returns.
After(p) ==
    IF p = "daemon" THEN "idle"
    ELSE IF proc[p].want = "install" THEN "agent" ELSE "unregister"
Returned(p) == [Idle EXCEPT !.at = After(p), !.want = proc[p].want]

\* Everyone who has loaded the file holds a stale copy once it changes.
Loaded == {p \in Writers : proc[p].at \in {"open", "fill", "rename"}}

\* Who holds a descriptor when a new file takes the place of settings.json.
Replaced(ps) ==
    [p \in Writers |->
        IF ps[p].holds = "file" THEN [ps[p] EXCEPT !.holds = "gone"] ELSE ps[p]]

\* Who holds one when the temporary file itself becomes settings.json.
Moved(ps) ==
    [p \in Writers |->
        IF ps[p].holds = "tmp" THEN [ps[p] EXCEPT !.holds = "file"]
        ELSE IF ps[p].holds = "file" THEN [ps[p] EXCEPT !.holds = "gone"]
        ELSE ps[p]]

-----------------------------------------------------------------------------
Init ==
    /\ file \in {Blank("missing")} \cup
                [form : {"json"}, ours : {0, 1}, users : SUBSET UserHooks, rest : {0}]
    /\ tmp = Blank("missing")
    /\ proc = [p \in Writers |-> Idle]
    /\ up \in BOOLEAN
    /\ agent \in IF Launchd THEN {"none", "registered", "loaded"} ELSE {"loaded"}
    /\ up => agent = "loaded"
    /\ edits = 0
    /\ commands = 0
    /\ stale = {}
    /\ collided = FALSE
    /\ removed = FALSE

-----------------------------------------------------------------------------
(***************************************************************************)
(* One save: loadSettings, then saveSettings as open (which truncates),    *)
(* write and rename.                                                       *)
(***************************************************************************)
\* A read that fails for another reason than absence counts as an empty file.
Load(p) ==
    /\ proc[p].at = "load"
    /\ \E f \in {file} \cup (IF "read" \in Faults THEN {Blank("missing")} ELSE {}) :
          \/ /\ Readable(f)
             /\ f.form = "missing" => proc[p].want = "install"
             /\ proc' = [proc EXCEPT ![p].at = "open",
                                     ![p].save = Merged(f, proc[p].want)]
             /\ UNCHANGED removed
          \* nothing to remove, by a list that is absent
          \/ /\ Readable(f) /\ proc[p].want = "remove"
             /\ f.ours = 0 /\ f.users = {}
             /\ proc' = [proc EXCEPT ![p] = Returned(p)]
             /\ removed' = TRUE
          \/ /\ ~Readable(f)
             /\ proc' = [proc EXCEPT ![p] = Returned(p)]
             /\ UNCHANGED removed
    /\ stale' = stale \ {p}
    /\ UNCHANGED <<file, tmp, up, agent, edits, commands, collided>>

Open(p) ==
    /\ proc[p].at = "open"
    /\ tmp' = Blank("torn")
    /\ proc' = [proc EXCEPT ![p].at = "fill", ![p].holds = "tmp"]
    /\ collided' = (collided \/ \E q \in Writers \ {p} : proc[q].at \in {"fill", "rename"})
    /\ UNCHANGED <<file, up, agent, edits, commands, stale, removed>>

\* Written over what another writer put into the same file, the content is this
\* writer's or, where that was the longer one, a mix of both.
Over(old, new) == IF old.form = "torn" \/ old = new THEN {new} ELSE {new, Blank("torn")}

Fill(p) ==
    /\ proc[p].at = "fill"
    /\ proc' = [proc EXCEPT ![p].at = "rename", ![p].holds = "none"]
    /\ \/ /\ proc[p].holds = "tmp"
          /\ tmp' \in Over(tmp, proc[p].save)
          /\ UNCHANGED <<file, stale>>
       \/ /\ proc[p].holds = "file"
          /\ file' \in Over(file, proc[p].save)
          /\ stale' = stale \cup (Loaded \ {p})
          /\ UNCHANGED tmp
       \/ /\ proc[p].holds = "gone"
          /\ UNCHANGED <<file, tmp, stale>>
    /\ UNCHANGED <<up, agent, edits, commands, collided, removed>>

\* Mutant: a failed write is renamed all the same.
FailWrite_Renames(p) ==
    /\ "write" \in Faults /\ edits < MaxEdits
    /\ proc[p].at = "fill"
    /\ proc' = [proc EXCEPT ![p].at = "rename", ![p].holds = "none"]
    /\ edits' = edits + 1
    /\ UNCHANGED <<file, tmp, up, agent, commands, stale, collided, removed>>

\* The write fails half-way (a full disk): no rename, the error is returned.
FailWrite(p) ==
    /\ "write" \in Faults /\ edits < MaxEdits
    /\ proc[p].at = "fill"
    /\ proc' = [proc EXCEPT ![p] = Returned(p)]
    /\ edits' = edits + 1
    /\ UNCHANGED <<file, tmp, up, agent, commands, stale, collided, removed>>

Rename(p) ==
    /\ proc[p].at = "rename"
    /\ tmp.form # "missing"
    /\ file' = tmp
    /\ tmp' = Blank("missing")
    /\ proc' = [Moved(proc) EXCEPT ![p] = Returned(p)]
    /\ stale' = (stale \cup Loaded) \ {p}
    /\ removed' = (removed \/ proc[p].want = "remove")
    /\ UNCHANGED <<up, agent, edits, commands, collided>>

\* Another writer has renamed it already.
FailRename(p) ==
    /\ proc[p].at = "rename"
    /\ tmp.form = "missing"
    /\ proc' = [proc EXCEPT ![p] = Returned(p)]
    /\ UNCHANGED <<file, tmp, up, agent, edits, commands, stale, collided, removed>>

Save(p) == Load(p) \/ Open(p) \/ Fill(p) \/ Rename(p) \/ FailRename(p)

-----------------------------------------------------------------------------
(***************************************************************************)
(* The commands.                                                           *)
(***************************************************************************)
Give(next) ==
    /\ proc["cli"].at = "idle"
    /\ commands < MaxCommands
    /\ commands' = commands + 1
    /\ proc' = [proc EXCEPT !["cli"] = next]
    /\ UNCHANGED <<file, tmp, up, agent, edits, stale, collided>>

\* cmdSetup: the hook, then the launchd agent.
Setup ==
    /\ Give([Idle EXCEPT !.at = "load"])
    /\ removed' = FALSE

\* Mutant: cleanup begins with the hook.
Cleanup_HookFirst ==
    /\ Give([Idle EXCEPT !.at = "load", !.want = "remove"])
    /\ UNCHANGED removed

\* cmdCleanup: stop the daemon, then remove the hook, then the agent.
Cleanup ==
    /\ Give([Idle EXCEPT !.at = "stop", !.want = "remove"])
    /\ UNCHANGED removed

\* cmdStop
Stop ==
    /\ Give([Idle EXCEPT !.at = "stop"])
    /\ UNCHANGED removed

\* Mutant: a heal that has begun outlives the daemon.
StopDaemon_LeavesHeal ==
    /\ proc["cli"].at = "stop"
    /\ proc' = [proc EXCEPT !["cli"].at =
                   IF proc["cli"].want = "remove" THEN "load" ELSE "idle"]
    /\ up' = FALSE
    /\ agent' = IF agent = "loaded" THEN "registered" ELSE agent
    /\ UNCHANGED <<file, tmp, edits, commands, stale, collided, removed>>

\* launchctl bootout, where there is one: the job is unloaded, the daemon killed
\* at whatever step it is.
StopDaemon ==
    /\ proc["cli"].at = "stop"
    /\ LET next == IF proc["cli"].want = "remove" THEN "load" ELSE "idle"
           cli == [proc EXCEPT !["cli"].at = next]
       IN  IF Launchd
           THEN /\ proc' = [cli EXCEPT !["daemon"] = Idle]
                /\ up' = FALSE
                /\ agent' = IF agent = "loaded" THEN "registered" ELSE agent
           ELSE /\ proc' = cli
                /\ UNCHANGED <<up, agent>>
    /\ UNCHANGED <<file, tmp, edits, commands, stale, collided, removed>>

\* installLaunchAgent: bootout of an old job, bootstrap of the new one.
InstallAgent ==
    /\ proc["cli"].at = "agent"
    /\ IF Launchd
       THEN /\ proc' = [p \in Writers |-> Idle]
            /\ up' = FALSE
            /\ agent' = "loaded"
       ELSE /\ proc' = [proc EXCEPT !["cli"] = Idle]
            /\ UNCHANGED <<up, agent>>
    /\ UNCHANGED <<file, tmp, edits, commands, stale, collided, removed>>

\* The plist is removed.
Unregister ==
    /\ proc["cli"].at = "unregister"
    /\ proc' = [proc EXCEPT !["cli"] = Idle]
    /\ agent' = IF Launchd THEN "none" ELSE agent
    /\ UNCHANGED <<file, tmp, up, edits, commands, stale, collided, removed>>

-----------------------------------------------------------------------------
(***************************************************************************)
(* The daemon and its supervisor.                                          *)
(***************************************************************************)
\* launchd starts a loaded job, and again when it ends; so does whatever
\* supervisor the user has elsewhere.
StartDaemon ==
    /\ agent = "loaded" /\ ~up
    /\ up' = TRUE
    /\ UNCHANGED <<file, tmp, proc, agent, edits, commands, stale, collided, removed>>

\* A login loads what is registered.
Login ==
    /\ agent = "registered" /\ proc["cli"].at = "idle"
    /\ agent' = "loaded"
    /\ UNCHANGED <<file, tmp, proc, up, edits, commands, stale, collided, removed>>

DaemonDies ==
    /\ up /\ edits < MaxEdits
    /\ up' = FALSE
    /\ proc' = [proc EXCEPT !["daemon"] = Idle]
    /\ edits' = edits + 1
    /\ UNCHANGED <<file, tmp, agent, commands, stale, collided, removed>>

\* Mutant: only a file that can be read and has no entry at all is healed.
Heal_EmptyOnly ==
    /\ up /\ proc["daemon"].at = "idle"
    /\ ~HookSeen(file) /\ file.form = "json" /\ file.users = {}
    /\ proc' = [proc EXCEPT !["daemon"] = [Idle EXCEPT !.at = "load"]]
    /\ UNCHANGED <<file, tmp, up, agent, edits, commands, stale, collided, removed>>

\* superviseHook, at the start and every five minutes: a hook that is not seen
\* is installed again.
Heal ==
    /\ up /\ proc["daemon"].at = "idle"
    /\ ~HookSeen(file)
    /\ proc' = [proc EXCEPT !["daemon"] = [Idle EXCEPT !.at = "load"]]
    /\ UNCHANGED <<file, tmp, up, agent, edits, commands, stale, collided, removed>>

-----------------------------------------------------------------------------
(***************************************************************************)
(* Claude Code and the user, who replace the file as a whole.              *)
(***************************************************************************)
ForeignEdit ==
    /\ edits < MaxEdits
    /\ edits' = edits + 1
    /\ \/ /\ Readable(file)
          /\ \/ \E u \in UserHooks :
                   file' = [file EXCEPT !.form = "json",
                                        !.users = IF u \in @ THEN @ \ {u} ELSE @ \cup {u}]
             \/ file' = [file EXCEPT !.form = "json", !.rest = edits + 1]
             \/ file' = [file EXCEPT !.form = "json", !.ours = 0]
             \/ file' = Blank("broken")
       \/ /\ ~Readable(file)
          /\ file' = [Blank("json") EXCEPT !.rest = edits + 1]
    /\ proc' = Replaced(proc)
    /\ stale' = stale \cup Loaded
    /\ UNCHANGED <<tmp, up, agent, commands, collided, removed>>

Next ==
    \/ \E p \in Writers : Save(p) \/ FailWrite(p)
    \/ Setup \/ Cleanup \/ Stop \/ StopDaemon \/ InstallAgent \/ Unregister
    \/ StartDaemon \/ Login \/ DaemonDies \/ Heal
    \/ ForeignEdit

Spec == Init /\ [][Next]_vars

\* A command and a heal once begun go on, the ticker ticks, and a supervisor
\* starts what is loaded.
FairSpec ==
    /\ Spec
    /\ \A p \in Writers : WF_vars(Save(p))
    /\ WF_vars(StopDaemon \/ InstallAgent \/ Unregister)
    /\ WF_vars(StartDaemon)
    /\ WF_vars(Heal)

-----------------------------------------------------------------------------
\* Both files, the writers and the agent keep their forms, a daemon that does not
\* run does nothing, and a descriptor is open exactly while it is written to.
TypeOK ==
    /\ file \in Contents
    /\ tmp \in Contents
    /\ proc \in [Writers -> Writer]
    /\ up \in BOOLEAN
    /\ ~up => proc["daemon"] = Idle
    /\ \A p \in Writers : proc[p].at = "fill" <=> proc[p].holds # "none"
    /\ agent \in {"none", "registered", "loaded"}
    /\ edits \in 0..MaxEdits
    /\ commands \in 0..MaxCommands
    /\ stale \subseteq Writers
    /\ collided \in BOOLEAN
    /\ removed \in BOOLEAN

\* "A concurrent Claude Code read never sees a half-written settings file": as
\* long as no two writers used the temporary file at once, whoever is killed and
\* whatever write fails half-way.
NeverHalfWritten == ~collided => file.form # "torn"

\* However many setups and heals overlap, there is one entry of Whittle's.
OneEntry == file.ours <= 1

\* "merges (never clobbers)": a save over the file its writer has loaded leaves
\* the other settings and the user's hooks as they are, except for those that
\* look like Whittle's.
Saves(p) == proc[p].at = "rename" /\ proc'[p].at # "rename" /\ file' # file
SaveMerges ==
    [][\A p \in Writers :
          Saves(p) /\ p \notin stale /\ ~collided =>
              /\ file'.rest = file.rest
              /\ file'.users = file.users \ LookAlike]_vars

\* Teardown is final: once cleanup has removed the hook, nothing but a setup
\* brings it back ("this can never fight an intentional teardown").
TeardownSticks == removed /\ ~collided => file.ours = 0

\* A running daemon gets the hook back, however it was dropped, unless the file
\* is not JSON or another entry passes for Whittle's.
Healed ==
    <>[]up => <>[](~Readable(file) \/ HookSeen(file))

\* The comment of installClaudeHook as it stands: what is saved over a file just
\* loaded keeps every hook but an older Whittle's.
NeverClobbers ==
    [][\A p \in Writers :
          Saves(p) /\ p \notin stale /\ ~collided =>
              file.users \ Older \subseteq file'.users]_vars
=============================================================================
