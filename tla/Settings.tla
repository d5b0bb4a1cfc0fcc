------------------------------ MODULE Settings ------------------------------
(***************************************************************************)
(* The /cache-settings switches: OptionsLoader reads PI_CACHE_* and the    *)
(* owned settings file at start, index.ts hands the options to their       *)
(* owners, SettingsSwitchBoard flips an owner and saves, and every process *)
(* of the agent saves into the same file.  UserSettingsStore merges what   *)
(* it has just read and renames a temp over the file; a sibling may rename *)
(* in between.  The list component that shows the rows is pi's.  X_Y is a  *)
(* wrong variant of X; nothing here uses it.                               *)
(***************************************************************************)
EXTENDS Naturals, Functions

CONSTANTS
    Procs,          \* processes of the agent sharing the settings file
    Active,         \* rows the environment, the users and hand edits touch
    EnvActive,      \* rows with a PI_CACHE_* variable in some environment
    StartLimit,     \* bound: process starts
    EditLimit,      \* bound: toggles and restores
    HandEditLimit,  \* bound: edits of the file from outside
    Failures        \* may a write fail?

Rows == {"telemetry", "dedupTools", "anchor", "retentionOverride", "canonicalize",
         "sharedKey", "forceWarm", "missDiagnosis", "advisory", "autoCompact",
         "midterm", "fastCompaction", "fastDigest", "fastBranchSummary"}

ASSUME SettingsAssumption ==
    /\ Active \subseteq Rows /\ EnvActive \subseteq Active
    /\ {StartLimit, EditLimit, HandEditLimit} \subseteq Nat
    /\ Failures \in BOOLEAN

Values == {"on", "off"}
Not(v) == IF v = "on" THEN "off" ELSE "on"

\* SwitchRoute.def, and the same defaults again in OptionsLoader.load
Default == [r \in Rows |->
    IF r \in {"retentionOverride", "sharedKey", "forceWarm"} THEN "off" ELSE "on"]

\* UserSettingsStore.BOOLEAN_KEYS
StoredKeys == Rows \ {"missDiagnosis"}

\* Owners index.ts constructs without their option; they start on.
NotWired == {"anchor", "missDiagnosis"}

VARIABLES
    running,    \* processes that run
    env,        \* a process's PI_CACHE_* variables; "off" is any text but a truthy one
    live,       \* a process's live switches
    neutral,    \* AutocompactController's cacheNeutral
    view,       \* what the settings view shows
    write,      \* the document a process is about to rename over the file
    file,       \* the settings file
    chosen,     \* history: the choices saved since the last reset
    overlap,    \* history: did a save land over one it had not read?
    starts, edits, handEdits

vars == <<running, env, live, neutral, view, write, file, chosen, overlap,
          starts, edits, handEdits>>

-------------------------------------------------------------------------------
(* Reading the options                                                      *)

None == [r \in {} |-> "on"]
Closed == [open |-> FALSE, shown |-> None, restored |-> FALSE]
Unreadable == [ok |-> FALSE, doc |-> None]
NoWrite == [on |-> FALSE, doc |-> None, edit |-> None, reset |-> FALSE, stale |-> FALSE]

\* { ...doc, ...patch }, and a patch of one row
Over(patch, doc) ==
    [r \in DOMAIN patch \cup DOMAIN doc |-> IF r \in DOMAIN patch THEN patch[r] ELSE doc[r]]
Only(r, v) == [x \in {r} |-> v]

\* sanitize: known keys with a real boolean
Sanitize_KeepsJunk(doc) == Restrict(doc, DOMAIN doc \cap StoredKeys)
Sanitize(doc) == Restrict(doc, {r \in DOMAIN doc \cap StoredKeys : doc[r] \in Values})

Load(f) == IF f.ok THEN Sanitize(f.doc) ELSE None

EnvBool(raw, fallback) == IF raw = "unset" THEN fallback ELSE raw

Options(e, stored) ==
    [r \in Rows |-> EnvBool(e[r], IF r \in DOMAIN stored THEN stored[r] ELSE Default[r])]

EnvPinned(e) == {r \in Rows : e[r] # "unset"}

Wire(options) == [r \in Rows |-> IF r \in NotWired THEN "on" ELSE options[r]]

-------------------------------------------------------------------------------
(* Applying and saving                                                      *)

Idle(p) == p \in running /\ ~write[p].on

\* SwitchRoute.apply for the rows of change; the fast switch has two owners.
Apply(p, change) ==
    /\ live' = [live EXCEPT ![p] = Over(change, @)]
    /\ neutral' = IF "fastCompaction" \in DOMAIN change
                  THEN [neutral EXCEPT ![p] = change["fastCompaction"]] ELSE neutral

\* save: the patch over what the file holds now
Save_PatchAlone(p, patch) ==
    write' = [write EXCEPT ![p] =
        [on |-> TRUE, doc |-> patch, edit |-> patch, reset |-> FALSE, stale |-> FALSE]]
Save(p, patch) ==
    write' = [write EXCEPT ![p] =
        [on |-> TRUE, doc |-> Over(patch, Load(file)), edit |-> patch, reset |-> FALSE, stale |-> FALSE]]

Reset(p) ==
    write' = [write EXCEPT ![p] =
        [on |-> TRUE, doc |-> None, edit |-> None, reset |-> TRUE, stale |-> FALSE]]

Show(p, shown, restored) ==
    view' = [view EXCEPT ![p] = [open |-> TRUE, shown |-> shown, restored |-> restored]]

-------------------------------------------------------------------------------
(* The processes                                                            *)

Environments == {[r \in Rows |-> IF r \in EnvActive THEN e[r] ELSE "unset"] :
                    e \in [EnvActive -> Values \cup {"unset"}]}

Init ==
    /\ running = {}
    /\ env = [p \in Procs |-> [r \in Rows |-> "unset"]]
    /\ live = [p \in Procs |-> Default]
    /\ neutral = [p \in Procs |-> "on"]
    /\ view = [p \in Procs |-> Closed]
    /\ write = [p \in Procs |-> NoWrite]
    /\ file = Unreadable
    /\ chosen = None /\ overlap = FALSE
    /\ starts = 0 /\ edits = 0 /\ handEdits = 0

\* piCacheExtension: load the options, construct the owners.
Start(p) ==
    /\ p \notin running /\ starts < StartLimit
    /\ starts' = starts + 1
    /\ running' = running \cup {p}
    /\ \E e \in Environments :
        LET options == Options(e, Load(file))
        IN  /\ env' = [env EXCEPT ![p] = e]
            /\ live' = [live EXCEPT ![p] = Wire(options)]
            /\ neutral' = [neutral EXCEPT ![p] = options["fastCompaction"]]
    /\ UNCHANGED <<view, write, file, chosen, overlap, edits, handEdits>>

\* The process ends, or is killed in the middle of a write.
Exit(p) ==
    /\ p \in running
    /\ running' = running \ {p}
    /\ env' = [env EXCEPT ![p] = [r \in Rows |-> "unset"]]
    /\ live' = [live EXCEPT ![p] = Default]
    /\ neutral' = [neutral EXCEPT ![p] = "on"]
    /\ view' = [view EXCEPT ![p] = Closed]
    /\ write' = [write EXCEPT ![p] = NoWrite]
    /\ UNCHANGED <<file, chosen, overlap, starts, edits, handEdits>>

\* /cache-settings: the rows show a snapshot until the view is closed.
OpenView(p) ==
    /\ Idle(p) /\ ~view[p].open
    /\ Show(p, Restrict(live[p], Active), FALSE)
    /\ UNCHANGED <<running, env, live, neutral, write, file, chosen, overlap, starts, edits, handEdits>>

CloseView(p) ==
    /\ Idle(p) /\ view[p].open
    /\ view' = [view EXCEPT ![p] = Closed]
    /\ UNCHANGED <<running, env, live, neutral, write, file, chosen, overlap, starts, edits, handEdits>>

\* The list cycles what it shows and reports it; set() applies it and saves it,
\* or refuses a pinned row.
Set_NotApplied(p, r, v) ==
    IF r \in EnvPinned(env[p]) THEN UNCHANGED <<live, neutral, write>>
    ELSE Save(p, Only(r, v)) /\ UNCHANGED <<live, neutral>>
Set(p, r, v) ==
    IF r \in EnvPinned(env[p]) THEN UNCHANGED <<live, neutral, write>>
    ELSE Apply(p, Only(r, v)) /\ Save(p, Only(r, v))

Toggle(p) ==
    /\ Idle(p) /\ view[p].open /\ edits < EditLimit
    /\ edits' = edits + 1
    /\ \E r \in Active :
        LET v == Not(view[p].shown[r])
        IN  /\ Show(p, [view[p].shown EXCEPT ![r] = v], view[p].restored)
            /\ Set(p, r, v)
    /\ UNCHANGED <<running, env, file, chosen, overlap, starts, handEdits>>

\* restoreDefaults, from the command line or from the view's last row; the
\* rows of an open view keep what they show.
Restore_All(p) == Apply(p, Default) /\ Reset(p)
Restore(p) == Apply(p, Restrict(Default, Rows \ EnvPinned(env[p]))) /\ Reset(p)

RestoreDefaults(p) ==
    /\ Idle(p) /\ edits < EditLimit
    /\ edits' = edits + 1
    /\ Restore(p)
    /\ IF view[p].open THEN Show(p, view[p].shown, TRUE) ELSE UNCHANGED view
    /\ UNCHANGED <<running, env, file, chosen, overlap, starts, handEdits>>

\* AtomicFile.write lands: what a sibling is about to write was not merged with it.
Rename(p) ==
    /\ p \in running /\ write[p].on
    /\ file' = [ok |-> TRUE, doc |-> write[p].doc]
    /\ chosen' = IF write[p].reset THEN None ELSE Over(write[p].edit, chosen)
    /\ overlap' = (overlap \/ write[p].stale)
    /\ write' = [q \in Procs |-> IF q = p THEN NoWrite
                                 ELSE [write[q] EXCEPT !.stale = write[q].on]]
    /\ UNCHANGED <<running, env, live, neutral, view, starts, edits, handEdits>>

\* AtomicFile.write throws; the view reports it and stays.
WriteFails(p) ==
    /\ Failures /\ p \in running /\ write[p].on
    /\ write' = [write EXCEPT ![p] = NoWrite]
    /\ UNCHANGED <<running, env, live, neutral, view, file, chosen, overlap, starts, edits, handEdits>>

\* Someone edits, breaks or deletes the file while nobody saves.
HandEdit ==
    /\ handEdits < HandEditLimit /\ \A p \in Procs : ~write[p].on
    /\ handEdits' = handEdits + 1
    /\ \/ file' = Unreadable
       \/ \E r \in Active, v \in Values \cup {"junk"} :
            file' = [ok |-> TRUE, doc |-> Over(Only(r, v), Load(file))]
    /\ chosen' = [r \in {x \in DOMAIN file'.doc : file'.doc[x] \in Values} |-> file'.doc[r]]
    /\ UNCHANGED <<running, env, live, neutral, view, write, overlap, starts, edits>>

Next ==
    \/ \E p \in Procs :
        \/ Start(p) \/ Exit(p) \/ OpenView(p) \/ CloseView(p)
        \/ Toggle(p) \/ RestoreDefaults(p) \/ Rename(p) \/ WriteFails(p)
    \/ HandEdit

Spec == Init /\ [][Next]_vars

-------------------------------------------------------------------------------
(* Properties                                                               *)

\* Types.
TypeOK ==
    /\ running \subseteq Procs
    /\ env \in [Procs -> [Rows -> Values \cup {"unset"}]]
    /\ live \in [Procs -> [Rows -> Values]]
    /\ neutral \in [Procs -> Values]
    /\ \A p \in Procs :
        /\ DOMAIN view[p].shown \in {{}, Active} /\ Range(view[p].shown) \subseteq Values
        /\ DOMAIN write[p].doc \subseteq Active /\ Range(write[p].doc) \subseteq Values
    /\ DOMAIN file.doc \subseteq Active /\ DOMAIN chosen \subseteq Active
    /\ overlap \in BOOLEAN
    /\ starts \in 0..StartLimit /\ edits \in 0..EditLimit /\ handEdits \in 0..HandEditLimit

\* Through every toggle and restore, a row pinned by the environment keeps the
\* environment's value in an owner that was given it.
PinsHold ==
    \A p \in running : \A r \in EnvPinned(env[p]) \ NotWired : live[p][r] = env[p][r]

\* Auto-compaction's cache-neutral relaxation follows the fast switch, whichever
\* of start, toggle and restore moved it last.
NeutralFollowsFast == \A p \in running : neutral[p] = live[p]["fastCompaction"]

\* Through every start, toggle and restore the live values hold together.
LiveValuesAgree == PinsHold /\ NeutralFollowsFast

\* An open view shows what is live, also after a save that failed, unless its own
\* restore row was used; only pinned rows may drift.
ViewShowsLive ==
    \A p \in running : view[p].open /\ ~view[p].restored =>
        \A r \in Active \ EnvPinned(env[p]) : view[p].shown[r] = live[p][r]

Started(p) == p \notin running /\ p \in running'

Expected(r, raw) ==
    EnvBool(raw, IF r \in DOMAIN chosen THEN chosen[r] ELSE Default[r])

\* A restarted process has the environment's value, else the last saved choice
\* of any process since the last reset, else the default: nothing a process
\* saved is lost by later saves of others, by crashes in a write or by junk in
\* the file, unless two saves overlapped.
RestartKeepsChoices ==
    [][\A p \in Procs : Started(p) /\ ~overlap =>
        \A r \in Rows \ NotWired : live'[p][r] = Expected(r, env'[p][r])]_vars

\* "env beats the stored settings on every restart": of every row.
EnvBeatsStored ==
    [][\A p \in Procs : Started(p) =>
        \A r \in EnvPinned(env'[p]) : live'[p][r] = env'[p][r]]_vars
=============================================================================
