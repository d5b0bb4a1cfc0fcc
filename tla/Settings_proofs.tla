--------------------------- MODULE Settings_proofs ---------------------------
(***************************************************************************)
(* Theorems about Settings, for every set of processes, rows and bounds,   *)
(* with failing writes, crashes in a write and edits from outside.         *)
(***************************************************************************)
EXTENDS Settings, TLAPS

-------------------------------------------------------------------------------
(* Documents: partial functions from rows to values                         *)

Doc(rows, values) == UNION {[d -> values] : d \in SUBSET rows}

LEMMA DocShape ==
    ASSUME NEW rows, NEW values, NEW f
    PROVE  f \in Doc(rows, values) <=>
             /\ DOMAIN f \subseteq rows
             /\ f \in [DOMAIN f -> values]
<1>1. ASSUME f \in Doc(rows, values)
      PROVE  DOMAIN f \subseteq rows /\ f \in [DOMAIN f -> values]
  <2>1. PICK d \in SUBSET rows : f \in [d -> values]
    BY <1>1 DEF Doc
  <2>2. DOMAIN f = d
    BY <2>1
  <2>3. QED BY <2>1, <2>2
<1>2. ASSUME DOMAIN f \subseteq rows, f \in [DOMAIN f -> values]
      PROVE  f \in Doc(rows, values)
  BY <1>2 DEF Doc
<1>3. QED BY <1>1, <1>2

\* The patch wins over what it is laid over.
LEMMA OverTyped ==
    ASSUME NEW rows, NEW values, NEW f \in Doc(rows, values), NEW g \in Doc(rows, values)
    PROVE  Over(f, g) \in Doc(rows, values)
<1>1. /\ DOMAIN f \subseteq rows /\ f \in [DOMAIN f -> values]
      /\ DOMAIN g \subseteq rows /\ g \in [DOMAIN g -> values]
  BY DocShape
<1>2. DOMAIN Over(f, g) = DOMAIN f \cup DOMAIN g
  BY DEF Over
<1>3. \A x \in DOMAIN f \cup DOMAIN g : (IF x \in DOMAIN f THEN f[x] ELSE g[x]) \in values
  BY <1>1
<1>4. Over(f, g) \in [DOMAIN f \cup DOMAIN g -> values]
  BY <1>3 DEF Over
<1>5. QED BY <1>1, <1>2, <1>4, DocShape

LEMMA OnlyTyped ==
    ASSUME NEW rows, NEW values, NEW r \in rows, NEW v \in values
    PROVE  Only(r, v) \in Doc(rows, values) /\ DOMAIN Only(r, v) = {r} /\ Only(r, v)[r] = v
<1>1. DOMAIN Only(r, v) = {r} /\ Only(r, v)[r] = v /\ Only(r, v) \in [{r} -> values]
  BY DEF Only
<1>2. QED BY <1>1, DocShape

LEMMA NoneTyped ==
    ASSUME NEW rows, NEW values PROVE None \in Doc(rows, values) /\ DOMAIN None = {}
<1>1. DOMAIN None = {} /\ None \in [{} -> values]
  BY DEF None
<1>2. QED BY <1>1, DocShape

LEMMA DocGrows ==
    ASSUME NEW rows, NEW small, NEW large, small \subseteq large, NEW f \in Doc(rows, small)
    PROVE  f \in Doc(rows, large)
BY DEF Doc

Stored == [ok : BOOLEAN, doc : Doc(Active, Values \cup {"junk"})]

\* What a load keeps: the known keys with a proper value.
LEMMA LoadShape ==
    ASSUME NEW f \in Stored
    PROVE  /\ Load(f) \in Doc(Active, Values)
           /\ ~f.ok => DOMAIN Load(f) = {}
           /\ f.ok => /\ DOMAIN Load(f) = {r \in DOMAIN f.doc \cap StoredKeys : f.doc[r] \in Values}
                      /\ \A r \in DOMAIN Load(f) : Load(f)[r] = f.doc[r]
<1>1. CASE ~f.ok
  BY <1>1, NoneTyped DEF Load
<1>2. CASE f.ok
  <2> DEFINE kept == {r \in DOMAIN f.doc \cap StoredKeys : f.doc[r] \in Values}
  <2>1. Load(f) = [r \in kept |-> f.doc[r]]
    BY <1>2 DEF Load, Sanitize, Restrict
  <2>2. DOMAIN Load(f) = kept /\ \A r \in kept : Load(f)[r] = f.doc[r] /\ f.doc[r] \in Values
    BY <2>1
  <2>3. f.doc \in Doc(Active, Values \cup {"junk"})
    BY DEF Stored
  <2>4. kept \subseteq Active
    BY <2>3, DocShape
  <2>5. Load(f) \in [kept -> Values]
    BY <2>1, <2>2
  <2>6. QED BY <1>2, <2>2, <2>4, <2>5, DocShape
<1>3. QED BY <1>1, <1>2

-------------------------------------------------------------------------------
(* Type correctness *)

Views == [open : BOOLEAN, shown : Doc(Active, Values), restored : BOOLEAN]
Writes == [on : BOOLEAN, doc : Doc(Active, Values), edit : Doc(Active, Values),
           reset : BOOLEAN, stale : BOOLEAN]

\* TypeOK with the shape of every record; an open view shows all its rows, and a
\* process that does not run has neither a view nor a write.
Shapes ==
    /\ running \subseteq Procs
    /\ env \in [Procs -> [Rows -> Values \cup {"unset"}]]
    /\ live \in [Procs -> [Rows -> Values]]
    /\ neutral \in [Procs -> Values]
    /\ view \in [Procs -> Views] /\ write \in [Procs -> Writes]
    /\ file \in Stored /\ chosen \in Doc(Active, Values)
    /\ overlap \in BOOLEAN
    /\ starts \in 0..StartLimit /\ edits \in 0..EditLimit /\ handEdits \in 0..HandEditLimit

Attended ==
    \A p \in Procs :
        /\ DOMAIN view[p].shown = IF view[p].open THEN Active ELSE {}
        /\ p \notin running => ~view[p].open /\ ~write[p].on

TypeInv == Shapes /\ Attended

LEMMA TypeInvTypes == TypeInv => TypeOK
<1> SUFFICES ASSUME TypeInv PROVE TypeOK
  OBVIOUS
<1>1. ASSUME NEW p \in Procs
      PROVE  /\ DOMAIN view[p].shown \in {{}, Active} /\ Range(view[p].shown) \subseteq Values
             /\ DOMAIN write[p].doc \subseteq Active /\ Range(write[p].doc) \subseteq Values
  <2>1. view[p].shown \in Doc(Active, Values) /\ write[p].doc \in Doc(Active, Values)
    BY DEF TypeInv, Shapes, Views, Writes
  <2>2. DOMAIN view[p].shown \in {{}, Active}
    BY DEF TypeInv, Attended
  <2>3. QED BY <2>1, <2>2, DocShape DEF Range
<1>2. DOMAIN file.doc \subseteq Active /\ DOMAIN chosen \subseteq Active
  BY DocShape DEF TypeInv, Shapes, Stored
<1>3. QED BY <1>1, <1>2 DEF TypeOK, TypeInv, Shapes

LEMMA ClosedTyped ==
    /\ Closed \in Views /\ ~Closed.open /\ DOMAIN Closed.shown = {}
    /\ NoWrite \in Writes /\ ~NoWrite.on
    /\ Unreadable \in Stored
    /\ Default \in [Rows -> Values]
<1>1. None \in Doc(Active, Values) /\ None \in Doc(Active, Values \cup {"junk"}) /\ DOMAIN None = {}
  BY NoneTyped
<1>2. QED BY <1>1 DEF Closed, Views, NoWrite, Writes, Unreadable, Stored, Default, Values

LEMMA TypeInit == Init => TypeInv
<1> SUFFICES ASSUME Init PROVE TypeInv
  OBVIOUS
<1>1. Shapes
  <2>1. env \in [Procs -> [Rows -> Values \cup {"unset"}]]
    BY DEF Init
  <2>2. live \in [Procs -> [Rows -> Values]] /\ neutral \in [Procs -> Values]
    BY ClosedTyped DEF Init, Values
  <2>3. view \in [Procs -> Views] /\ write \in [Procs -> Writes] /\ file \in Stored
    BY ClosedTyped DEF Init
  <2>4. chosen \in Doc(Active, Values)
    BY NoneTyped DEF Init
  <2>5. starts \in 0..StartLimit /\ edits \in 0..EditLimit /\ handEdits \in 0..HandEditLimit
    BY SettingsAssumption DEF Init
  <2>6. QED BY <2>1, <2>2, <2>3, <2>4, <2>5 DEF Init, Shapes
<1>2. Attended
  BY ClosedTyped DEF Init, Attended
<1>3. QED BY <1>1, <1>2 DEF TypeInv

\* A patch of the live switches keeps them switches.
LEMMA ApplyTyped ==
    ASSUME Shapes, NEW p \in Procs, NEW rows \in SUBSET Rows, NEW change \in [rows -> Values],
           Apply(p, change)
    PROVE  /\ live' \in [Procs -> [Rows -> Values]]
           /\ neutral' \in [Procs -> Values]
           /\ \A q \in Procs \ {p} : live'[q] = live[q] /\ neutral'[q] = neutral[q]
           /\ \A r \in Rows : live'[p][r] = IF r \in rows THEN change[r] ELSE live[p][r]
           /\ neutral'[p] = IF "fastCompaction" \in rows THEN change["fastCompaction"] ELSE neutral[p]
<1>1. live \in [Procs -> [Rows -> Values]] /\ neutral \in [Procs -> Values]
  BY DEF Shapes
<1>2. DOMAIN change = rows
  OBVIOUS
<1>3. DOMAIN live[p] = Rows
  BY <1>1
<1>4. Over(change, live[p]) = [r \in Rows |-> IF r \in rows THEN change[r] ELSE live[p][r]]
  BY <1>2, <1>3 DEF Over
<1>5. Over(change, live[p]) \in [Rows -> Values]
  BY <1>1, <1>4
<1>6. live' = [live EXCEPT ![p] = Over(change, live[p])]
  BY DEF Apply
<1>7. /\ live' \in [Procs -> [Rows -> Values]]
      /\ \A q \in Procs \ {p} : live'[q] = live[q]
      /\ live'[p] = Over(change, live[p])
  BY <1>1, <1>5, <1>6
<1>8. /\ neutral' \in [Procs -> Values]
      /\ \A q \in Procs \ {p} : neutral'[q] = neutral[q]
      /\ neutral'[p] = IF "fastCompaction" \in rows THEN change["fastCompaction"] ELSE neutral[p]
  BY <1>1, <1>2 DEF Apply
<1>9. \A r \in Rows : live'[p][r] = IF r \in rows THEN change[r] ELSE live[p][r]
  BY <1>4, <1>7
<1>10. QED BY <1>7, <1>8, <1>9

LEMMA SaveTyped ==
    ASSUME Shapes, NEW p \in Procs, NEW patch \in Doc(Active, Values), Save(p, patch)
    PROVE  /\ write' \in [Procs -> Writes]
           /\ \A q \in Procs \ {p} : write'[q] = write[q]
           /\ write'[p] = [on |-> TRUE, doc |-> Over(patch, Load(file)), edit |-> patch,
                           reset |-> FALSE, stale |-> FALSE]
<1>1. Over(patch, Load(file)) \in Doc(Active, Values)
  BY LoadShape, OverTyped DEF Shapes
<1>2. QED BY <1>1 DEF Save, Shapes, Writes

LEMMA ResetTyped ==
    ASSUME Shapes, NEW p \in Procs, Reset(p)
    PROVE  /\ write' \in [Procs -> Writes]
           /\ \A q \in Procs \ {p} : write'[q] = write[q]
           /\ write'[p] = [on |-> TRUE, doc |-> None, edit |-> None, reset |-> TRUE, stale |-> FALSE]
BY NoneTyped DEF Reset, Shapes, Writes

LEMMA NotTyped == \A v \in Values : Not(v) \in Values
BY DEF Not, Values

-------------------------------------------------------------------------------
(* What the steps do *)

EnvValues == Values \cup {"unset"}

\* A start gives the owners that are wired the environment's value, else the stored
\* one, else the default.
LEMMA StartEffect ==
    ASSUME TypeInv, NEW p \in Procs, Start(p)
    PROVE  /\ p \notin running /\ running' = running \cup {p}
           /\ env' \in [Procs -> [Rows -> EnvValues]]
           /\ live' \in [Procs -> [Rows -> Values]] /\ neutral' \in [Procs -> Values]
           /\ \A q \in Procs \ {p} :
                env'[q] = env[q] /\ live'[q] = live[q] /\ neutral'[q] = neutral[q]
           /\ \A r \in Rows \ NotWired :
                live'[p][r] = IF env'[p][r] # "unset" THEN env'[p][r]
                              ELSE IF r \in DOMAIN Load(file) THEN Load(file)[r] ELSE Default[r]
           /\ neutral'[p] = live'[p]["fastCompaction"]
           /\ starts' \in 0..StartLimit
           /\ UNCHANGED <<view, write, file, chosen, overlap, edits, handEdits>>
<1>0. Shapes
  BY DEF TypeInv
<1>1. PICK e \in Environments :
        /\ env' = [env EXCEPT ![p] = e]
        /\ live' = [live EXCEPT ![p] = Wire(Options(e, Load(file)))]
        /\ neutral' = [neutral EXCEPT ![p] = Options(e, Load(file))["fastCompaction"]]
  BY DEF Start
<1>2. e \in [Rows -> EnvValues]
  BY DEF Environments, EnvValues
<1>3. Load(file) \in Doc(Active, Values)
  BY <1>0, LoadShape DEF Shapes
<1>4. \A r \in DOMAIN Load(file) : Load(file)[r] \in Values
  BY <1>3, DocShape
<1>5. \A r \in Rows : Options(e, Load(file))[r] =
        IF e[r] # "unset" THEN e[r]
        ELSE IF r \in DOMAIN Load(file) THEN Load(file)[r] ELSE Default[r]
  BY DEF Options, EnvBool
<1>6. Options(e, Load(file)) \in [Rows -> Values]
  <2>1. \A r \in Rows : Options(e, Load(file))[r] \in Values
    BY <1>2, <1>4, <1>5, ClosedTyped DEF EnvValues
  <2>2. QED BY <2>1 DEF Options
<1>7. /\ Wire(Options(e, Load(file))) \in [Rows -> Values]
      /\ \A r \in Rows \ NotWired : Wire(Options(e, Load(file)))[r] = Options(e, Load(file))[r]
  BY <1>6 DEF Wire, Values
<1>8. "fastCompaction" \in Rows \ NotWired
  BY DEF Rows, NotWired
<1>9. /\ env' \in [Procs -> [Rows -> EnvValues]] /\ env'[p] = e
      /\ live' \in [Procs -> [Rows -> Values]] /\ live'[p] = Wire(Options(e, Load(file)))
      /\ neutral' \in [Procs -> Values] /\ neutral'[p] = Options(e, Load(file))["fastCompaction"]
      /\ \A q \in Procs \ {p} :
            env'[q] = env[q] /\ live'[q] = live[q] /\ neutral'[q] = neutral[q]
  BY <1>0, <1>1, <1>2, <1>6, <1>7, <1>8 DEF Shapes, EnvValues
<1>10. starts' \in 0..StartLimit
  BY <1>0, SettingsAssumption DEF Start, Shapes
<1>11. QED BY <1>5, <1>7, <1>8, <1>9, <1>10 DEF Start

\* p shows v for row r, and applies and saves it unless r is pinned.
Flips(p, r, v) ==
    /\ \A x \in Active : view'[p].shown[x] = IF x = r THEN v ELSE view[p].shown[x]
    /\ \/ /\ r \in EnvPinned(env[p])
          /\ UNCHANGED <<live, neutral, write>>
       \/ /\ r \notin EnvPinned(env[p])
          /\ \A x \in Rows : live'[p][x] = IF x = r THEN v ELSE live[p][x]
          /\ neutral'[p] = IF r = "fastCompaction" THEN v ELSE neutral[p]
          /\ write'[p] = [on |-> TRUE, doc |-> Over(Only(r, v), Load(file)),
                          edit |-> Only(r, v), reset |-> FALSE, stale |-> FALSE]

\* A toggle shows and applies the same value, unless the row is pinned.
LEMMA ToggleEffect ==
    ASSUME TypeInv, NEW p \in Procs, Toggle(p)
    PROVE  /\ p \in running /\ view[p].open /\ ~write[p].on
           /\ UNCHANGED <<running, env, file, chosen, overlap, starts, handEdits>>
           /\ edits' \in 0..EditLimit
           /\ live' \in [Procs -> [Rows -> Values]] /\ neutral' \in [Procs -> Values]
           /\ view' \in [Procs -> Views] /\ write' \in [Procs -> Writes]
           /\ \A q \in Procs \ {p} : /\ live'[q] = live[q] /\ neutral'[q] = neutral[q]
                                     /\ view'[q] = view[q] /\ write'[q] = write[q]
           /\ view'[p].open /\ DOMAIN view'[p].shown = Active
           /\ view'[p].restored = view[p].restored
           /\ \E r \in Active, v \in Values : Flips(p, r, v)
<1>0. Shapes /\ Attended
  BY DEF TypeInv
<1>1. p \in running /\ view[p].open /\ ~write[p].on
  BY DEF Toggle, Idle
<1>2. UNCHANGED <<running, env, file, chosen, overlap, starts, handEdits>>
  BY DEF Toggle
<1>3. edits' \in 0..EditLimit
  BY <1>0, SettingsAssumption DEF Toggle, Shapes
<1>4. PICK r \in Active :
        /\ Show(p, [view[p].shown EXCEPT ![r] = Not(view[p].shown[r])], view[p].restored)
        /\ Set(p, r, Not(view[p].shown[r]))
  BY DEF Toggle
<1> DEFINE v == Not(view[p].shown[r])
           shown == [view[p].shown EXCEPT ![r] = v]
<1>5. view[p] \in Views /\ DOMAIN view[p].shown = Active
  BY <1>0, <1>1 DEF Shapes, Attended
<1>6. view[p].shown \in [Active -> Values]
  BY <1>5, DocShape DEF Views
<1>7. v \in Values
  BY <1>6, NotTyped
<1>8. shown \in [Active -> Values] /\ \A x \in Active : shown[x] = IF x = r THEN v ELSE view[p].shown[x]
  BY <1>6, <1>7
<1>9. shown \in Doc(Active, Values) /\ DOMAIN shown = Active
  BY <1>8 DEF Doc
<1> HIDE DEF v, shown
<1>10. view' = [view EXCEPT ![p] = [open |-> TRUE, shown |-> shown, restored |-> view[p].restored]]
  BY <1>4 DEF Show, shown, v
<1>11. /\ view' \in [Procs -> Views]
       /\ view'[p] = [open |-> TRUE, shown |-> shown, restored |-> view[p].restored]
       /\ \A q \in Procs \ {p} : view'[q] = view[q]
  BY <1>0, <1>5, <1>9, <1>10 DEF Shapes, Views
<1>12. r \in Rows
  BY SettingsAssumption
<1>13. CASE r \in EnvPinned(env[p])
  <2>1. UNCHANGED <<live, neutral, write>>
    BY <1>4, <1>13 DEF Set
  <2>2. /\ live' \in [Procs -> [Rows -> Values]] /\ neutral' \in [Procs -> Values]
        /\ write' \in [Procs -> Writes]
        /\ \A q \in Procs : live'[q] = live[q] /\ neutral'[q] = neutral[q] /\ write'[q] = write[q]
    BY <1>0, <2>1 DEF Shapes
  <2>3. \A x \in Active : view'[p].shown[x] = IF x = r THEN v ELSE view[p].shown[x]
    BY <1>8, <1>11
  <2>4. Flips(p, r, v)
    BY <1>13, <2>1, <2>3 DEF Flips
  <2>5. view'[p].open /\ DOMAIN view'[p].shown = Active /\ view'[p].restored = view[p].restored
    BY <1>9, <1>11
  <2>6. QED BY <1>1, <1>2, <1>3, <1>7, <1>11, <2>2, <2>4, <2>5
<1>14. CASE r \notin EnvPinned(env[p])
  <2>1. Apply(p, Only(r, v)) /\ Save(p, Only(r, v))
    BY <1>4, <1>14 DEF Set, v
  <2>2. /\ Only(r, v) \in Doc(Active, Values) /\ Only(r, v) \in [{r} -> Values]
        /\ Only(r, v)[r] = v
    BY <1>7, OnlyTyped DEF Only
  <2>3. /\ live' \in [Procs -> [Rows -> Values]] /\ neutral' \in [Procs -> Values]
        /\ \A q \in Procs \ {p} : live'[q] = live[q] /\ neutral'[q] = neutral[q]
        /\ \A x \in Rows : live'[p][x] = IF x \in {r} THEN Only(r, v)[x] ELSE live[p][x]
        /\ neutral'[p] = IF "fastCompaction" \in {r} THEN Only(r, v)["fastCompaction"] ELSE neutral[p]
    BY <1>0, <1>12, <2>1, <2>2, ApplyTyped
  <2>4. /\ \A x \in Rows : live'[p][x] = IF x = r THEN v ELSE live[p][x]
        /\ neutral'[p] = IF r = "fastCompaction" THEN v ELSE neutral[p]
    BY <2>2, <2>3
  <2>5. /\ write' \in [Procs -> Writes]
        /\ \A q \in Procs \ {p} : write'[q] = write[q]
        /\ write'[p] = [on |-> TRUE, doc |-> Over(Only(r, v), Load(file)), edit |-> Only(r, v),
                        reset |-> FALSE, stale |-> FALSE]
    BY <1>0, <2>1, <2>2, SaveTyped
  <2>6. Flips(p, r, v)
    BY <1>8, <1>11, <1>14, <2>4, <2>5 DEF Flips
  <2>7. view'[p].open /\ DOMAIN view'[p].shown = Active /\ view'[p].restored = view[p].restored
    BY <1>9, <1>11
  <2>8. QED BY <1>1, <1>2, <1>3, <1>7, <1>11, <2>3, <2>5, <2>6, <2>7
<1>15. QED BY <1>13, <1>14

\* A restore applies the defaults of the rows that are not pinned and empties the
\* store.
LEMMA RestoreEffect ==
    ASSUME TypeInv, NEW p \in Procs, RestoreDefaults(p)
    PROVE  /\ p \in running /\ ~write[p].on
           /\ UNCHANGED <<running, env, file, chosen, overlap, starts, handEdits>>
           /\ edits' \in 0..EditLimit
           /\ live' \in [Procs -> [Rows -> Values]] /\ neutral' \in [Procs -> Values]
           /\ view' \in [Procs -> Views] /\ write' \in [Procs -> Writes]
           /\ \A q \in Procs \ {p} : /\ live'[q] = live[q] /\ neutral'[q] = neutral[q]
                                     /\ view'[q] = view[q] /\ write'[q] = write[q]
           /\ view'[p].open = view[p].open /\ view'[p].shown = view[p].shown
           /\ view[p].open => view'[p].restored
           /\ \A x \in Rows : live'[p][x] = IF x \in EnvPinned(env[p]) THEN live[p][x] ELSE Default[x]
           /\ neutral'[p] = IF "fastCompaction" \in EnvPinned(env[p]) THEN neutral[p]
                            ELSE Default["fastCompaction"]
           /\ write'[p] = [on |-> TRUE, doc |-> None, edit |-> None, reset |-> TRUE, stale |-> FALSE]
<1>0. Shapes /\ Attended
  BY DEF TypeInv
<1>1. p \in running /\ ~write[p].on
  BY DEF RestoreDefaults, Idle
<1>2. UNCHANGED <<running, env, file, chosen, overlap, starts, handEdits>>
  BY DEF RestoreDefaults
<1>3. edits' \in 0..EditLimit
  BY <1>0, SettingsAssumption DEF RestoreDefaults, Shapes
<1> DEFINE free == Rows \ EnvPinned(env[p])
           change == Restrict(Default, free)
<1>4. change \in [free -> Values] /\ \A x \in free : change[x] = Default[x]
  BY ClosedTyped DEF Restrict
<1>5. Apply(p, change) /\ Reset(p)
  BY DEF RestoreDefaults, Restore
<1>6. free \in SUBSET Rows /\ "fastCompaction" \in Rows
  BY DEF Rows
<1>7. \A x \in Rows : x \in free <=> x \notin EnvPinned(env[p])
  OBVIOUS
<1> HIDE DEF free, change
<1>8. /\ live' \in [Procs -> [Rows -> Values]] /\ neutral' \in [Procs -> Values]
      /\ \A q \in Procs \ {p} : live'[q] = live[q] /\ neutral'[q] = neutral[q]
      /\ \A x \in Rows : live'[p][x] = IF x \in free THEN change[x] ELSE live[p][x]
      /\ neutral'[p] = IF "fastCompaction" \in free THEN change["fastCompaction"] ELSE neutral[p]
  BY <1>0, <1>4, <1>5, <1>6, ApplyTyped
<1>9. /\ \A x \in Rows : live'[p][x] = IF x \in EnvPinned(env[p]) THEN live[p][x] ELSE Default[x]
      /\ neutral'[p] = IF "fastCompaction" \in EnvPinned(env[p]) THEN neutral[p]
                       ELSE Default["fastCompaction"]
  BY <1>4, <1>6, <1>7, <1>8
<1>10. /\ write' \in [Procs -> Writes]
       /\ \A q \in Procs \ {p} : write'[q] = write[q]
       /\ write'[p] = [on |-> TRUE, doc |-> None, edit |-> None, reset |-> TRUE, stale |-> FALSE]
  BY <1>0, <1>5, ResetTyped
<1>11. view[p] \in Views /\ view \in [Procs -> Views]
  BY <1>0 DEF Shapes
<1>12. /\ view' \in [Procs -> Views]
       /\ \A q \in Procs \ {p} : view'[q] = view[q]
       /\ view'[p].open = view[p].open /\ view'[p].shown = view[p].shown
       /\ view[p].open => view'[p].restored
  <2>1. CASE view[p].open
    <3>1. view' = [view EXCEPT ![p] = [open |-> TRUE, shown |-> view[p].shown, restored |-> TRUE]]
      BY <2>1 DEF RestoreDefaults, Show
    <3>2. QED BY <1>11, <2>1, <3>1 DEF Views
  <2>2. CASE ~view[p].open
    BY <1>11, <2>2 DEF RestoreDefaults
  <2>3. QED BY <2>1, <2>2
<1>13. QED BY <1>1, <1>2, <1>3, <1>8, <1>9, <1>10, <1>12

\* The two steps that end a write keep the shapes; a write that is dropped is off.
LEMMA DropTyped ==
    ASSUME Shapes, NEW p \in Procs, write' = [write EXCEPT ![p] = NoWrite]
    PROVE  /\ write' \in [Procs -> Writes] /\ ~write'[p].on
           /\ \A q \in Procs \ {p} : write'[q] = write[q]
BY ClosedTyped DEF Shapes

LEMMA RenameEffect ==
    ASSUME TypeInv, NEW p \in Procs, Rename(p)
    PROVE  /\ p \in running /\ write[p].on
           /\ file' = [ok |-> TRUE, doc |-> write[p].doc] /\ file' \in Stored
           /\ chosen' = IF write[p].reset THEN None ELSE Over(write[p].edit, chosen)
           /\ chosen' \in Doc(Active, Values)
           /\ overlap' = (overlap \/ write[p].stale)
           /\ write' \in [Procs -> Writes] /\ ~write'[p].on
           /\ \A q \in Procs \ {p} : write'[q] = [write[q] EXCEPT !.stale = write[q].on]
           /\ UNCHANGED <<running, env, live, neutral, view, starts, edits, handEdits>>
<1>1. write[p] \in Writes /\ chosen \in Doc(Active, Values)
  BY DEF TypeInv, Shapes
<1>2. write[p].doc \in Doc(Active, Values) /\ write[p].edit \in Doc(Active, Values)
  BY <1>1 DEF Writes
<1>3. file' \in Stored
  <2>1. write[p].doc \in Doc(Active, Values \cup {"junk"})
    BY <1>2, DocGrows
  <2>2. QED BY <2>1 DEF Rename, Stored
<1>4. chosen' \in Doc(Active, Values)
  BY <1>1, <1>2, OverTyped, NoneTyped DEF Rename
<1>5. \A q \in Procs : [write[q] EXCEPT !.stale = write[q].on] \in Writes
  BY DEF TypeInv, Shapes, Writes
<1>6. write' \in [Procs -> Writes]
  BY <1>5, ClosedTyped DEF Rename
<1>7. QED BY <1>3, <1>4, <1>6, ClosedTyped DEF Rename

LEMMA HandEditEffect ==
    ASSUME TypeInv, HandEdit
    PROVE  /\ file' \in Stored /\ chosen' \in Doc(Active, Values)
           /\ DOMAIN chosen' = {x \in DOMAIN file'.doc : file'.doc[x] \in Values}
           /\ \A x \in DOMAIN chosen' : chosen'[x] = file'.doc[x]
           /\ ~file'.ok => file' = Unreadable
           /\ handEdits' \in 0..HandEditLimit
           /\ \A p \in Procs : ~write[p].on
           /\ UNCHANGED <<running, env, live, neutral, view, write, overlap, starts, edits>>
<1>1. file' \in Stored /\ (~file'.ok => file' = Unreadable)
  <2>1. CASE file' = Unreadable
    BY <2>1, ClosedTyped
  <2>2. CASE \E r \in Active, v \in Values \cup {"junk"} :
               file' = [ok |-> TRUE, doc |-> Over(Only(r, v), Load(file))]
    <3>1. PICK r \in Active, v \in Values \cup {"junk"} :
                file' = [ok |-> TRUE, doc |-> Over(Only(r, v), Load(file))]
      BY <2>2
    <3>2. Load(file) \in Doc(Active, Values)
      BY LoadShape DEF TypeInv, Shapes
    <3>3. Load(file) \in Doc(Active, Values \cup {"junk"})
      BY <3>2, DocGrows
    <3>4. Only(r, v) \in Doc(Active, Values \cup {"junk"})
      BY OnlyTyped
    <3>5. Over(Only(r, v), Load(file)) \in Doc(Active, Values \cup {"junk"})
      BY <3>3, <3>4, OverTyped
    <3>6. QED BY <3>1, <3>5 DEF Stored
  <2>3. QED BY <2>1, <2>2 DEF HandEdit
<1> DEFINE kept == {x \in DOMAIN file'.doc : file'.doc[x] \in Values}
<1>2. chosen' = [r \in kept |-> file'.doc[r]]
  BY DEF HandEdit
<1>3. DOMAIN chosen' = kept /\ \A x \in kept : chosen'[x] = file'.doc[x]
  BY <1>2
<1>4. chosen' \in [kept -> Values]
  BY <1>2
<1>5. kept \subseteq Active
  <2>1. file'.doc \in Doc(Active, Values \cup {"junk"})
    BY <1>1 DEF Stored
  <2>2. QED BY <2>1, DocShape
<1>6. chosen' \in Doc(Active, Values)
  BY <1>3, <1>4, <1>5, DocShape
<1>7. handEdits' \in 0..HandEditLimit
  BY SettingsAssumption DEF HandEdit, TypeInv, Shapes
<1>8. QED BY <1>1, <1>3, <1>6, <1>7 DEF HandEdit

LEMMA ExitEffect ==
    ASSUME TypeInv, NEW p \in Procs, Exit(p)
    PROVE  /\ running' = running \ {p}
           /\ env' \in [Procs -> [Rows -> EnvValues]]
           /\ live' \in [Procs -> [Rows -> Values]] /\ neutral' \in [Procs -> Values]
           /\ view' \in [Procs -> Views] /\ write' \in [Procs -> Writes]
           /\ \A q \in Procs \ {p} :
                /\ env'[q] = env[q] /\ live'[q] = live[q] /\ neutral'[q] = neutral[q]
                /\ view'[q] = view[q] /\ write'[q] = write[q]
           /\ view'[p] = Closed /\ ~write'[p].on
           /\ UNCHANGED <<file, chosen, overlap, starts, edits, handEdits>>
<1>1. [r \in Rows |-> "unset"] \in [Rows -> EnvValues] /\ "on" \in Values
  BY DEF EnvValues, Values
<1>2. Shapes /\ env \in [Procs -> [Rows -> EnvValues]]
  BY DEF TypeInv, Shapes, EnvValues
<1>3. env' \in [Procs -> [Rows -> EnvValues]] /\ live' \in [Procs -> [Rows -> Values]]
  BY <1>1, <1>2, ClosedTyped DEF Exit, Shapes
<1>4. neutral' \in [Procs -> Values] /\ view' \in [Procs -> Views]
  BY <1>1, <1>2, ClosedTyped DEF Exit, Shapes
<1>5. /\ write' \in [Procs -> Writes] /\ ~write'[p].on
      /\ \A q \in Procs \ {p} : write'[q] = write[q]
  BY <1>2, DropTyped DEF Exit
<1>6. \A q \in Procs \ {p} :
        env'[q] = env[q] /\ live'[q] = live[q] /\ neutral'[q] = neutral[q] /\ view'[q] = view[q]
  BY <1>2 DEF Exit, Shapes
<1>7. view'[p] = Closed
  BY <1>2 DEF Exit, Shapes
<1>8. QED BY <1>3, <1>4, <1>5, <1>6, <1>7 DEF Exit

\* A view opens with what is live.
LEMMA OpenEffect ==
    ASSUME TypeInv, NEW p \in Procs, OpenView(p)
    PROVE  /\ p \in running /\ view' \in [Procs -> Views] /\ view'[p].open
           /\ DOMAIN view'[p].shown = Active
           /\ \A r \in Active : view'[p].shown[r] = live[p][r]
           /\ \A q \in Procs \ {p} : view'[q] = view[q]
           /\ UNCHANGED <<running, env, live, neutral, write, file, chosen, overlap,
                          starts, edits, handEdits>>
<1> DEFINE shown == Restrict(live[p], Active)
<1>1. live[p] \in [Rows -> Values] /\ view \in [Procs -> Views] /\ Active \subseteq Rows
  BY SettingsAssumption DEF TypeInv, Shapes
<1>2. shown \in [Active -> Values] /\ \A r \in Active : shown[r] = live[p][r]
  BY <1>1 DEF Restrict
<1>3. shown \in Doc(Active, Values) /\ DOMAIN shown = Active
  BY <1>2 DEF Doc
<1>4. view' = [view EXCEPT ![p] = [open |-> TRUE, shown |-> shown, restored |-> FALSE]]
  BY DEF OpenView, Show
<1>5. QED BY <1>1, <1>2, <1>3, <1>4 DEF OpenView, Idle, Views

LEMMA TypeStep == TypeInv /\ [Next]_vars => TypeInv'
<1> SUFFICES ASSUME TypeInv, [Next]_vars PROVE TypeInv'
  OBVIOUS
<1>0. Shapes /\ Attended
  BY DEF TypeInv
<1>1. ASSUME NEW p \in Procs, Start(p) PROVE TypeInv'
  <2>1. Shapes'
    BY <1>0, <1>1, StartEffect DEF Shapes, EnvValues
  <2>2. Attended'
    BY <1>0, <1>1, StartEffect DEF Attended
  <2>3. QED BY <2>1, <2>2 DEF TypeInv
<1>2. ASSUME NEW p \in Procs, Exit(p) PROVE TypeInv'
  <2>1. Shapes'
    BY <1>0, <1>2, ExitEffect DEF Shapes, EnvValues
  <2>2. Attended'
    <3>1. /\ running' = running \ {p} /\ ~write'[p].on
          /\ ~view'[p].open /\ DOMAIN view'[p].shown = {}
          /\ \A q \in Procs \ {p} : view'[q] = view[q] /\ write'[q] = write[q]
      BY <1>0, <1>2, ExitEffect, ClosedTyped
    <3>2. QED BY <1>0, <3>1 DEF Attended
  <2>3. QED BY <2>1, <2>2 DEF TypeInv
<1>3. ASSUME NEW p \in Procs, OpenView(p) PROVE TypeInv'
  <2>1. Shapes'
    BY <1>0, <1>3, OpenEffect DEF Shapes
  <2>2. Attended'
    BY <1>0, <1>3, OpenEffect DEF Attended
  <2>3. QED BY <2>1, <2>2 DEF TypeInv
<1>4. ASSUME NEW p \in Procs, CloseView(p) PROVE TypeInv'
  <2>1. Shapes'
    BY <1>0, <1>4, ClosedTyped DEF CloseView, Shapes
  <2>2. Attended'
    BY <1>0, <1>4, ClosedTyped DEF CloseView, Shapes, Attended
  <2>3. QED BY <2>1, <2>2 DEF TypeInv
<1>5. ASSUME NEW p \in Procs, Toggle(p) PROVE TypeInv'
  <2>1. Shapes'
    BY <1>0, <1>5, ToggleEffect DEF Shapes
  <2>2. Attended'
    BY <1>0, <1>5, ToggleEffect DEF Attended
  <2>3. QED BY <2>1, <2>2 DEF TypeInv
<1>6. ASSUME NEW p \in Procs, RestoreDefaults(p) PROVE TypeInv'
  <2>1. Shapes'
    BY <1>0, <1>6, RestoreEffect DEF Shapes
  <2>2. Attended'
    BY <1>0, <1>6, RestoreEffect DEF Attended
  <2>3. QED BY <2>1, <2>2 DEF TypeInv
<1>7. ASSUME NEW p \in Procs, Rename(p) PROVE TypeInv'
  <2>1. Shapes'
    BY <1>0, <1>7, RenameEffect DEF Shapes
  <2>2. Attended'
    <3>1. /\ \A q \in Procs : write[q] \in Writes
          /\ \A q \in Procs \ {p} : write'[q] = [write[q] EXCEPT !.stale = write[q].on]
          /\ ~write'[p].on /\ view' = view /\ running' = running
      BY <1>0, <1>7, RenameEffect DEF Shapes
    <3>2. \A q \in Procs : write'[q].on => write[q].on
      BY <3>1 DEF Writes
    <3>3. QED BY <1>0, <3>1, <3>2 DEF Attended
  <2>3. QED BY <2>1, <2>2 DEF TypeInv
<1>8. ASSUME NEW p \in Procs, WriteFails(p) PROVE TypeInv'
  <2>1. Shapes'
    BY <1>0, <1>8, DropTyped DEF WriteFails, Shapes
  <2>2. Attended'
    BY <1>0, <1>8, DropTyped DEF WriteFails, Attended
  <2>3. QED BY <2>1, <2>2 DEF TypeInv
<1>9. ASSUME HandEdit PROVE TypeInv'
  <2>1. Shapes'
    BY <1>0, <1>9, HandEditEffect DEF Shapes
  <2>2. Attended'
    BY <1>0, <1>9, HandEditEffect DEF Attended
  <2>3. QED BY <2>1, <2>2 DEF TypeInv
<1>10. CASE UNCHANGED vars
  BY <1>0, <1>10 DEF vars, TypeInv, Shapes, Attended
<1>11. QED
  BY <1>1, <1>2, <1>3, <1>4, <1>5, <1>6, <1>7, <1>8, <1>9, <1>10 DEF Next

\* Every reachable state is well typed.
THEOREM TypeCorrect == Spec => []TypeOK
<1>1. Init => TypeInv
  BY TypeInit
<1>2. TypeInv /\ [Next]_vars => TypeInv'
  BY TypeStep
<1>3. QED BY <1>1, <1>2, TypeInvTypes, PTL DEF Spec

-------------------------------------------------------------------------------
(* The invariants *)

\* Whether r is kept, and with which value, is the same in two documents.
AgreesWith(c, doc) ==
    \A r \in StoredKeys : /\ r \in DOMAIN c <=> r \in DOMAIN doc
                          /\ r \in DOMAIN c => c[r] = doc[r]

\* While no save landed over one it had not read, the file holds the choices.
FileAgrees == ~overlap => AgreesWith(chosen, Load(file))

\* So does a document about to be renamed, with the edit it makes, as long as no
\* sibling renamed since it was read.
WritesAgree ==
    ~overlap => \A p \in Procs : write[p].on /\ ~write[p].stale =>
        AgreesWith(IF write[p].reset THEN None ELSE Over(write[p].edit, chosen), write[p].doc)

\* The owners wired to a row and the view keep in step with each other.
LiveInv == TypeInv /\ LiveValuesAgree /\ ViewShowsLive

ChoicesInv == TypeInv /\ FileAgrees /\ WritesAgree

LEMMA LiveInit == Init => LiveInv
<1> SUFFICES ASSUME Init PROVE LiveInv
  OBVIOUS
<1>1. LiveValuesAgree /\ ViewShowsLive
  BY DEF Init, LiveValuesAgree, PinsHold, NeutralFollowsFast, ViewShowsLive
<1>2. QED BY <1>1, TypeInit DEF LiveInv

LEMMA LiveStep == LiveInv /\ [Next]_vars => LiveInv'
<1> SUFFICES ASSUME LiveInv, [Next]_vars PROVE LiveValuesAgree' /\ ViewShowsLive'
  BY TypeStep DEF LiveInv
<1>0. /\ TypeInv /\ Shapes /\ Attended
      /\ PinsHold /\ NeutralFollowsFast /\ ViewShowsLive
      /\ running \subseteq Procs
      /\ "fastCompaction" \in Rows /\ Active \subseteq Rows
  BY SettingsAssumption DEF LiveInv, LiveValuesAgree, TypeInv, Shapes, Rows
<1>1. ASSUME NEW p \in Procs, Start(p) PROVE LiveValuesAgree' /\ ViewShowsLive'
  <2>1. /\ running' = running \cup {p} /\ view' = view
        /\ \A q \in Procs \ {p} :
             env'[q] = env[q] /\ live'[q] = live[q] /\ neutral'[q] = neutral[q]
        /\ \A r \in Rows \ NotWired : env'[p][r] # "unset" => live'[p][r] = env'[p][r]
        /\ neutral'[p] = live'[p]["fastCompaction"]
        /\ ~view[p].open
    BY <1>0, <1>1, StartEffect DEF Attended
  <2>2. PinsHold'
    BY <1>0, <2>1 DEF PinsHold, EnvPinned
  <2>3. NeutralFollowsFast'
    BY <1>0, <2>1 DEF NeutralFollowsFast
  <2>4. ViewShowsLive'
    BY <1>0, <2>1 DEF ViewShowsLive, EnvPinned
  <2>5. QED BY <2>2, <2>3, <2>4 DEF LiveValuesAgree
<1>2. ASSUME NEW p \in Procs, Exit(p) PROVE LiveValuesAgree' /\ ViewShowsLive'
  <2>1. /\ running' = running \ {p}
        /\ \A q \in Procs \ {p} :
             /\ env'[q] = env[q] /\ live'[q] = live[q] /\ neutral'[q] = neutral[q]
             /\ view'[q] = view[q]
        /\ ~view'[p].open
    BY <1>0, <1>2, ExitEffect, ClosedTyped
  <2>2. PinsHold'
    BY <1>0, <2>1 DEF PinsHold, EnvPinned
  <2>3. NeutralFollowsFast'
    BY <1>0, <2>1 DEF NeutralFollowsFast
  <2>4. ViewShowsLive'
    BY <1>0, <2>1 DEF ViewShowsLive, EnvPinned
  <2>5. QED BY <2>2, <2>3, <2>4 DEF LiveValuesAgree
<1>3. ASSUME NEW p \in Procs, OpenView(p) PROVE LiveValuesAgree' /\ ViewShowsLive'
  <2>1. /\ running' = running /\ env' = env /\ live' = live /\ neutral' = neutral
        /\ \A r \in Active : view'[p].shown[r] = live[p][r]
        /\ \A q \in Procs \ {p} : view'[q] = view[q]
    BY <1>0, <1>3, OpenEffect
  <2>2. PinsHold' /\ NeutralFollowsFast'
    BY <1>0, <2>1 DEF PinsHold, EnvPinned, NeutralFollowsFast
  <2>3. ViewShowsLive'
    BY <1>0, <2>1 DEF ViewShowsLive, EnvPinned
  <2>4. QED BY <2>2, <2>3 DEF LiveValuesAgree
<1>4. ASSUME NEW p \in Procs, CloseView(p) PROVE LiveValuesAgree' /\ ViewShowsLive'
  <2>1. /\ running' = running /\ env' = env /\ live' = live /\ neutral' = neutral
        /\ ~view'[p].open
        /\ \A q \in Procs \ {p} : view'[q] = view[q]
    BY <1>0, <1>4, ClosedTyped DEF CloseView, Shapes
  <2>2. PinsHold' /\ NeutralFollowsFast'
    BY <1>0, <2>1 DEF PinsHold, EnvPinned, NeutralFollowsFast
  <2>3. ViewShowsLive'
    BY <1>0, <2>1 DEF ViewShowsLive, EnvPinned
  <2>4. QED BY <2>2, <2>3 DEF LiveValuesAgree
<1>5. ASSUME NEW p \in Procs, Toggle(p) PROVE LiveValuesAgree' /\ ViewShowsLive'
  <2>1. /\ p \in running /\ view[p].open
        /\ running' = running /\ env' = env
        /\ \A q \in Procs \ {p} : /\ live'[q] = live[q] /\ neutral'[q] = neutral[q]
                                  /\ view'[q] = view[q]
        /\ view'[p].restored = view[p].restored
    BY <1>0, <1>5, ToggleEffect
  <2>2. PICK r \in Active, v \in Values : Flips(p, r, v)
    BY <1>0, <1>5, ToggleEffect
  <2>3. CASE r \in EnvPinned(env[p])
    <3>1. /\ live' = live /\ neutral' = neutral
          /\ \A x \in Active \ {r} : view'[p].shown[x] = view[p].shown[x]
      BY <2>2, <2>3 DEF Flips
    <3>2. PinsHold' /\ NeutralFollowsFast'
      BY <1>0, <2>1, <3>1 DEF PinsHold, EnvPinned, NeutralFollowsFast
    <3>3. ViewShowsLive'
      BY <1>0, <2>1, <2>3, <3>1 DEF ViewShowsLive, EnvPinned
    <3>4. QED BY <3>2, <3>3 DEF LiveValuesAgree
  <2>4. CASE r \notin EnvPinned(env[p])
    <3>1. /\ \A x \in Active : view'[p].shown[x] = IF x = r THEN v ELSE view[p].shown[x]
          /\ \A x \in Rows : live'[p][x] = IF x = r THEN v ELSE live[p][x]
          /\ neutral'[p] = IF r = "fastCompaction" THEN v ELSE neutral[p]
      BY <2>2, <2>4 DEF Flips
    <3>2. PinsHold'
      BY <1>0, <2>1, <2>4, <3>1 DEF PinsHold, EnvPinned
    <3>3. NeutralFollowsFast'
      BY <1>0, <2>1, <3>1 DEF NeutralFollowsFast
    <3>4. ViewShowsLive'
      BY <1>0, <2>1, <3>1 DEF ViewShowsLive, EnvPinned
    <3>5. QED BY <3>2, <3>3, <3>4 DEF LiveValuesAgree
  <2>5. QED BY <2>3, <2>4
<1>6. ASSUME NEW p \in Procs, RestoreDefaults(p) PROVE LiveValuesAgree' /\ ViewShowsLive'
  <2>1. /\ p \in running /\ running' = running /\ env' = env
        /\ \A q \in Procs \ {p} : /\ live'[q] = live[q] /\ neutral'[q] = neutral[q]
                                  /\ view'[q] = view[q]
        /\ view'[p].open = view[p].open /\ (view[p].open => view'[p].restored)
        /\ \A x \in Rows : live'[p][x] = IF x \in EnvPinned(env[p]) THEN live[p][x] ELSE Default[x]
        /\ neutral'[p] = IF "fastCompaction" \in EnvPinned(env[p]) THEN neutral[p]
                         ELSE Default["fastCompaction"]
    BY <1>0, <1>6, RestoreEffect
  <2>2. PinsHold'
    BY <1>0, <2>1 DEF PinsHold, EnvPinned
  <2>3. NeutralFollowsFast'
    BY <1>0, <2>1 DEF NeutralFollowsFast
  <2>4. ViewShowsLive'
    BY <1>0, <2>1 DEF ViewShowsLive, EnvPinned
  <2>5. QED BY <2>2, <2>3, <2>4 DEF LiveValuesAgree
<1>7. ASSUME UNCHANGED <<running, env, live, neutral, view>>
      PROVE  LiveValuesAgree' /\ ViewShowsLive'
  BY <1>0, <1>7 DEF LiveValuesAgree, PinsHold, NeutralFollowsFast, ViewShowsLive, EnvPinned
<1>8. ASSUME NEW p \in Procs, Rename(p) \/ WriteFails(p)
      PROVE  UNCHANGED <<running, env, live, neutral, view>>
  BY <1>8 DEF Rename, WriteFails
<1>9. HandEdit \/ UNCHANGED vars => UNCHANGED <<running, env, live, neutral, view>>
  BY DEF HandEdit, vars
<1>10. QED
  BY <1>1, <1>2, <1>3, <1>4, <1>5, <1>6, <1>7, <1>8, <1>9 DEF Next

\* Through every toggle and restore, a row the environment pins keeps the
\* environment's value in the owners that were given it, and auto-compaction's
\* cache-neutral relaxation follows the fast switch.
THEOREM LiveAgrees == Spec => []LiveValuesAgree
<1>1. LiveInv => LiveValuesAgree
  BY DEF LiveInv
<1>2. QED BY <1>1, LiveInit, LiveStep, PTL DEF Spec

\* An open view shows what is live in every row that is not pinned, until its own
\* restore row is used: also after a save that failed, and in a process whose
\* siblings save.
THEOREM ViewLive == Spec => []ViewShowsLive
<1>1. LiveInv => ViewShowsLive
  BY DEF LiveInv
<1>2. QED BY <1>1, LiveInit, LiveStep, PTL DEF Spec

LEMMA AgreesNone ==
    ASSUME NEW c, NEW doc, DOMAIN c = {}, DOMAIN doc = {} PROVE AgreesWith(c, doc)
BY DEF AgreesWith

\* The same patch over documents that agree.
LEMMA OverAgrees ==
    ASSUME NEW c \in Doc(Active, Values), NEW doc \in Doc(Active, Values),
           NEW patch \in Doc(Active, Values), AgreesWith(c, doc)
    PROVE  AgreesWith(Over(patch, c), Over(patch, doc))
<1>1. /\ DOMAIN Over(patch, c) = DOMAIN patch \cup DOMAIN c
      /\ DOMAIN Over(patch, doc) = DOMAIN patch \cup DOMAIN doc
  BY DEF Over
<1>2. ASSUME NEW r \in StoredKeys, r \in DOMAIN Over(patch, c)
      PROVE  Over(patch, c)[r] = Over(patch, doc)[r]
  <2>1. r \in DOMAIN Over(patch, doc)
    BY <1>1, <1>2 DEF AgreesWith
  <2>2. /\ Over(patch, c)[r] = IF r \in DOMAIN patch THEN patch[r] ELSE c[r]
        /\ Over(patch, doc)[r] = IF r \in DOMAIN patch THEN patch[r] ELSE doc[r]
    BY <1>1, <1>2, <2>1 DEF Over
  <2>3. QED BY <1>1, <1>2, <2>2 DEF AgreesWith
<1>3. QED BY <1>1, <1>2 DEF AgreesWith

\* What a load keeps of a file agrees with what the file holds in proper values.
LEMMA LoadAgrees ==
    ASSUME NEW f \in Stored, f.ok, NEW c \in Doc(Active, Values),
           DOMAIN c = {x \in DOMAIN f.doc : f.doc[x] \in Values},
           \A x \in DOMAIN c : c[x] = f.doc[x]
    PROVE  AgreesWith(c, Load(f))
<1>1. /\ DOMAIN Load(f) = {r \in DOMAIN f.doc \cap StoredKeys : f.doc[r] \in Values}
      /\ \A r \in DOMAIN Load(f) : Load(f)[r] = f.doc[r]
  BY LoadShape
<1>2. QED BY <1>1 DEF AgreesWith

\* A document just written is read back as it was, in the keys that are stored.
LEMMA ReadBack ==
    ASSUME NEW doc \in Doc(Active, Values), NEW c, AgreesWith(c, doc)
    PROVE  AgreesWith(c, Load([ok |-> TRUE, doc |-> doc]))
<1> DEFINE f == [ok |-> TRUE, doc |-> doc]
<1>1. doc \in Doc(Active, Values \cup {"junk"})
  BY DocGrows
<1>2. f \in Stored /\ f.ok /\ f.doc = doc
  BY <1>1 DEF Stored
<1> HIDE DEF f
<1>3. /\ DOMAIN Load(f) = {r \in DOMAIN doc \cap StoredKeys : doc[r] \in Values}
      /\ \A r \in DOMAIN Load(f) : Load(f)[r] = doc[r]
  BY <1>2, LoadShape
<1>4. \A r \in DOMAIN doc : doc[r] \in Values
  BY DocShape
<1>5. AgreesWith(c, Load(f))
  BY <1>3, <1>4 DEF AgreesWith
<1>6. QED BY <1>5 DEF f

LEMMA ChoicesInit == Init => ChoicesInv
<1> SUFFICES ASSUME Init PROVE FileAgrees /\ WritesAgree
  BY TypeInit DEF ChoicesInv
<1>1. DOMAIN chosen = {} /\ DOMAIN Load(file) = {}
  BY NoneTyped, ClosedTyped DEF Init, Load, Unreadable
<1>2. FileAgrees
  BY <1>1, AgreesNone DEF FileAgrees
<1>3. \A p \in Procs : ~write[p].on
  BY ClosedTyped DEF Init
<1>4. QED BY <1>2, <1>3 DEF WritesAgree

LEMMA ChoicesStep == ChoicesInv /\ [Next]_vars => ChoicesInv'
<1> SUFFICES ASSUME ChoicesInv, [Next]_vars PROVE FileAgrees' /\ WritesAgree'
  BY TypeStep DEF ChoicesInv
<1>0. /\ TypeInv /\ FileAgrees /\ WritesAgree
      /\ chosen \in Doc(Active, Values) /\ Load(file) \in Doc(Active, Values)
      /\ \A q \in Procs : write[q] \in Writes
  BY LoadShape DEF ChoicesInv, TypeInv, Shapes
<1> DEFINE Saving(q) == AgreesWith(IF write[q].reset THEN None ELSE Over(write[q].edit, chosen),
                                   write[q].doc)
\* A step that leaves the file and the choices alone need only look at new writes.
<1>1. ASSUME UNCHANGED <<file, chosen, overlap>>,
             \A q \in Procs : \/ ~write'[q].on
                              \/ write'[q] = write[q]
                              \/ ~overlap => Saving(q)'
      PROVE  FileAgrees' /\ WritesAgree'
  <2>1. FileAgrees'
    BY <1>0, <1>1 DEF FileAgrees
  <2>2. ASSUME NEW q \in Procs, ~overlap', write'[q].on, ~write'[q].stale
        PROVE  Saving(q)'
    <3>1. CASE write'[q] = write[q]
      BY <1>0, <1>1, <2>2, <3>1 DEF WritesAgree
    <3>2. CASE write'[q] # write[q]
      BY <1>1, <2>2, <3>2
    <3>3. QED BY <3>1, <3>2
  <2>3. QED BY <2>1, <2>2 DEF WritesAgree
<1>2. ASSUME UNCHANGED <<file, chosen, overlap, write>> PROVE FileAgrees' /\ WritesAgree'
  BY <1>1, <1>2
<1>3. ASSUME NEW p \in Procs, Start(p) \/ OpenView(p) \/ CloseView(p)
      PROVE  UNCHANGED <<file, chosen, overlap, write>>
  BY <1>3 DEF Start, OpenView, CloseView
<1>4. ASSUME NEW p \in Procs, Exit(p) PROVE FileAgrees' /\ WritesAgree'
  <2>1. /\ UNCHANGED <<file, chosen, overlap>> /\ ~write'[p].on
        /\ \A q \in Procs \ {p} : write'[q] = write[q]
    BY <1>0, <1>4, ExitEffect
  <2>2. QED BY <1>1, <2>1
<1>5. ASSUME NEW p \in Procs, WriteFails(p) PROVE FileAgrees' /\ WritesAgree'
  <2>1. /\ UNCHANGED <<file, chosen, overlap>> /\ ~write'[p].on
        /\ \A q \in Procs \ {p} : write'[q] = write[q]
    BY <1>0, <1>5, DropTyped DEF WriteFails, TypeInv
  <2>2. QED BY <1>1, <2>1
<1>6. ASSUME NEW p \in Procs, Toggle(p) PROVE FileAgrees' /\ WritesAgree'
  <2>1. /\ UNCHANGED <<file, chosen, overlap>>
        /\ \A q \in Procs \ {p} : write'[q] = write[q]
    BY <1>0, <1>6, ToggleEffect
  <2>2. PICK r \in Active, v \in Values : Flips(p, r, v)
    BY <1>0, <1>6, ToggleEffect
  <2>3. CASE r \in EnvPinned(env[p])
    <3>1. write' = write
      BY <2>2, <2>3 DEF Flips
    <3>2. QED BY <1>2, <2>1, <3>1
  <2>4. CASE r \notin EnvPinned(env[p])
    <3>1. write'[p] = [on |-> TRUE, doc |-> Over(Only(r, v), Load(file)), edit |-> Only(r, v),
                       reset |-> FALSE, stale |-> FALSE]
      BY <2>2, <2>4 DEF Flips
    <3>2. ~overlap => AgreesWith(Over(Only(r, v), chosen), Over(Only(r, v), Load(file)))
      BY <1>0, OnlyTyped, OverAgrees DEF FileAgrees
    <3>3. /\ ~write'[p].reset /\ write'[p].edit = Only(r, v)
          /\ write'[p].doc = Over(Only(r, v), Load(file)) /\ chosen' = chosen
      BY <2>1, <3>1
    <3>4. ~overlap => Saving(p)'
      BY <3>2, <3>3
    <3>5. QED BY <1>1, <2>1, <3>4
  <2>5. QED BY <2>3, <2>4
<1>7. ASSUME NEW p \in Procs, RestoreDefaults(p) PROVE FileAgrees' /\ WritesAgree'
  <2>1. /\ UNCHANGED <<file, chosen, overlap>>
        /\ \A q \in Procs \ {p} : write'[q] = write[q]
        /\ write'[p] = [on |-> TRUE, doc |-> None, edit |-> None, reset |-> TRUE, stale |-> FALSE]
    BY <1>0, <1>7, RestoreEffect
  <2>2. AgreesWith(None, None)
    BY NoneTyped, AgreesNone
  <2>3. Saving(p)'
    BY <2>1, <2>2
  <2>4. QED BY <1>1, <2>1, <2>3
\* A rename puts the document where the choices are: the others are stale from now on.
<1>8. ASSUME NEW p \in Procs, Rename(p) PROVE FileAgrees' /\ WritesAgree'
  <2>1. /\ write[p].on /\ file' = [ok |-> TRUE, doc |-> write[p].doc]
        /\ chosen' = IF write[p].reset THEN None ELSE Over(write[p].edit, chosen)
        /\ overlap' = (overlap \/ write[p].stale)
        /\ ~write'[p].on
        /\ \A q \in Procs \ {p} : write'[q] = [write[q] EXCEPT !.stale = write[q].on]
    BY <1>0, <1>8, RenameEffect
  <2>2. ASSUME ~overlap' PROVE AgreesWith(chosen', Load(file'))
    <3>1. ~overlap /\ ~write[p].stale
      BY <2>1, <2>2
    <3>2. AgreesWith(chosen', write[p].doc)
      BY <1>0, <2>1, <3>1 DEF WritesAgree
    <3>3. write[p].doc \in Doc(Active, Values)
      BY <1>0 DEF Writes
    <3>4. QED BY <2>1, <3>2, <3>3, ReadBack
  <2>3. \A q \in Procs : write'[q].on => write'[q].stale
    BY <1>0, <2>1 DEF Writes
  <2>4. QED BY <2>2, <2>3 DEF FileAgrees, WritesAgree
<1>9. ASSUME HandEdit PROVE FileAgrees' /\ WritesAgree'
  <2>1. /\ file' \in Stored /\ chosen' \in Doc(Active, Values)
        /\ DOMAIN chosen' = {x \in DOMAIN file'.doc : file'.doc[x] \in Values}
        /\ \A x \in DOMAIN chosen' : chosen'[x] = file'.doc[x]
        /\ ~file'.ok => file' = Unreadable
        /\ \A p \in Procs : ~write[p].on
        /\ write' = write
    BY <1>0, <1>9, HandEditEffect
  <2>2. file'.ok => AgreesWith(chosen', Load(file'))
    BY <2>1, LoadAgrees
  <2>3. ASSUME ~file'.ok PROVE AgreesWith(chosen', Load(file'))
    <3>1. DOMAIN file'.doc = {} /\ DOMAIN Load(file') = {}
      <4>1. file' = Unreadable
        BY <2>1, <2>3
      <4>2. DOMAIN Unreadable.doc = {} /\ DOMAIN Load(Unreadable) = {}
        BY NoneTyped DEF Unreadable, Load
      <4>3. QED BY <4>1, <4>2
    <3>2. DOMAIN chosen' = {}
      BY <2>1, <3>1
    <3>3. QED BY <3>1, <3>2, AgreesNone
  <2>4. FileAgrees'
    BY <2>2, <2>3 DEF FileAgrees
  <2>5. WritesAgree'
    BY <2>1 DEF WritesAgree
  <2>6. QED BY <2>4, <2>5
<1>10. CASE UNCHANGED vars
  BY <1>2, <1>10 DEF vars
<1>11. QED
  BY <1>2, <1>3, <1>4, <1>5, <1>6, <1>7, <1>8, <1>9, <1>10 DEF Next

\* Only a start makes a process run.
LEMMA OnlyStartStarts ==
    ASSUME TypeInv, [Next]_vars, NEW p \in Procs, Started(p) PROVE Start(p)
<1>1. ASSUME NEW q \in Procs, Start(q), q # p PROVE FALSE
  BY <1>1, StartEffect DEF Started
<1>2. ASSUME NEW q \in Procs, Exit(q) PROVE FALSE
  BY <1>2 DEF Exit, Started
<1>3. ASSUME NEW q \in Procs,
             OpenView(q) \/ CloseView(q) \/ Toggle(q) \/ RestoreDefaults(q) \/ Rename(q) \/ WriteFails(q)
      PROVE  FALSE
  <2>1. running' = running
    BY <1>3 DEF OpenView, CloseView, Toggle, RestoreDefaults, Rename, WriteFails
  <2>2. QED BY <2>1 DEF Started
<1>4. ~HandEdit /\ vars' # vars
  BY DEF HandEdit, vars, Started
<1>5. QED BY <1>1, <1>2, <1>3, <1>4 DEF Next

\* A restarted process has, in every row its owners were given, the environment's
\* value, else the last choice any process saved since the last reset, else the
\* default: through crashes in a write, failed writes, junk in the file and edits
\* from outside, unless a save landed over one it had not read.
THEOREM RestartKeeps == Spec => RestartKeepsChoices
<1> DEFINE Keeps == \A p \in Procs : Started(p) /\ ~overlap =>
                        \A r \in Rows \ NotWired : live'[p][r] = Expected(r, env'[p][r])
<1>1. ASSUME ChoicesInv, [Next]_vars PROVE Keeps
  <2> SUFFICES ASSUME NEW p \in Procs, Started(p), ~overlap, NEW r \in Rows \ NotWired
               PROVE  live'[p][r] = Expected(r, env'[p][r])
    OBVIOUS
  <2>1. Start(p)
    BY <1>1, OnlyStartStarts DEF ChoicesInv
  <2>2. live'[p][r] = IF env'[p][r] # "unset" THEN env'[p][r]
                      ELSE IF r \in DOMAIN Load(file) THEN Load(file)[r] ELSE Default[r]
    BY <1>1, <2>1, StartEffect DEF ChoicesInv
  <2>3. r \in StoredKeys
    BY DEF NotWired, StoredKeys
  <2>4. /\ r \in DOMAIN chosen <=> r \in DOMAIN Load(file)
        /\ r \in DOMAIN chosen => chosen[r] = Load(file)[r]
    BY <1>1, <2>3 DEF ChoicesInv, FileAgrees, AgreesWith
  <2>5. QED BY <2>2, <2>4 DEF Expected, EnvBool
<1>2. QED
  BY <1>1, ChoicesInit, ChoicesStep, PTL DEF Spec, RestartKeepsChoices

===============================================================================
