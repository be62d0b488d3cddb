------------------------- MODULE RouterConfigProofs -------------------------
(***************************************************************************)
(* Proofs about RouterConfig for any policies, routes and bounds.          *)
(***************************************************************************)
EXTENDS RouterConfig, TLAPS

-----------------------------------------------------------------------------
(* Records *)

LEMMA WorkFields ==
    ASSUME NEW w \in Work
    PROVE  /\ w.bundle \in Bundles
           /\ w.expected \in Content
           /\ w.found \in Content \cup {None}
           /\ w.ran \in Content \cup {Down, None}
           /\ w.attempted \in BOOLEAN
           /\ w # None
BY NoneAssumption DEF Work

LEMMA AskedFields ==
    ASSUME NEW b \in Bundles, NEW c \in Content
    PROVE  /\ Asked(b, c) \in Work
           /\ Asked(b, c).bundle = b
           /\ Asked(b, c).found = None
BY DEF Asked, Work

\* A configuration with another bundle in its managed region.
LEMMA RenderedFields ==
    ASSUME NEW c \in Content, NEW b \in Bundles
    PROVE  /\ [c EXCEPT !.managed = b] \in Content
           /\ [c EXCEPT !.managed = b].managed = b
           /\ [c EXCEPT !.managed = b].rest = c.rest
BY DEF Content

LEMMA ContentFields ==
    ASSUME NEW c \in Content
    PROVE  c.managed \in Bundles /\ c.rest \in 0 .. MaxEdits /\ c # None /\ c # Down
BY NoneAssumption, BundleAssumption DEF Content

LEMMA CountType ==
    ASSUME NEW b \in DOMAIN Bounds, counts \in [DOMAIN Bounds -> Nat], Count(b)
    PROVE  /\ counts' \in [DOMAIN Bounds -> Nat]
           /\ b # "edits" => counts'.edits = counts.edits
           /\ b = "edits" => counts'.edits = counts.edits + 1 /\ counts.edits < MaxEdits
BY DEF Count, Bounds

LEMMA CountNames == {"faults", "edits", "published", "decisions"} = DOMAIN Bounds
BY DEF Bounds

-----------------------------------------------------------------------------
(* What an apply relies on *)

\* The receiver applies policies and the pipeline routes.
Asks ==
    /\ work[receiver] # None => work[receiver].bundle \in Policies
    /\ work[pipeline] # None => work[pipeline].bundle \in Routes

\* From the lock on, what was found is known; under the lock it is in the backup,
\* with all edits made so far.
Loaded ==
    \A p \in Programs :
        /\ at[p] \notin {"idle", "active", "standby", "choose", "wait"} =>
                work[p].found \in Content
        /\ owner = p => Backup(p) = work[p].found /\ work[p].found.rest = counts.edits

Base == TypeOK /\ EditsKept /\ Asks /\ Loaded

LEMMA TakeBase == ASSUME Base, NEW p \in Programs, Take(p) PROVE Base'
<1> USE DEF Base
<1>1. /\ work[p] \in Work
      /\ at' \in [Programs -> Places] /\ at[p] = "wait" /\ at'[p] = "write"
      /\ \A q \in Programs \ {p} : at'[q] = at[q] /\ work'[q] = work[q]
  BY DEF Take, Goes, TypeOK, Placed, Places
<1>2. /\ work'[p] \in Work
      /\ work'[p].bundle = work[p].bundle
      /\ work'[p].found = file
  BY <1>1 DEF Take, TypeOK, Work
<1>3. work' \in [Programs -> Work \cup {None}]
  BY <1>2 DEF Take, TypeOK
<1>4. backups' \in [Bundles -> Content \cup {None}] /\ backups'[work[p].bundle] = file
  BY <1>1, WorkFields DEF Take, TypeOK
<1>5. Placed'
  BY <1>1, <1>2, WorkFields, NoneAssumption DEF Take, TypeOK, Placed, Unlocked
<1>6. TypeOK'
  BY <1>1, <1>3, <1>4, <1>5 DEF Take, TypeOK, pipe, recv
<1>7. Asks'
  BY <1>1, <1>2, NoneAssumption DEF Take, Asks, Programs, TypeOK
<1>8. Loaded'
  BY <1>1, <1>2, <1>4 DEF Take, TypeOK, Loaded, Backup, EditsKept, Programs
<1> QED
  BY <1>6, <1>7, <1>8 DEF Take, EditsKept

\* Places under the lock.
Held == Places \ Unlocked

\* A step under the lock that leaves edits alone.
LEMMA HeldBase ==
    ASSUME Base, NEW p \in Programs, NEW from \in Held, NEW to \in Held,
           Goes(p, from, to),
           file' \in Content, file'.rest = file.rest, running' \in Content \cup {Down},
           UNCHANGED <<backups, owner, work, recv, pipe, offered, verified>>,
           counts' \in [DOMAIN Bounds -> Nat], counts'.edits = counts.edits
    PROVE  Base'
<1> USE DEF Base
<1>1. /\ at' \in [Programs -> Places] /\ at[p] = from /\ at'[p] = to
      /\ \A q \in Programs \ {p} : at'[q] = at[q]
  BY DEF Goes, TypeOK, Held
<1>2. Placed'
  BY <1>1 DEF TypeOK, Placed, Held, Unlocked
<1>3. TypeOK'
  BY <1>1, <1>2 DEF TypeOK, recv, pipe
<1>4. Loaded'
  BY <1>1 DEF Loaded, Backup, Held, Unlocked
<1> QED
  BY <1>3, <1>4 DEF EditsKept, Asks

\* What the holder of the lock has found, and may write.
LEMMA HeldFacts ==
    ASSUME Base, NEW p \in Programs, at[p] \in Held
    PROVE  /\ owner = p
           /\ work[p] \in Work
           /\ Backup(p) = work[p].found
           /\ Backup(p) \in Content /\ Backup(p).rest = file.rest
           /\ Rendered(p) \in Content /\ Rendered(p).rest = file.rest
<1> USE DEF Base
<1>1. owner = p /\ work[p] \in Work
  BY DEF TypeOK, Placed, Held, Unlocked
<1>2. Backup(p) = work[p].found /\ work[p].found \in Content /\ work[p].found.rest = file.rest
  BY <1>1 DEF Loaded, EditsKept, Held, Unlocked
<1> QED
  BY <1>1, <1>2, WorkFields, RenderedFields DEF Rendered

LEMMA WriteBase == ASSUME Base, NEW p \in Programs, Write(p) PROVE Base'
<1> USE DEF Base
<1>0. at[p] \in Held /\ at[p] = "write"
  BY DEF Write, Goes, Held, Places, Unlocked
<1>1. /\ at' \in [Programs -> Places] /\ at'[p] = "restart"
      /\ \A q \in Programs \ {p} : at'[q] = at[q] /\ work'[q] = work[q]
  BY DEF Write, Goes, TypeOK, Places
<1>2. /\ work'[p] \in Work
      /\ work'[p].bundle = work[p].bundle
      /\ work'[p].found = work[p].found
  BY <1>0, HeldFacts DEF Write, TypeOK, Work
<1>3. work' \in [Programs -> Work \cup {None}]
  BY <1>2 DEF Write, TypeOK
<1>5. Placed'
  BY <1>0, <1>1, <1>2, WorkFields DEF Write, TypeOK, Placed, Unlocked
<1>6. TypeOK'
  BY <1>0, <1>1, <1>3, <1>5, HeldFacts DEF Write, TypeOK, pipe, recv
<1>7. Asks'
  BY <1>0, <1>1, <1>2, HeldFacts, WorkFields DEF Write, Asks, Programs
<1>8. Loaded'
  BY <1>0, <1>1, <1>2 DEF Write, Loaded, Backup, Programs
<1>9. EditsKept'
  BY <1>0, HeldFacts DEF Write, EditsKept
<1> QED
  BY <1>6, <1>7, <1>8, <1>9

\* The steps of an apply, and its failures, that only touch disk and runtime.
LEMMA DiskBase ==
    ASSUME Base, NEW p \in Programs,
           \/ WriteFails(p) \/ Restarted(p) \/ RestartFails(p) \/ Unverified(p)
           \/ Restore(p) \/ RestoreFails(p) \/ Rerun(p) \/ RerunFails(p)
    PROVE  Base'
<1> USE DEF Base
<1>t. file \in Content /\ running \in Content \cup {Down} /\ counts \in [DOMAIN Bounds -> Nat]
  BY DEF TypeOK
<1>f. Count("faults") => counts' \in [DOMAIN Bounds -> Nat] /\ counts'.edits = counts.edits
  BY <1>t, CountType, CountNames
<1>h. {"write", "restart", "smoke", "restore", "rerun", "rolled_back", "rollback_failed"} = Held
  BY DEF Held, Places, Unlocked
<1>1. CASE WriteFails(p)
  <2>1. Goes(p, "write", "restore") /\ at[p] \in Held
    BY <1>1, <1>h DEF WriteFails, Goes
  <2>2. file' \in Content /\ file'.rest = file.rest
    BY <1>1, <1>t, <2>1, HeldFacts DEF WriteFails
  <2> QED
    BY <1>1, <1>t, <1>f, <1>h, <2>1, <2>2, HeldBase DEF WriteFails
<1>2. CASE Restarted(p)
  BY <1>2, <1>t, <1>h, HeldBase DEF Restarted
<1>3. CASE RestartFails(p)
  BY <1>3, <1>t, <1>f, <1>h, HeldBase DEF RestartFails
<1>4. CASE Unverified(p)
  BY <1>4, <1>t, <1>f, <1>h, HeldBase DEF Unverified, disk
<1>5. CASE Restore(p)
  <2>1. at[p] \in Held /\ Goes(p, "restore", IF work[p].attempted THEN "rerun" ELSE "rolled_back")
    BY <1>5, <1>h DEF Restore, Goes
  <2>2. file' \in Content /\ file'.rest = file.rest
    BY <1>5, <2>1, HeldFacts DEF Restore
  <2> QED
    BY <1>5, <1>t, <1>h, <2>1, <2>2, HeldBase DEF Restore
<1>6. CASE RestoreFails(p)
  <2>1. Goes(p, "restore", "rollback_failed") /\ at[p] \in Held
    BY <1>6, <1>h DEF RestoreFails, Goes
  <2>2. file' \in Content /\ file'.rest = file.rest
    BY <1>6, <1>t, <2>1, HeldFacts DEF RestoreFails
  <2> QED
    BY <1>6, <1>t, <1>f, <1>h, <2>1, <2>2, HeldBase DEF RestoreFails
<1>7. CASE Rerun(p)
  BY <1>7, <1>t, <1>h, HeldBase DEF Rerun
<1>8. CASE RerunFails(p)
  BY <1>8, <1>t, <1>f, <1>h, HeldBase DEF RerunFails
<1> QED
  BY <1>1, <1>2, <1>3, <1>4, <1>5, <1>6, <1>7, <1>8

\* The types of what neither an apply nor an edit changes.
Rest ==
    /\ current \in Policies \cup {None}
    /\ known \in Policies \cup {None}
    /\ candidates \subseteq Policies
    /\ log \subseteq [outcome : Outcomes, target : Routes]
    /\ route \in Routes \cup {Initial}
    /\ digest \in Content
    /\ offered \in [Controllers -> Policies \cup {None}]
    /\ verified \subseteq Bundles

\* A program goes to a place outside the lock, and gives it back if it had it.
LEMMA UnlockedBase ==
    ASSUME Base, NEW p \in Programs, NEW to \in Unlocked, NEW w \in Work \cup {None},
           at' = [at EXCEPT ![p] = to],
           work' = [work EXCEPT ![p] = w],
           w # None <=> to \in {"wait", "done"},
           w # None => w.bundle \in (IF p = receiver THEN Policies ELSE Routes),
           to = "done" => w.found \in Content,
           owner' = IF owner = p THEN None ELSE owner,
           UNCHANGED disk,
           counts' \in [DOMAIN Bounds -> Nat], counts'.edits = counts.edits,
           Rest'
    PROVE  Base'
<1> USE DEF Base
<1>1. /\ at' \in [Programs -> Places] /\ at'[p] = to
      /\ \A q \in Programs \ {p} : at'[q] = at[q]
  BY DEF TypeOK, Places, Unlocked
<1>2. /\ work' \in [Programs -> Work \cup {None}] /\ work'[p] = w
      /\ \A q \in Programs \ {p} : work'[q] = work[q]
  BY DEF TypeOK
<1>3. owner' \in Programs \cup {None} /\ owner' # p
  BY NoneAssumption DEF TypeOK
<1>4. \A q \in Programs \ {p} : owner' = q <=> owner = q
  BY NoneAssumption
<1>5. Placed'
  <2>1. work'[p] # None <=> at'[p] \notin {"idle", "active", "standby", "choose"}
    BY <1>1, <1>2 DEF Unlocked
  <2>2. owner' = p <=> at'[p] \notin Unlocked
    BY <1>1, <1>3
  <2> QED
    BY <2>1, <2>2, <1>1, <1>2, <1>4 DEF Placed, TypeOK
<1>6. TypeOK'
  BY <1>1, <1>2, <1>3, <1>5 DEF TypeOK, Rest, disk
<1>7. Asks'
  BY <1>2, ProgramAssumption DEF Asks, Programs
<1>8. Loaded'
  <2>1. at'[p] \notin {"idle", "active", "standby", "choose", "wait"} => work'[p].found \in Content
    BY <1>1, <1>2 DEF Unlocked
  <2>2. \A q \in Programs \ {p} : backups'[work'[q].bundle] = backups[work[q].bundle]
    BY <1>2 DEF disk
  <2> QED
    BY <1>1, <1>2, <1>3, <1>4, <2>1, <2>2 DEF Loaded, Backup
<1> QED
  BY <1>6, <1>7, <1>8 DEF EditsKept, disk

\* The ends of an apply.
LEMMA ApplyEndBase ==
    ASSUME Base, NEW p \in Programs,
           Declines(p) \/ CannotStart(p) \/ Succeeds(p) \/ Raise(p)
    PROVE  Base'
<1> USE DEF Base
<1>t. counts \in [DOMAIN Bounds -> Nat] /\ Rest /\ None \in Work \cup {None}
  BY DEF TypeOK, Rest
<1>u. {"idle", "wait", "done"} \subseteq Unlocked
  BY DEF Unlocked
<1>1. CASE Declines(p) \/ CannotStart(p)
  <2>1. at' = [at EXCEPT ![p] = "idle"] /\ work' = [work EXCEPT ![p] = None]
    BY <1>1 DEF Declines, CannotStart, Goes, Drops
  <2>2. UNCHANGED disk /\ owner' = (IF owner = p THEN None ELSE owner) /\ Rest'
    BY <1>1, <1>t DEF Declines, CannotStart, Rest, recv, pipe
  <2>3. counts' \in [DOMAIN Bounds -> Nat] /\ counts'.edits = counts.edits
    BY <1>1, <1>t, CountType, CountNames DEF Declines, CannotStart
  <2> QED
    BY <1>t, <1>u, <2>1, <2>2, <2>3, UnlockedBase
<1>2. CASE Succeeds(p)
  <2>1. at' = [at EXCEPT ![p] = "done"] /\ at[p] = "smoke"
    BY <1>2 DEF Succeeds, Goes
  <2>2. /\ at[p] \in Held
        /\ at[p] \notin {"idle", "active", "standby", "choose", "wait"}
    BY <2>1 DEF Held, Places, Unlocked
  <2>3. work[p] \in Work /\ work[p] # None /\ work[p].found \in Content /\ owner = p
    BY <2>2, HeldFacts, WorkFields DEF Loaded
  <2>4. work' = [work EXCEPT ![p] = work[p]]
    BY <1>2 DEF Succeeds, TypeOK
  <2>5. work[p].bundle \in (IF p = receiver THEN Policies ELSE Routes)
    BY <2>3 DEF Asks, Programs
  <2>6. UNCHANGED disk /\ UNCHANGED counts /\ owner' = None
    BY <1>2 DEF Succeeds
  <2>7. Rest'
    BY <1>2, <1>t, <2>3, WorkFields DEF Succeeds, Rest, recv, pipe
  <2> QED
    BY <1>t, <1>u, <2>1, <2>3, <2>4, <2>5, <2>6, <2>7, UnlockedBase
<1>3. CASE Raise(p)
  <2>1. at' = [at EXCEPT ![p] = "idle"] /\ work' = [work EXCEPT ![p] = None]
    BY <1>3 DEF Raise, Goes, Drops
  <2>2. at[p] \in Held
    BY <1>3 DEF Raise, Goes, Held, Places, Unlocked
  <2>3. UNCHANGED <<disk, counts>> /\ owner' = (IF owner = p THEN None ELSE owner) /\ Rest'
    BY <1>3, <1>t, <2>2, HeldFacts DEF Raise, Rest, recv, pipe
  <2> QED
    BY <1>t, <1>u, <2>1, <2>3, UnlockedBase
<1> QED
  BY <1>1, <1>2, <1>3

\* What the receiver may choose is later than what it knows.
LEMMA UpdatesFacts ==
    ASSUME TypeOK, NEW p \in Updates
    PROVE  p \in Policies /\ Sequence[p] > SequenceOf(known)
BY DEF TypeOK, Updates, Highest

\* The receiver on its way to a choice, and after an apply.
LEMMA ReceiverBase ==
    ASSUME Base,
           \/ ReceiverSteps \/ CommitFails
           \/ FetchFails("active", "standby") \/ FetchFails("standby", "choose")
    PROVE  Base'
<1> USE DEF Base
<1>t. /\ counts \in [DOMAIN Bounds -> Nat] /\ Rest /\ file \in Content
      /\ receiver \in Programs /\ None \in Work \cup {None}
      /\ at \in [Programs -> Places] /\ work \in [Programs -> Work \cup {None}]
  BY DEF TypeOK, Rest, Programs
<1>u. {"idle", "active", "standby", "choose", "wait", "done"} = Unlocked
  BY DEF Unlocked
<1>f. Count("faults") => counts' \in [DOMAIN Bounds -> Nat] /\ counts'.edits = counts.edits
  BY <1>t, CountType, CountNames
<1>o. at[receiver] \in Unlocked => owner # receiver
  BY <1>t DEF TypeOK, Placed
<1>n. at[receiver] \in {"idle", "active", "standby", "choose"} =>
        work[receiver] = None /\ work = [work EXCEPT ![receiver] = None]
  BY <1>t DEF TypeOK, Placed
\* A move before anything is chosen.
<1>m. ASSUME NEW from \in {"idle", "active", "standby", "choose"},
             NEW to \in {"idle", "active", "standby", "choose"},
             Goes(receiver, from, to), UNCHANGED <<disk, owner, work>>,
             counts' \in [DOMAIN Bounds -> Nat], counts'.edits = counts.edits, Rest'
      PROVE  Base'
  <2>1. at' = [at EXCEPT ![receiver] = to] /\ at[receiver] = from /\ to \in Unlocked
    BY <1>m, <1>u DEF Goes
  <2>2. work' = [work EXCEPT ![receiver] = None]
    BY <1>m, <1>n, <2>1
  <2>3. owner' = (IF owner = receiver THEN None ELSE owner)
    BY <1>m, <1>o, <1>u, <2>1
  <2>4. to \notin {"wait", "done"} /\ UNCHANGED disk
    BY <1>m
  <2> QED
    BY <1>t, <1>m, <2>1, <2>2, <2>3, <2>4, UnlockedBase
<1>1. CASE Start
  <2>1. Rest'
    BY <1>1, <1>t DEF Start, Rest, pipe
  <2> QED
    BY <1>1, <1>t, <1>m, <2>1 DEF Start
<1>2. ASSUME NEW c \in Controllers,
             NEW from \in {"idle", "active", "standby", "choose"},
             NEW to \in {"idle", "active", "standby", "choose"}, Fetch(c, from, to)
      PROVE  Base'
  <2>1. Rest'
    BY <1>2, <1>t DEF Fetch, Rest, pipe
  <2> QED
    BY <1>2, <1>t, <1>m, <2>1 DEF Fetch
<1>3. ASSUME NEW from \in {"idle", "active", "standby", "choose"},
             NEW to \in {"idle", "active", "standby", "choose"}, FetchFails(from, to)
      PROVE  Base'
  <2>1. Rest'
    BY <1>3, <1>t DEF FetchFails, Rest, recv, pipe
  <2> QED
    BY <1>3, <1>f, <1>m, <2>1 DEF FetchFails
<1>4. CASE NoUpdate
  <2>1. Rest'
    BY <1>4, <1>t DEF NoUpdate, Ends, Rest, pipe
  <2> QED
    BY <1>4, <1>t, <1>m, <2>1 DEF NoUpdate
<1>5. CASE Choose
  <2>1. PICK p \in Updates : work' = [work EXCEPT ![receiver] = Asked(p, file)]
    BY <1>5 DEF Choose
  <2>2. p \in Policies /\ p \in Bundles
    BY <2>1, UpdatesFacts DEF Bundles
  <2>3. Asked(p, file) \in Work /\ Asked(p, file) # None /\ Asked(p, file).bundle = p
    BY <1>t, <2>2, AskedFields, WorkFields
  <2>4. at' = [at EXCEPT ![receiver] = "wait"] /\ at[receiver] = "choose" /\ "wait" \in Unlocked
    BY <1>5, <1>u DEF Choose, Goes
  <2>5. UNCHANGED <<disk, counts>> /\ owner' = (IF owner = receiver THEN None ELSE owner)
    BY <1>5, <1>o, <1>u, <2>4 DEF Choose
  <2>6. Rest'
    BY <1>5, <1>t DEF Choose, Ends, Rest, pipe
  <2> QED
    BY <1>t, <2>1, <2>2, <2>3, <2>4, <2>5, <2>6, UnlockedBase
<1>6. CASE Commit \/ CommitFails
  <2>1. at' = [at EXCEPT ![receiver] = "idle"] /\ at[receiver] = "done"
    BY <1>6 DEF Commit, CommitFails, Goes
  <2>2. work[receiver] # None /\ work[receiver].bundle \in Policies
    BY <1>t, <2>1 DEF TypeOK, Placed, Asks
  <2>3. work' = [work EXCEPT ![receiver] = None] /\ UNCHANGED disk
    BY <1>6 DEF Commit, CommitFails, Drops
  <2>4. counts' \in [DOMAIN Bounds -> Nat] /\ counts'.edits = counts.edits
    BY <1>6, <1>t, <1>f DEF Commit, CommitFails
  <2>5. owner' = (IF owner = receiver THEN None ELSE owner)
    BY <1>6, <1>o, <1>u, <2>1 DEF Commit, CommitFails
  <2>6. Rest'
    BY <1>6, <1>t, <2>2 DEF Commit, CommitFails, Rest, pipe
  <2> QED
    BY <1>t, <1>u, <2>1, <2>3, <2>4, <2>5, <2>6, UnlockedBase
<1> QED
  BY <1>1, <1>2, <1>3, <1>4, <1>5, <1>6 DEF ReceiverSteps, Controllers

\* The pipeline, and both programs when they are killed.
LEMMA PipelineBase ==
    ASSUME Base,
           (\E r \in Routes : Decide(r)) \/ Activated \/ KillReceiver \/ KillPipeline
    PROVE  Base'
<1> USE DEF Base
<1>t. /\ counts \in [DOMAIN Bounds -> Nat] /\ Rest /\ file \in Content
      /\ receiver \in Programs /\ pipeline \in Programs /\ receiver # pipeline
      /\ None \in Work \cup {None}
  BY ProgramAssumption DEF TypeOK, Rest, Programs
<1>u. {"idle", "wait", "done"} \subseteq Unlocked
  BY DEF Unlocked
<1>c. \A b \in {"faults", "decisions"} :
        Count(b) => counts' \in [DOMAIN Bounds -> Nat] /\ counts'.edits = counts.edits
  BY <1>t, CountType, CountNames
<1>1. ASSUME NEW r \in Routes, Decide(r) PROVE Base'
  <2>1. work' = [work EXCEPT ![pipeline] = Asked(r, digest)]
    BY <1>1 DEF Decide
  <2>3. Asked(r, digest) \in Work /\ Asked(r, digest) # None /\ Asked(r, digest).bundle = r
    BY <1>t, AskedFields, WorkFields DEF Rest, Bundles
  <2>4. at' = [at EXCEPT ![pipeline] = "wait"] /\ at[pipeline] = "idle"
    BY <1>1 DEF Decide, Goes
  <2>5. UNCHANGED disk /\ owner' = (IF owner = pipeline THEN None ELSE owner)
    BY <1>1, <1>t, <1>u, <2>4 DEF Decide, TypeOK, Placed
  <2>6. Rest'
    BY <1>1, <1>t DEF Decide, Rest, recv, Outcomes
  <2>7. counts' \in [DOMAIN Bounds -> Nat] /\ counts'.edits = counts.edits
    BY <1>1, <1>c DEF Decide
  <2> QED
    BY <1>t, <1>u, <2>1, <2>3, <2>4, <2>5, <2>6, <2>7, UnlockedBase
<1>2. CASE Activated
  <2>1. at' = [at EXCEPT ![pipeline] = "idle"] /\ at[pipeline] = "done"
    BY <1>2 DEF Activated, Goes
  <2>2. work[pipeline] \in Work /\ work[pipeline].bundle \in Routes /\ work[pipeline].found \in Content
    BY <1>t, <2>1 DEF TypeOK, Placed, Asks, Loaded
  <2>3. work' = [work EXCEPT ![pipeline] = None] /\ UNCHANGED <<disk, counts>>
    BY <1>2 DEF Activated, Drops
  <2>4. owner' = (IF owner = pipeline THEN None ELSE owner)
    BY <1>2, <1>t, <1>u, <2>1 DEF Activated, TypeOK, Placed
  <2>5. Rendered(pipeline) \in Content
    BY <2>2, WorkFields, RenderedFields DEF Rendered
  <2>6. Rest'
    BY <1>2, <1>t, <2>2, <2>5 DEF Activated, Rest, recv
  <2> QED
    BY <1>t, <1>u, <2>1, <2>3, <2>4, <2>6, UnlockedBase
<1>3. ASSUME NEW p \in Programs, Killed(p), Rest' PROVE Base'
  <2>1. at' = [at EXCEPT ![p] = "idle"] /\ work' = [work EXCEPT ![p] = None]
    BY <1>3 DEF Killed, Drops
  <2>2. UNCHANGED disk /\ owner' = (IF owner = p THEN None ELSE owner)
    BY <1>3 DEF Killed
  <2>3. counts' \in [DOMAIN Bounds -> Nat] /\ counts'.edits = counts.edits
    BY <1>3, <1>c DEF Killed
  <2> QED
    BY <1>t, <1>u, <1>3, <2>1, <2>2, <2>3, UnlockedBase
<1>4. CASE KillReceiver
  <2>1. Rest'
    BY <1>4, <1>t DEF KillReceiver, Killed, Ends, Rest
  <2> QED
    BY <1>4, <1>t, <1>3, <2>1 DEF KillReceiver
<1>5. CASE KillPipeline
  <2>1. file.managed \notin Policies => file.managed \in Routes \cup {Initial}
    BY <1>t, ContentFields DEF Bundles
  <2>2. Rest'
    BY <1>5, <1>t, <2>1 DEF KillPipeline, Killed, Rest, recv
  <2> QED
    BY <1>5, <1>t, <1>3, <2>2 DEF KillPipeline
<1> QED
  BY <1>1, <1>2, <1>4, <1>5

LEMMA AroundBase ==
    ASSUME Base,
           \/ \E r \in Routes : Block(r)
           \/ Edit
           \/ \E c \in Controllers, p \in Policies : Publish(c, p)
           \/ UNCHANGED vars
    PROVE  Base'
<1> USE DEF Base
<1>t. counts \in [DOMAIN Bounds -> Nat] /\ file \in Content
  BY DEF TypeOK
<1>1. ASSUME NEW r \in Routes, Block(r) PROVE Base'
  <2>1. counts' \in [DOMAIN Bounds -> Nat] /\ counts'.edits = counts.edits
    BY <1>1, <1>t, CountType, CountNames DEF Block
  <2>2. TypeOK'
    BY <1>1, <2>1 DEF Block, TypeOK, Placed, Outcomes, disk, recv
  <2> QED
    BY <1>1, <2>1, <2>2 DEF Block, EditsKept, Asks, Loaded, Backup, disk
<1>2. CASE Edit
  <2>1. counts' \in [DOMAIN Bounds -> Nat] /\ counts'.edits = counts.edits + 1 /\ counts.edits < MaxEdits
    BY <1>2, <1>t, CountType, CountNames DEF Edit
  <2>2. file' \in Content /\ file'.rest = file.rest + 1
    BY <1>2, <1>t, <2>1, RouterBounds DEF Edit, Content, EditsKept
  <2>3. TypeOK'
    BY <1>2, <2>1, <2>2 DEF Edit, TypeOK, Placed, recv, pipe
  <2>4. Loaded'
    BY <1>2, NoneAssumption DEF Edit, Loaded
  <2> QED
    BY <1>2, <2>1, <2>2, <2>3, <2>4 DEF Edit, EditsKept, Asks
<1>3. ASSUME NEW c \in Controllers, NEW p \in Policies, Publish(c, p) PROVE Base'
  <2>1. counts' \in [DOMAIN Bounds -> Nat] /\ counts'.edits = counts.edits
    BY <1>3, <1>t, CountType, CountNames DEF Publish
  <2>2. TypeOK'
    BY <1>3, <2>1 DEF Publish, TypeOK, Placed, disk, recv, pipe
  <2> QED
    BY <1>3, <2>1, <2>2 DEF Publish, EditsKept, Asks, Loaded, Backup, disk
<1>4. CASE UNCHANGED vars
  BY <1>4 DEF vars, TypeOK, Placed, EditsKept, Asks, Loaded, Backup
<1> QED
  BY <1>1, <1>2, <1>3, <1>4

LEMMA BaseStep == Base /\ [Next]_vars => Base'
<1> SUFFICES ASSUME Base, [Next]_vars PROVE Base'
  OBVIOUS
<1>1. ASSUME NEW p \in Programs, ApplySteps(p) \/ Fails(p) PROVE Base'
  BY <1>1, TakeBase, WriteBase, DiskBase, ApplyEndBase DEF ApplySteps, Fails
<1> QED
  BY <1>1, ReceiverBase, PipelineBase, AroundBase DEF Next

LEMMA BaseHolds == Spec => []Base
<1>1. Init => Base
  <2> SUFFICES ASSUME Init PROVE Base
    OBVIOUS
  <2>1. file \in Content
    BY RouterBounds DEF Init, Content, Bundles
  <2>2. TypeOK
    BY <2>1, NoneAssumption DEF Init, TypeOK, Placed, Places, Unlocked, Bounds
  <2>3. Loaded
    BY NoneAssumption DEF Init, Loaded
  <2> QED
    BY <2>2, <2>3 DEF Init, Base, EditsKept, Asks, Bounds, Programs
<1> QED
  BY <1>1, BaseStep, PTL DEF Spec

\* Every variable keeps its type, a program has something to apply exactly from
\* its choice to its end, and the lock exactly from the backup to the receipt.
THEOREM TypeCorrect == Spec => []TypeOK
BY BaseHolds, PTL DEF Base

\* No edit made between two applies is ever undone by a restore.
THEOREM EditsKeptHolds == Spec => []EditsKept
BY BaseHolds, PTL DEF Base

-----------------------------------------------------------------------------
(* Rollback *)

\* What an apply must know to undo what it did: before the file is replaced nothing
\* is attempted, and until a restart is attempted LiteLLM runs what it ran.
UndoableAt(p) ==
    /\ at[p] \in {"wait", "write"} => ~ work[p].attempted
    /\ at[p] \in {"restart", "smoke"} => work[p].attempted
    /\ at[p] = "write" => running = work[p].ran
    /\ at[p] = "restore" /\ ~ work[p].attempted => running = work[p].ran
    /\ at[p] = "rerun" => file = work[p].found
    /\ at[p] = "rolled_back" => file = work[p].found /\ running \in {work[p].ran, file}

Undoable == \A p \in Programs : UndoableAt(p)

\* A program that does not move is disturbed only under its lock.
LEMMA OtherUndoable ==
    ASSUME NEW q \in Programs, UndoableAt(q), at'[q] = at[q], work'[q] = work[q],
           at[q] \in Unlocked \/ UNCHANGED <<file, running>>
    PROVE  UndoableAt(q)'
BY DEF UndoableAt, Unlocked

\* Nor is one that has nothing to apply, or has applied it.
LEMMA FreeUndoable ==
    ASSUME NEW q \in Programs,
           at'[q] \in {"idle", "active", "standby", "choose", "done", "rollback_failed"}
    PROVE  UndoableAt(q)'
BY DEF UndoableAt

LEMMA UndoStep == Base /\ Undoable /\ [Next]_vars => Undoable'
<1> SUFFICES ASSUME Base, Undoable, [Next]_vars, NEW q \in Programs PROVE UndoableAt(q)'
  BY DEF Undoable
<1>q. UndoableAt(q)
  BY DEF Undoable
<1>t. /\ at \in [Programs -> Places] /\ work \in [Programs -> Work \cup {None}]
      /\ file \in Content /\ digest \in Content
      /\ receiver \in Programs /\ pipeline \in Programs /\ receiver # pipeline
  BY ProgramAssumption DEF Base, TypeOK, Programs
<1>h. Held = {"write", "restart", "smoke", "restore", "rerun", "rolled_back", "rollback_failed"}
  BY DEF Held, Places, Unlocked
<1>o. \A p \in Programs : at[p] \in Held /\ p # q => at[q] \in Unlocked
  BY HeldFacts, <1>t DEF Held
<1>1. ASSUME NEW p \in Programs, ApplySteps(p) \/ Fails(p) PROVE UndoableAt(q)'
  <2>1. CASE p # q
    <3>1. at'[q] = at[q] /\ work'[q] = work[q]
      BY <1>1, <1>t, <2>1 DEF ApplySteps, Fails, Take, Declines, CannotStart, Write, WriteFails,
           Restarted, RestartFails, Unverified, Succeeds, Restore, RestoreFails, Rerun,
           RerunFails, Raise, Goes, Drops
    <3>2. at[p] \in Held \/ UNCHANGED <<file, running>>
      BY <1>1, <1>h DEF ApplySteps, Fails, Take, Declines, CannotStart, Write, WriteFails,
           Restarted, RestartFails, Unverified, Succeeds, Restore, RestoreFails, Rerun,
           RerunFails, Raise, Goes, disk
    <3> QED
      BY <1>q, <1>o, <2>1, <3>1, <3>2, OtherUndoable
  <2>2. CASE p = q
    <3>w. at[q] \in Held => work[q] \in Work /\ Backup(q) = work[q].found
      BY HeldFacts
    <3>1. CASE Take(q)
      <4>1. at[q] = "wait" /\ at'[q] = "write" /\ ~ work[q].attempted
        BY <1>q, <1>t, <3>1 DEF Take, Goes, UndoableAt
      <4>2. work[q] \in Work
        BY <1>t, <4>1 DEF Base, TypeOK, Placed
      <4>3. work'[q].attempted = work[q].attempted /\ work'[q].ran = running /\ running' = running
        BY <1>t, <3>1, <4>2 DEF Take, Work
      <4> QED
        BY <4>1, <4>3 DEF UndoableAt
    <3>2. CASE Declines(q) \/ CannotStart(q) \/ Succeeds(q) \/ Raise(q)
                \/ RestoreFails(q) \/ RerunFails(q)
      <4>1. at'[q] \in {"idle", "done", "rollback_failed"}
        BY <1>t, <3>2 DEF Declines, CannotStart, Succeeds, Raise, RestoreFails, RerunFails, Goes
      <4> QED
        BY <4>1, FreeUndoable
    <3>3. CASE Write(q)
      <4>1. at[q] = "write" /\ at'[q] = "restart" /\ work[q] \in Work
        BY <1>t, <1>h, <3>3, <3>w DEF Write, Goes
      <4>2. work'[q].attempted
        BY <1>t, <3>3, <4>1 DEF Write, Work
      <4> QED
        BY <4>1, <4>2 DEF UndoableAt
    <3>4. CASE WriteFails(q)
      <4>1. at[q] = "write" /\ at'[q] = "restore" /\ work'[q] = work[q] /\ running' = running
        BY <1>t, <3>4 DEF WriteFails, Goes
      <4> QED
        BY <1>q, <4>1 DEF UndoableAt
    <3>5. CASE Restarted(q)
      <4>1. at[q] = "restart" /\ at'[q] = "smoke" /\ work'[q] = work[q]
        BY <1>t, <3>5 DEF Restarted, Goes
      <4> QED
        BY <1>q, <4>1 DEF UndoableAt
    <3>6. CASE RestartFails(q) \/ Unverified(q)
      <4>1. at[q] \in {"restart", "smoke"} /\ at'[q] = "restore" /\ work'[q] = work[q]
        BY <1>t, <3>6 DEF RestartFails, Unverified, Goes
      <4> QED
        BY <1>q, <4>1 DEF UndoableAt
    <3>7. CASE Restore(q)
      <4>1. /\ at[q] = "restore"
            /\ at'[q] = IF work[q].attempted THEN "rerun" ELSE "rolled_back"
            /\ work'[q] = work[q] /\ running' = running
        BY <1>t, <3>7 DEF Restore, Goes
      <4>2. file' = work[q].found
        BY <1>h, <3>7, <3>w, <4>1 DEF Restore
      <4> QED
        BY <1>q, <4>1, <4>2 DEF UndoableAt
    <3>8. CASE Rerun(q)
      <4>1. /\ at[q] = "rerun" /\ at'[q] = "rolled_back" /\ work'[q] = work[q]
            /\ running' = file /\ file' = file
        BY <1>t, <3>8 DEF Rerun, Goes
      <4> QED
        BY <1>q, <4>1 DEF UndoableAt
    <3> QED
      BY <1>1, <2>2, <3>1, <3>2, <3>3, <3>4, <3>5, <3>6, <3>7, <3>8 DEF ApplySteps, Fails
  <2> QED
    BY <2>1, <2>2
<1>2. ASSUME ReceiverSteps \/ CommitFails
             \/ FetchFails("active", "standby") \/ FetchFails("standby", "choose")
      PROVE  UndoableAt(q)'
  <2>1. CASE q # receiver
    <3>1. at'[q] = at[q] /\ work'[q] = work[q] /\ UNCHANGED <<file, running>>
      BY <1>2, <1>t, <2>1 DEF ReceiverSteps, Start, Fetch, FetchFails, NoUpdate, Choose, Commit,
           CommitFails, Goes, Drops, disk
    <3> QED
      BY <1>q, <3>1, OtherUndoable
  <2>2. CASE q = receiver /\ ~ Choose
    <3>1. at'[q] \in {"idle", "active", "standby", "choose"}
      BY <1>2, <1>t, <2>2 DEF ReceiverSteps, Start, Fetch, FetchFails, NoUpdate, Commit,
           CommitFails, Goes
    <3> QED
      BY <3>1, FreeUndoable
  <2>3. CASE q = receiver /\ Choose
    <3>1. PICK p \in Updates : work' = [work EXCEPT ![receiver] = Asked(p, file)]
      BY <2>3 DEF Choose
    <3>2. at'[q] = "wait" /\ ~ work'[q].attempted
      BY <1>t, <2>3, <3>1 DEF Choose, Goes, Asked
    <3> QED
      BY <3>2 DEF UndoableAt
  <2> QED
    BY <2>1, <2>2, <2>3
<1>3. ASSUME NEW r \in Routes, Decide(r) PROVE UndoableAt(q)'
  <2>1. CASE q = pipeline
    <3>1. at'[q] = "wait" /\ ~ work'[q].attempted
      BY <1>3, <1>t, <2>1 DEF Decide, Goes, Asked
    <3> QED
      BY <3>1 DEF UndoableAt
  <2>2. CASE q # pipeline
    <3>1. at'[q] = at[q] /\ work'[q] = work[q] /\ UNCHANGED <<file, running>>
      BY <1>3, <1>t, <2>2 DEF Decide, Goes, disk
    <3> QED
      BY <1>q, <3>1, OtherUndoable
  <2> QED
    BY <2>1, <2>2
<1>4. ASSUME Activated \/ KillReceiver \/ KillPipeline PROVE UndoableAt(q)'
  <2>1. \/ at'[q] = "idle"
        \/ at'[q] = at[q] /\ work'[q] = work[q] /\ UNCHANGED <<file, running>>
    BY <1>4, <1>t DEF Activated, KillReceiver, KillPipeline, Killed, Goes, Drops, disk
  <2> QED
    BY <1>q, <2>1, OtherUndoable, FreeUndoable
<1>5. ASSUME NEW r \in Routes, Block(r) PROVE UndoableAt(q)'
  BY <1>5, <1>q, OtherUndoable DEF Block, disk
<1>6. CASE Edit
  <2>1. at[q] \in Unlocked
    BY <1>6, NoneAssumption DEF Edit, Base, TypeOK, Placed
  <2> QED
    BY <1>6, <1>q, <2>1, OtherUndoable DEF Edit
<1>7. ASSUME NEW c \in Controllers, NEW p \in Policies, Publish(c, p) PROVE UndoableAt(q)'
  BY <1>7, <1>q, OtherUndoable DEF Publish, disk
<1>8. CASE UNCHANGED vars
  BY <1>8, <1>q, OtherUndoable DEF vars
<1> QED
  BY <1>1, <1>2, <1>3, <1>4, <1>5, <1>6, <1>7, <1>8 DEF Next

\* An apply reported as rolled back has left the file as it found it under the
\* lock, and LiteLLM running what it ran then, or that file: whatever step of it
\* failed, and whatever the other program did.
THEOREM RolledBackHolds == Spec => []RolledBack
<1>1. Init => Undoable
  BY DEF Init, Undoable, UndoableAt
<1>2. Undoable => RolledBack
  BY DEF Undoable, UndoableAt, RolledBack
<1> QED
  BY <1>1, <1>2, UndoStep, BaseHolds, PTL DEF Spec

-----------------------------------------------------------------------------
(* The last known good policy *)

\* While the receiver chooses, its memory is the file; what it applies is later
\* than the file, and verified once it is done.
Receiving ==
    /\ at[receiver] \in {"active", "standby", "choose"} => known = current
    /\ work[receiver] # None => Sequence[work[receiver].bundle] > SequenceOf(current)
    /\ at[receiver] = "done" => work[receiver].bundle \in verified

\* What is left of it when the receiver has nothing to apply.
LEMMA IdleReceiving ==
    ASSUME at'[receiver] \notin {"active", "standby", "choose", "done"}, work'[receiver] = None
    PROVE  Receiving'
BY DEF Receiving

LEMMA SameReceiving ==
    ASSUME Receiving, at'[receiver] = at[receiver], UNCHANGED <<known, current>>,
           work'[receiver] # None => work[receiver] # None /\ work'[receiver].bundle = work[receiver].bundle,
           at[receiver] = "done" => work'[receiver] = work[receiver],
           verified \subseteq verified'
    PROVE  Receiving'
BY DEF Receiving, SequenceOf

LEMMA ReceivingStep ==
    ASSUME Base, Receiving, CommittedVerified, [Next]_vars
    PROVE  /\ Receiving' /\ CommittedVerified'
           /\ current' # current => SequenceOf(current') > SequenceOf(current)
<1>t. /\ at \in [Programs -> Places] /\ work \in [Programs -> Work \cup {None}]
      /\ receiver \in Programs /\ pipeline \in Programs /\ receiver # pipeline
      /\ current \in Policies \cup {None} /\ known \in Policies \cup {None}
      /\ verified \subseteq Bundles
  BY ProgramAssumption DEF Base, TypeOK, Programs
<1>p. work[receiver] # None => work[receiver] \in Work /\ work[receiver].bundle \in Policies
  BY <1>t DEF Base, Asks
<1>w. work[receiver] # None <=> at[receiver] \notin {"idle", "active", "standby", "choose"}
  BY <1>t DEF Base, TypeOK, Placed
<1>i. current' = current /\ verified \subseteq verified' => CommittedVerified'
  BY DEF CommittedVerified
<1>1. ASSUME NEW p \in Programs, ApplySteps(p) \/ Fails(p)
      PROVE  Receiving' /\ CommittedVerified' /\ current' = current
  <2>1. UNCHANGED <<known, current>> /\ verified \subseteq verified'
    BY <1>1 DEF ApplySteps, Fails, Take, Declines, CannotStart, Write, WriteFails,
         Restarted, RestartFails, Unverified, Succeeds, Restore, RestoreFails, Rerun,
         RerunFails, Raise, recv
  <2>2. CASE p # receiver
    <3>1. at'[receiver] = at[receiver] /\ work'[receiver] = work[receiver]
      BY <1>1, <1>t, <2>2 DEF ApplySteps, Fails, Take, Declines, CannotStart, Write, WriteFails,
           Restarted, RestartFails, Unverified, Succeeds, Restore, RestoreFails, Rerun,
           RerunFails, Raise, Goes, Drops
    <3> QED
      BY <1>i, <2>1, <3>1, SameReceiving
  <2>3. CASE p = receiver /\ (Take(p) \/ Write(p))
    <3>1. work[receiver] \in Work /\ at'[receiver] \notin {"active", "standby", "choose", "done"}
      BY <1>t, <1>p, <1>w, <2>3 DEF Take, Write, Goes
    <3>2. work'[receiver].bundle = work[receiver].bundle /\ work[receiver] # None
      BY <1>t, <2>3, <3>1, WorkFields DEF Take, Write, Work
    <3> QED
      BY <1>i, <2>1, <3>1, <3>2 DEF Receiving
  <2>4. CASE p = receiver /\ (Declines(p) \/ CannotStart(p) \/ Raise(p))
    <3>1. at'[receiver] = "idle" /\ work'[receiver] = None
      BY <1>t, <2>4 DEF Declines, CannotStart, Raise, Goes, Drops
    <3> QED
      BY <1>i, <2>1, <3>1, IdleReceiving
  <2>5. CASE p = receiver /\ Succeeds(p)
    <3>1. /\ at'[receiver] = "done" /\ work'[receiver] = work[receiver]
          /\ work[receiver].bundle \in verified'
      BY <1>t, <2>5 DEF Succeeds, Goes
    <3> QED
      BY <1>i, <2>1, <3>1 DEF Receiving
  <2>6. CASE p = receiver
             /\ \/ WriteFails(p) \/ Restarted(p) \/ RestartFails(p) \/ Unverified(p)
                \/ Restore(p) \/ RestoreFails(p) \/ Rerun(p) \/ RerunFails(p)
    <3>1. /\ at'[receiver] \notin {"active", "standby", "choose", "done"}
          /\ work'[receiver] = work[receiver]
      BY <1>t, <2>6 DEF WriteFails, Restarted, RestartFails, Unverified, Restore, RestoreFails,
           Rerun, RerunFails, Goes
    <3> QED
      BY <1>i, <2>1, <3>1 DEF Receiving
  <2> QED
    BY <1>1, <2>1, <2>2, <2>3, <2>4, <2>5, <2>6 DEF ApplySteps, Fails
<1>2. CASE Start \/ Fetch(active, "active", "standby") \/ Fetch(standby, "standby", "choose")
           \/ FetchFails("active", "standby") \/ FetchFails("standby", "choose")
  <2>1. /\ at'[receiver] \in {"active", "standby", "choose"} /\ known' = current
        /\ UNCHANGED <<current, work, verified>>
        /\ at[receiver] \in {"idle", "active", "standby"}
    BY <1>2, <1>t DEF Start, Fetch, FetchFails, Goes, Receiving, recv
  <2> QED
    BY <1>i, <1>w, <2>1 DEF Receiving
<1>3. CASE NoUpdate
  <2>1. /\ at'[receiver] = "idle" /\ at[receiver] = "choose"
        /\ UNCHANGED <<current, work, verified>>
    BY <1>3, <1>t DEF NoUpdate, Goes
  <2> QED
    BY <1>i, <1>w, <2>1, IdleReceiving
<1>4. CASE Choose
  <2>1. PICK p \in Updates : work' = [work EXCEPT ![receiver] = Asked(p, file)]
    BY <1>4 DEF Choose
  <2>2. p \in Policies /\ Sequence[p] > SequenceOf(known) /\ known = current
    BY <1>4, <2>1, UpdatesFacts DEF Base, Receiving, Choose, Goes
  <2>3. at'[receiver] = "wait" /\ work'[receiver].bundle = p /\ UNCHANGED <<current, verified>>
    BY <1>4, <1>t, <2>1 DEF Choose, Goes, Asked
  <2> QED
    BY <1>i, <2>2, <2>3 DEF Receiving, SequenceOf
<1>5. CASE Commit \/ CommitFails
  <2>1. at[receiver] = "done" /\ at'[receiver] = "idle" /\ work'[receiver] = None
    BY <1>5, <1>t DEF Commit, CommitFails, Goes, Drops
  <2>2. current' \in {current, work[receiver].bundle} /\ verified' = verified
    BY <1>5 DEF Commit, CommitFails
  <2>3. /\ work[receiver].bundle \in Policies /\ work[receiver].bundle \in verified
        /\ Sequence[work[receiver].bundle] > SequenceOf(current)
    BY <1>p, <1>w, <2>1 DEF Receiving
  <2>4. work[receiver].bundle # None
    BY <2>3, NoneAssumption DEF Bundles
  <2>5. SequenceOf(work[receiver].bundle) = Sequence[work[receiver].bundle]
    BY <2>4 DEF SequenceOf
  <2> QED
    BY <2>1, <2>2, <2>3, <2>5, IdleReceiving DEF CommittedVerified
<1>6. CASE KillReceiver
  <2>1. at'[receiver] = "idle" /\ work'[receiver] = None /\ UNCHANGED <<current, verified>>
    BY <1>6, <1>t DEF KillReceiver, Killed, Drops
  <2> QED
    BY <1>i, <2>1, IdleReceiving
<1>7. CASE \/ \E r \in Routes : Decide(r) \/ Block(r)
           \/ Activated \/ KillPipeline \/ Edit
           \/ \E c \in Controllers, p \in Policies : Publish(c, p)
           \/ UNCHANGED vars
  <2>1. /\ at'[receiver] = at[receiver] /\ work'[receiver] = work[receiver]
        /\ UNCHANGED <<known, current, verified>>
    BY <1>7, <1>t DEF Decide, Block, Activated, KillPipeline, Killed, Edit, Publish, Goes, Drops,
         recv, vars
  <2> QED
    BY <1>i, <2>1, SameReceiving
<1> QED
  BY <1>1, <1>2, <1>3, <1>4, <1>5, <1>6, <1>7 DEF Next, ReceiverSteps

LEMMA ReceivingHolds == Spec => [](Receiving /\ CommittedVerified)
<1>1. Init => Receiving /\ CommittedVerified
  BY DEF Init, Receiving, CommittedVerified, Programs
<1>2. Base /\ (Receiving /\ CommittedVerified) /\ [Next]_vars => (Receiving /\ CommittedVerified)'
  BY ReceivingStep
<1> QED
  BY <1>1, <1>2, BaseHolds, PTL DEF Spec

\* The last known good policy has been applied and verified, wherever the receiver
\* was killed.
THEOREM CommittedIsVerified == Spec => []CommittedVerified
BY ReceivingHolds, PTL

\* A later policy only ever replaces the last known good one, for any number of
\* policies of one sequence and whichever controllers answer.
THEOREM NeverBackHolds == Spec => NeverBack
<1>1. Base /\ (Receiving /\ CommittedVerified) /\ [Next]_vars =>
        [current' # current => SequenceOf(current') > SequenceOf(current)]_vars
  BY ReceivingStep
<1> QED
  BY <1>1, BaseHolds, ReceivingHolds, PTL DEF Spec, NeverBack

-----------------------------------------------------------------------------
(* Decisions and routes *)

Decided(b) == b \in Routes => \E d \in log : d.target = b /\ d.outcome # "blocked"

\* Whatever is in the file, may be written to it or restored has been decided.
DecidedAt(p) ==
    /\ work[p] # None => Decided(work[p].bundle)
    /\ owner = p => Decided(work[p].found.managed)

AllDecided == Decided(file.managed) /\ \A p \in Programs : DecidedAt(p)

LEMMA StillDecided ==
    ASSUME log \subseteq log'
    PROVE  \A b : Decided(b) => Decided(b)'
BY DEF Decided

\* A program drops what it applies, or stays as it is.
LEMMA SameDecided ==
    ASSUME Base, AllDecided, log \subseteq log', NEW p \in Programs,
           work'[p] = None \/ work'[p] = work[p],
           owner' = p => owner = p /\ work'[p] = work[p]
    PROVE  DecidedAt(p)'
BY StillDecided DEF AllDecided, DecidedAt, Decided

LEMMA DecidedStep == Base /\ AllDecided /\ [Next]_vars => AllDecided'
<1> SUFFICES ASSUME Base, AllDecided, [Next]_vars PROVE AllDecided'
  OBVIOUS
<1>t. /\ at \in [Programs -> Places] /\ work \in [Programs -> Work \cup {None}]
      /\ file \in Content /\ owner \in Programs \cup {None} /\ None \notin Programs
      /\ receiver \in Programs /\ pipeline \in Programs /\ receiver # pipeline
      /\ Programs = {receiver, pipeline}
  BY ProgramAssumption, NoneAssumption DEF Base, TypeOK, Programs
<1>h. Held = {"write", "restart", "smoke", "restore", "rerun", "rolled_back", "rollback_failed"}
  BY DEF Held, Places, Unlocked
<1>o. \A p \in Programs : owner = p => work[p] # None
  BY <1>t DEF Base, TypeOK, Placed, Unlocked
<1>a. Decided(file.managed) /\ \A p \in Programs : DecidedAt(p)
  BY DEF AllDecided
<1>1. ASSUME NEW p \in Programs, ApplySteps(p) \/ Fails(p) PROVE AllDecided'
  <2>1. log' = log
    BY <1>1 DEF ApplySteps, Fails, Take, Declines, CannotStart, Write, WriteFails,
         Restarted, RestartFails, Unverified, Succeeds, Restore, RestoreFails, Rerun,
         RerunFails, Raise, pipe
  <2>2. ASSUME NEW q \in Programs \ {p} PROVE DecidedAt(q)'
    <3>1. work'[q] = work[q]
      BY <1>1, <1>t, <2>2 DEF ApplySteps, Fails, Take, Declines, CannotStart, Write, WriteFails,
           Restarted, RestartFails, Unverified, Succeeds, Restore, RestoreFails, Rerun,
           RerunFails, Raise, Drops
    <3>2. owner' = q => owner = q
      BY <1>1, <1>t, <2>2 DEF ApplySteps, Fails, Take, Declines, CannotStart, Write, WriteFails,
           Restarted, RestartFails, Unverified, Succeeds, Restore, RestoreFails, Rerun,
           RerunFails, Raise
    <3> QED
      BY <2>1, <3>1, <3>2, SameDecided
  <2>3. DecidedAt(p)'
    <3>1. CASE Take(p)
      <4>1. work[p] \in Work /\ work[p] # None
        BY <1>t, <3>1, WorkFields DEF Take, Goes, Base, TypeOK, Placed
      <4>2. work'[p].bundle = work[p].bundle /\ work'[p].found = file
        BY <1>t, <3>1, <4>1 DEF Take, Work
      <4> QED
        BY <1>a, <2>1, <4>1, <4>2 DEF DecidedAt, Decided
    <3>2. CASE Write(p)
      <4>1. work[p] \in Work /\ work[p] # None /\ owner = p
        BY <1>h, <3>2, HeldFacts, WorkFields DEF Write, Goes
      <4>2. work'[p].bundle = work[p].bundle /\ work'[p].found = work[p].found
        BY <1>t, <3>2, <4>1 DEF Write, Work
      <4> QED
        BY <1>a, <2>1, <4>1, <4>2 DEF DecidedAt, Decided
    <3>3. CASE Declines(p) \/ CannotStart(p) \/ Raise(p)
      <4>1. work'[p] = None /\ owner' # p
        BY <1>t, <3>3 DEF Declines, CannotStart, Raise, Drops
      <4> QED
        BY <4>1 DEF DecidedAt
    <3>4. CASE \/ WriteFails(p) \/ Restarted(p) \/ RestartFails(p) \/ Unverified(p)
               \/ Succeeds(p) \/ Restore(p) \/ RestoreFails(p) \/ Rerun(p) \/ RerunFails(p)
      <4>1. work'[p] = work[p] /\ (owner' = p => owner = p)
        BY <1>t, <3>4 DEF WriteFails, Restarted, RestartFails, Unverified, Succeeds, Restore,
             RestoreFails, Rerun, RerunFails
      <4> QED
        BY <2>1, <4>1, SameDecided
    <3> QED
      BY <1>1, <3>1, <3>2, <3>3, <3>4 DEF ApplySteps, Fails
  <2>4. Decided(file.managed)'
    <3>1. CASE file' = file
      BY <1>a, <2>1, <3>1 DEF Decided
    <3>2. CASE at[p] \in Held /\ file' \in {Rendered(p), Backup(p)}
      <4>1. /\ owner = p /\ work[p] \in Work /\ Backup(p) = work[p].found
            /\ work[p].found \in Content
        BY <3>2, HeldFacts
      <4>2. Rendered(p).managed = work[p].bundle
        BY <4>1, WorkFields, RenderedFields DEF Rendered
      <4> QED
        BY <1>a, <1>o, <2>1, <3>2, <4>1, <4>2 DEF DecidedAt, Decided
    <3> QED
      BY <1>1, <1>h, <3>1, <3>2 DEF ApplySteps, Fails, Take, Declines, CannotStart, Write,
         WriteFails, Restarted, RestartFails, Unverified, Succeeds, Restore, RestoreFails, Rerun,
         RerunFails, Raise, Goes, disk
  <2> QED
    BY <2>2, <2>3, <2>4 DEF AllDecided
<1>2. ASSUME ReceiverSteps \/ CommitFails
             \/ FetchFails("active", "standby") \/ FetchFails("standby", "choose")
      PROVE  AllDecided'
  <2>1. UNCHANGED <<file, owner, log>> /\ work'[pipeline] = work[pipeline]
    BY <1>2, <1>t DEF ReceiverSteps, Start, Fetch, FetchFails, NoUpdate, Choose, Commit,
         CommitFails, Drops, disk, pipe
  <2>2. CASE ~ Choose
    <3>1. work'[receiver] \in {None, work[receiver]}
      BY <1>2, <1>t, <2>2 DEF ReceiverSteps, Start, Fetch, FetchFails, NoUpdate, Commit,
           CommitFails, Drops
    <3>2. at[receiver] \in Unlocked
      BY <1>2, <2>2 DEF ReceiverSteps, Start, Fetch, FetchFails, NoUpdate, Commit,
           CommitFails, Goes, Unlocked
    <3>3. owner # receiver
      BY <1>t, <3>2 DEF Base, TypeOK, Placed
    <3> QED
      BY <1>a, <1>t, <2>1, <3>1, <3>3, SameDecided DEF AllDecided, Decided
  <2>3. CASE Choose
    <3>1. PICK p \in Updates : work' = [work EXCEPT ![receiver] = Asked(p, file)]
      BY <2>3 DEF Choose
    <3>2. p \in Policies /\ work'[receiver].bundle = p
      BY <1>t, <3>1, UpdatesFacts DEF Asked, Base
    <3>3. owner' # receiver
      BY <1>t, <2>1, <2>3 DEF Choose, Goes, Base, TypeOK, Placed, Unlocked
    <3>4. DecidedAt(receiver)'
      BY <3>2, <3>3, BundleAssumption DEF DecidedAt, Decided
    <3>5. DecidedAt(pipeline)'
      BY <1>t, <2>1, SameDecided
    <3> QED
      BY <1>a, <1>t, <2>1, <3>4, <3>5 DEF AllDecided, Decided
  <2> QED
    BY <2>2, <2>3
<1>3. ASSUME NEW r \in Routes, Decide(r) PROVE AllDecided'
  <2>1. /\ UNCHANGED <<file, owner>> /\ log \subseteq log'
        /\ work' = [work EXCEPT ![pipeline] = Asked(r, digest)]
        /\ work'[receiver] = work[receiver]
    BY <1>3, <1>t DEF Decide, disk
  <2>2. work'[pipeline].bundle = r
    BY <1>t, <2>1 DEF Asked
  <2>3. \E d \in log' : d.target = r /\ d.outcome # "blocked"
    <3>1. PICK o \in {"promoted", "rolled-back"} :
              log' = log \cup {[outcome |-> o, target |-> r]}
      BY <1>3 DEF Decide
    <3> DEFINE d == [outcome |-> o, target |-> r]
    <3>2. d \in log' /\ d.target = r /\ d.outcome # "blocked"
      BY <3>1
    <3> QED
      BY <3>2
  <2>4. owner' # pipeline
    BY <1>3, <1>t, <2>1 DEF Decide, Goes, Base, TypeOK, Placed, Unlocked
  <2>5. DecidedAt(pipeline)'
    BY <2>2, <2>3, <2>4 DEF DecidedAt, Decided
  <2>6. DecidedAt(receiver)'
    BY <1>t, <2>1, SameDecided
  <2>7. Decided(file.managed)'
    BY <1>a, <2>1 DEF Decided
  <2> QED
    BY <1>t, <2>5, <2>6, <2>7 DEF AllDecided
<1>4. ASSUME Activated \/ KillReceiver \/ KillPipeline PROVE AllDecided'
  <2>1. UNCHANGED file /\ log' = log
    BY <1>4 DEF Activated, KillReceiver, KillPipeline, Killed, disk
  <2>2. ASSUME NEW q \in Programs PROVE DecidedAt(q)'
    <3>1. /\ work'[q] \in {None, work[q]}
          /\ owner' = q => owner = q /\ work'[q] = work[q]
      BY <1>4, <1>t DEF Activated, KillReceiver, KillPipeline, Killed, Drops, Goes,
           Base, TypeOK, Placed, Unlocked
    <3> QED
      BY <2>1, <3>1, SameDecided
  <2> QED
    BY <1>a, <2>1, <2>2 DEF AllDecided, Decided
<1>5. CASE Edit
  <2>1. file'.managed = file.managed
    BY <1>5, <1>t DEF Edit, Content
  <2>2. UNCHANGED <<owner, work, log>>
    BY <1>5 DEF Edit, pipe
  <2> QED
    BY <1>a, <2>1, <2>2 DEF AllDecided, DecidedAt, Decided
<1>6. CASE \/ \E r \in Routes : Block(r)
           \/ \E c \in Controllers, p \in Policies : Publish(c, p)
           \/ UNCHANGED vars
  <2>1. UNCHANGED <<file, owner, work>> /\ log \subseteq log'
    BY <1>6 DEF Block, Publish, disk, pipe, vars
  <2> QED
    BY <1>a, <2>1, SameDecided DEF AllDecided, Decided
<1> QED
  BY <1>1, <1>2, <1>3, <1>4, <1>5, <1>6 DEF Next

\* No route is in the file that was not decided, durably, before: not even one that
\* a rollback brings back.
THEOREM DecidedFirstHolds == Spec => []DecidedFirst
<1>1. Init => AllDecided
  BY BundleAssumption, NoneAssumption DEF Init, AllDecided, DecidedAt, Decided
<1>2. AllDecided => DecidedFirst
  BY DEF AllDecided, Decided, DecidedFirst
<1> QED
  BY <1>1, <1>2, DecidedStep, BaseHolds, PTL DEF Spec

\* The route table's own state agrees with itself, whatever the receiver does to
\* the file.
DigestRoute == digest.managed \notin Policies => digest.managed = route

LEMMA DigestRouteStep == Base /\ DigestRoute /\ [Next]_vars => DigestRoute'
<1> SUFFICES ASSUME Base, DigestRoute, [Next]_vars PROVE DigestRoute'
  OBVIOUS
<1>1. CASE Activated
  <2>1. /\ work[pipeline] \in Work /\ work[pipeline].found \in Content
    BY <1>1 DEF Activated, Goes, Base, TypeOK, Placed, Loaded, Programs
  <2>2. Rendered(pipeline).managed = work[pipeline].bundle
    BY <2>1, WorkFields, RenderedFields DEF Rendered
  <2> QED
    BY <1>1, <2>2 DEF Activated, DigestRoute
<1>2. CASE KillPipeline
  BY <1>2 DEF KillPipeline, DigestRoute
<1>3. CASE UNCHANGED <<digest, route>>
  BY <1>3 DEF DigestRoute
<1>4. \/ Activated \/ KillPipeline \/ UNCHANGED <<digest, route>>
  BY DEF Next, ApplySteps, Fails, ReceiverSteps, Take, Declines, CannotStart, Write, WriteFails,
     Restarted, RestartFails, Unverified, Succeeds, Restore, RestoreFails, Rerun, RerunFails,
     Raise, Start, Fetch, FetchFails, NoUpdate, Choose, Commit, CommitFails, Decide, Block,
     KillReceiver, Edit, Publish, pipe, vars
<1> QED
  BY <1>1, <1>2, <1>3, <1>4

\* As long as only the pipeline has written, the route it believes to be current is
\* the one in the file.
THEOREM RouteIsServedHolds == Spec => []RouteIsServed
<1>1. Init => DigestRoute
  BY DEF Init, DigestRoute
<1>2. DigestRoute => RouteIsServed
  BY DEF DigestRoute, RouteIsServed
<1> QED
  BY <1>1, <1>2, DigestRouteStep, BaseHolds, PTL DEF Spec
=============================================================================
