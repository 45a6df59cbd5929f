-------------------------- MODULE WorkspaceJournal --------------------------
(***************************************************************************)
(* The edit-transaction journal of internal/persist/workspacejournal: what *)
(* lets a turn's file writes be undone, by the process that made them or   *)
(* by the next one.  Its durable half is a ledger file and a store of      *)
(* before-images counted by reference; its volatile half is the Manager of *)
(* one process.  A process may die between any two steps.                  *)
(*                                                                         *)
(*   - The ledger is kept as what replay() makes of it, a sequence of      *)
(*     pending turns: applyEntry is applied when an entry is appended.     *)
(*   - A file's identity (inode, mtime) is a number no other file or       *)
(*     record has; a write always takes a fresh one.                       *)
(*   - A Manager is one incarnation: a restarted process opens another.    *)
(*   - The user may edit a file at any time: between a tool's Before and   *)
(*     its After, and between the check and the write of restore().        *)
(*   - Appends fail in After and where a settlement is written; a failed   *)
(*     Sync comes after the write, so the entry it reports is there.       *)
(***************************************************************************)
EXTENDS Integers, Sequences, FiniteSets

CONSTANTS Managers,   \* incarnations of the process that owns the journal
          Turns,      \* turn ids
          Paths,      \* workspace files
          Contents,   \* file contents, told apart by their digest
          Absent,     \* the content of a file that does not exist
          None,       \* no manager, no record, no turn
          Shared,     \* may two live processes hold the journal at once
          Merges,     \* turn ids the chat merge service begins again and again
          MaxMishaps  \* bound: user edits, failed appends and restores

ASSUME JournalConstants ==
  /\ Absent \notin Contents
  /\ None \notin Managers \cup Turns \cup Contents \cup {Absent}
  /\ None \notin [sha : Contents \cup {Absent}, id : Nat]
  /\ Shared \in BOOLEAN /\ Merges \subseteq Turns
  /\ MaxMishaps \in Nat
  /\ IsFiniteSet(Managers) /\ IsFiniteSet(Turns) /\ IsFiniteSet(Paths)

VARIABLES
  files,     \* Paths -> Fingerprint: the workspace
  ledger,    \* what replay() of turns.jsonl yields: pending turns in order
  refs,      \* Contents -> Nat: references to a before-image, 0 = deleted
  status,    \* Managers -> life of the process and its Manager
  fd,        \* Managers -> does its descriptor name the current ledger file
  active,    \* Managers -> Manager.active
  kept,      \* Managers -> the maps committed, drafts and unresolved
  tools,     \* Managers -> Paths -> stage of the tool writing the path
  task,      \* Managers -> the restore or the recovery in progress
  checked,   \* Managers -> the file restore() found unchanged, to be rewritten
  mishaps,   \* how many there were
  dirty,     \* history: Turns -> Paths -> content before the turn's writes
  ended,     \* history: turns whose outcome was decided
  torn       \* history: writes into a draft that were never recorded

vars == <<files, ledger, refs, status, fd, active, kept, tools, task, checked,
          mishaps, dirty, ended, torn>>
memory == <<active, kept>>

-----------------------------------------------------------------------------
(* Fingerprints and records *)

Fingerprint == [sha : Contents \cup {Absent}, id : Nat]

Equal(l, r) == l.sha = r.sha /\ (l.sha = Absent \/ l.id = r.id)

\* A record's handle is the content it names, None once released.
NoRecord == [before |-> None, handle |-> None, after |-> None]

Record == [before : Fingerprint, after : Fingerprint,
           handle : Contents \cup {None}] \cup {NoRecord}

\* Record.Kind: did the path end the turn with other content.
Changed(r) == r # NoRecord /\ r.before.sha # r.after.sha

NoRecords == [p \in Paths |-> NoRecord]

HasChanges(recs) == \E p \in Paths : Changed(recs[p])

Recorded(recs) == {recs[p] : p \in {q \in Paths : recs[q] # NoRecord}}

IdsOf(recs) == UNION {{r.before.id, r.after.id} : r \in Recorded(recs)}

Places == {"committed", "draft", "unresolved"}

ListIds(L) == UNION {IdsOf(L[i].recs) : i \in DOMAIN L}

\* The identities in the memory of one process.
MemoryIds(m) ==
  IdsOf(active[m].recs) \cup IdsOf(task[m].recs)
    \cup ListIds(task[m].todo) \cup ListIds(task[m].keep)
    \cup UNION {UNION {IdsOf(kept[m][w][t].recs) : t \in Turns} : w \in Places}

UsedIds ==
  {files[p].id : p \in Paths} \cup ListIds(ledger)
    \cup UNION {MemoryIds(m) : m \in Managers}

FreshId == CHOOSE n \in 0..Cardinality(UsedIds) : n \notin UsedIds

\* Snapshot after somebody put content c where a file was.
Put(c) == [sha |-> c, id |-> FreshId]

-----------------------------------------------------------------------------
(* Before-images: contentstore.Durable over the content-addressed store *)

Retained(c) == IF c \in Contents THEN [refs EXCEPT ![c] = @ + 1] ELSE refs

\* Release drops one reference of each handle; content without any is deleted.
Dropped(handles, c) == Cardinality({p \in Paths : handles[p] = c})
\* Mutant: the reference count is not checked before it is lowered.
ReleasedUnchecked(handles) == [c \in Contents |-> refs[c] - Dropped(handles, c)]

Released(handles) ==
  [c \in Contents |-> IF refs[c] > Dropped(handles, c)
                        THEN refs[c] - Dropped(handles, c) ELSE 0]
Handles(recs) == [p \in Paths |-> recs[p].handle]
OneHandle(p, h) == [q \in Paths |-> IF q = p THEN h ELSE None]

-----------------------------------------------------------------------------
(* Filtering, as a recursive function: the provers do not know SelectSeq *)

\* The elements of s at the positions in I, in their order.
Picked(s, I) ==
  LET f[n \in 0..Len(s)] ==
        IF n = 0 THEN <<>>
        ELSE IF n \in I THEN Append(f[n - 1], s[n]) ELSE f[n - 1]
  IN f[Len(s)]

-----------------------------------------------------------------------------
(* The ledger: applyEntry, one operator per phase *)

Pending(L, t) == \E i \in DOMAIN L : L[i].id = t
Settle(L, t) == Picked(L, {i \in DOMAIN L : L[i].id # t})

Begun(L, t, m) ==
  Append(Settle(L, t), [id |-> t, owner |-> m, committed |-> FALSE,
                        draft |-> FALSE, order |-> <<>>, recs |-> NoRecords])

Committed(L, t) ==
  [i \in DOMAIN L |-> IF L[i].id = t
                        THEN [L[i] EXCEPT !.committed = TRUE, !.draft = FALSE]
                        ELSE L[i]]

Drafted(L, t) ==
  [i \in DOMAIN L |->
     IF L[i].id = t THEN [L[i] EXCEPT !.draft = TRUE] ELSE L[i]]

Resumed(L, source, t, m) ==
  IF ~Pending(L, source) \/ Pending(L, t) THEN L
  ELSE [i \in DOMAIN L |->
          IF L[i].id = source
            THEN [L[i] EXCEPT !.id = t, !.owner = m, !.draft = TRUE]
            ELSE L[i]]

WithRecord(j, p, r) ==
  [j EXCEPT !.recs = [j.recs EXCEPT ![p] = r],
            !.order = IF j.recs[p] = NoRecord THEN Append(j.order, p)
                      ELSE j.order]

RecordedIn(L, t, p, r) ==
  [i \in DOMAIN L |-> IF L[i].id = t THEN WithRecord(L[i], p, r) ELSE L[i]]

\* An append reaches the ledger other processes read only through a current
\* descriptor: compact() replaces the file under every other process.
Written(m, L) == IF fd[m] THEN L ELSE ledger

Compacted(m, L) ==
  /\ ledger' = L
  /\ fd' = [n \in Managers |-> n = m]

-----------------------------------------------------------------------------
(* State *)

NoJournal == [id |-> None, order |-> <<>>, recs |-> NoRecords]

NoTask == [kind |-> "none", place |-> "none", turn |-> None, all |-> <<>>,
           order |-> <<>>, recs |-> NoRecords, conflict |-> FALSE,
           todo |-> <<>>, keep |-> <<>>]

Idle == [p \in Paths |-> "idle"]
NothingKept == [w \in Places |-> [t \in Turns |-> NoJournal]]

Init ==
  /\ files \in [Paths -> {[sha |-> c, id |-> 0] : c \in Contents \cup {Absent}}]
  /\ ledger = <<>>
  /\ refs = [c \in Contents |-> 0]
  /\ status = [m \in Managers |-> "unborn"]
  /\ fd = [m \in Managers |-> FALSE]
  /\ active = [m \in Managers |-> NoJournal]
  /\ kept = [m \in Managers |-> NothingKept]
  /\ tools = [m \in Managers |-> Idle]
  /\ task = [m \in Managers |-> NoTask]
  /\ checked = [m \in Managers |-> None]
  /\ mishaps = 0
  /\ dirty = [t \in Turns |-> [p \in Paths |-> None]]
  /\ ended = {} /\ torn = {}

In(m, place) == {t \in Turns : kept[m][place][t] # NoJournal}
Open(m) == status[m] = "open"
Active(m, t) == Open(m) /\ active[m].id = t
Quiet(m) == tools[m] = Idle
Alive(m) == m # None /\ status[m] \in {"recovering", "open", "closed"}
\* turnJournal.restoring: a Revert owns the journal.
Restoring(m, t) == task[m].kind = "revert" /\ task[m].turn = t

Keep(m, place, t, j) == kept' = [kept EXCEPT ![m][place][t] = j]

\* History: turns that left path p as they found it have nothing to undo there.
Clean(p) ==
  [t \in Turns |->
     [dirty[t] EXCEPT ![p] = IF @ = files[p].sha THEN None ELSE @]]

\* History: the paths that hold again what they held before turn t.
Undone(t) ==
  [dirty EXCEPT ![t] = [p \in Paths |-> IF files[p].sha = dirty[t][p] THEN None
                                        ELSE dirty[t][p]]]

\* History: writes into a draft that its ledger entry does not show.
Unlisted(m, P) ==
  {<<active[m].id, p>> : p \in
     IF \E i \in DOMAIN ledger :
          ledger[i].id = active[m].id /\ ledger[i].draft
       THEN P ELSE {}}

Mishap == mishaps < MaxMishaps /\ mishaps' = mishaps + 1

-----------------------------------------------------------------------------
(* A turn writes *)

\* A turn id is used once, except the chat merge's.
New(t) == t \in Merges \/ t \notin ended

Begin(m, t) ==
  /\ Open(m) /\ task[m] = NoTask
  /\ New(t)
  /\ active[m] = NoJournal /\ In(m, "draft") = {}
  /\ ledger' = Written(m, Begun(ledger, t, m))
  /\ active' = [active EXCEPT ![m] = [NoJournal EXCEPT !.id = t]]
  /\ ended' = ended \ {t}
  /\ UNCHANGED <<files, refs, status, fd, kept, tools, task, mishaps, dirty,
                 torn, checked>>

\* Mutant: the record is kept in memory only until the turn ends.
BeforeInMemory(m, t, p) ==
  /\ Active(m, t) /\ t \notin ended /\ tools[m][p] = "idle"
  /\ active[m].recs[p] = NoRecord
  /\ tools' = [tools EXCEPT ![m][p] = "prepared"]
  /\ refs' = Retained(files[p].sha)
  /\ active' = [active EXCEPT ![m] =
                  WithRecord(active[m], p,
                    [before |-> files[p], after |-> files[p], handle |-> None])]
  /\ UNCHANGED <<files, ledger, status, fd, kept, task, mishaps, dirty,
                 ended, torn, checked>>

\* The before-image and its record are durable before the tool writes.
Before(m, t, p) ==
  /\ Active(m, t) /\ t \notin ended /\ tools[m][p] = "idle"
  /\ tools' = [tools EXCEPT ![m][p] = "prepared"]
  /\ IF active[m].recs[p] # NoRecord
       THEN UNCHANGED <<ledger, refs, active>>
       ELSE LET r == [before |-> files[p], after |-> files[p],
                      handle |-> IF files[p].sha = Absent THEN None
                                 ELSE files[p].sha] IN
            /\ refs' = Retained(files[p].sha)
            /\ ledger' = Written(m, RecordedIn(ledger, t, p, r))
            /\ active' = [active EXCEPT ![m] = WithRecord(active[m], p, r)]
  /\ UNCHANGED <<files, status, fd, kept, task, mishaps, dirty,
                 ended, torn, checked>>

\* History: a file that somebody else changed after record r was made becomes
\* turn t's when the turn writes or reports it again; the journal keeps the
\* image it took first.
Taken(D, t, p, r) ==
  [D EXCEPT ![t][p] = IF @ = None /\ files[p] # r.after THEN r.before.sha
                      ELSE @]

\* The tool itself: what the journal exists to undo.
ToolWrite(m, t, p, c) ==
  /\ Active(m, t) /\ tools[m][p] = "prepared"
  /\ tools' = [tools EXCEPT ![m][p] = "written"]
  /\ files' = [files EXCEPT ![p] = Put(c)]
  /\ LET D == Taken(Clean(p), t, p, active[m].recs[p]) IN
     dirty' = [D EXCEPT ![t][p] = IF @ = None THEN files[p].sha ELSE @]
  /\ UNCHANGED <<ledger, refs, status, fd, memory, task, mishaps,
                 ended, torn, checked>>

\* AfterFingerprint; a tool that failed before writing gets here too.  When
\* the file cannot be read nothing is recorded; otherwise the record in memory
\* is updated before the append that may fail.
After(m, t, p) ==
  /\ Active(m, t) /\ tools[m][p] \in {"prepared", "written"}
  /\ tools' = [tools EXCEPT ![m][p] = "idle"]
  /\ LET r == [active[m].recs[p] EXCEPT !.after = files[p]] IN
     /\ \/ /\ active' = [active EXCEPT ![m] = WithRecord(active[m], p, r)]
           /\ dirty' = Taken(dirty, t, p, active[m].recs[p])
           /\ \/ /\ ledger' = Written(m, RecordedIn(ledger, t, p, r))
                 /\ UNCHANGED mishaps
              \/ Mishap /\ UNCHANGED ledger
        \/ Mishap /\ UNCHANGED <<active, ledger, dirty>>
     /\ torn' = IF ledger' # ledger THEN torn \ {<<t, p>>}
                ELSE IF r # active[m].recs[p] THEN torn \cup {<<t, p>>}
                ELSE torn
  /\ UNCHANGED <<files, refs, status, fd, kept, task, ended, checked>>

-----------------------------------------------------------------------------
(* A turn ends *)

Unchanged(r) == r # NoRecord /\ Equal(r.before, r.after)

\* finishActiveLocked: records of files left alone are dropped and released.
Finished(j) ==
  [j EXCEPT !.order = Picked(@, {i \in DOMAIN @ : ~Unchanged(j.recs[@[i]])}),
            !.recs = [p \in Paths |-> IF Unchanged(j.recs[p]) THEN NoRecord
                                      ELSE j.recs[p]]]
FinishedHandles(j) ==
  [p \in Paths |-> IF Unchanged(j.recs[p]) THEN j.recs[p].handle ELSE None]

End(t) == ended' = ended \cup {t}

Accept(t) ==
  /\ End(t)
  /\ dirty' = [dirty EXCEPT ![t] = [p \in Paths |-> None]]

\* A turn id that was committed before returns at once.
Commit(m, t) ==
  /\ Active(m, t) /\ Quiet(m) /\ t \notin ended
  /\ IF t \in In(m, "committed") THEN UNCHANGED <<ledger, refs, memory>>
     ELSE /\ ledger' = Written(m, Committed(ledger, t))
          /\ refs' = Released(FinishedHandles(active[m]))
          /\ Keep(m, "committed", t, Finished(active[m]))
          /\ active' = [active EXCEPT ![m] = NoJournal]
  /\ Accept(t)
  /\ UNCHANGED <<files, status, fd, tools, task, mishaps, torn, checked>>

\* An unverified turn is kept as a draft, or settled when it changed nothing.
Suspend(m, t) ==
  /\ Active(m, t) /\ Quiet(m) /\ t \notin ended
  /\ active' = [active EXCEPT ![m] = NoJournal]
  /\ IF HasChanges(active[m].recs)
       THEN /\ ledger' = Written(m, Drafted(ledger, t))
            /\ Keep(m, "draft", t, active[m])
            /\ UNCHANGED <<refs, dirty>>
       ELSE /\ ledger' = Written(m, Settle(ledger, t))
            /\ refs' = Released(FinishedHandles(active[m]))
            /\ dirty' = Undone(t)
            /\ UNCHANGED kept
  /\ End(t)
  /\ UNCHANGED <<files, status, fd, tools, task, mishaps, torn, checked>>

KeepDraft(m, t) ==
  /\ Open(m) /\ t \in In(m, "draft") /\ ~Restoring(m, t)
  /\ ledger' = Written(m, Committed(ledger, t))
  /\ kept' = [kept EXCEPT ![m]["draft"][t] = NoJournal,
                          ![m]["committed"][t] = kept[m]["draft"][t]]
  /\ Accept(t)
  /\ UNCHANGED <<files, refs, status, fd, active, tools, task, mishaps, torn,
                 checked>>

\* The recovery turn takes over the draft, its records and its baseline.
ResumeDraft(m, source, t) ==
  /\ Open(m) /\ active[m] = NoJournal /\ task[m].place \in {"none", "draft"}
  /\ source \in In(m, "draft") /\ ~Restoring(m, source)
  /\ t = source \/ New(t)
  /\ ledger' = IF t = source THEN ledger
               ELSE Written(m, Resumed(ledger, source, t, m))
  /\ Keep(m, "draft", source, NoJournal)
  /\ active' = [active EXCEPT ![m] = [kept[m]["draft"][source] EXCEPT !.id = t]]
  /\ dirty' = [u \in Turns |-> IF u = t THEN dirty[source]
                               ELSE IF u = source THEN [p \in Paths |-> None]
                               ELSE dirty[u]]
  /\ torn' = {<<IF e[1] = source THEN t ELSE e[1], e[2]>> : e \in torn}
  /\ ended' = ended \ {t}
  /\ UNCHANGED <<files, refs, status, fd, tools, task, mishaps, checked>>

-----------------------------------------------------------------------------
(* Undoing: Rollback of the active turn, Revert of a committed one or draft *)

Reversed(s) == [i \in 1..Len(s) |-> s[Len(s) + 1 - i]]

StartRestore(m, kind, place, j) ==
  task' = [task EXCEPT ![m] =
             [NoTask EXCEPT !.kind = kind, !.place = place, !.turn = j.id,
                            !.all = j.order, !.order = Reversed(j.order),
                            !.recs = j.recs]]

Rollback(m, t) ==
  /\ Open(m) /\ Quiet(m) /\ task[m] = NoTask
  /\ \/ /\ active[m].id = t /\ t \notin ended
        /\ StartRestore(m, "rollback", "unresolved", active[m])
        /\ active' = [active EXCEPT ![m] = NoJournal]
     \/ /\ active[m] = NoJournal /\ t \in In(m, "unresolved")
        /\ StartRestore(m, "rollback", "unresolved", kept[m]["unresolved"][t])
        /\ UNCHANGED active
  /\ End(t)
  /\ UNCHANGED <<files, ledger, refs, status, fd, kept, tools, mishaps,
                 dirty, torn, checked>>

\* The engine reverts a committed turn only between turns.
Revert(m, t) ==
  /\ Open(m) /\ task[m] = NoTask
  /\ \/ /\ t \in In(m, "committed") /\ active[m] = NoJournal
        /\ StartRestore(m, "revert", "committed", kept[m]["committed"][t])
     \/ /\ t \notin In(m, "committed") /\ t \in In(m, "draft")
        /\ StartRestore(m, "revert", "draft", kept[m]["draft"][t])
  /\ UNCHANGED <<files, ledger, refs, status, fd, memory, tools, mishaps,
                 dirty, ended, torn, checked>>

\* Mutant: what is in the file now is not compared with the record.
StillOwnUnchecked(r, p) == TRUE

\* restore(): the file is still what the turn recorded.
StillOwn(r, p) == Equal(files[p], r.after)

\* restoreRecord(): there is nothing to read, or the image can be read.
Readable(r) ==
  r.before.sha = Absent \/ (r.handle # None /\ refs[r.before.sha] > 0)

\* forget() drops the restored record from the journal; the pending turn that
\* Recover keeps still lists it, without its handle.
Forgotten(kind, r) ==
  IF kind = "recover" THEN [r EXCEPT !.handle = None] ELSE NoRecord

RestoreAt(m) ==
  task[m].kind \in {"rollback", "revert", "recover"} /\ task[m].order # <<>>

\* A conflict on one path: restore() goes on with the next.
Skips(m) == task' = [task EXCEPT ![m].order = Tail(@), ![m].conflict = TRUE]

\* restore(), the check of one path.
RestoreCheck(m) ==
  /\ RestoreAt(m) /\ checked[m] = None
  /\ LET p == Head(task[m].order) IN
     IF StillOwn(task[m].recs[p], p)
       THEN checked' = [checked EXCEPT ![m] = files[p]] /\ UNCHANGED task
       ELSE Skips(m) /\ UNCHANGED checked
  /\ UNCHANGED <<files, ledger, refs, status, fd, memory, tools, mishaps, dirty,
                 ended, torn>>

\* restoreRecord() and forget(), whatever the path holds by now.
RestoreWrite(m) ==
  /\ RestoreAt(m) /\ checked[m] # None
  /\ LET t == task[m].turn
         p == Head(task[m].order)
         r == task[m].recs[p] IN
     IF Readable(r)
       THEN /\ files' = [files EXCEPT ![p] = Put(r.before.sha)]
            /\ refs' = Released(OneHandle(p, r.handle))
            /\ dirty' = [Clean(p) EXCEPT ![t][p] =
                           IF @ = r.before.sha THEN None ELSE @]
            /\ task' =
                 [task EXCEPT ![m].order = Tail(@),
                              ![m].recs[p] = Forgotten(task[m].kind, r)]
       ELSE Skips(m) /\ UNCHANGED <<files, refs, dirty>>
  /\ checked' = [checked EXCEPT ![m] = None]
  /\ UNCHANGED <<ledger, status, fd, memory, tools, mishaps, ended, torn>>

\* A file that cannot be read or written is a conflict like any other; the end
\* of the caller's context ends the restore.
RestoreFails(m) ==
  /\ RestoreAt(m)
  /\ Mishap
  /\ \/ Skips(m)
     \/ task' = [task EXCEPT ![m].order = <<>>, ![m].conflict = TRUE]
  /\ checked' = [checked EXCEPT ![m] = None]
  /\ UNCHANGED <<files, ledger, refs, status, fd, memory, tools, dirty,
                 ended, torn>>

\* The journal with what is still to be restored.
Remaining(m) ==
  [id |-> task[m].turn, recs |-> task[m].recs,
   order |-> Picked(task[m].all, {i \in DOMAIN task[m].all :
                                    task[m].recs[task[m].all[i]] # NoRecord})]

Done(m, kind) == task[m].kind = kind /\ task[m].order = <<>>

\* A conflict keeps the journal for a retry; so does a settlement that could
\* not be written.
RollbackEnds(m) ==
  /\ Done(m, "rollback")
  /\ LET t == task[m].turn IN
     \/ /\ task[m].conflict
        /\ Keep(m, "unresolved", t, Remaining(m))
        /\ UNCHANGED <<ledger, mishaps>>
     \/ /\ ~task[m].conflict
        /\ Keep(m, "unresolved", t, NoJournal)
        /\ ledger' = Written(m, Settle(ledger, t))
        /\ UNCHANGED mishaps
     \/ /\ ~task[m].conflict
        /\ Mishap
        /\ Keep(m, "unresolved", t, Remaining(m))
        /\ UNCHANGED ledger
  /\ task' = [task EXCEPT ![m] = NoTask]
  /\ UNCHANGED <<files, refs, status, fd, active, tools, dirty,
                 ended, torn, checked>>

\* A reverted journal is gone from memory before its settlement is written.
RevertEnds(m) ==
  /\ Done(m, "revert")
  /\ LET t == task[m].turn IN
     \/ /\ task[m].conflict
        /\ Keep(m, task[m].place, t, Remaining(m))
        /\ UNCHANGED <<ledger, mishaps>>
     \/ /\ ~task[m].conflict
        /\ Keep(m, task[m].place, t, NoJournal)
        /\ \/ ledger' = Written(m, Settle(ledger, t)) /\ UNCHANGED mishaps
           \/ Mishap /\ UNCHANGED ledger
  /\ task' = [task EXCEPT ![m] = NoTask]
  /\ UNCHANGED <<files, refs, status, fd, active, tools, dirty,
                 ended, torn, checked>>

-----------------------------------------------------------------------------
(* The next process: Open and Recover, before its first turn *)

OpenManager(m) ==
  /\ status[m] = "unborn"
  /\ Shared \/ \A n \in Managers : status[n] \notin {"recovering", "open"}
  /\ status' = [status EXCEPT ![m] = "recovering"]
  /\ fd' = [fd EXCEPT ![m] = TRUE]
  /\ task' =
       [task EXCEPT ![m] = [NoTask EXCEPT !.kind = "scan", !.todo = ledger]]
  /\ ended' = ended \cup {ledger[i].id : i \in DOMAIN ledger}
  /\ UNCHANGED <<files, ledger, refs, memory, tools, mishaps, dirty, torn,
                 checked>>

\* What Recover decides for one pending turn.
Discard(e) == (e.draft /\ ~HasChanges(e.recs)) \/ e.committed
Adopts(e) == ~Discard(e) /\ ~Alive(e.owner) /\ e.draft
Keeps(e) == ~Discard(e) /\ Alive(e.owner)
Undoes(e) == ~Discard(e) /\ ~Alive(e.owner) /\ ~e.draft

Scanned(m, keep) ==
  [task EXCEPT ![m].todo = Tail(@), ![m].keep = keep]

RecoverTurn(m) ==
  /\ task[m].kind = "scan" /\ task[m].todo # <<>>
  /\ LET e == Head(task[m].todo) IN
     \/ /\ Discard(e)
        /\ refs' = Released(Handles(e.recs))
        /\ task' = Scanned(m, task[m].keep)
        /\ dirty' = Undone(e.id)
        /\ UNCHANGED kept
     \/ /\ Keeps(e)
        /\ task' = Scanned(m, Append(task[m].keep, e))
        /\ UNCHANGED <<refs, kept, dirty>>
     \/ /\ Adopts(e)
        /\ Keep(m, "draft", e.id,
                [id |-> e.id, order |-> e.order, recs |-> e.recs])
        /\ task' = Scanned(m, Append(task[m].keep, e))
        /\ UNCHANGED <<refs, dirty>>
     \/ /\ Undoes(e)
        /\ task' = [task EXCEPT ![m].kind = "recover", ![m].turn = e.id,
                                ![m].order = Reversed(e.order),
                                ![m].recs = e.recs]
        /\ UNCHANGED <<refs, kept, dirty>>
  /\ UNCHANGED <<files, ledger, status, fd, active, tools, mishaps,
                 ended, torn, checked>>

\* A turn with a conflict stays in the ledger, with all of its records.
RecoverTurnEnds(m) ==
  /\ Done(m, "recover")
  /\ LET e == [Head(task[m].todo) EXCEPT !.recs = task[m].recs] IN
     task' = [task EXCEPT ![m] =
                [NoTask EXCEPT !.kind = "scan", !.todo = Tail(task[m].todo),
                   !.keep = IF task[m].conflict THEN Append(task[m].keep, e)
                            ELSE task[m].keep]]
  /\ UNCHANGED <<files, ledger, refs, status, fd, memory, tools, mishaps,
                 dirty, ended, torn, checked>>

RecoverEnds(m) ==
  /\ task[m].kind = "scan" /\ task[m].todo = <<>>
  /\ Compacted(m, task[m].keep)
  /\ status' = [status EXCEPT ![m] = "open"]
  /\ task' = [task EXCEPT ![m] = NoTask]
  /\ UNCHANGED <<files, refs, memory, tools, mishaps, dirty, ended,
                 torn, checked>>

-----------------------------------------------------------------------------
(* Close, exit, crash, and the user *)

\* Committed turns are settled; a draft loses its owner, so that a Manager of
\* the same process may adopt it.
Close(m) ==
  /\ Open(m) /\ active[m] = NoJournal /\ task[m] = NoTask
  /\ refs' = [c \in Contents |->
                LET n == Cardinality(
                           {x \in In(m, "committed") \X Paths :
                              kept[m]["committed"][x[1]].recs[x[2]].handle = c}) IN
                IF refs[c] > n THEN refs[c] - n ELSE 0]
  /\ LET Unsettled == {i \in DOMAIN ledger :
                         ledger[i].id \notin In(m, "committed")}
         L == IF fd[m] THEN Picked(ledger, Unsettled) ELSE ledger IN
     Compacted(m, [i \in DOMAIN L |->
                     IF L[i].draft /\ L[i].owner = m
                       THEN [L[i] EXCEPT !.owner = None] ELSE L[i]])
  /\ status' = [status EXCEPT ![m] = "closed"]
  /\ active' = [active EXCEPT ![m] = NoJournal]
  /\ kept' = [kept EXCEPT ![m] = NothingKept]
  /\ UNCHANGED <<files, tools, task, mishaps, dirty, ended, torn, checked>>

Exit(m) ==
  /\ status[m] = "closed"
  /\ status' = [status EXCEPT ![m] = "dead"]
  /\ UNCHANGED <<files, ledger, refs, fd, memory, tools, task, mishaps,
                 dirty, ended, torn, checked>>

Crash(m) ==
  /\ status[m] \in {"recovering", "open"}
  /\ status' = [status EXCEPT ![m] = "dead"]
  /\ fd' = [fd EXCEPT ![m] = FALSE]
  /\ active' = [active EXCEPT ![m] = NoJournal]
  /\ kept' = [kept EXCEPT ![m] = NothingKept]
  /\ tools' = [tools EXCEPT ![m] = Idle]
  /\ task' = [task EXCEPT ![m] = NoTask]
  /\ checked' = [checked EXCEPT ![m] = None]
  /\ torn' = torn \cup Unlisted(m, {p \in Paths : tools[m][p] = "written"})
  /\ UNCHANGED <<files, ledger, refs, mishaps, dirty, ended>>

\* The user edits a file: from now on its content is the user's.  (A deletion
\* leaves no identity that would tell whose it was.)
Edit(p, c) ==
  /\ Mishap
  /\ files' = [files EXCEPT ![p] = Put(c)]
  /\ dirty' = [t \in Turns |-> [dirty[t] EXCEPT ![p] = None]]
  /\ UNCHANGED <<ledger, refs, status, fd, memory, tools, task,
                 ended, torn, checked>>

Next ==
  \/ \E m \in Managers :
       \/ \E t \in Turns :
            \/ Begin(m, t) \/ Commit(m, t) \/ Suspend(m, t) \/ KeepDraft(m, t)
            \/ Rollback(m, t) \/ Revert(m, t)
            \/ \E s \in Turns : ResumeDraft(m, s, t)
            \/ \E p \in Paths :
                 \/ Before(m, t, p) \/ After(m, t, p)
                 \/ \E c \in Contents \cup {Absent} : ToolWrite(m, t, p, c)
       \/ RestoreCheck(m) \/ RestoreWrite(m) \/ RestoreFails(m)
       \/ RollbackEnds(m) \/ RevertEnds(m)
       \/ OpenManager(m)
       \/ RecoverTurn(m) \/ RecoverTurnEnds(m) \/ RecoverEnds(m)
       \/ Close(m) \/ Exit(m) \/ Crash(m)
  \/ \E p \in Paths, c \in Contents : Edit(p, c)

Spec == Init /\ [][Next]_vars

-----------------------------------------------------------------------------
(* Properties *)

PendingTurn ==
  [id : Turns, owner : Managers \cup {None}, committed : BOOLEAN,
   draft : BOOLEAN, order : Seq(Paths), recs : [Paths -> Record]]

Journal ==
  [id : Turns \cup {None}, order : Seq(Paths), recs : [Paths -> Record]]

Task ==
  [kind : {"none", "scan", "recover", "rollback", "revert"},
   place : Places \cup {"none"}, turn : Turns \cup {None}, all : Seq(Paths),
   order : Seq(Paths), recs : [Paths -> Record], conflict : BOOLEAN,
   todo : Seq(PendingTurn), keep : Seq(PendingTurn)]

\* Types of the ledger, the image store and the Managers: reference counts stay
\* natural numbers however often a handle is released.
JournalTypeOK ==
  /\ files \in [Paths -> Fingerprint]
  /\ ledger \in Seq(PendingTurn)
  /\ refs \in [Contents -> Nat]
  /\ status \in [Managers -> {"unborn", "recovering", "open", "closed", "dead"}]
  /\ fd \in [Managers -> BOOLEAN]
  /\ active \in [Managers -> Journal]
  /\ kept \in [Managers -> [Places -> [Turns -> Journal]]]
  /\ tools \in [Managers -> [Paths -> {"idle", "prepared", "written"}]]
  /\ task \in [Managers -> Task]
  /\ checked \in [Managers -> Fingerprint \cup {None}]
  /\ mishaps \in 0..MaxMishaps
  /\ dirty \in [Turns -> [Paths -> Contents \cup {Absent, None}]]
  /\ ended \subseteq Turns
  /\ torn \subseteq Turns \X Paths

\* Turn t's unaccepted content is still in path p.
Holds(t, p) == dirty[t][p] # None /\ files[p].sha # dirty[t][p]

\* The ledger still lists what turn t did to path p, to be undone.
Undoable(t, p) ==
  \E i \in DOMAIN ledger : /\ ledger[i].id = t /\ ~ledger[i].committed
                           /\ ledger[i].recs[p] # NoRecord

\* What the ledger promises: while a file holds what an unaccepted turn wrote,
\* whatever processes died or closed since and in whatever step, the ledger
\* lists the turn as pending with a record of that file.  Only a write into a
\* draft whose After never reached the ledger is exempt: the code cannot tell
\* such a draft from one that changed nothing.
RecordedIsUndoable ==
  \A t \in Turns, p \in Paths :
    Holds(t, p) /\ <<t, p>> \notin torn => Undoable(t, p)

\* A rollback or a recovery changes an existing file only to what it held
\* before that turn's own unaccepted writes: it never overwrites the work of an
\* accepted turn, its own result a second time, or an edit the user made after
\* the turn last wrote or reported the file.  Exempt is an edit between the
\* check and the write of restore(): there the code looks away.
UndoesOnlyItsOwn ==
  [][\A m \in Managers, p \in Paths :
       (/\ task[m].kind \in {"rollback", "recover"} /\ task'[m] # task[m]
        /\ files[p].sha \in Contents /\ files'[p].sha # files[p].sha
        /\ files[p] = checked[m])
         => files'[p].sha = dirty[task[m].turn][p]]_vars
=============================================================================
