----------------------------- MODULE ConfigSave -----------------------------
(***************************************************************************)
(* Saving the configuration from a browser and the restart that puts it    *)
(* into force (src/src/api/config.rs, api/service.rs).  A browser reads    *)
(* the file, previews a candidate against its revision, and saves it if    *)
(* the revision still holds.                                               *)
(*                                                                         *)
(* Abstractions.  A revision, the hash of the content, is the content.  A  *)
(* candidate that is invalid or differs from its preview is refused        *)
(* without effect and has no action.  A handler whose connection closes is *)
(* dropped at its await; a blocking task it waits for runs on, and a       *)
(* commit among those is then held up by no lock.  When the process ends,  *)
(* a new one starts at once and reads the file.                            *)
(***************************************************************************)
EXTENDS Naturals

CONSTANTS
    Contents,       \* contents of the configuration file
    Secret(_),      \* api.password of a content
    Browsers,       \* concurrent save requests
    Nobody,         \* no content, no browser
    MaxEdits,       \* bound on writes of the file by other processes
    MaxBreaks       \* bound on crashes, failed restarts and dropped requests

ASSUME ConfigSaveAssumption ==
    /\ Nobody \notin Contents \cup Browsers
    /\ MaxEdits \in Nat /\ MaxBreaks \in Nat

VARIABLES
    file,           \* the configuration file
    current,        \* the configuration the process started with
    save,           \* save[b]: the request of browser b
    saveLock,       \* config_save_lock
    orphans,        \* commits on their way whose request is gone
    overtaken,      \* those before which something else was written
    intruders,      \* who wrote the file beside the holder of the lock
    pending,        \* restart_pending
    restart,        \* the restart task: "none", "sleeping" or "running"
    edits, breaks   \* counted for the bounds

saveVars == <<file, current, save, saveLock, orphans, overtaken, intruders,
              pending, restart, edits, breaks>>
restartVars == <<pending, restart>>

NoSave == [at |-> "idle", base |-> Nobody, candidate |-> Nobody,
           restart |-> FALSE]
Saves == [at: {"previewed", "checked", "committed"}, base: Contents,
          candidate: Contents, restart: BOOLEAN]
Orphans == [nr: 1..MaxBreaks, base: Contents, candidate: Contents]

\* Every state has these types.
ConfigSaveTypeOK ==
    /\ {file, current} \subseteq Contents
    /\ save \in [Browsers -> Saves \cup {NoSave}]
    /\ saveLock \in Browsers \cup {Nobody}
    /\ orphans \subseteq Orphans /\ overtaken \subseteq orphans
    /\ intruders \subseteq {"editor", "orphan"}
    /\ pending \in BOOLEAN
    /\ restart \in {"none", "sleeping", "running"}
    /\ edits \in 0..MaxEdits /\ breaks \in 0..MaxBreaks

----------------------------------------------------------------------------
ConfigSaveInit ==
    /\ file \in Contents
    /\ current = file
    /\ save = [b \in Browsers |-> NoSave]
    /\ saveLock = Nobody
    /\ orphans = {} /\ overtaken = {} /\ intruders = {}
    /\ pending = FALSE /\ restart = "none" /\ edits = 0 /\ breaks = 0

\* get_config and preview_config; a changed password demands a restart, also
\* when the file holds it already.
Preview(b, candidate, restarts) ==
    /\ save[b] = NoSave
    /\ Secret(candidate) # Secret(current) => restarts
    /\ save' = [save EXCEPT ![b] = [at |-> "previewed", base |-> file,
                                    candidate |-> candidate,
                                    restart |-> restarts]]
    /\ UNCHANGED <<file, current, saveLock, orphans, overtaken, intruders,
                   restartVars, edits, breaks>>

\* A mutant: the revision is compared before the lock is taken.
CheckRevisionUnlocked(b) ==
    /\ save[b].at = "previewed"
    /\ file = save[b].base
    /\ save' = [save EXCEPT ![b].at = "checked"]
    /\ intruders' = {}
    /\ UNCHANGED <<file, current, saveLock, orphans, overtaken, restartVars,
                   edits, breaks>>

\* The lock, load_config_document and ensure_revision_matches.
CheckRevision(b) ==
    /\ save[b].at = "previewed"
    /\ saveLock = Nobody
    /\ IF file = save[b].base
       THEN /\ save' = [save EXCEPT ![b].at = "checked"]
            /\ saveLock' = b
            /\ intruders' = {}
       ELSE /\ save' = [save EXCEPT ![b] = NoSave]
            /\ UNCHANGED <<saveLock, intruders>>
    /\ UNCHANGED <<file, current, orphans, overtaken, restartVars, edits,
                   breaks>>

\* PreparedConfigWrite::commit, and the end of the block that holds the lock.
Commit(b) ==
    /\ save[b].at = "checked"
    /\ file' = save[b].candidate
    /\ save' = [save EXCEPT ![b].at = "committed"]
    /\ saveLock' = Nobody
    /\ overtaken' = orphans
    /\ UNCHANGED <<current, orphans, intruders, restartVars, edits, breaks>>

\* prepare_secure_write or commit fails: an internal error, nothing written.
SaveFails(b) ==
    /\ save[b].at = "checked"
    /\ save' = [save EXCEPT ![b] = NoSave]
    /\ saveLock' = Nobody
    /\ UNCHANGED <<file, current, orphans, overtaken, intruders, restartVars,
                   edits, breaks>>

\* ServiceControl::schedule: nothing if a restart is pending.
Schedule ==
    IF pending THEN UNCHANGED restartVars
    ELSE pending' = TRUE /\ restart' = "sleeping"

\* The answer says whether a restart was scheduled (restart_scheduled).
FinishSave(b) ==
    /\ save[b].at = "committed"
    /\ IF save[b].restart THEN Schedule ELSE UNCHANGED restartVars
    /\ save' = [save EXCEPT ![b] = NoSave]
    /\ UNCHANGED <<file, current, saveLock, orphans, overtaken, intruders,
                   edits, breaks>>

\* The connection closes while the file is prepared, or after the commit.
DropRequest(b) ==
    /\ save[b].at \in {"checked", "committed"}
    /\ breaks < MaxBreaks
    /\ breaks' = breaks + 1
    /\ save' = [save EXCEPT ![b] = NoSave]
    /\ saveLock' = IF saveLock = b THEN Nobody ELSE saveLock
    /\ UNCHANGED <<file, current, orphans, overtaken, intruders, restartVars,
                   edits>>

OrphanOf(b) == [nr |-> breaks + 1, base |-> save[b].base,
                candidate |-> save[b].candidate]

\* It closes while the handler waits for commit(): the lock is released, and
\* the commit is still to come.
DropDuringCommit(b) ==
    /\ save[b].at = "checked"
    /\ breaks < MaxBreaks
    /\ breaks' = breaks + 1
    /\ save' = [save EXCEPT ![b] = NoSave]
    /\ saveLock' = Nobody
    /\ orphans' = orphans \cup {OrphanOf(b)}
    /\ overtaken' = IF intruders = {} THEN overtaken
                    ELSE overtaken \cup {OrphanOf(b)}
    /\ UNCHANGED <<file, current, intruders, restartVars, edits>>

\* A write beside the lock.
Intrudes(who) ==
    intruders' = IF saveLock = Nobody THEN intruders
                 ELSE intruders \cup {who}

CommitOrphan(o) ==
    /\ o \in orphans
    /\ file' = o.candidate
    /\ orphans' = orphans \ {o}
    /\ overtaken' = orphans \ {o}
    /\ Intrudes("orphan")
    /\ UNCHANGED <<current, save, saveLock, restartVars, edits, breaks>>

\* The wizard, the command line or an editor writes the file.
Edit(c) ==
    /\ edits < MaxEdits
    /\ edits' = edits + 1
    /\ file' = c
    /\ overtaken' = orphans
    /\ Intrudes("editor")
    /\ UNCHANGED <<current, save, saveLock, orphans, restartVars, breaks>>

----------------------------------------------------------------------------
\* POST /api/service/restart
RequestRestart ==
    /\ Schedule
    /\ UNCHANGED <<file, current, save, saveLock, orphans, overtaken,
                   intruders, edits, breaks>>

\* After 500 ms the task runs the command.
RunRestart ==
    /\ restart = "sleeping"
    /\ restart' = "running"
    /\ UNCHANGED <<file, current, save, saveLock, orphans, overtaken,
                   intruders, pending, edits, breaks>>

\* A mutant: restart_pending is cleared on success only.
RestartReturnsPending ==
    /\ restart = "running"
    /\ restart' = "none"
    /\ pending' \in BOOLEAN
    /\ UNCHANGED <<file, current, save, saveLock, orphans, overtaken,
                   intruders, edits, breaks>>

\* The command fails, or completes without ending this process.
RestartReturns ==
    /\ restart = "running"
    /\ restart' = "none"
    /\ pending' = FALSE
    /\ UNCHANGED <<file, current, save, saveLock, orphans, overtaken,
                   intruders, edits, breaks>>

\* The command ends this process, or it crashes; the next one reads the file.
StartAnew ==
    /\ current' = file
    /\ save' = [b \in Browsers |-> NoSave]
    /\ saveLock' = Nobody
    /\ orphans' = {} /\ overtaken' = {} /\ intruders' = {}
    /\ pending' = FALSE /\ restart' = "none"
    /\ UNCHANGED <<file, edits>>

RestartEnds == restart = "running" /\ StartAnew /\ breaks' = breaks

Crash == breaks < MaxBreaks /\ breaks' = breaks + 1 /\ StartAnew

ConfigSaveNext ==
    \/ \E b \in Browsers, c \in Contents, r \in BOOLEAN : Preview(b, c, r)
    \/ \E b \in Browsers : CheckRevision(b) \/ Commit(b) \/ SaveFails(b)
                             \/ FinishSave(b) \/ DropRequest(b)
                             \/ DropDuringCommit(b)
    \/ \E o \in orphans : CommitOrphan(o)
    \/ \E c \in Contents : Edit(c)
    \/ RequestRestart \/ RunRestart \/ RestartReturns \/ RestartEnds \/ Crash

ConfigSaveSpec == ConfigSaveInit /\ [][ConfigSaveNext]_saveVars

\* The restart task goes on, and its command ends one way or the other.
ConfigSaveFairness ==
    /\ WF_saveVars(RunRestart)
    /\ WF_saveVars(RestartReturns \/ RestartEnds)

----------------------------------------------------------------------------
CommitsOver(b) == save[b].at = "checked" /\ save'[b].at = "committed"
CommitsLate(o) == o \in orphans /\ o \notin orphans' /\ file' = o.candidate

\* A save whose request lives replaces the content that its preview showed, so
\* that it undoes no other such save.  What an editor, or the commit of a
\* request that is gone, wrote beside the lock it replaces unseen.
LiveSavesAreChecked ==
    \A b \in Browsers :
        CommitsOver(b) => file = save[b].base \/ intruders # {}

\* The commit of a request that is gone replaces it too, unless something was
\* written since the request checked its revision: that it undoes, also the
\* successful save of another browser.
LateCommitsAreChecked ==
    \A o \in orphans : CommitsLate(o) => file = o.base \/ o \in overtaken

\* Every save of the service replaces what its preview showed, but for these
\* two: the lock holds up neither editors nor the commits of dropped requests
\* (save_config).
SavesAreChecked ==
    [][LiveSavesAreChecked /\ LateCommitsAreChecked]_saveVars

\* A restart that was scheduled comes to its end; the process does not stay
\* with restart_pending set, refusing every restart that is asked for.
RestartComesToAnEnd == []<>~pending
=============================================================================
