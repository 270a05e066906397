---------------------------- MODULE EventsArchive ----------------------------
(***************************************************************************)
(* What becomes of the audit rows of one orchestration when it closes: the *)
(* live log events.jsonl, its archive history/<id>/events.jsonl, and the   *)
(* four programs that move rows between them.                              *)
(*                                                                         *)
(*   emit-orchestration-complete.js  SubagentStop hook, writes a           *)
(*                                   completion row                        *)
(*   ox state complete               writes a completion row and removes   *)
(*                                   current-orchestration.json            *)
(*   audit-on-orch-complete.js       PostToolUse hook; once it sees a      *)
(*                                   completion row it runs                *)
(*                                   archive-orch-events.js, which copies  *)
(*                                   the rows and may roll the log         *)
(*   events-rotate.js                called by the PM, moves the rows      *)
(*                                                                         *)
(* Each is a process that can stop between two file operations; an action  *)
(* is one file operation.  A file is the set of its rows.                  *)
(***************************************************************************)
EXTENDS Naturals

CONSTANTS
    Own,     \* rows with this orchestration_id that are no completion row
    Others,  \* all other rows: of other orchestrations, or not JSON
    Early,   \* the completion row of emit-orchestration-complete.js
    Done,    \* the completion row of ox state complete
    Hooks    \* runs of audit-on-orch-complete.js

ASSUME RowsAssumption ==
    /\ Own \cap Others = {}
    /\ Early # Done /\ {Early, Done} \cap (Own \cup Others) = {}

Completions == {Early, Done}
OwnRows == Own \cup Completions
Rows == OwnRows \cup Others

VARIABLES
    live,      \* events.jsonl
    rolled,    \* events.jsonl.1 and older, dropped generations included
    archive,   \* history/<id>/events.jsonl: its rows
    archived,  \* ... whether it exists, and whether its writer finished
    frozen,    \* history/<id>/.archived exists
    marker,    \* current-orchestration.json names the orchestration
    announced, \* orchestration-complete-emitted.<id> exists
    fired,     \* orch-complete-trigger.json names the orchestration
    sentinel,  \* .events-rotation-<id>.sentinel
    stop,      \* emit-orchestration-complete.js: what it does next
    ox,        \* ox state complete: what it does next
    hook,      \* each run of audit-on-orch-complete.js: what it does next
    slice,     \* ... result.buf, in archive-orch-events.js
    pm,        \* rotateEventsForOrchestration: what it does next
    mine,      \* ... archiveLines
    keep,      \* ... otherLines
    written,   \* history: every row that was appended
    mishaps    \* history: see Mishaps

logs == <<live, rolled, archive, archived, written, mishaps>>
closing == <<marker, announced, fired, frozen>>
rotation == <<sentinel, pm, mine, keep>>
vars == <<logs, closing, rotation, stop, ox, hook, slice>>

\* late:    a row of the orchestration is appended when its archive exists
\* raced:   a row is appended between reading and replacing the live log, or one
\*          of the orchestration between reading it and writing the archive
\* again:   the rotation overwrites an archive because the live log is empty
\* overlap: the rotation starts while an archiver is at work
\* unlink:  an archive that may be partial cannot be deleted
Mishaps == {"late", "raced", "again", "overlap", "unlink"}

TypeOK ==
    /\ live \subseteq Rows /\ rolled \subseteq Rows /\ archive \subseteq Rows
    /\ archived \in {"none", "partial", "whole"}
    /\ frozen \in BOOLEAN /\ marker \in BOOLEAN
    /\ announced \in BOOLEAN /\ fired \in BOOLEAN
    /\ sentinel \in {"none", "torn", "started", "archived", "truncated"}
    /\ stop \in {"idle", "check", "emit"}
    /\ ox \in {"idle", "unmark"}
    /\ hook \in [Hooks -> {"idle", "mark", "look", "filter", "write",
                           "freeze", "emit", "roll", "note", "report", "done"}]
    /\ slice \in [Hooks -> SUBSET Rows]
    /\ pm \in {"idle", "discard", "forget", "look", "partition", "vouch", "reread",
               "filter", "write", "archived", "truncate", "truncated", "finish"}
    /\ mine \subseteq Rows /\ keep \subseteq Rows /\ written \subseteq Rows
    /\ mishaps \subseteq Mishaps

Init ==
    /\ live = {} /\ rolled = {} /\ archive = {} /\ archived = "none"
    /\ frozen = FALSE /\ marker = TRUE /\ announced = FALSE /\ fired = FALSE
    /\ sentinel = "none"
    /\ stop = "idle" /\ ox = "idle" /\ pm = "idle"
    /\ hook = [h \in Hooks |-> "idle"]
    /\ slice = [h \in Hooks |-> {}]
    /\ mine = {} /\ keep = {}
    /\ written = {} /\ mishaps = {}

-----------------------------------------------------------------------------
(* Appends.                                                                *)

\* A program has read the live log and is going to replace it.
Replacing == pm \in {"vouch", "write", "archived", "truncate"}

\* An archiver has read the live log and is going to write the archive.
Copying == \E h \in Hooks : hook[h] = "write"

\* ... or is going to read it, having found the orchestration open.
Archiving == \E h \in Hooks : hook[h] \in {"filter", "write"}

\* The rows in new are appended to the live log.
Lands(new) ==
    /\ live' = live \cup new
    /\ written' = written \cup new
    /\ mishaps' = mishaps
         \cup (IF \/ new # {} /\ Replacing
                  \/ new \cap OwnRows # {} /\ Copying THEN {"raced"} ELSE {})
         \cup (IF new \cap OwnRows # {} /\ archived # "none"
               THEN {"late"} ELSE {})
    /\ UNCHANGED <<rolled, archive, archived>>

\* A telemetry row of the orchestration is appended, or rejected.
Reports == Lands({}) \/ \E r \in Own \ written : Lands({r})

\* Any other hook or the MCP server appends a row.
Append(r) ==
    /\ r \in (Own \cup Others) \ written
    /\ Lands({r})
    /\ UNCHANGED <<closing, rotation, stop, ox, hook, slice>>

-----------------------------------------------------------------------------
(* emit-orchestration-complete.js and ox state complete.                   *)

\* The sentinel is created exclusively: one run goes on.
StopHookStarts ==
    /\ stop = "idle" /\ marker /\ ~announced
    /\ announced' = TRUE
    /\ stop' = "check"
    /\ UNCHANGED <<logs, marker, fired, frozen, rotation, ox, hook, slice>>

\* hasOrchComplete
HasComplete == live \cap Completions # {}

StopHookChecks ==
    /\ stop = "check"
    /\ IF HasComplete
       THEN announced' = FALSE /\ stop' = "idle"
       ELSE announced' = announced /\ stop' = "emit"
    /\ UNCHANGED <<logs, marker, fired, frozen, rotation, ox, hook, slice>>

StopHookEmits ==
    /\ stop = "emit"
    /\ Lands({Early})
    /\ stop' = "idle"
    /\ UNCHANGED <<closing, rotation, ox, hook, slice>>

OxCompletes ==
    /\ ox = "idle" /\ marker
    /\ Lands({Done})
    /\ ox' = "unmark"
    /\ UNCHANGED <<closing, rotation, stop, hook, slice>>

OxUnmarks ==
    /\ ox = "unmark"
    /\ marker' = FALSE
    /\ ox' = "idle"
    /\ UNCHANGED <<logs, announced, fired, frozen, rotation, stop, hook, slice>>

-----------------------------------------------------------------------------
(* audit-on-orch-complete.js and the archive-orch-events.js it runs.       *)

HookGoes(h, label) == hook' = [hook EXCEPT ![h] = label]

HookStarts(h) ==
    /\ hook[h] = "idle"
    /\ marker /\ HasComplete /\ ~fired
    /\ HookGoes(h, "mark")
    /\ UNCHANGED <<logs, closing, rotation, stop, ox, slice>>

HookMarks(h) ==
    /\ hook[h] = "mark"
    /\ fired' = TRUE
    /\ HookGoes(h, "look")
    /\ UNCHANGED <<logs, marker, announced, frozen, rotation, stop, ox, slice>>

\* Without the marker only the log may be rolled.
HookLooks(h) ==
    /\ hook[h] = "look"
    /\ HookGoes(h, IF marker THEN "filter" ELSE "roll")
    /\ UNCHANGED <<logs, closing, rotation, stop, ox, slice>>

\* A frozen archive, or no row to archive, ends the archiver.
HookFilters(h) ==
    /\ hook[h] = "filter"
    /\ \/ /\ frozen \/ live \cap OwnRows = {}
          /\ HookGoes(h, "report") /\ UNCHANGED slice
       \/ /\ ~frozen /\ live \cap OwnRows # {}
          /\ slice' = [slice EXCEPT ![h] = live \cap OwnRows]
          /\ HookGoes(h, "write")
    /\ UNCHANGED <<logs, closing, rotation, stop, ox>>

\* A new file is renamed over the archive, whatever the archive holds by now.
HookWrites(h) ==
    /\ hook[h] = "write"
    /\ archive' = slice[h]
    /\ archived' = "whole"
    /\ slice' = [slice EXCEPT ![h] = {}]
    /\ HookGoes(h, IF slice[h] \cap Completions # {} THEN "freeze" ELSE "emit")
    /\ UNCHANGED <<live, rolled, written, mishaps, closing, rotation, stop, ox>>

HookFreezes(h) ==
    /\ hook[h] = "freeze"
    /\ frozen' = TRUE
    /\ HookGoes(h, "emit")
    /\ UNCHANGED <<logs, marker, announced, fired, rotation, stop, ox, slice>>

\* orchestration_events_archived
HookEmits(h) ==
    /\ hook[h] = "emit"
    /\ Reports
    /\ HookGoes(h, "roll")
    /\ UNCHANGED <<closing, rotation, stop, ox, slice>>

\* rotateLiveEvents: above the threshold the live log is renamed.
HookRolls(h) ==
    /\ hook[h] = "roll"
    /\ \/ UNCHANGED <<live, rolled>> /\ HookGoes(h, "report")
       \/ /\ live # {} /\ rolled' = rolled \cup live /\ live' = {}
          /\ HookGoes(h, "note")
    /\ UNCHANGED <<archive, archived, written, mishaps, closing, rotation, stop,
                   ox, slice>>

\* events_log_rotated, into the fresh log: a row of the orchestration, or of none
\* when there was no marker.
HookNotes(h) ==
    /\ hook[h] = "note"
    /\ Reports \/ \E r \in Others \ written : Lands({r})
    /\ HookGoes(h, "report")
    /\ UNCHANGED <<closing, rotation, stop, ox, slice>>

\* The decision and cost rows that end audit-on-orch-complete.js.
HookReports(h) ==
    /\ hook[h] = "report"
    /\ Reports
    /\ HookGoes(h, "done")
    /\ UNCHANGED <<closing, rotation, stop, ox, slice>>

\* A failing step ends the archiver, the ten seconds of its timeout or a kill
\* end it anywhere.
HookStops(h) ==
    /\ hook[h] \notin {"idle", "done"}
    /\ HookGoes(h, "done")
    /\ slice' = [slice EXCEPT ![h] = {}]
    /\ UNCHANGED <<logs, closing, rotation, stop, ox>>

-----------------------------------------------------------------------------
(* rotateEventsForOrchestration.  The PM calls it after ox state complete, *)
(* and again when it was interrupted or when its result was not seen.      *)

\* Mutants of partitionLines: nothing is kept; everything is.
KeptNone(rows) == {}
KeptAll(rows) == rows
Kept(rows) == rows \ OwnRows

\* Mutant: an interrupted archive counts as a written one.
ResumeAnyAt ==
    CASE sentinel = "truncated" -> "finish"
      [] sentinel \in {"archived", "started"} -> "reread"
      [] sentinel \in {"none", "torn"} -> "look"

\* Where a call that finds this sentinel goes on; an unreadable sentinel counts
\* as none.
ResumeAt ==
    CASE sentinel = "truncated" -> "finish"
      [] sentinel = "archived" -> "reread"
      [] sentinel = "started" -> "discard"
      [] sentinel \in {"none", "torn"} -> "look"

RotationStarts ==
    /\ pm = "idle" /\ ~marker
    /\ pm' = ResumeAt
    /\ mishaps' = IF Archiving THEN mishaps \cup {"overlap"} ELSE mishaps
    /\ UNCHANGED <<live, rolled, archive, archived, written, closing, sentinel,
                   mine, keep, stop, ox, hook, slice>>

\* Mutant: the partial archive stays.
DiscardedKept == archived
Discarded == "none"

DiscardArchive ==
    /\ pm = "discard"
    /\ \/ archived' = Discarded /\ archive' = {} /\ UNCHANGED mishaps
       \/ /\ archived # "none" /\ mishaps' = mishaps \cup {"unlink"}
          /\ UNCHANGED <<archive, archived>>
    /\ pm' = "forget"
    /\ UNCHANGED <<live, rolled, written, closing, sentinel, mine, keep, stop,
                   ox, hook, slice>>

DiscardSentinel ==
    /\ pm = "forget"
    /\ sentinel' \in {"none", sentinel}
    /\ pm' = "look"
    /\ UNCHANGED <<logs, closing, mine, keep, stop, ox, hook, slice>>

\* Mutant: no belt and braces.
TrustsNone == FALSE
Trusts == archived # "none" /\ live # {}

\* An archive that exists is taken for complete: the live log is read to be
\* replaced, and the sentinel says that the archive was written.
TrustArchive ==
    /\ pm = "look" /\ Trusts
    /\ pm' = "partition"
    /\ UNCHANGED <<logs, closing, sentinel, mine, keep, stop, ox, hook, slice>>

PartitionTrusted ==
    /\ pm = "partition"
    /\ keep' = Kept(live)
    /\ pm' = "vouch"
    /\ UNCHANGED <<logs, closing, sentinel, mine, stop, ox, hook, slice>>

VouchForArchive ==
    /\ pm = "vouch"
    /\ sentinel' = "archived"
    /\ pm' = "truncate"
    /\ UNCHANGED <<logs, closing, mine, keep, stop, ox, hook, slice>>

\* Mutant: the sentinel is not written before the archive is.
UnmarkedStart == sentinel
\* Mutant: a state the reader does not know.
MarkedStartUnknown == "running"

MarkedStart == "started"

StartArchive ==
    /\ pm = "look" /\ ~Trusts
    /\ sentinel' = MarkedStart
    /\ mishaps' = IF archived # "none" /\ live = {}
                  THEN mishaps \cup {"again"} ELSE mishaps
    /\ pm' = "filter"
    /\ UNCHANGED <<live, rolled, archive, archived, written, closing, mine, keep,
                   stop, ox, hook, slice>>

Filter ==
    /\ pm = "filter"
    /\ mine' = live \cap OwnRows
    /\ keep' = Kept(live)
    /\ pm' = "write"
    /\ UNCHANGED <<logs, closing, sentinel, stop, ox, hook, slice>>

WriteArchive ==
    /\ pm = "write"
    /\ archive' = mine
    /\ archived' = "whole"
    /\ mine' = {}
    /\ pm' = "archived"
    /\ UNCHANGED <<live, rolled, written, mishaps, closing, sentinel, keep, stop,
                   ox, hook, slice>>

MarkArchived ==
    /\ pm = "archived"
    /\ sentinel' = "archived"
    /\ pm' = "truncate"
    /\ UNCHANGED <<logs, closing, mine, keep, stop, ox, hook, slice>>

\* The call finds the archive written.
Reread ==
    /\ pm = "reread"
    /\ keep' = Kept(live)
    /\ pm' = "truncate"
    /\ UNCHANGED <<logs, closing, sentinel, mine, stop, ox, hook, slice>>

\* events.jsonl.partial is written and renamed over the live log.
Truncate ==
    /\ pm = "truncate"
    /\ live' = keep
    /\ keep' = {}
    /\ pm' = "truncated"
    /\ UNCHANGED <<rolled, archive, archived, written, mishaps, closing,
                   sentinel, mine, stop, ox, hook, slice>>

MarkTruncated ==
    /\ pm = "truncated"
    /\ sentinel' = "truncated"
    /\ pm' = "finish"
    /\ UNCHANGED <<logs, closing, mine, keep, stop, ox, hook, slice>>

Finish ==
    /\ pm = "finish"
    /\ sentinel' \in {"none", sentinel}
    /\ pm' = "idle"
    /\ UNCHANGED <<logs, closing, mine, keep, stop, ox, hook, slice>>

\* The call fails or is killed; killed in the middle of writing the sentinel or
\* the archive it leaves part of the file.
RotationStops ==
    /\ pm # "idle"
    /\ pm' = "idle"
    /\ mine' = {} /\ keep' = {}
    /\ \/ UNCHANGED <<archive, archived, sentinel>>
       \/ /\ pm = "write"
          /\ archived' = "partial" /\ archive' \in SUBSET mine
          /\ UNCHANGED sentinel
       \/ /\ pm \in {"look", "vouch", "archived", "truncated"}
          /\ sentinel' = "torn"
          /\ UNCHANGED <<archive, archived>>
    /\ UNCHANGED <<live, rolled, written, mishaps, closing, stop, ox, hook, slice>>

-----------------------------------------------------------------------------
Next ==
    \/ \E r \in Rows : Append(r)
    \/ StopHookStarts \/ StopHookChecks \/ StopHookEmits
    \/ OxCompletes \/ OxUnmarks
    \/ \E h \in Hooks :
         \/ HookStarts(h) \/ HookMarks(h) \/ HookLooks(h) \/ HookFilters(h)
         \/ HookWrites(h) \/ HookFreezes(h) \/ HookEmits(h)
         \/ HookRolls(h) \/ HookNotes(h) \/ HookReports(h) \/ HookStops(h)
    \/ RotationStarts \/ DiscardArchive \/ DiscardSentinel \/ TrustArchive
    \/ PartitionTrusted \/ VouchForArchive
    \/ StartArchive \/ Filter \/ WriteArchive \/ MarkArchived \/ Reread
    \/ Truncate \/ MarkTruncated \/ Finish \/ RotationStops

Spec == Init /\ [][Next]_vars

-----------------------------------------------------------------------------
(* Properties.                                                             *)

Calm == mishaps = {}
NoOwnRowLost == written \cap OwnRows \subseteq live \cup rolled \cup archive

\* Wherever the closing programs stop and start again, a row of the
\* orchestration is in the live log, in a rolled one or in the archive.
OwnRowsKept == Calm => NoOwnRowLost

\* Closing an orchestration takes no row of another one out of the log.
OtherRowsKept ==
    "raced" \notin mishaps => written \cap Others \subseteq live \cup rolled

\* When the sentinel says "archived", replacing the live log loses nothing: the
\* archive is complete and on disk.
SafeToTruncate ==
    Calm /\ sentinel = "archived" =>
        archived = "whole" /\ live \cap OwnRows \subseteq archive

\* A part of an archive that an interrupted rotation left is marked as such
\* until it is deleted, so that no later call takes it for the archive.
PartialIsMarked ==
    "unlink" \notin mishaps /\ archived = "partial" => sentinel = "started"

\* After the rotation no row of the orchestration is left in the live log.
MovedOut == Calm /\ sentinel = "truncated" => live \cap OwnRows = {}

\* Readers see rows appended, archived as a whole and taken out of the log in
\* one step each, and nothing of how the programs get there.
Stored == IF archived = "whole" THEN archive ELSE {}
Closed == sentinel = "truncated"
Steady == "raced" \notin mishaps

Trail == INSTANCE AuditTrail WITH
    Own <- OwnRows,
    log <- live,
    old <- rolled,
    store <- Stored,
    closed <- Closed,
    calm <- Calm,
    steady <- Steady

\* The four programs together keep to it.
ImplementsTrail == Trail!TrailSpec

-----------------------------------------------------------------------------
(* What a comment says and the code does not keep.                         *)

\* An orchestration goes on, and its rows are appended, after the archive was
\* first written; the rotation at its end is to move them all: the live log
\* "into the per-orchestration history archive" (events-rotate.js).
RotationMovesAll == mishaps \subseteq {"late"} => NoOwnRowLost
=============================================================================
