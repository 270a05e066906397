------------------------- MODULE EventsArchiveProofs -------------------------
(* Machine-checked proofs about EventsArchive, for any rows and any number *)
(* of hook runs.                                                           *)
EXTENDS EventsArchive, TLAPS

-----------------------------------------------------------------------------
(* Types.                                                                  *)

\* Every row is of the orchestration or of another, never of both.
LEMMA RowsSplit == OwnRows \cap Others = {} /\ Rows = OwnRows \cup Others
  BY RowsAssumption DEF OwnRows, Completions, Rows

\* A mishap is never forgotten by an append.
LEMMA LandsType ==
    ASSUME TypeOK, NEW new \in SUBSET Rows, Lands(new)
    PROVE  /\ live' \subseteq Rows /\ written' \subseteq Rows
           /\ mishaps' \subseteq Mishaps /\ mishaps \subseteq mishaps'
           /\ UNCHANGED <<rolled, archive, archived>>
<1>1. {"raced", "late"} \subseteq Mishaps
  BY DEF Mishaps
<1>. QED
  BY <1>1 DEF Lands, TypeOK

\* A report is an append of at most one row.
LEMMA ReportsLands ==
    ASSUME Reports \/ \E r \in Others \ written : Lands({r})
    PROVE  /\ \E new \in SUBSET Rows : Lands(new)
           /\ Lands({}) \/ \E r \in Rows : Lands({r})
<1>1. {} \in SUBSET Rows /\ \A r \in Own \cup Others : r \in Rows /\ {r} \in SUBSET Rows
  BY DEF Rows, OwnRows
<1>. QED
  BY <1>1, Zenon DEF Reports

\* The initial state has its types.
LEMMA InitType == Init => TypeOK
  BY DEF Init, TypeOK

\* What one run of the closing hook may do.
HookNext(h) ==
    \/ HookStarts(h) \/ HookMarks(h) \/ HookLooks(h) \/ HookFilters(h)
    \/ HookWrites(h) \/ HookFreezes(h) \/ HookEmits(h)
    \/ HookRolls(h) \/ HookNotes(h) \/ HookReports(h) \/ HookStops(h)

\* What a call of the rotation may do.
RotationNext ==
    \/ RotationStarts \/ DiscardArchive \/ DiscardSentinel \/ TrustArchive
    \/ PartitionTrusted \/ VouchForArchive
    \/ StartArchive \/ Filter \/ WriteArchive \/ MarkArchived \/ Reread
    \/ Truncate \/ MarkTruncated \/ Finish \/ RotationStops

\* What any other program may do.
OtherNext ==
    \/ \E r \in Rows : Append(r)
    \/ StopHookStarts \/ StopHookChecks \/ StopHookEmits
    \/ OxCompletes \/ OxUnmarks

\* Every step is a step of one of the three.
LEMMA NextSplit ==
    ASSUME Next
    PROVE  OtherNext \/ (\E h \in Hooks : HookNext(h)) \/ RotationNext
BY Zenon DEF Next, OtherNext, HookNext, RotationNext

\* A step of the completion programs keeps types.
LEMMA OthersType ==
    ASSUME TypeOK, OtherNext
    PROVE  TypeOK'
<1>1. ASSUME NEW r \in Rows, Append(r) PROVE TypeOK'
  <2>1. Lands({r}) /\ {r} \in SUBSET Rows
    BY <1>1 DEF Append
  <2>. QED
    BY <1>1, <2>1, LandsType DEF Append, TypeOK, closing, rotation
<1>2. CASE StopHookStarts
  BY <1>2 DEF StopHookStarts, TypeOK, logs, rotation
<1>3. CASE StopHookChecks
  <2>1. announced' \in BOOLEAN
    BY <1>3, Zenon DEF StopHookChecks, TypeOK
  <2>2. /\ stop' \in {"idle", "check", "emit"}
        /\ UNCHANGED <<logs, marker, fired, frozen, rotation, ox, hook, slice>>
    BY <1>3 DEF StopHookChecks
  <2>. QED
    BY <2>1, <2>2 DEF TypeOK, logs, rotation
<1>4. CASE StopHookEmits
  <2>1. Lands({Early}) /\ {Early} \in SUBSET Rows
    BY <1>4 DEF StopHookEmits, Rows, OwnRows, Completions
  <2>. QED
    BY <1>4, <2>1, LandsType DEF StopHookEmits, TypeOK, closing, rotation
<1>5. CASE OxCompletes
  <2>1. Lands({Done}) /\ {Done} \in SUBSET Rows
    BY <1>5 DEF OxCompletes, Rows, OwnRows, Completions
  <2>. QED
    BY <1>5, <2>1, LandsType DEF OxCompletes, TypeOK, closing, rotation
<1>6. CASE OxUnmarks
  <2>1. marker' \in BOOLEAN
    BY <1>6, Zenon DEF OxUnmarks
  <2>2. ox' = "idle"
        /\ UNCHANGED <<logs, announced, fired, frozen, rotation, stop, hook, slice>>
    BY <1>6 DEF OxUnmarks
  <2>. QED
    BY <2>1, <2>2 DEF TypeOK, logs, rotation
<1>. QED
  BY <1>1, <1>2, <1>3, <1>4, <1>5, <1>6 DEF OtherNext

\* A step of the closing hook keeps types.
LEMMA HookType ==
    ASSUME TypeOK, NEW h \in Hooks, HookNext(h)
    PROVE  TypeOK'
<1>0. CASE HookStarts(h) \/ HookLooks(h)
  <2>1. HookGoes(h, "mark") \/ HookGoes(h, "filter") \/ HookGoes(h, "roll")
    BY <1>0, Zenon DEF HookStarts, HookLooks
  <2>2. UNCHANGED <<logs, closing, rotation, stop, ox, slice>>
    BY <1>0 DEF HookStarts, HookLooks
  <2>. QED
    BY <2>1, <2>2 DEF HookGoes, TypeOK, logs, closing, rotation
<1>1. CASE HookMarks(h)
  BY <1>1 DEF HookMarks, HookGoes, TypeOK, logs, rotation
<1>2. CASE HookFilters(h)
  BY <1>2 DEF HookFilters, HookGoes, TypeOK, logs, closing, rotation
<1>3. CASE HookWrites(h)
  BY <1>3 DEF HookWrites, HookGoes, TypeOK, closing, rotation
<1>4. CASE HookFreezes(h)
  BY <1>4 DEF HookFreezes, HookGoes, TypeOK, logs, rotation
<1>5. CASE HookEmits(h) \/ HookNotes(h) \/ HookReports(h)
  <2>1. PICK new \in SUBSET Rows : Lands(new)
    BY <1>5, ReportsLands DEF HookEmits, HookNotes, HookReports
  <2>. QED
    BY <1>5, <2>1, LandsType DEF HookEmits, HookNotes, HookReports, HookGoes, TypeOK, closing, rotation
<1>6. CASE HookRolls(h)
  BY <1>6 DEF HookRolls, HookGoes, TypeOK, closing, rotation
<1>7. CASE HookStops(h)
  BY <1>7 DEF HookStops, HookGoes, TypeOK, logs, closing, rotation
<1>. QED
  BY <1>0, <1>1, <1>2, <1>3, <1>4, <1>5, <1>6, <1>7 DEF HookNext

\* A step of the rotation keeps types.
LEMMA RotationType ==
    ASSUME TypeOK, RotationNext
    PROVE  TypeOK'
<1>1. CASE RotationStarts
  <2>1. ResumeAt \in {"finish", "reread", "discard", "look"}
    BY DEF ResumeAt, TypeOK
  <2>. QED
    BY <1>1, <2>1 DEF RotationStarts, TypeOK, Mishaps, closing
<1>2. CASE DiscardArchive
  BY <1>2 DEF DiscardArchive, Discarded, TypeOK, Mishaps, closing
<1>3. CASE DiscardSentinel \/ Finish
  BY <1>3 DEF DiscardSentinel, Finish, TypeOK, logs, closing
<1>4. CASE TrustArchive \/ PartitionTrusted \/ VouchForArchive \/ Reread
  BY <1>4 DEF TrustArchive, PartitionTrusted, VouchForArchive, Reread, Kept, TypeOK, logs, closing
<1>5. CASE StartArchive
  BY <1>5 DEF StartArchive, MarkedStart, TypeOK, Mishaps, closing
<1>6. CASE Filter
  BY <1>6 DEF Filter, Kept, TypeOK, logs, closing
<1>7. CASE WriteArchive
  BY <1>7 DEF WriteArchive, TypeOK, closing
<1>8. CASE MarkArchived \/ MarkTruncated
  BY <1>8 DEF MarkArchived, MarkTruncated, TypeOK, logs, closing
<1>9. CASE Truncate
  BY <1>9 DEF Truncate, TypeOK, closing
<1>10. CASE RotationStops
  BY <1>10 DEF RotationStops, TypeOK, closing
<1>. QED
  BY <1>1, <1>2, <1>3, <1>4, <1>5, <1>6, <1>7, <1>8, <1>9, <1>10 DEF RotationNext

\* Files, sentinels and the places where the programs are have their types.
THEOREM TypeCorrect == Spec => []TypeOK
<1>1. TypeOK /\ [Next]_vars => TypeOK'
  <2>. SUFFICES ASSUME TypeOK, [Next]_vars PROVE TypeOK'
    OBVIOUS
  <2>1. CASE Next
    BY <2>1, NextSplit, OthersType, HookType, RotationType
  <2>2. CASE UNCHANGED vars
    BY <2>2 DEF TypeOK, vars, logs, closing, rotation
  <2>. QED
    BY <2>1, <2>2
<1>. QED
  BY <1>1, InitType, PTL DEF Spec

-----------------------------------------------------------------------------
(* The inductive invariant.                                                *)

\* Where the rotation stands and what its sentinel says.
ControlInv ==
    /\ pm # "idle" \/ sentinel # "none" => ~marker
    /\ pm \in {"discard", "forget", "filter", "write", "archived"} =>
           sentinel = "started"
    /\ pm \in {"reread", "truncate", "truncated"} => sentinel = "archived"
    /\ pm = "finish" => sentinel = "truncated"
    /\ pm \in {"look", "partition", "vouch"} => sentinel \in {"none", "torn", "started"}
    /\ keep \cap OwnRows = {}
    /\ archived = "none" => archive = {}

\* What the rotation will keep holds the rows of others the live log has.
OthersInv ==
    "raced" \notin mishaps =>
        /\ written \cap Others \subseteq live \cup rolled
        /\ Replacing => live \cap Others \subseteq keep

\* A partial archive is seen only before the rotation has discarded it.
PartialInv ==
    "unlink" \notin mishaps /\ archived = "partial" =>
        sentinel = "started" /\ pm \in {"idle", "discard"}

\* The archiver and the rotation exclude each other, and before an archive is
\* replaced or discarded its rows are still in a log.
ArchiverInv ==
    /\ pm # "idle" \/ sentinel # "none" => ~Archiving
    /\ marker \/ Archiving \/ sentinel = "started" =>
           archive \subseteq live \cup rolled
    /\ \A h \in Hooks : hook[h] = "write" =>
           slice[h] \subseteq live \cup rolled /\ live \cap OwnRows \subseteq slice[h]

\* Before the live log is replaced the archive has its rows.
RotationInv ==
    /\ archived = "whole" => live \cap OwnRows \subseteq archive
    /\ pm = "write" => mine \subseteq live \cup rolled /\ live \cap OwnRows \subseteq mine
    /\ sentinel = "archived" \/ pm \in {"partition", "vouch", "archived"} => archived = "whole"
    /\ sentinel = "truncated" \/ pm = "truncated" =>
           archived = "whole" /\ live \cap OwnRows = {}

CalmInv == Calm => ArchiverInv /\ RotationInv /\ NoOwnRowLost

\* What is copied, put back or archived was appended once, and nothing is put
\* back that a log does not have.
OriginInv ==
    /\ live \cup rolled \subseteq written
    /\ archive \cup mine \subseteq written \cap OwnRows
    /\ \A h \in Hooks : slice[h] \subseteq written \cap OwnRows
    /\ keep \subseteq live \cup rolled

IInv == ControlInv /\ OthersInv /\ PartialInv /\ CalmInv /\ OriginInv

\* It holds initially.
LEMMA InitInvariant == Init => IInv
  BY DEF Init, IInv, ControlInv, OthersInv, PartialInv, CalmInv, ArchiverInv,
         RotationInv, NoOwnRowLost, OriginInv, Archiving, Replacing

-----------------------------------------------------------------------------
(* What the steps of each program leave alone.                             *)

\* The completion programs append or move on, and touch no archive.
LEMMA OtherEffect ==
    ASSUME OtherNext
    PROVE  /\ UNCHANGED <<rotation, rolled, archive, archived, hook, slice>>
           /\ UNCHANGED marker \/ ~marker'
           /\ \/ UNCHANGED <<live, written, mishaps>>
              \/ \E new \in SUBSET Rows : Lands(new)
<1>1. ASSUME NEW new \in SUBSET Rows, Lands(new)
      PROVE  UNCHANGED <<rolled, archive, archived>> /\ \E n \in SUBSET Rows : Lands(n)
  <2>1. UNCHANGED <<rolled, archive, archived>>
    BY <1>1 DEF Lands
  <2>. QED
    BY <1>1, <2>1, Zenon
<1>2. CASE \E r \in Rows : Append(r)
  <2>1. PICK r \in Rows : Append(r)
    BY <1>2
  <2>2. UNCHANGED <<rotation, marker, hook, slice>> /\ Lands({r})
    BY <2>1 DEF Append, closing
  <2>. QED
    BY <1>1, <2>2
<1>3. CASE StopHookStarts \/ StopHookChecks
  BY <1>3 DEF StopHookStarts, StopHookChecks, logs
<1>4. CASE StopHookEmits \/ OxCompletes
  <2>1. UNCHANGED <<rotation, marker, hook, slice>> /\ (Lands({Early}) \/ Lands({Done}))
    BY <1>4 DEF StopHookEmits, OxCompletes, closing
  <2>2. {Early} \in SUBSET Rows /\ {Done} \in SUBSET Rows
    BY DEF Rows, OwnRows, Completions
  <2>. QED
    BY <1>1, <2>1, <2>2
<1>5. CASE OxUnmarks
  BY <1>5 DEF OxUnmarks, logs
<1>. QED
  BY <1>2, <1>3, <1>4, <1>5 DEF OtherNext

\* A run of the closing hook that reports appends rows, and is then past the
\* archive.
LEMMA HookReportEffect ==
    ASSUME TypeOK, NEW h \in Hooks, HookEmits(h) \/ HookNotes(h) \/ HookReports(h)
    PROVE  /\ UNCHANGED <<rotation, marker, slice>>
           /\ \A g \in Hooks :
                  hook'[g] = hook[g] \/ {hook[g], hook'[g]} \cap {"filter", "write"} = {}
           /\ \E new \in SUBSET Rows : Lands(new)
<1>1. /\ UNCHANGED <<rotation, marker, slice>> /\ hook[h] \in {"emit", "note", "report"}
      /\ HookGoes(h, "roll") \/ HookGoes(h, "report") \/ HookGoes(h, "done")
  BY DEF HookEmits, HookNotes, HookReports, closing
<1>2. \E new \in SUBSET Rows : Lands(new)
  BY ReportsLands DEF HookEmits, HookNotes, HookReports
<1>3. \A g \in Hooks :
          hook'[g] = hook[g] \/ {hook[g], hook'[g]} \cap {"filter", "write"} = {}
  <2>1. DOMAIN hook = Hooks
    BY DEF TypeOK
  <2>2. \E to \in {"roll", "report", "done"} : hook' = [hook EXCEPT ![h] = to]
    BY <1>1 DEF HookGoes
  <2>. QED
    BY <1>1, <2>1, <2>2
<1>. QED
  BY <1>1, <1>2, <1>3

\* The closing hook leaves the rotation alone.
LEMMA HookEffect ==
    ASSUME NEW h \in Hooks, HookNext(h)
    PROVE  /\ UNCHANGED <<rotation, marker>>
           /\ archived' = "whole" \/ UNCHANGED <<archived, archive>>
<1>1. CASE HookStarts(h) \/ HookMarks(h) \/ HookLooks(h) \/ HookFilters(h) \/ HookFreezes(h) \/ HookStops(h)
  BY <1>1 DEF HookStarts, HookMarks, HookLooks, HookFilters, HookFreezes, HookStops, logs, closing
<1>2. CASE HookWrites(h)
  BY <1>2 DEF HookWrites, closing
<1>3. CASE HookEmits(h) \/ HookNotes(h) \/ HookReports(h)
  BY <1>3 DEF HookEmits, HookNotes, HookReports, Reports, Lands, closing
<1>4. CASE HookRolls(h)
  BY <1>4 DEF HookRolls, closing
<1>. QED
  BY <1>1, <1>2, <1>3, <1>4 DEF HookNext

-----------------------------------------------------------------------------
(* Every step keeps ControlInv.                                            *)

\* The sentinel always says where the rotation stands.
LEMMA ControlStep ==
    ASSUME TypeOK, ControlInv, Next
    PROVE  ControlInv'
<1>1. CASE OtherNext
  BY <1>1, OtherEffect DEF ControlInv, rotation
<1>2. ASSUME NEW h \in Hooks, HookNext(h) PROVE ControlInv'
  BY <1>2, HookEffect DEF ControlInv, rotation
<1>3. CASE RotationStarts
  BY <1>3 DEF RotationStarts, ResumeAt, TypeOK, ControlInv, closing
<1>4. CASE DiscardArchive \/ DiscardSentinel
  BY <1>4 DEF DiscardArchive, DiscardSentinel, Discarded, ControlInv, logs, closing
<1>5. CASE TrustArchive \/ PartitionTrusted \/ VouchForArchive \/ Reread
  BY <1>5 DEF TrustArchive, PartitionTrusted, VouchForArchive, Reread, Kept, ControlInv, logs, closing
<1>6. CASE StartArchive
  BY <1>6 DEF StartArchive, MarkedStart, ControlInv, closing
<1>7. CASE Filter \/ WriteArchive
  BY <1>7 DEF Filter, WriteArchive, Kept, ControlInv, logs, closing
<1>8. CASE MarkArchived \/ MarkTruncated \/ Finish
  BY <1>8 DEF MarkArchived, MarkTruncated, Finish, ControlInv, logs, closing
<1>9. CASE Truncate
  BY <1>9 DEF Truncate, ControlInv, closing
<1>10. CASE RotationStops
  BY <1>10 DEF RotationStops, ControlInv, closing
<1>. QED
  BY <1>1, <1>2, <1>3, <1>4, <1>5, <1>6, <1>7, <1>8, <1>9, <1>10, NextSplit
     DEF RotationNext

-----------------------------------------------------------------------------
(* Every step keeps OthersInv: a row of another orchestration leaves the   *)
(* live log only when the log is rolled.                                   *)

\* The rotation puts back what it does not move.
LEMMA OthersStep ==
    ASSUME TypeOK, OthersInv, Next
    PROVE  OthersInv'
<1>1. ASSUME NEW new \in SUBSET Rows, Lands(new), UNCHANGED rotation PROVE OthersInv'
  BY <1>1 DEF Lands, OthersInv, Replacing, rotation
<1>2. CASE OtherNext
  BY <1>1, <1>2, OtherEffect DEF OthersInv, Replacing, rotation
<1>3. ASSUME NEW h \in Hooks, HookNext(h) PROVE OthersInv'
  <2>1. CASE HookStarts(h) \/ HookMarks(h) \/ HookLooks(h) \/ HookFilters(h) \/ HookFreezes(h) \/ HookStops(h)
    BY <2>1 DEF HookStarts, HookMarks, HookLooks, HookFilters, HookFreezes, HookStops,
                OthersInv, Replacing, logs, rotation
  <2>2. CASE HookWrites(h)
    BY <2>2 DEF HookWrites, OthersInv, Replacing, rotation
  <2>3. CASE HookEmits(h) \/ HookNotes(h) \/ HookReports(h)
    BY <1>1, <2>3, HookReportEffect
  <2>4. CASE HookRolls(h)
    BY <2>4 DEF HookRolls, OthersInv, Replacing, rotation
  <2>. QED
    BY <1>3, <2>1, <2>2, <2>3, <2>4 DEF HookNext
<1>4. CASE RotationStarts
  BY <1>4 DEF RotationStarts, ResumeAt, TypeOK, OthersInv, Replacing
<1>5. CASE DiscardArchive \/ DiscardSentinel
  BY <1>5 DEF DiscardArchive, DiscardSentinel, OthersInv, Replacing, logs
<1>6. CASE TrustArchive \/ PartitionTrusted \/ VouchForArchive \/ Reread \/ Filter
  BY <1>6, RowsSplit DEF TrustArchive, PartitionTrusted, VouchForArchive, Reread, Filter, Kept, OthersInv, Replacing, logs
<1>7. CASE StartArchive
  BY <1>7 DEF StartArchive, OthersInv, Replacing
<1>8. CASE WriteArchive \/ MarkArchived \/ MarkTruncated \/ Finish
  BY <1>8 DEF WriteArchive, MarkArchived, MarkTruncated, Finish, OthersInv, Replacing, logs
<1>9. CASE Truncate
  BY <1>9 DEF Truncate, OthersInv, Replacing
<1>10. CASE RotationStops
  BY <1>10 DEF RotationStops, OthersInv, Replacing
<1>. QED
  BY <1>2, <1>3, <1>4, <1>5, <1>6, <1>7, <1>8, <1>9, <1>10, NextSplit
     DEF RotationNext

-----------------------------------------------------------------------------
(* Every step keeps PartialInv.                                            *)

\* Nothing replaces the mark of a partial archive.
LEMMA PartialStep ==
    ASSUME TypeOK, ControlInv, PartialInv, Next
    PROVE  PartialInv'
<1>1. CASE OtherNext
  <2>1. mishaps \subseteq mishaps'
    BY <1>1, OtherEffect, LandsType
  <2>. QED
    BY <1>1, <2>1, OtherEffect DEF PartialInv, rotation
<1>2. ASSUME NEW h \in Hooks, HookNext(h) PROVE PartialInv'
  <2>1. mishaps \subseteq mishaps'
    <3>1. CASE HookEmits(h) \/ HookNotes(h) \/ HookReports(h)
      BY <3>1, HookReportEffect, LandsType
    <3>2. CASE ~(HookEmits(h) \/ HookNotes(h) \/ HookReports(h))
      BY <1>2, <3>2 DEF HookNext, HookStarts, HookMarks, HookLooks, HookFilters, HookWrites,
                        HookFreezes, HookRolls, HookStops, logs
    <3>. QED
      BY <3>1, <3>2
  <2>. QED
    BY <1>2, <2>1, HookEffect DEF PartialInv, rotation
<1>3. CASE RotationStarts
  BY <1>3 DEF RotationStarts, ResumeAt, TypeOK, PartialInv
<1>4. CASE DiscardArchive \/ DiscardSentinel
  BY <1>4 DEF DiscardArchive, DiscardSentinel, Discarded, PartialInv, logs
<1>5. CASE TrustArchive \/ PartitionTrusted \/ VouchForArchive \/ Reread \/ Filter
  BY <1>5 DEF TrustArchive, PartitionTrusted, VouchForArchive, Reread, Filter, PartialInv, logs
<1>6. CASE StartArchive
  BY <1>6 DEF StartArchive, PartialInv
<1>7. CASE WriteArchive \/ MarkArchived \/ MarkTruncated \/ Finish
  BY <1>7 DEF WriteArchive, MarkArchived, MarkTruncated, Finish, PartialInv, logs
<1>8. CASE Truncate
  BY <1>8 DEF Truncate, PartialInv
<1>9. CASE RotationStops
  BY <1>9 DEF RotationStops, ControlInv, PartialInv
<1>. QED
  BY <1>1, <1>2, <1>3, <1>4, <1>5, <1>6, <1>7, <1>8, <1>9, NextSplit DEF RotationNext

-----------------------------------------------------------------------------
(* Every step keeps CalmInv.                                               *)

\* An append without a mishap misses every program that has read the live log
\* or written the archive.
LEMMA LandsCalm ==
    ASSUME TypeOK, ControlInv, CalmInv,
           NEW new \in SUBSET Rows, Lands(new),
           UNCHANGED <<rotation, slice>>, UNCHANGED marker \/ ~marker',
           \A g \in Hooks :
               hook'[g] = hook[g] \/ {hook[g], hook'[g]} \cap {"filter", "write"} = {}
    PROVE  CalmInv'
<1>. SUFFICES ASSUME Calm'
              PROVE  ArchiverInv' /\ RotationInv' /\ NoOwnRowLost'
  BY DEF CalmInv
<1>1. Calm /\ (new = {} \/ ~Replacing) /\ (new \cap OwnRows = {} \/ ~Copying)
           /\ (new \cap OwnRows = {} \/ archived = "none")
  BY DEF Lands, Calm
<1>2. ArchiverInv /\ RotationInv /\ NoOwnRowLost
  BY <1>1 DEF CalmInv
<1>3. /\ live' = live \cup new /\ written' = written \cup new
      /\ UNCHANGED <<rolled, archive, archived>>
  BY DEF Lands
<1>4. ArchiverInv'
  <2>1. \A g \in Hooks : hook'[g] \in {"filter", "write"} => hook'[g] = hook[g]
    OBVIOUS
  <2>2. Archiving' => Archiving
    BY <2>1 DEF Archiving
  <2>3. \A g \in Hooks : hook'[g] = "write" =>
            /\ hook[g] = "write" /\ slice'[g] = slice[g]
            /\ live' \cap OwnRows = live \cap OwnRows
    BY <1>1, <1>3, <2>1 DEF Copying
  <2>. QED
    BY <1>2, <1>3, <2>2, <2>3 DEF ArchiverInv, rotation
<1>5. RotationInv'
  BY <1>1, <1>2, <1>3 DEF RotationInv, Replacing, rotation
<1>6. NoOwnRowLost'
  BY <1>2, <1>3 DEF NoOwnRowLost
<1>. QED
  BY <1>4, <1>5, <1>6

\* The closing hook copies rows before the rotation moves them.
LEMMA HookCalm ==
    ASSUME TypeOK, ControlInv, CalmInv, NEW h \in Hooks, HookNext(h)
    PROVE  CalmInv'
<1>1. CASE HookEmits(h) \/ HookNotes(h) \/ HookReports(h)
  BY <1>1, HookReportEffect, LandsCalm
<1>2. CASE ~(HookEmits(h) \/ HookNotes(h) \/ HookReports(h))
  <2>1. UNCHANGED <<rotation, marker, mishaps, written>>
    BY <1>2 DEF HookNext, HookStarts, HookMarks, HookLooks, HookFilters, HookWrites,
                HookFreezes, HookRolls, HookStops, logs, closing
  <2>. SUFFICES ASSUME Calm, ArchiverInv, RotationInv, NoOwnRowLost
                PROVE  ArchiverInv' /\ RotationInv' /\ NoOwnRowLost'
    BY <2>1 DEF CalmInv, Calm
  <2>2. CASE HookStarts(h) \/ HookMarks(h) \/ HookLooks(h) \/ HookFreezes(h) \/ HookStops(h)
    <3>1. UNCHANGED <<live, rolled, archive, archived>>
      BY <2>2 DEF HookStarts, HookMarks, HookLooks, HookFreezes, HookStops, logs
    <3>2. RotationInv' /\ NoOwnRowLost'
      BY <2>1, <3>1 DEF RotationInv, NoOwnRowLost, rotation
    <3>3. \A g \in Hooks : hook'[g] = "write" => hook[g] = "write" /\ slice'[g] = slice[g]
      BY <2>2 DEF HookStarts, HookMarks, HookLooks, HookFreezes, HookStops, HookGoes, TypeOK
    <3>4. Archiving' => Archiving \/ marker
      BY <2>2 DEF HookStarts, HookMarks, HookLooks, HookFreezes, HookStops, HookGoes, Archiving, TypeOK
    <3>5. ArchiverInv'
      BY <2>1, <3>1, <3>3, <3>4 DEF ArchiverInv, ControlInv, rotation
    <3>. QED
      BY <3>2, <3>5
  <2>3. CASE HookFilters(h)
    <3>1. UNCHANGED <<live, rolled, archive, archived>>
      BY <2>3 DEF HookFilters, logs
    <3>2. RotationInv' /\ NoOwnRowLost'
      BY <2>1, <3>1 DEF RotationInv, NoOwnRowLost, rotation
    <3>3. Archiving
      BY <2>3 DEF HookFilters, Archiving
    <3>4. \A g \in Hooks : hook'[g] = "write" =>
              (hook[g] = "write" /\ slice'[g] = slice[g]) \/ slice'[g] = live \cap OwnRows
      BY <2>3 DEF HookFilters, HookGoes, TypeOK
    <3>5. ArchiverInv'
      BY <2>1, <3>1, <3>3, <3>4 DEF ArchiverInv, rotation
    <3>. QED
      BY <3>2, <3>5
  <2>4. CASE HookWrites(h)
    <3>1. /\ archive' = slice[h] /\ archived' = "whole" /\ UNCHANGED <<live, rolled>>
          /\ hook[h] = "write"
      BY <2>4 DEF HookWrites
    <3>2. /\ pm = "idle" /\ sentinel = "none"
          /\ archive \subseteq live \cup rolled
          /\ slice[h] \subseteq live \cup rolled /\ live \cap OwnRows \subseteq slice[h]
      BY <3>1 DEF ArchiverInv, Archiving
    <3>3. RotationInv' /\ NoOwnRowLost'
      BY <2>1, <3>1, <3>2 DEF RotationInv, NoOwnRowLost, rotation
    <3>4. \A g \in Hooks : hook'[g] = "write" => hook[g] = "write" /\ slice'[g] = slice[g]
      BY <2>4 DEF HookWrites, HookGoes, TypeOK
    <3>5. ArchiverInv'
      BY <2>1, <3>1, <3>2, <3>4 DEF ArchiverInv, rotation
    <3>. QED
      BY <3>3, <3>5
  <2>5. CASE HookRolls(h)
    <3>1. /\ UNCHANGED <<archive, archived, slice>>
          /\ UNCHANGED <<live, rolled>> \/ (live' = {} /\ rolled' = rolled \cup live)
      BY <2>5 DEF HookRolls
    <3>2. RotationInv' /\ NoOwnRowLost'
      BY <2>1, <3>1 DEF RotationInv, NoOwnRowLost, rotation
    <3>3. \A g \in Hooks : hook'[g] \in {"filter", "write"} => hook'[g] = hook[g]
      BY <2>5 DEF HookRolls, HookGoes, TypeOK
    <3>4. ArchiverInv'
      BY <2>1, <3>1, <3>3 DEF ArchiverInv, Archiving, rotation
    <3>. QED
      BY <3>2, <3>4
  <2>. QED
    BY <1>2, <2>2, <2>3, <2>4, <2>5 DEF HookNext
<1>. QED
  BY <1>1, <1>2

\* The rotation replaces the live log when the archive has its rows.
LEMMA RotationCalm ==
    ASSUME TypeOK, ControlInv, PartialInv, CalmInv, RotationNext
    PROVE  CalmInv'
<1>1. UNCHANGED <<marker, written, hook, slice, rolled>> /\ mishaps \subseteq mishaps'
  BY DEF RotationNext, RotationStarts, DiscardArchive, DiscardSentinel, TrustArchive, PartitionTrusted, VouchForArchive,
         StartArchive, Filter, WriteArchive, MarkArchived, Reread, Truncate,
         MarkTruncated, Finish, RotationStops, logs, closing
<1>. SUFFICES ASSUME Calm', Calm, ArchiverInv, RotationInv, NoOwnRowLost
              PROVE  ArchiverInv' /\ RotationInv' /\ NoOwnRowLost'
  BY <1>1 DEF CalmInv, Calm
<1>2. CASE RotationStarts
  BY <1>1, <1>2 DEF RotationStarts, ResumeAt, TypeOK, Calm, ArchiverInv, RotationInv,
                    NoOwnRowLost, Archiving
<1>3. CASE DiscardArchive
  BY <1>1, <1>3 DEF DiscardArchive, Discarded, Calm, ControlInv, ArchiverInv, RotationInv,
                    NoOwnRowLost, Archiving
<1>4. CASE DiscardSentinel
  BY <1>1, <1>4 DEF DiscardSentinel, ControlInv, ArchiverInv, RotationInv, NoOwnRowLost,
                    Archiving, logs
<1>5. CASE TrustArchive
  <2>1. archived = "whole"
    BY <1>5 DEF TrustArchive, Trusts, PartialInv, Calm, TypeOK
  <2>. QED
    BY <1>1, <1>5, <2>1 DEF TrustArchive, ControlInv, ArchiverInv, RotationInv,
                            NoOwnRowLost, Archiving, logs
<1>6. CASE StartArchive
  <2>1. archive = {}
    BY <1>6 DEF StartArchive, Trusts, Calm, ControlInv
  <2>. QED
    BY <1>1, <1>6, <2>1 DEF StartArchive, MarkedStart, ControlInv, ArchiverInv, RotationInv,
                            NoOwnRowLost, Archiving
<1>7. CASE Filter
  BY <1>1, <1>7 DEF Filter, ControlInv, ArchiverInv, RotationInv, NoOwnRowLost,
                    Archiving, logs
<1>8. CASE WriteArchive
  BY <1>1, <1>8 DEF WriteArchive, ControlInv, ArchiverInv, RotationInv, NoOwnRowLost,
                    Archiving
<1>9. CASE PartitionTrusted \/ VouchForArchive \/ MarkArchived \/ Reread
  BY <1>1, <1>9 DEF PartitionTrusted, VouchForArchive, MarkArchived, Reread, ControlInv, ArchiverInv, RotationInv,
                    NoOwnRowLost, Archiving, logs
<1>10. CASE Truncate
  BY <1>1, <1>10 DEF Truncate, ControlInv, ArchiverInv, RotationInv, NoOwnRowLost,
                     Archiving
<1>11. CASE MarkTruncated \/ Finish
  BY <1>1, <1>11 DEF MarkTruncated, Finish, ControlInv, ArchiverInv, RotationInv,
                     NoOwnRowLost, Archiving, logs
<1>12. CASE RotationStops
  BY <1>1, <1>12 DEF RotationStops, ControlInv, ArchiverInv, RotationInv, NoOwnRowLost,
                     Archiving
<1>. QED
  BY <1>2, <1>3, <1>4, <1>5, <1>6, <1>7, <1>8, <1>9, <1>10, <1>11, <1>12 DEF RotationNext

\* Steps without mishaps keep CalmInv.
LEMMA CalmStep ==
    ASSUME TypeOK, ControlInv, PartialInv, CalmInv, Next
    PROVE  CalmInv'
<1>1. CASE OtherNext
  <2>1. /\ UNCHANGED <<rotation, slice, hook, rolled, archive, archived>>
        /\ UNCHANGED marker \/ ~marker'
    BY <1>1, OtherEffect
  <2>2. CASE UNCHANGED <<live, written, mishaps>>
    BY <2>1, <2>2 DEF CalmInv, Calm, ArchiverInv, RotationInv, NoOwnRowLost, Archiving, rotation
  <2>3. CASE \E new \in SUBSET Rows : Lands(new)
    BY <2>1, <2>3, LandsCalm
  <2>. QED
    BY <1>1, <2>2, <2>3, OtherEffect
<1>2. ASSUME NEW h \in Hooks, HookNext(h) PROVE CalmInv'
  BY <1>2, HookCalm
<1>3. CASE RotationNext
  BY <1>3, RotationCalm
<1>. QED
  BY <1>1, <1>2, <1>3, NextSplit

-----------------------------------------------------------------------------
(* Every step keeps OriginInv.                                             *)

\* No program makes up a row.
LEMMA OriginStep ==
    ASSUME TypeOK, OriginInv, Next
    PROVE  OriginInv'
<1>1. ASSUME NEW new \in SUBSET Rows, Lands(new), UNCHANGED <<rotation, slice>>
      PROVE  OriginInv'
  BY <1>1 DEF Lands, OriginInv, rotation
<1>2. CASE OtherNext
  BY <1>1, <1>2, OtherEffect DEF OriginInv, rotation
<1>3. ASSUME NEW h \in Hooks, HookNext(h) PROVE OriginInv'
  <2>1. CASE HookStarts(h) \/ HookMarks(h) \/ HookLooks(h) \/ HookFreezes(h)
    BY <2>1 DEF HookStarts, HookMarks, HookLooks, HookFreezes, OriginInv, logs, rotation
  <2>2. CASE HookFilters(h) \/ HookStops(h)
    <3>1. \A g \in Hooks : slice'[g] = slice[g] \/ slice'[g] \subseteq live \cap OwnRows
      BY <2>2 DEF HookFilters, HookStops, TypeOK
    <3>. QED
      BY <2>2, <3>1 DEF HookFilters, HookStops, OriginInv, logs, rotation
  <2>3. CASE HookWrites(h)
    <3>1. \A g \in Hooks : slice'[g] = slice[g] \/ slice'[g] = {}
      BY <2>3 DEF HookWrites, TypeOK
    <3>. QED
      BY <2>3, <3>1 DEF HookWrites, OriginInv, rotation
  <2>4. CASE HookEmits(h) \/ HookNotes(h) \/ HookReports(h)
    BY <1>1, <2>4, HookReportEffect
  <2>5. CASE HookRolls(h)
    BY <2>5 DEF HookRolls, OriginInv, rotation
  <2>. QED
    BY <1>3, <2>1, <2>2, <2>3, <2>4, <2>5 DEF HookNext
<1>4. CASE RotationStarts \/ StartArchive
  BY <1>4 DEF RotationStarts, StartArchive, OriginInv
<1>5. CASE DiscardArchive \/ DiscardSentinel
  BY <1>5 DEF DiscardArchive, DiscardSentinel, OriginInv, logs
<1>6. CASE TrustArchive \/ PartitionTrusted \/ VouchForArchive \/ Reread \/ Filter
  BY <1>6 DEF TrustArchive, PartitionTrusted, VouchForArchive, Reread, Filter, Kept, OriginInv, logs
<1>7. CASE WriteArchive \/ MarkArchived \/ MarkTruncated \/ Finish
  BY <1>7 DEF WriteArchive, MarkArchived, MarkTruncated, Finish, OriginInv, logs
<1>8. CASE Truncate
  BY <1>8 DEF Truncate, OriginInv
<1>9. CASE RotationStops
  BY <1>9 DEF RotationStops, OriginInv
<1>. QED
  BY <1>2, <1>3, <1>4, <1>5, <1>6, <1>7, <1>8, <1>9, NextSplit DEF RotationNext

-----------------------------------------------------------------------------
(* The theorems.                                                           *)

\* The invariant is inductive.
THEOREM Invariance == Spec => [](TypeOK /\ IInv)
<1>1. TypeOK /\ IInv /\ [Next]_vars => IInv'
  <2>. SUFFICES ASSUME TypeOK, ControlInv, OthersInv, PartialInv, CalmInv, OriginInv, [Next]_vars
                PROVE  ControlInv' /\ OthersInv' /\ PartialInv' /\ CalmInv' /\ OriginInv'
    BY DEF IInv
  <2>1. CASE Next
    BY <2>1, ControlStep, OthersStep, PartialStep, CalmStep, OriginStep
  <2>2. CASE UNCHANGED vars
    <3>1. ControlInv' /\ OthersInv' /\ PartialInv' /\ OriginInv'
      BY <2>2 DEF ControlInv, OthersInv, PartialInv, OriginInv, Replacing, vars, logs, closing,
                  rotation
    <3>2. CalmInv'
      BY <2>2 DEF CalmInv, Calm, ArchiverInv, RotationInv, NoOwnRowLost, Archiving,
                  vars, logs, closing, rotation
    <3>. QED
      BY <3>1, <3>2
  <2>. QED
    BY <2>1, <2>2
<1>. QED
  BY <1>1, InitInvariant, TypeCorrect, PTL DEF Spec

\* Wherever the closing programs stop and start again, no row of the
\* orchestration is lost.
THEOREM OwnRowsKeptAlways == Spec => []OwnRowsKept
<1>1. IInv => OwnRowsKept
  BY DEF IInv, CalmInv, OwnRowsKept
<1>. QED
  BY <1>1, Invariance, PTL

\* Closing an orchestration takes no row of another one out of the log.
THEOREM OtherRowsKeptAlways == Spec => []OtherRowsKept
<1>1. IInv => OtherRowsKept
  BY DEF IInv, OthersInv, OtherRowsKept
<1>. QED
  BY <1>1, Invariance, PTL

\* The sentinel says "archived" only when replacing the live log loses nothing.
THEOREM SafeToTruncateAlways == Spec => []SafeToTruncate
<1>1. IInv => SafeToTruncate
  BY DEF IInv, CalmInv, RotationInv, SafeToTruncate
<1>. QED
  BY <1>1, Invariance, PTL

\* A partial archive is marked until it is deleted.
THEOREM PartialIsMarkedAlways == Spec => []PartialIsMarked
<1>1. IInv => PartialIsMarked
  BY DEF IInv, PartialInv, PartialIsMarked
<1>. QED
  BY <1>1, Invariance, PTL

\* The sentinel says "truncated" only when no row of the orchestration is left
\* in the live log.
THEOREM MovedOutAlways == Spec => []MovedOut
<1>1. IInv => MovedOut
  BY DEF IInv, CalmInv, RotationInv, MovedOut
<1>. QED
  BY <1>1, Invariance, PTL
-----------------------------------------------------------------------------
(* The programs together implement AuditTrail.                             *)

TrailMove == [Trail!TrailNext]_(Trail!trailVars)

\* Many steps change nothing a reader relies on.
LEMMA SameTrail ==
    ASSUME mishaps \subseteq mishaps', UNCHANGED <<live, rolled, written, Stored, Closed>>
    PROVE  TrailMove
<1>1. Trail!Trouble
  BY DEF Trail!Trouble, Trail!OnlyWorse, Calm, Steady
<1>. QED
  BY <1>1 DEF TrailMove, Trail!TrailNext

\* An append is one, and it is late when the log is closed.
LEMMA LandsMaps ==
    ASSUME IInv, NEW new, new = {} \/ \E r \in Rows : new = {r}, Lands(new), UNCHANGED sentinel
    PROVE  TrailMove
<1>1. /\ live' = live \cup new /\ written' = written \cup new /\ UNCHANGED rolled
      /\ mishaps \subseteq mishaps' /\ UNCHANGED <<Stored, Closed>>
  BY DEF Lands, Stored, Closed
<1>2. CASE new = {}
  BY <1>1, <1>2, SameTrail
<1>3. ASSUME NEW r \in Rows, new = {r} PROVE TrailMove
  <2>1. Closed /\ r \in OwnRows => ~Calm'
    <3>. SUFFICES ASSUME Closed, r \in OwnRows, Calm' PROVE FALSE
      OBVIOUS
    <3>1. archived = "whole"
      BY <1>1 DEF Closed, Calm, IInv, CalmInv, RotationInv
    <3>. QED
      BY <1>3, <3>1 DEF Lands, Calm
  <2>2. Trail!OnlyWorse
    BY <1>1 DEF Trail!OnlyWorse, Calm, Steady
  <2>3. Trail!Append(r)
    BY <1>1, <1>3, <2>1, <2>2 DEF Trail!Append
  <2>. QED
    BY <2>3, RowsSplit DEF TrailMove, Trail!TrailNext
<1>. QED
  BY <1>2, <1>3

\* The completion programs append rows and move on.
LEMMA OtherMaps == ASSUME IInv, OtherNext PROVE TrailMove
<1>1. ASSUME NEW r \in Rows, Append(r) PROVE TrailMove
  BY <1>1, LandsMaps DEF Append, rotation
<1>2. CASE StopHookEmits \/ OxCompletes
  <2>1. Early \in Rows /\ Done \in Rows
    BY DEF Rows, OwnRows, Completions
  <2>2. (Lands({Early}) \/ Lands({Done})) /\ UNCHANGED sentinel
    BY <1>2 DEF StopHookEmits, OxCompletes, rotation
  <2>. QED
    BY <2>1, <2>2, LandsMaps
<1>3. CASE StopHookStarts \/ StopHookChecks \/ OxUnmarks
  BY <1>3, SameTrail DEF StopHookStarts, StopHookChecks, OxUnmarks, logs, rotation, Stored, Closed
<1>. QED
  BY <1>1, <1>2, <1>3 DEF OtherNext

\* The archiver writes a complete archive in one step, or rolls the log.
LEMMA HookMaps == ASSUME TypeOK, IInv, NEW h \in Hooks, HookNext(h) PROVE TrailMove
<1>1. CASE \/ HookStarts(h) \/ HookMarks(h) \/ HookLooks(h) \/ HookFilters(h)
           \/ HookFreezes(h) \/ HookStops(h)
  BY <1>1, SameTrail DEF HookStarts, HookMarks, HookLooks, HookFilters, HookFreezes, HookStops,
     logs, rotation, Stored, Closed
<1>2. CASE HookWrites(h)
  <2>1. /\ hook[h] = "write" /\ Stored' = slice[h]
        /\ UNCHANGED <<live, rolled, written, mishaps, sentinel>>
    BY <1>2 DEF HookWrites, rotation, Stored
  <2>2. Stored \subseteq archive /\ slice[h] \subseteq written \cap OwnRows
    BY DEF Stored, IInv, OriginInv
  <2>3. Calm => /\ archive \subseteq live \cup rolled
                /\ slice[h] \subseteq live \cup rolled /\ live \cap OwnRows \subseteq slice[h]
    BY <2>1 DEF IInv, CalmInv, ArchiverInv, Archiving
  <2>4. UNCHANGED <<Calm, Steady, Closed>>
    BY <2>1 DEF Calm, Steady, Closed
  <2>5. Trail!Archive
    BY <2>1, <2>2, <2>3, <2>4 DEF Trail!Archive
  <2>. QED
    BY <2>5 DEF TrailMove, Trail!TrailNext
<1>3. CASE HookEmits(h) \/ HookNotes(h) \/ HookReports(h)
  <2>1. (Lands({}) \/ \E r \in Rows : Lands({r})) /\ UNCHANGED sentinel
    BY <1>3, ReportsLands DEF HookEmits, HookNotes, HookReports, rotation
  <2>. QED
    BY <2>1, LandsMaps
<1>4. CASE HookRolls(h)
  <2>1. UNCHANGED <<written, mishaps, Stored, Closed, Calm, Steady>>
    BY <1>4 DEF HookRolls, rotation, Stored, Closed, Calm, Steady
  <2>2. CASE UNCHANGED <<live, rolled>>
    BY <2>1, <2>2, SameTrail
  <2>3. CASE live # {} /\ rolled' = rolled \cup live /\ live' = {}
    <3>1. Trail!Roll
      BY <2>1, <2>3 DEF Trail!Roll
    <3>. QED
      BY <3>1 DEF TrailMove, Trail!TrailNext
  <2>. QED
    BY <1>4, <2>2, <2>3 DEF HookRolls
<1>. QED
  BY <1>1, <1>2, <1>3, <1>4 DEF HookNext

\* The rotation writes or removes the archive, replaces the log and closes it, in
\* a step each.
LEMMA RotationMaps == ASSUME TypeOK, IInv, RotationNext PROVE TrailMove
<1>1. CASE RotationStarts \/ TrustArchive \/ PartitionTrusted \/ Filter \/ Reread
  <2>1. UNCHANGED <<live, rolled, written, archive, archived, sentinel>> /\ mishaps \subseteq mishaps'
    BY <1>1 DEF RotationStarts, TrustArchive, PartitionTrusted, Filter, Reread, logs
  <2>. QED
    BY <2>1, SameTrail DEF Stored, Closed
<1>2. CASE DiscardSentinel \/ VouchForArchive \/ StartArchive \/ MarkArchived
  <2>1. UNCHANGED <<live, rolled, written, Stored>> /\ mishaps \subseteq mishaps'
    BY <1>2 DEF DiscardSentinel, VouchForArchive, StartArchive, MarkArchived, logs, Stored
  <2>2. ~Closed /\ ~Closed'
    BY <1>2 DEF DiscardSentinel, VouchForArchive, StartArchive, MarkArchived, MarkedStart, Closed,
       IInv, ControlInv
  <2>3. UNCHANGED Closed
    BY <2>2 DEF Closed
  <2>. QED
    BY <2>1, <2>3, SameTrail
<1>3. CASE DiscardArchive
  <2>1. sentinel = "started" /\ UNCHANGED <<live, rolled, written, sentinel>>
    BY <1>3 DEF DiscardArchive, IInv, ControlInv
  <2>2. CASE Stored' = {} /\ UNCHANGED mishaps
    <3>1. Calm => Stored \subseteq live \cup rolled
      BY <2>1 DEF IInv, CalmInv, ArchiverInv, Stored
    <3>2. Trail!Archive
      BY <2>1, <2>2, <3>1 DEF Trail!Archive, Closed, Calm, Steady
    <3>. QED
      BY <3>2 DEF TrailMove, Trail!TrailNext
  <2>3. CASE UNCHANGED <<archive, archived>> /\ mishaps \subseteq mishaps'
    BY <2>1, <2>3, SameTrail DEF Stored, Closed
  <2>. QED
    BY <1>3, <2>2, <2>3 DEF DiscardArchive, Discarded, Stored
<1>4. CASE WriteArchive
  <2>1. /\ pm = "write" /\ sentinel = "started" /\ Stored' = mine
        /\ UNCHANGED <<live, rolled, written, sentinel, mishaps>>
    BY <1>4 DEF WriteArchive, IInv, ControlInv, Stored
  <2>2. Stored \subseteq archive /\ mine \subseteq written \cap OwnRows
    BY DEF Stored, IInv, OriginInv
  <2>3. Calm => /\ archive \subseteq live \cup rolled
                /\ mine \subseteq live \cup rolled /\ live \cap OwnRows \subseteq mine
    BY <2>1 DEF IInv, CalmInv, ArchiverInv, RotationInv
  <2>4. Trail!Archive
    BY <2>1, <2>2, <2>3 DEF Trail!Archive, Closed, Calm, Steady
  <2>. QED
    BY <2>4 DEF TrailMove, Trail!TrailNext
<1>5. CASE Truncate
  <2>1. /\ pm = "truncate" /\ sentinel = "archived" /\ live' = keep
        /\ UNCHANGED <<rolled, written, mishaps, sentinel, archive, archived>>
    BY <1>5 DEF Truncate, IInv, ControlInv
  <2>2. keep \subseteq (live \cup rolled) \ OwnRows
    BY DEF IInv, OriginInv, ControlInv
  <2>3. Steady => live \cap Others \subseteq keep
    BY <2>1 DEF IInv, OthersInv, Replacing, Steady
  <2>4. Calm => live \cap OwnRows \subseteq Stored
    BY <2>1 DEF IInv, CalmInv, RotationInv, Stored
  <2>5. UNCHANGED <<Stored, Closed, Calm, Steady>>
    BY <2>1 DEF Stored, Closed, Calm, Steady
  <2>6. Trail!Replace
    BY <2>1, <2>2, <2>3, <2>4, <2>5 DEF Trail!Replace
  <2>. QED
    BY <2>6 DEF TrailMove, Trail!TrailNext
<1>6. CASE MarkTruncated
  <2>1. /\ pm = "truncated" /\ ~Closed /\ Closed'
        /\ UNCHANGED <<live, rolled, written, mishaps, archive, archived>>
    BY <1>6 DEF MarkTruncated, IInv, ControlInv, Closed, logs
  <2>2. Calm => live \cap OwnRows = {} /\ written \cap OwnRows \subseteq Stored \cup rolled
    BY <2>1 DEF IInv, CalmInv, RotationInv, NoOwnRowLost, Stored
  <2>3. UNCHANGED <<Stored, Calm, Steady>>
    BY <2>1 DEF Stored, Calm, Steady
  <2>4. Trail!Close
    BY <2>1, <2>2, <2>3 DEF Trail!Close
  <2>. QED
    BY <2>4 DEF TrailMove, Trail!TrailNext
<1>7. CASE Finish
  <2>1. UNCHANGED <<live, rolled, written, mishaps, archive, archived>> /\ Closed
    BY <1>7 DEF Finish, logs, Closed, IInv, ControlInv
  <2>2. UNCHANGED <<Stored, Calm, Steady>>
    BY <2>1 DEF Stored, Calm, Steady
  <2>3. CASE Closed'
    BY <2>1, <2>2, <2>3, SameTrail
  <2>4. CASE ~Closed'
    <3>1. Trail!Reopen
      BY <2>1, <2>2, <2>4 DEF Trail!Reopen
    <3>. QED
      BY <3>1 DEF TrailMove, Trail!TrailNext
  <2>. QED
    BY <2>3, <2>4
<1>8. CASE RotationStops
  <2>1. UNCHANGED <<live, rolled, written, mishaps>>
    BY <1>8 DEF RotationStops
  <2>2. CASE UNCHANGED <<archive, archived, sentinel>>
    BY <2>1, <2>2, SameTrail DEF Stored, Closed
  <2>3. CASE pm = "write" /\ archived' = "partial" /\ UNCHANGED sentinel
    <3>1. Stored' = {}
      BY <2>3 DEF Stored
    <3>2. Calm => Stored \subseteq live \cup rolled
      BY <2>3 DEF IInv, ControlInv, CalmInv, ArchiverInv, Stored
    <3>3. Trail!Archive
      BY <2>1, <2>3, <3>1, <3>2 DEF Trail!Archive, Closed, Calm, Steady
    <3>. QED
      BY <3>3 DEF TrailMove, Trail!TrailNext
  <2>4. CASE pm \in {"look", "vouch", "archived", "truncated"} /\ sentinel' = "torn"
             /\ UNCHANGED <<archive, archived>>
    <3>1. UNCHANGED <<Stored, Closed>>
      BY <2>4 DEF Stored, Closed, IInv, ControlInv
    <3>. QED
      BY <2>1, <3>1, SameTrail
  <2>. QED
    BY <1>8, <2>2, <2>3, <2>4 DEF RotationStops
<1>. QED
  BY <1>1, <1>2, <1>3, <1>4, <1>5, <1>6, <1>7, <1>8 DEF RotationNext

\* No step but these changes what a reader sees.
LEMMA TrailMaps == ASSUME TypeOK, IInv, [Next]_vars PROVE TrailMove
<1>1. CASE Next
  BY <1>1, NextSplit, OtherMaps, HookMaps, RotationMaps
<1>2. CASE UNCHANGED vars
  BY <1>2, SameTrail DEF vars, logs, rotation, Stored, Closed
<1>. QED
  BY <1>1, <1>2

\* Whatever the four programs do and wherever they stop, the readers of the log
\* and of the archive see an audit trail.
THEOREM TrailImplemented == Spec => ImplementsTrail
<1>1. Init => Trail!TrailInit
  BY DEF Init, Trail!TrailInit, Stored, Closed, Calm, Steady
<1>2. TypeOK /\ IInv /\ [Next]_vars => [Trail!TrailNext]_(Trail!trailVars)
  BY TrailMaps DEF TrailMove
<1>. QED
  BY <1>1, <1>2, Invariance, PTL DEF Spec, ImplementsTrail, Trail!TrailSpec

-----------------------------------------------------------------------------
(* AuditTrail is enough to know what becomes of the rows.                  *)

\* What an audit trail keeps.
TrailInv ==
    /\ Calm => written \cap OwnRows \subseteq live \cup rolled \cup Stored
    /\ Steady => written \cap Others \subseteq live \cup rolled
    /\ Calm /\ Closed => live \cap OwnRows = {}

LEMMA TrailStep == ASSUME TrailInv, TrailMove PROVE TrailInv'
<1>1. CASE Trail!Trouble
  BY <1>1 DEF Trail!Trouble, Trail!OnlyWorse, TrailInv
<1>2. CASE Trail!Roll
  BY <1>2 DEF Trail!Roll, TrailInv
<1>3. CASE Trail!Archive
  BY <1>3 DEF Trail!Archive, TrailInv
<1>4. CASE Trail!Replace
  BY <1>4 DEF Trail!Replace, TrailInv
<1>5. CASE Trail!Close
  BY <1>5 DEF Trail!Close, TrailInv
<1>6. CASE Trail!Reopen
  BY <1>6 DEF Trail!Reopen, TrailInv
<1>7. ASSUME NEW r \in OwnRows \cup Others, Trail!Append(r) PROVE TrailInv'
  BY <1>7 DEF Trail!Append, Trail!OnlyWorse, TrailInv
<1>8. CASE UNCHANGED Trail!trailVars
  BY <1>8 DEF Trail!trailVars, TrailInv
<1>. QED
  BY <1>1, <1>2, <1>3, <1>4, <1>5, <1>6, <1>7, <1>8 DEF TrailMove, Trail!TrailNext

\* From what readers see alone it follows that no row of the orchestration is
\* lost, that other rows stay in the logs, and that a closed log has no row of the
\* orchestration.
THEOREM TrailSuffices == ImplementsTrail => [](OwnRowsKept /\ OtherRowsKept /\ MovedOut)
<1>1. Trail!TrailInit => TrailInv
  BY DEF Trail!TrailInit, TrailInv
<1>2. TrailInv /\ [Trail!TrailNext]_(Trail!trailVars) => TrailInv'
  BY TrailStep DEF TrailMove
<1>3. TrailInv => OwnRowsKept /\ OtherRowsKept /\ MovedOut
  BY DEF TrailInv, OwnRowsKept, NoOwnRowLost, OtherRowsKept, MovedOut, Steady, Closed, Stored
<1>. QED
  BY <1>1, <1>2, <1>3, PTL DEF ImplementsTrail, Trail!TrailSpec
=============================================================================
