-------------------------- MODULE HookGuardProofs --------------------------
(***************************************************************************)
(* Theorems about HookClaim and HookGuard, for every set of events,        *)
(* installs and runs, every assignment of keys, and every window and TTL.  *)
(***************************************************************************)
EXTENDS HookGuard, Sequences, TLAPS

\* The steps of one process before it is admitted, the guard's, and the clock.
ClaimStep(p) ==
    \/ VerifyClaimDir(p) \/ Stamp(p)
    \/ \E k \in Keys : SweepLook(p, k)
    \/ SweepUnlink(p)
    \/ CreateClaim(p) \/ WriteClaim(p)
    \/ CheckTrust(p) \/ ReadClaim(p)
    \/ TakeoverUnlink(p) \/ TakeoverCreate(p) \/ TakeoverWrite(p)
    \/ KillClaimant(p)

LEMMA Steps ==
    ASSUME [HookNext]_hookVars
    PROVE  \/ \E p \in Procs : ClaimStep(p) /\ UNCHANGED guardVars
           \/ Tick /\ UNCHANGED guardVars
           \/ \E p \in Procs : GuardStep(p)
           \/ UNCHANGED hookVars
<1>1. CASE Next /\ UNCHANGED guardVars
  BY <1>1, Zenon DEF Next, ClaimStep
<1>2. CASE \E p \in Procs : GuardStep(p)
  BY <1>2
<1>. QED
  BY <1>1, <1>2 DEF HookNext

LEMMA KeyType == \A p \in Procs : Key(p) \in Keys
  BY ProcsAssumption, KeyAssumption DEF Key

LEMMA NoProcIsNone == NoProc \notin Procs
<1>. SUFFICES ASSUME NEW e \in Events, NEW i \in Installs PROVE <<e, i>> # <<>>
  BY ProcsAssumption DEF NoProc
<1>1. Len(<<e, i>>) = 2 /\ Len(<<>>) = 0
  OBVIOUS
<1>. QED
  BY <1>1

-----------------------------------------------------------------------------
(* Types.                                                                  *)

PcType == {"start", "stamp", "remove", "create", "write", "trust", "read", "unlink",
           "recreate", "rewrite", "fired", "suppressed", "killed"}
FileType == [by : Procs \cup {NoProc}, written : BOOLEAN]

\* What a process does to the claim files keeps their type.
LEMMA FilesType ==
    ASSUME TypeOK, NEW p \in Procs, NEW k \in Keys,
           MakeClaim(p) \/ PutRecord(p) \/ Unlink(k) \/ UNCHANGED <<claims, made>>
    PROVE  claims' \in [Keys -> FileType] /\ made' \in [Keys -> 0 .. MaxClock]
<1>. USE KeyType, ClockAssumption DEF TypeOK, FileType
<1>1. CASE MakeClaim(p)
  BY <1>1 DEF MakeClaim
<1>2. CASE PutRecord(p)
  <2>1. CASE claims[Key(p)].by = p
    <3>1. /\ claims' = [claims EXCEPT ![Key(p)] = [by |-> p, written |-> TRUE]]
          /\ made' = [made EXCEPT ![Key(p)] = clock]
      BY <1>2, <2>1, Zenon DEF PutRecord
    <3>. QED
      BY <3>1
  <2>2. CASE claims[Key(p)].by # p
    <3>1. UNCHANGED <<claims, made>>
      BY <1>2, <2>2, Zenon DEF PutRecord
    <3>. QED
      BY <3>1
  <2>. QED
    BY <2>1, <2>2
<1>3. CASE Unlink(k)
  BY <1>3 DEF Unlink, NoClaim
<1>4. CASE UNCHANGED <<claims, made>>
  BY <1>4
<1>. QED
  BY <1>1, <1>2, <1>3, <1>4

LEMMA ClaimTypeStep ==
    ASSUME TypeOK, NEW p \in Procs, ClaimStep(p)
    PROVE  TypeOK'
<1>1. UNCHANGED clock
  BY DEF ClaimStep, VerifyClaimDir, Stamp, SweepLook, SweepUnlink, CreateClaim, WriteClaim,
         CheckTrust, ReadClaim, TakeoverUnlink, TakeoverCreate, TakeoverWrite, KillClaimant
<1>2. leafLax' \in BOOLEAN
  BY Zenon DEF ClaimStep, TypeOK, VerifyClaimDir, Stamp, SweepLook, SweepUnlink, CreateClaim, WriteClaim,
         CheckTrust, ReadClaim, TakeoverUnlink, TakeoverCreate, TakeoverWrite, KillClaimant
<1>3. /\ claims' \in [Keys -> FileType]
      /\ made' \in [Keys -> 0 .. MaxClock]
  <2>1. \/ MakeClaim(p)
        \/ PutRecord(p)
        \/ \E k \in Keys : Unlink(k)
        \/ UNCHANGED <<claims, made>>
    BY KeyType DEF ClaimStep, TypeOK, VerifyClaimDir, Stamp, SweepLook, SweepUnlink, CreateClaim, WriteClaim,
         CheckTrust, ReadClaim, TakeoverUnlink, TakeoverCreate, TakeoverWrite, KillClaimant
  <2>. QED
    BY <2>1, FilesType, KeyType
<1>4. pc' \in [Procs -> PcType]
  <2>1. \E to \in PcType : pc' = [pc EXCEPT ![p] = to]
    BY DEF ClaimStep, PcType, Goto, VerifyClaimDir, Stamp, SweepLook, SweepUnlink, CreateClaim, WriteClaim,
         CheckTrust, ReadClaim, TakeoverUnlink, TakeoverCreate, TakeoverWrite, KillClaimant
  <2>. QED
    BY <2>1 DEF TypeOK, PcType
<1>5. /\ now' \in [Procs -> 0 .. MaxClock]
      /\ victim' \in [Procs -> Keys]
      /\ swept' \subseteq Keys
  BY KeyType DEF ClaimStep, TypeOK, VerifyClaimDir, Stamp, SweepLook, SweepUnlink, CreateClaim, WriteClaim,
         CheckTrust, ReadClaim, TakeoverUnlink, TakeoverCreate, TakeoverWrite, KillClaimant
<1>6. reason' \in [Procs -> Reasons]
  <2>1. UNCHANGED reason \/ \E why \in Reasons : Because(p, why)
    BY DEF ClaimStep, Reasons, TakeoverReasons, UnclaimedReasons, VerifyClaimDir, Stamp, SweepLook, SweepUnlink, CreateClaim, WriteClaim,
         CheckTrust, ReadClaim, TakeoverUnlink, TakeoverCreate, TakeoverWrite, KillClaimant
  <2>. QED
    BY <2>1 DEF TypeOK, Because
<1>7. faults' \in 0 .. MaxFaults
  <2>1. UNCHANGED faults \/ Fault
    BY DEF ClaimStep, VerifyClaimDir, Stamp, SweepLook, SweepUnlink, CreateClaim, WriteClaim,
         CheckTrust, ReadClaim, TakeoverUnlink, TakeoverCreate, TakeoverWrite, KillClaimant
  <2>. QED
    BY <2>1, FaultsAssumption DEF TypeOK, Fault
<1>. QED
  BY <1>1, <1>2, <1>3, <1>4, <1>5, <1>6, <1>7 DEF TypeOK, PcType, FileType

LEMMA GuardTypeStep ==
    ASSUME HookTypeOK, NEW p \in Procs, GuardStep(p)
    PROVE  HookTypeOK'
<1>. USE FaultsAssumption DEF HookTypeOK, GuardTypeOK, Move, Stages, Let
<1>0. TypeOK'
  <2>1. faults' \in 0 .. MaxFaults
    BY DEF GuardStep, ReadClock, ReadJournal, TruncateJournal, RewriteJournal, Register, RunBody,
           Report, AppendEntry, KillGuarded, Fault, TypeOK
  <2>2. UNCHANGED <<clock, leafLax, claims, made, pc, now, victim, reason, swept>>
    BY DEF GuardStep
  <2>. QED
    BY <2>1, <2>2 DEF TypeOK
<1>1. CASE ReadClock(p)
  BY <1>0, <1>1 DEF ReadClock, TypeOK
<1>2. CASE ReadJournal(p)
  <2>1. UNCHANGED active \/ active' = [active EXCEPT ![p] = Unexpired(p)]
    BY <1>2 DEF ReadJournal
  <2>2. active' \in [Procs -> SUBSET Procs]
    BY <2>1 DEF Unexpired
  <2>. QED
    BY <1>0, <1>2, <2>2 DEF ReadJournal
<1>3. CASE TruncateJournal(p)
  BY <1>0, <1>3 DEF TruncateJournal, Decides
<1>4. CASE RewriteJournal(p)
  BY <1>0, <1>4 DEF RewriteJournal, Decides
<1>5. CASE Register(p)
  BY <1>0, <1>5 DEF Register, AppendEntry
<1>6. CASE RunBody(p)
  BY <1>0, <1>6 DEF RunBody
<1>7. CASE Report(p)
  BY <1>0, <1>7 DEF Report, AppendEntry
<1>8. CASE KillGuarded(p)
  BY <1>0, <1>8 DEF KillGuarded
<1>. QED
  BY <1>1, <1>2, <1>3, <1>4, <1>5, <1>6, <1>7, <1>8 DEF GuardStep

(***************************************************************************)
(* Every variable of the claim and of the guard keeps its type.            *)
(***************************************************************************)
THEOREM HookTypeCorrect == HookSpec => []HookTypeOK
<1>1. HookInit => HookTypeOK
  BY KeyType, ClockAssumption, FaultsAssumption
     DEF HookInit, Init, GuardInit, HookTypeOK, TypeOK, GuardTypeOK, NoClaim, Reasons, Stages
<1>2. HookTypeOK /\ [HookNext]_hookVars => HookTypeOK'
  <2>. SUFFICES ASSUME HookTypeOK, [HookNext]_hookVars PROVE HookTypeOK'
    OBVIOUS
  <2>1. ASSUME NEW p \in Procs, ClaimStep(p), UNCHANGED guardVars PROVE HookTypeOK'
    BY <2>1, ClaimTypeStep DEF HookTypeOK, GuardTypeOK, guardVars
  <2>2. CASE Tick /\ UNCHANGED guardVars
    BY <2>2, ClockAssumption DEF Tick, HookTypeOK, TypeOK, GuardTypeOK, guardVars
  <2>3. ASSUME NEW p \in Procs, GuardStep(p) PROVE HookTypeOK'
    BY <2>3, GuardTypeStep
  <2>4. CASE UNCHANGED hookVars
    BY <2>4 DEF HookTypeOK, TypeOK, GuardTypeOK, hookVars, claimVars, guardVars
  <2>. QED
    BY <2>1, <2>2, <2>3, <2>4, Steps
<1>. QED
  BY <1>1, <1>2, PTL DEF HookSpec

-----------------------------------------------------------------------------
(* The claim.                                                              *)

\* What a reader can believe in a claim file was put there by a process that
\* was admitted at once.
RecordHasAuthor ==
    \A k \in Keys : claims[k].written =>
        /\ claims[k].by \in Procs
        /\ Key(claims[k].by) = k
        /\ pc[claims[k].by] = "fired"
        /\ reason[claims[k].by] \in {"claimed"} \cup TakeoverReasons

\* The reason is decided on the way out, and by a takeover on the way in.
ReasonFits ==
    \A p \in Procs :
        /\ pc[p] \in {"unlink", "recreate", "rewrite"} => reason[p] \in TakeoverReasons
        /\ pc[p] \in {"start", "stamp", "remove", "create", "write", "trust", "read"}
             => reason[p] = "none"

\* Whoever holds or was admitted with key k has the install of the claim.
SoleInstall(k) ==
    \A p \in Procs : Key(p) = k /\ pc[p] \in {"write", "fired"} =>
        /\ claims[k] # NoClaim
        /\ InstallOf(claims[k].by) = InstallOf(p)
        /\ pc[p] = "write" => claims[k].by = p

UndisturbedIsSole == \A k \in Keys : Disturbed(k) \/ SoleInstall(k)

ClaimInv == RecordHasAuthor /\ ReasonFits /\ SilenceHasWitness /\ UndisturbedIsSole

LEMMA RecordHasAuthorStep ==
    ASSUME TypeOK, RecordHasAuthor, ReasonFits, NEW p \in Procs, ClaimStep(p)
    PROVE  RecordHasAuthor'
<1>. USE KeyType DEF TypeOK, RecordHasAuthor, ReasonFits, Goto, Because
<1>1. CASE VerifyClaimDir(p)
  BY <1>1 DEF VerifyClaimDir
<1>2. CASE Stamp(p)
  BY <1>2 DEF Stamp
<1>3. ASSUME NEW k \in Keys, SweepLook(p, k) PROVE RecordHasAuthor'
  BY <1>3 DEF SweepLook
<1>4. CASE SweepUnlink(p)
  BY <1>4 DEF SweepUnlink, Unlink, NoClaim
<1>5. CASE CreateClaim(p)
  BY SMTT(30), <1>5 DEF CreateClaim, MakeClaim
<1>6. CASE WriteClaim(p)
  <2>1. /\ pc' = [pc EXCEPT ![p] = "fired"]
        /\ pc[p] = "write"
        /\ \E why \in Reasons : reason' = [reason EXCEPT ![p] = why]
    BY <1>6 DEF WriteClaim, Reasons, UnclaimedReasons
  <2>2. \/ claims' = claims
        \/ /\ claims' = [claims EXCEPT ![Key(p)] = [by |-> p, written |-> TRUE]]
           /\ reason'[p] = "claimed"
    BY <1>6 DEF WriteClaim, PutRecord
  <2>3. \A q \in Procs : pc[q] = "fired" => pc'[q] = "fired" /\ reason'[q] = reason[q]
    BY <2>1
  <2>4. CASE claims' = claims
    BY <2>3, <2>4
  <2>5. CASE /\ claims' = [claims EXCEPT ![Key(p)] = [by |-> p, written |-> TRUE]]
             /\ reason'[p] = "claimed"
    BY <2>1, <2>3, <2>5
  <2>. QED
    BY <2>2, <2>4, <2>5
<1>7. CASE CheckTrust(p)
  BY <1>7 DEF CheckTrust
<1>8. CASE ReadClaim(p)
  BY <1>8 DEF ReadClaim
<1>9. CASE TakeoverUnlink(p)
  BY <1>9 DEF TakeoverUnlink, Unlink, NoClaim
<1>10. CASE TakeoverCreate(p)
  <2>1. claims' = claims \/ claims' = [claims EXCEPT ![Key(p)] = [by |-> p, written |-> FALSE]]
    BY <1>10 DEF TakeoverCreate, MakeClaim
  <2>2. /\ reason' = reason
        /\ pc[p] = "recreate"
        /\ \E to \in PcType : pc' = [pc EXCEPT ![p] = to]
    BY <1>10 DEF TakeoverCreate, PcType
  <2>. QED
    BY <2>1, <2>2
<1>11. CASE TakeoverWrite(p)
  BY <1>11 DEF TakeoverWrite, PutRecord
<1>12. CASE KillClaimant(p)
  BY <1>12 DEF KillClaimant
<1>. QED
  BY <1>1, <1>2, <1>3, <1>4, <1>5, <1>6, <1>7, <1>8, <1>9, <1>10, <1>11, <1>12 DEF ClaimStep

LEMMA ReasonFitsStep ==
    ASSUME TypeOK, ReasonFits, NEW p \in Procs, ClaimStep(p)
    PROVE  ReasonFits'
<1>. USE DEF TypeOK, ReasonFits, Goto, Because
<1>1. \A q \in Procs \ {p} : pc'[q] = pc[q] /\ reason'[q] = reason[q]
  BY DEF ClaimStep, VerifyClaimDir, Stamp, SweepLook, SweepUnlink, CreateClaim, WriteClaim,
         CheckTrust, ReadClaim, TakeoverUnlink, TakeoverCreate, TakeoverWrite, KillClaimant
<1>2. /\ pc'[p] \in {"unlink", "recreate", "rewrite"} => reason'[p] \in TakeoverReasons
      /\ pc'[p] \in {"start", "stamp", "remove", "create", "write", "trust", "read"}
           => reason'[p] = "none"
  BY DEF ClaimStep, TakeoverReasons, VerifyClaimDir, Stamp, SweepLook, SweepUnlink, CreateClaim, WriteClaim,
         CheckTrust, ReadClaim, TakeoverUnlink, TakeoverCreate, TakeoverWrite, KillClaimant
<1>. QED
  BY <1>1, <1>2

LEMMA SilenceHasWitnessStep ==
    ASSUME TypeOK, RecordHasAuthor, SilenceHasWitness, NEW p \in Procs, ClaimStep(p)
    PROVE  SilenceHasWitness'
<1>. USE DEF TypeOK, Goto, Because
<1>1. \A q \in Procs : pc[q] \in {"fired", "suppressed"} =>
         pc'[q] = pc[q] /\ reason'[q] = reason[q] /\ now'[q] = now[q]
  BY DEF ClaimStep, VerifyClaimDir, Stamp, SweepLook, SweepUnlink, CreateClaim, WriteClaim,
         CheckTrust, ReadClaim, TakeoverUnlink, TakeoverCreate, TakeoverWrite, KillClaimant
<1>2. \A q \in Procs \ {p} : pc'[q] = pc[q] /\ now'[q] = now[q]
  BY DEF ClaimStep, VerifyClaimDir, Stamp, SweepLook, SweepUnlink, CreateClaim, WriteClaim,
         CheckTrust, ReadClaim, TakeoverUnlink, TakeoverCreate, TakeoverWrite, KillClaimant
<1>3. ASSUME pc'[p] = "suppressed", pc[p] # "suppressed"
      PROVE  /\ claims[Key(p)].written
             /\ InWindow(p, claims[Key(p)].by)
             /\ InstallOf(claims[Key(p)].by) # InstallOf(p)
             /\ now' = now
  BY <1>3 DEF ClaimStep, Readable, VerifyClaimDir, Stamp, SweepLook, SweepUnlink, CreateClaim, WriteClaim,
         CheckTrust, ReadClaim, TakeoverUnlink, TakeoverCreate, TakeoverWrite, KillClaimant
<1>4. \A q, r \in Procs :
         now'[q] = now[q] /\ now'[r] = now[r] /\ InWindow(q, r) => InWindow(q, r)'
  BY DEF InWindow
<1>. SUFFICES ASSUME NEW q \in Procs, pc'[q] = "suppressed"
              PROVE  \E r \in Procs : /\ Key(r) = Key(q)
                                      /\ InstallOf(r) # InstallOf(q)
                                      /\ InWindow(q, r)'
                                      /\ pc'[r] = "fired"
                                      /\ reason'[r] \in {"claimed"} \cup TakeoverReasons
  BY DEF SilenceHasWitness
<1>5. CASE pc[q] = "suppressed"
  <2>1. PICK r \in Procs : /\ Key(r) = Key(q)
                           /\ InstallOf(r) # InstallOf(q)
                           /\ InWindow(q, r)
                           /\ pc[r] = "fired"
                           /\ reason[r] \in {"claimed"} \cup TakeoverReasons
    BY <1>5 DEF SilenceHasWitness
  <2>2. InWindow(q, r)'
    BY <1>1, <1>4, <1>5, <2>1
  <2>. QED
    BY <1>1, <2>1, <2>2
<1>6. CASE pc[q] # "suppressed"
  <2>1. q = p
    BY <1>2, <1>6
  <2>2. PICK r \in Procs : r = claims[Key(p)].by /\ Key(r) = Key(p) /\ pc[r] = "fired"
                           /\ reason[r] \in {"claimed"} \cup TakeoverReasons
    BY <1>3, <1>6, <2>1, KeyType DEF RecordHasAuthor
  <2>3. InWindow(q, r)'
    BY <1>3, <1>4, <1>6, <2>1, <2>2
  <2>. QED
    BY <1>1, <1>3, <1>6, <2>1, <2>2, <2>3
<1>. QED
  BY <1>5, <1>6

\* A key once disturbed stays so.
LEMMA DisturbedStays ==
    ASSUME TypeOK, ReasonFits, NEW p \in Procs, ClaimStep(p), NEW k \in Keys, Disturbed(k)
    PROVE  Disturbed(k)'
<1>1. swept \subseteq swept'
  BY DEF ClaimStep, VerifyClaimDir, Stamp, SweepLook, SweepUnlink, CreateClaim, WriteClaim,
         CheckTrust, ReadClaim, TakeoverUnlink, TakeoverCreate, TakeoverWrite, KillClaimant
<1>2. \A q \in Procs : reason[q] # "none" => reason'[q] = reason[q]
  BY DEF ClaimStep, TypeOK, ReasonFits, Goto, Because, VerifyClaimDir, Stamp, SweepLook, SweepUnlink, CreateClaim, WriteClaim,
         CheckTrust, ReadClaim, TakeoverUnlink, TakeoverCreate, TakeoverWrite, KillClaimant
<1>. QED
  BY <1>1, <1>2 DEF Disturbed, TakeoverReasons, UnclaimedReasons

LEMMA SoleInstallStep ==
    ASSUME TypeOK, ReasonFits, NEW p \in Procs, ClaimStep(p),
           NEW k \in Keys, SoleInstall(k), ~Disturbed(k), ~Disturbed(k)'
    PROVE  SoleInstall(k)'
<1>. USE KeyType DEF TypeOK, SoleInstall, Goto, Because
<1>1. /\ k \notin swept'
      /\ \A q \in Procs : Key(q) = k =>
            /\ reason[q] \notin TakeoverReasons \cup UnclaimedReasons
            /\ reason'[q] \notin TakeoverReasons \cup UnclaimedReasons
  BY DEF Disturbed
<1>2. CASE VerifyClaimDir(p)
  <2>1. UNCHANGED claims
    BY <1>2 DEF VerifyClaimDir
  <2>2. \/ pc' = [pc EXCEPT ![p] = "stamp"]
        \/ /\ pc' = [pc EXCEPT ![p] = "fired"]
           /\ reason'[p] \in UnclaimedReasons
    BY <1>2 DEF VerifyClaimDir, UnclaimedReasons
  <2>. QED
    BY <1>1, <2>1, <2>2
<1>3. CASE Stamp(p)
  BY <1>3 DEF Stamp
<1>4. ASSUME NEW j \in Keys, SweepLook(p, j) PROVE SoleInstall(k)'
  BY <1>4 DEF SweepLook
<1>5. CASE SweepUnlink(p)
  BY <1>1, <1>5 DEF SweepUnlink, Unlink
<1>6. CASE CreateClaim(p)
  <2>1. CASE Absent(Key(p)) /\ pc' = [pc EXCEPT ![p] = "write"] /\ MakeClaim(p)
    <3>1. claims' = [claims EXCEPT ![Key(p)] = [by |-> p, written |-> FALSE]]
      BY <2>1 DEF MakeClaim
    <3>2. [by |-> p, written |-> FALSE] # NoClaim
      BY NoProcIsNone DEF NoClaim
    <3>. HIDE DEF SoleInstall
    <3>3. Key(p) # k => claims'[k] = claims[k]
      BY <3>1
    <3>4. Key(p) = k => /\ claims'[k] # NoClaim
                        /\ claims'[k].by = p
      BY <3>1, <3>2
    <3>8. Key(p) = k => \A q \in Procs : Key(q) = k => pc[q] \notin {"write", "fired"}
      BY <2>1 DEF Absent, SoleInstall
    <3>5. \A q \in Procs \ {p} : pc'[q] = pc[q]
      BY <2>1
    <3>6. CASE Key(p) # k
      BY <3>3, <3>5, <3>6 DEF SoleInstall
    <3>7. CASE Key(p) = k
      BY <3>4, <3>5, <3>7, <3>8 DEF SoleInstall
    <3>. QED
      BY <3>6, <3>7
  <2>2. CASE pc' = [pc EXCEPT ![p] = "trust"] /\ UNCHANGED claims
    BY <2>2
  <2>3. CASE pc' = [pc EXCEPT ![p] = "fired"] /\ reason'[p] = "claim_error" /\ UNCHANGED claims
    BY <1>1, <2>3 DEF UnclaimedReasons
  <2>. QED
    BY <1>6, <2>1, <2>2, <2>3 DEF CreateClaim
<1>7. CASE WriteClaim(p)
  <2>1. pc[p] = "write" /\ pc' = [pc EXCEPT ![p] = "fired"]
    BY <1>7 DEF WriteClaim
  <2>2. \/ UNCHANGED claims
        \/ claims' = [claims EXCEPT ![Key(p)] = [by |-> p, written |-> TRUE]]
    BY <1>7 DEF WriteClaim, PutRecord
  <2>3. [by |-> p, written |-> TRUE] # NoClaim
    BY DEF NoClaim
  <2>4. CASE claims' = [claims EXCEPT ![Key(p)] = [by |-> p, written |-> TRUE]]
    BY <2>1, <2>3, <2>4
  <2>. QED
    BY <2>1, <2>2, <2>4
<1>8. CASE CheckTrust(p)
  BY <1>8 DEF CheckTrust
<1>9. CASE ReadClaim(p)
  <2>1. claims[Key(p)].written => claims[Key(p)] # NoClaim
    BY DEF NoClaim
  <2>. QED
    BY <1>9, <2>1 DEF ReadClaim, Readable
<1>10. CASE TakeoverUnlink(p)
  BY <1>1, <1>10 DEF TakeoverUnlink, Unlink, ReasonFits
<1>11. CASE TakeoverCreate(p)
  BY <1>1, <1>11 DEF TakeoverCreate, MakeClaim, ReasonFits
<1>12. CASE TakeoverWrite(p)
  BY <1>1, <1>12 DEF TakeoverWrite, PutRecord, ReasonFits
<1>13. CASE KillClaimant(p)
  BY <1>13 DEF KillClaimant
<1>. QED
  BY <1>2, <1>3, <1>4, <1>5, <1>6, <1>7, <1>8, <1>9, <1>10, <1>11, <1>12, <1>13 DEF ClaimStep

LEMMA ClaimInvStep ==
    ASSUME TypeOK, ClaimInv, NEW p \in Procs, ClaimStep(p)
    PROVE  ClaimInv'
<1>1. UndisturbedIsSole'
  BY DisturbedStays, SoleInstallStep DEF ClaimInv, UndisturbedIsSole
<1>. QED
  BY <1>1, RecordHasAuthorStep, ReasonFitsStep, SilenceHasWitnessStep DEF ClaimInv

\* The guard and the clock do not touch what the claim is about.
LEMMA ClaimInvFrame ==
    ASSUME ClaimInv, UNCHANGED <<claims, pc, now, reason, swept>>
    PROVE  ClaimInv'
<1>1. \A q, r \in Procs : InWindow(q, r) => InWindow(q, r)'
  BY DEF InWindow
<1>2. SilenceHasWitness'
  BY <1>1 DEF ClaimInv, SilenceHasWitness
<1>3. RecordHasAuthor' /\ ReasonFits'
  BY DEF ClaimInv, RecordHasAuthor, ReasonFits
<1>4. UndisturbedIsSole'
  BY DEF ClaimInv, UndisturbedIsSole, SoleInstall, Disturbed
<1>. QED
  BY <1>2, <1>3, <1>4 DEF ClaimInv

LEMMA ClaimInvariance == HookSpec => []ClaimInv
<1>1. HookInit => ClaimInv
  BY DEF HookInit, Init, ClaimInv, RecordHasAuthor, ReasonFits, SilenceHasWitness,
         UndisturbedIsSole, SoleInstall, NoClaim
<1>2. HookTypeOK /\ ClaimInv /\ [HookNext]_hookVars => ClaimInv'
  <2>. SUFFICES ASSUME HookTypeOK, ClaimInv, [HookNext]_hookVars PROVE ClaimInv'
    OBVIOUS
  <2>1. ASSUME NEW p \in Procs, ClaimStep(p) PROVE ClaimInv'
    BY <2>1, ClaimInvStep DEF HookTypeOK
  <2>2. CASE UNCHANGED <<claims, pc, now, reason, swept>>
    BY <2>2, ClaimInvFrame
  <2>. QED
    BY <2>1, <2>2, Steps DEF Tick, GuardStep, hookVars, claimVars
<1>. QED
  BY <1>1, <1>2, HookTypeCorrect, PTL DEF HookSpec

(***************************************************************************)
(* "Never zero": a silenced hook has a witness of the other install.       *)
(***************************************************************************)
THEOREM NeverZero == HookSpec => []SilenceHasWitness
<1>1. ClaimInv => SilenceHasWitness
  BY DEF ClaimInv
<1>. QED
  BY <1>1, ClaimInvariance, PTL

(***************************************************************************)
(* "Never two", as far as it goes: two installs are admitted with one      *)
(* payload only on a disturbed key.                                        *)
(***************************************************************************)
THEOREM NeverTwoUndisturbed == HookSpec => []OneInstallAdmitted
<1>1. ClaimInv => OneInstallAdmitted
  BY KeyType DEF ClaimInv, UndisturbedIsSole, SoleInstall, OneInstallAdmitted
<1>. QED
  BY <1>1, ClaimInvariance, PTL

-----------------------------------------------------------------------------
(* The guard.                                                              *)

\* An entry, in the journal or as somebody read it, belongs to a process that
\* has decided.
Decided(q) == stage[q] = "silent" \/ stage[q] \in Let
EntriesDecided ==
    /\ \A q \in journal : Decided(q)
    /\ \A p \in Procs : \A q \in active[p] : Decided(q)

Started == \A p \in Procs : stage[p] # "idle" => pc[p] = "fired"

HasPass(p) == \E q \in Procs : q # p /\ GuardKey(q) = GuardKey(p) /\ stage[q] \in Let

SuppressedHavePass == \A p \in Procs : stage[p] \in {"report", "silent"} => HasPass(p)

GuardInv == EntriesDecided /\ Started /\ SuppressedHavePass

\* Who was let through stays so.
LEMMA HasPassStays ==
    ASSUME NEW p \in Procs, HasPass(p), \A q \in Procs : stage[q] \in Let => stage'[q] \in Let
    PROVE  HasPass(p)'
BY DEF HasPass

LEMMA GuardInvStep ==
    ASSUME HookTypeOK, GuardInv, NEW p \in Procs, GuardStep(p)
    PROVE  GuardInv'
<1>. USE DEF Move, Let
<1>1. /\ pc' = pc
      /\ stage \in [Procs -> Stages]
      /\ active \in [Procs -> SUBSET Procs]
      /\ journal \subseteq Procs
  BY DEF GuardStep, HookTypeOK, GuardTypeOK
<1>2. \A q \in Procs \ {p} : stage'[q] = stage[q] /\ active'[q] = active[q]
  BY <1>1 DEF GuardStep, ReadClock, ReadJournal, TruncateJournal, RewriteJournal, Decides, Register,
              RunBody, Report, KillGuarded
<1>3. /\ stage[p] \notin {"ran", "silent", "stopped", "dead"} /\ pc[p] = "fired"
      /\ stage[p] = "passed" => stage'[p] \in Let
  BY <1>1 DEF GuardStep, ReadClock, ReadJournal, TruncateJournal, RewriteJournal, Decides, Register,
         RunBody, Report, KillGuarded, GuardInv, Started
<1>4. active'[p] \subseteq journal \cup active[p]
  BY <1>1 DEF GuardStep, ReadClock, ReadJournal, Unexpired, TruncateJournal, RewriteJournal, Decides,
              Register, RunBody, Report, KillGuarded
<1>5. EntriesDecided'
  <2>1. journal' \subseteq journal \cup active[p] \cup (IF Decided(p)' THEN {p} ELSE {})
    BY <1>1 DEF GuardStep, ReadClock, ReadJournal, TruncateJournal, RewriteJournal, Decides, Register,
                RunBody, Report, KillGuarded, AppendEntry, Decided
  <2>2. \A q \in Procs : Decided(q) => Decided(q)'
    BY <1>2, <1>3 DEF Decided
  <2>3. \A q \in journal' : Decided(q)'
    BY <1>1, <2>1, <2>2 DEF GuardInv, EntriesDecided
  <2>4. \A q \in Procs : active'[q] \subseteq active[q] \cup journal
    BY <1>2, <1>4
  <2>. QED
    BY <1>1, <2>2, <2>3, <2>4 DEF GuardInv, EntriesDecided
<1>6. Started'
  BY <1>1, <1>2, <1>3 DEF GuardInv, Started
<1>7. SuppressedHavePass'
  <2>1. \A q \in Procs : stage[q] \in Let => stage'[q] \in Let
    BY <1>2, <1>3
  <2>2. \A q \in Procs \ {p} : stage'[q] \in {"report", "silent"} => HasPass(q)'
    BY <1>2, <2>1, HasPassStays DEF GuardInv, SuppressedHavePass
  <2>3. ASSUME stage'[p] \in {"report", "silent"} PROVE HasPass(p)'
    <3>1. CASE stage[p] = "report"
      BY <2>1, <3>1, HasPassStays DEF GuardInv, SuppressedHavePass
    <3>2. CASE stage[p] # "report"
      <4>1. Conflicts(p) # {} \/ Reported(p) # {}
        BY <1>1, <2>3, <3>2 DEF GuardStep, ReadClock, ReadJournal, TruncateJournal, RewriteJournal,
                                 Decides, Register, RunBody, Report, KillGuarded
      <4>2. PICK q \in active[p] : GuardKey(q) = GuardKey(p)
        BY <4>1 DEF Conflicts, Reported
      <4>3. q \in Procs /\ q # p /\ Decided(q)
        BY <1>1, <1>3, <2>3, <3>2 DEF GuardInv, EntriesDecided, Decided
      <4>4. CASE stage[q] \in Let
        BY <2>1, <4>2, <4>3, <4>4, HasPassStays DEF HasPass
      <4>5. CASE stage[q] = "silent"
        <5>1. PICK r \in Procs : GuardKey(r) = GuardKey(q) /\ stage[r] \in Let
          BY <4>3, <4>5 DEF GuardInv, SuppressedHavePass, HasPass
        <5>2. r # p
          BY <1>3, <2>1, <2>3, <5>1
        <5>. QED
          BY <2>1, <4>2, <5>1, <5>2, HasPassStays DEF HasPass
      <4>. QED
        BY <4>3, <4>4, <4>5 DEF Decided
    <3>. QED
      BY <3>1, <3>2
  <2>. QED
    BY <2>2, <2>3 DEF SuppressedHavePass
<1>. QED
  BY <1>5, <1>6, <1>7 DEF GuardInv

\* Neither the race for claims nor the clock disturbs the guard.
LEMMA GuardInvFrame ==
    ASSUME GuardInv, UNCHANGED guardVars, \A p \in Procs : pc[p] = "fired" => pc'[p] = "fired"
    PROVE  GuardInv'
BY DEF guardVars, GuardInv, EntriesDecided, Decided, Started, SuppressedHavePass, HasPass

LEMMA GuardInvariance == HookSpec => []GuardInv
<1>1. HookInit => GuardInv
  BY DEF HookInit, Init, GuardInit, GuardInv, EntriesDecided, Started, SuppressedHavePass
<1>2. HookTypeOK /\ GuardInv /\ [HookNext]_hookVars => GuardInv'
  <2>. SUFFICES ASSUME HookTypeOK, GuardInv, [HookNext]_hookVars PROVE GuardInv'
    OBVIOUS
  <2>1. ASSUME NEW p \in Procs, GuardStep(p) PROVE GuardInv'
    BY <2>1, GuardInvStep
  <2>2. ASSUME NEW p \in Procs, ClaimStep(p), UNCHANGED guardVars PROVE GuardInv'
    <3>1. \A q \in Procs : pc[q] = "fired" => pc'[q] = "fired"
      BY <2>2 DEF ClaimStep, Goto, HookTypeOK, TypeOK, VerifyClaimDir, Stamp, SweepLook, SweepUnlink, CreateClaim, WriteClaim,
         CheckTrust, ReadClaim, TakeoverUnlink, TakeoverCreate, TakeoverWrite, KillClaimant
    <3>. QED
      BY <2>2, <3>1, GuardInvFrame
  <2>3. CASE Tick /\ UNCHANGED guardVars
    BY <2>3, GuardInvFrame DEF Tick
  <2>4. CASE UNCHANGED hookVars
    BY <2>4, GuardInvFrame DEF hookVars, claimVars
  <2>. QED
    BY <2>1, <2>2, <2>3, <2>4, Steps
<1>. QED
  BY <1>1, <1>2, HookTypeCorrect, PTL DEF HookSpec

(***************************************************************************)
(* Every chain of suppressions starts from a run that was let through.     *)
(***************************************************************************)
THEOREM EveryChainHasPass == HookSpec => []SuppressionFollowsPass
<1>1. GuardInv => SuppressionFollowsPass
  BY DEF GuardInv, SuppressedHavePass, HasPass, SuppressionFollowsPass
<1>. QED
  BY <1>1, GuardInvariance, PTL

(***************************************************************************)
(* The claim and the guard together: an event without a body shares its    *)
(* guard key with another event that was admitted.  The claim's witness is *)
(* of the same event or of one with an equal payload; the guard's is then  *)
(* followed to a run let through, which is not of this event.              *)
(***************************************************************************)
THEOREM NoDoubleSuppression == HookSpec => []SilentOnlyOnSharedKey
<1>1. ClaimInv /\ GuardInv => SilentOnlyOnSharedKey
  <2>. SUFFICES ASSUME ClaimInv, GuardInv, NEW e \in Events, Silent(e)
                PROVE  \E q \in Procs \ RunsOf(e) :
                          GuardKey(q) = GuardKeyOf[e] /\ pc[q] = "fired"
    BY DEF SilentOnlyOnSharedKey
  <2>1. \A p \in RunsOf(e) : p \in Procs /\ p[1] = e /\ Over(p) /\ stage[p] # "ran"
    BY DEF Silent, RunsOf
  <2>2. ASSUME NEW p \in RunsOf(e), stage[p] = "silent"
        PROVE  \E q \in Procs \ RunsOf(e) :
                  GuardKey(q) = GuardKeyOf[e] /\ pc[q] = "fired"
    <3>1. PICK q \in Procs : GuardKey(q) = GuardKey(p) /\ stage[q] \in Let
      BY <2>1, <2>2 DEF GuardInv, SuppressedHavePass, HasPass
    <3>2. ~Over(q) \/ stage[q] = "ran"
      BY <3>1 DEF Over, Let, GuardInv, Started
    <3>3. pc[q] = "fired" /\ q \notin RunsOf(e)
      BY <2>1, <3>1, <3>2 DEF GuardInv, Started, Let
    <3>4. GuardKey(q) = GuardKeyOf[e]
      BY <2>1, <3>1 DEF GuardKey
    <3>. QED
      BY <3>3, <3>4
  <2>3. ASSUME NEW p \in RunsOf(e), pc[p] = "suppressed"
        PROVE  \E q \in Procs \ RunsOf(e) :
                  GuardKey(q) = GuardKeyOf[e] /\ pc[q] = "fired"
    <3>1. PICK q \in Procs : Key(q) = Key(p) /\ pc[q] = "fired"
      BY <2>1, <2>3 DEF ClaimInv, SilenceHasWitness
    <3>2. p[1] \in Events /\ q[1] \in Events
      BY <2>1, ProcsAssumption
    <3>3. GuardKey(q) = GuardKeyOf[e]
      BY <2>1, <3>1, <3>2, SamePayloadSameGuardKey DEF Key, GuardKey
    <3>4. CASE q \in RunsOf(e)
      <4>1. stage[q] = "silent"
        BY <2>1, <3>1, <3>4 DEF Over
      <4>. QED
        BY <2>2, <3>4, <4>1
    <3>. QED
      BY <3>1, <3>3, <3>4
  <2>4. PICK p \in RunsOf(e) : stage[p] = "silent" \/ pc[p] = "suppressed"
    BY <2>1 DEF Silent, Over
  <2>. QED
    BY <2>2, <2>3, <2>4
<1>. QED
  BY <1>1, ClaimInvariance, GuardInvariance, PTL

-----------------------------------------------------------------------------
(* HookGuard implements OnceGate.                                          *)

FateSeen == [p \in Procs |-> FateOf(p)]
Rough == {k \in Keys : Disturbed(k)}
GateMove == [Gate!GateNext]_(Gate!gateVars)

\* A step that decides nothing only disturbs keys, if anything.
LEMMA UndecidedMaps ==
    ASSUME FateSeen' = FateSeen, Rough \subseteq Rough'
    PROVE  GateMove
<1>1. Gate!Roughen
  BY DEF Gate!Roughen, FateSeen, Rough
<1>. QED
  BY <1>1 DEF GateMove, Gate!GateNext

\* What a gate sees of a step of one run.
LEMMA OneFate ==
    ASSUME NEW p \in Procs, \A q \in Procs \ {p} : pc'[q] = pc[q] /\ stage'[q] = stage[q],
           NEW from, FateOf(p) = from, NEW to, FateOf(p)' = to
    PROVE  FateSeen[p] = from /\ FateSeen' = [FateSeen EXCEPT ![p] = to] /\ (from = to => FateSeen' = FateSeen)
<1>1. \A q \in Procs \ {p} : FateOf(q)' = FateOf(q)
  BY DEF FateOf
<1>. QED
  BY <1>1 DEF FateSeen

\* The steps of the claim admit a run, drop it, lose it, or decide nothing.
LEMMA ClaimStepMaps ==
    ASSUME HookTypeOK, ClaimInv, ClaimInv', GuardInv, NEW p \in Procs, ClaimStep(p), UNCHANGED guardVars
    PROVE  GateMove
<1>. USE DEF HookTypeOK, TypeOK, GuardTypeOK
<1>1. \A q \in Procs \ {p} : pc'[q] = pc[q] /\ stage'[q] = stage[q]
  BY DEF ClaimStep, Goto, VerifyClaimDir, Stamp, SweepLook, SweepUnlink, CreateClaim, WriteClaim,
     CheckTrust, ReadClaim, TakeoverUnlink, TakeoverCreate, TakeoverWrite, KillClaimant, guardVars
<1>2. pc[p] \notin {"fired", "suppressed", "killed"}
  BY DEF ClaimStep, Goto, VerifyClaimDir, Stamp, SweepLook, SweepUnlink, CreateClaim, WriteClaim,
     CheckTrust, ReadClaim, TakeoverUnlink, TakeoverCreate, TakeoverWrite, KillClaimant
<1>3. stage[p] = "idle" /\ stage'[p] = "idle"
  BY <1>2 DEF GuardInv, Started, guardVars
<1>4. FateOf(p) = "asking"
  BY <1>2 DEF FateOf
<1>5. Rough \subseteq Rough'
  BY DisturbedStays DEF ClaimInv, Rough
<1>6. CASE pc'[p] = "fired"
  <2>1. FateOf(p)' = "admitted"
    BY <1>3, <1>6 DEF FateOf, Let
  <2>2. FateSeen[p] = "asking" /\ FateSeen' = [FateSeen EXCEPT ![p] = "admitted"]
    BY <1>1, <1>4, <2>1, OneFate
  <2>3. ASSUME Key(p) \notin Rough', NEW q \in Procs, pc[q] = "fired", Key(q) = Key(p)
        PROVE  InstallOf(q) = InstallOf(p)
    <3>1. pc'[q] = "fired"
      BY <1>1, <1>2, <2>3
    <3>2. SoleInstall(Key(p))'
      BY <2>3, KeyType DEF ClaimInv, UndisturbedIsSole, Rough
    <3>. QED
      BY <1>6, <2>3, <3>1, <3>2 DEF SoleInstall
  <2>4. \A q \in Procs : Gate!Entered(q) => pc[q] = "fired"
    BY DEF Gate!Entered, Gate!LetThrough, FateOf, Let
  <2>5. Gate!Admit(p)
    BY <1>5, <2>2, <2>3, <2>4 DEF Gate!Admit, Gate!Becomes, FateSeen, Rough
  <2>. QED
    BY <2>5 DEF GateMove, Gate!GateNext
<1>7. CASE pc'[p] = "suppressed"
  <2>1. FateOf(p)' = "dropped"
    BY <1>7 DEF FateOf
  <2>2. FateSeen[p] = "asking" /\ FateSeen' = [FateSeen EXCEPT ![p] = "dropped"]
    BY <1>1, <1>4, <2>1, OneFate
  <2>3. PICK q \in Procs : Key(q) = Key(p) /\ InstallOf(q) # InstallOf(p) /\ pc'[q] = "fired"
    BY <1>7 DEF ClaimInv, SilenceHasWitness
  <2>4. pc[q] = "fired"
    BY <1>1, <2>3
  <2>5. Gate!Entered(q)
    BY <2>4 DEF Gate!Entered, Gate!LetThrough, FateOf, Let, Stages
  <2>6. swept' = swept /\ reason' = [reason EXCEPT ![p] = "duplicate_install"]
    BY <1>2, <1>7 DEF ClaimStep, Goto, Because, VerifyClaimDir, Stamp, SweepLook, SweepUnlink,
       CreateClaim, WriteClaim, CheckTrust, ReadClaim, TakeoverUnlink, TakeoverCreate, TakeoverWrite,
       KillClaimant
  <2>7. Rough' = Rough
    BY <1>5, <2>6 DEF Rough, Disturbed, TakeoverReasons, UnclaimedReasons
  <2>8. Gate!Drop(p)
    BY <2>2, <2>3, <2>5, <2>7 DEF Gate!Drop, Gate!Becomes, FateSeen, Rough
  <2>. QED
    BY <2>8 DEF GateMove, Gate!GateNext
<1>8. CASE pc'[p] = "killed"
  <2>1. FateOf(p)' = "lost"
    BY <1>8 DEF FateOf
  <2>2. FateSeen[p] = "asking" /\ FateSeen' = [FateSeen EXCEPT ![p] = "lost"]
    BY <1>1, <1>4, <2>1, OneFate
  <2>3. swept' = swept /\ reason' = reason
    BY <1>2, <1>8 DEF ClaimStep, Goto, VerifyClaimDir, Stamp, SweepLook, SweepUnlink,
       CreateClaim, WriteClaim, CheckTrust, ReadClaim, TakeoverUnlink, TakeoverCreate, TakeoverWrite,
       KillClaimant
  <2>4. Rough' = Rough
    BY <2>3 DEF Rough, Disturbed
  <2>5. Gate!Lose(p)
    BY <2>2, <2>4 DEF Gate!Lose, Gate!Becomes, FateSeen, Rough
  <2>. QED
    BY <2>5 DEF GateMove, Gate!GateNext
<1>9. CASE pc'[p] \notin {"fired", "suppressed", "killed"}
  <2>1. FateOf(p)' = "asking"
    BY <1>9 DEF FateOf
  <2>2. FateSeen' = FateSeen
    BY <1>1, <1>4, <2>1, OneFate
  <2>. QED
    BY <1>5, <2>2, UndecidedMaps
<1>. QED
  BY <1>6, <1>7, <1>8, <1>9

\* The steps of the guard let a run through, silence it, lose it, or decide
\* nothing; then its body runs, or it is lost.
LEMMA GuardStepMaps ==
    ASSUME HookTypeOK, GuardInv, GuardInv', NEW p \in Procs, GuardStep(p)
    PROVE  GateMove
<1>. USE DEF HookTypeOK, TypeOK, GuardTypeOK, Move, Stages, Let
<1>1. pc' = pc /\ \A q \in Procs \ {p} : pc'[q] = pc[q] /\ stage'[q] = stage[q]
  BY DEF GuardStep, ReadClock, ReadJournal, TruncateJournal, RewriteJournal, Decides, Register,
     RunBody, Report, KillGuarded
<1>2. /\ pc[p] = "fired" /\ stage[p] \notin {"ran", "silent", "dead", "stopped"}
      /\ stage[p] = "passed" <=> stage'[p] \in {"ran", "stopped"}
      /\ stage[p] = "passed" => stage'[p] # "passed"
  BY DEF GuardStep, ReadClock, ReadJournal, TruncateJournal, RewriteJournal, Decides, Register,
     RunBody, Report, KillGuarded, GuardInv, Started
<1>3. FateOf(p) = IF stage[p] = "passed" THEN "passed" ELSE "admitted"
  BY <1>2 DEF FateOf
<1>4. Rough' = Rough
  BY DEF GuardStep, Rough, Disturbed
<1>5. CASE stage'[p] \in Let
  <2>1. FateOf(p)' = stage'[p]
    BY <1>1, <1>2, <1>5 DEF FateOf
  <2>2. FateSeen[p] = FateOf(p) /\ FateSeen' = [FateSeen EXCEPT ![p] = stage'[p]]
    BY <1>1, <2>1, OneFate
  <2>3. Gate!Pass(p) \/ Gate!Work(p) \/ Gate!Lose(p)
    BY <1>2, <1>3, <1>4, <1>5, <2>2 DEF Gate!Pass, Gate!Work, Gate!Lose, Gate!Becomes, FateSeen, Rough
  <2>. QED
    BY <2>3 DEF GateMove, Gate!GateNext
<1>6. CASE stage'[p] = "silent"
  <2>1. FateOf(p)' = "silenced" /\ FateOf(p) = "admitted"
    BY <1>1, <1>2, <1>3, <1>6 DEF FateOf
  <2>2. FateSeen[p] = "admitted" /\ FateSeen' = [FateSeen EXCEPT ![p] = "silenced"]
    BY <1>1, <2>1, OneFate
  <2>3. PICK q \in Procs : q # p /\ GuardKey(q) = GuardKey(p) /\ stage'[q] \in Let
    BY <1>6 DEF GuardInv, SuppressedHavePass, HasPass
  <2>4. stage[q] \in Let /\ pc[q] = "fired"
    BY <1>1, <2>3 DEF GuardInv, Started
  <2>5. FateSeen[q] \in Let
    BY <2>4 DEF FateSeen, FateOf
  <2>6. Gate!Silence(p)
    BY <1>4, <2>2, <2>3, <2>5 DEF Gate!Silence, Gate!LetThrough, Gate!Becomes, FateSeen, Rough
  <2>. QED
    BY <2>6 DEF GateMove, Gate!GateNext
<1>7. CASE stage'[p] = "dead"
  <2>1. FateOf(p)' = "failed" /\ FateOf(p) = "admitted"
    BY <1>1, <1>2, <1>3, <1>7 DEF FateOf
  <2>2. FateSeen[p] = "admitted" /\ FateSeen' = [FateSeen EXCEPT ![p] = "failed"]
    BY <1>1, <2>1, OneFate
  <2>3. Gate!Lose(p)
    BY <1>4, <2>2 DEF Gate!Lose, Gate!Becomes, FateSeen, Rough
  <2>. QED
    BY <2>3 DEF GateMove, Gate!GateNext
<1>8. CASE stage'[p] \notin Let \cup {"silent", "dead"}
  <2>1. FateOf(p)' = "admitted" /\ FateOf(p) = "admitted"
    BY <1>1, <1>2, <1>3, <1>8 DEF FateOf
  <2>2. FateSeen' = FateSeen
    BY <1>1, <2>1, OneFate
  <2>. QED
    BY <1>4, <2>2, UndecidedMaps
<1>. QED
  BY <1>5, <1>6, <1>7, <1>8

(***************************************************************************)
(* Claim and guard are one gate to whoever writes a hook: each run is      *)
(* decided once, and turned away only for one that came before.            *)
(***************************************************************************)
THEOREM GateImplemented == HookSpec => ImplementsGate
<1>1. HookInit => Gate!GateInit
  BY DEF HookInit, Init, GuardInit, Gate!GateInit, FateOf, Disturbed, TakeoverReasons, UnclaimedReasons
<1>2. HookTypeOK /\ ClaimInv /\ ClaimInv' /\ GuardInv /\ GuardInv' /\ [HookNext]_hookVars
        => [Gate!GateNext]_(Gate!gateVars)
  <2>. SUFFICES ASSUME HookTypeOK, ClaimInv, ClaimInv', GuardInv, GuardInv', [HookNext]_hookVars
                PROVE  GateMove
    BY DEF GateMove
  <2>1. ASSUME NEW p \in Procs, ClaimStep(p), UNCHANGED guardVars PROVE GateMove
    BY <2>1, ClaimStepMaps
  <2>2. ASSUME NEW p \in Procs, GuardStep(p) PROVE GateMove
    BY <2>2, GuardStepMaps
  <2>3. CASE (Tick /\ UNCHANGED guardVars) \/ UNCHANGED hookVars
    <3>1. FateSeen' = FateSeen /\ Rough' = Rough
      BY <2>3 DEF Tick, guardVars, hookVars, claimVars, FateSeen, FateOf, Rough, Disturbed
    <3>. QED
      BY <3>1, UndecidedMaps
  <2>. QED
    BY <2>1, <2>2, <2>3, Steps
<1>. QED
  BY <1>1, <1>2, HookTypeCorrect, ClaimInvariance, GuardInvariance, PTL
     DEF HookSpec, ImplementsGate, Gate!GateSpec

-----------------------------------------------------------------------------
(* OnceGate is enough to know who is turned away, and for whom.            *)

\* A run dropped by the claim has an admitted counterpart, a run silenced by the
\* guard one that was let through.
TurnedAwayForAnother ==
    /\ \A p \in Procs : pc[p] = "suppressed" =>
          \E q \in Procs : Key(q) = Key(p) /\ InstallOf(q) # InstallOf(p) /\ pc[q] = "fired"
    /\ \A p \in Procs : pc[p] = "fired" /\ stage[p] = "silent" =>
          \E q \in Procs : GuardKey(q) = GuardKey(p) /\ pc[q] = "fired" /\ stage[q] \in Let

\* What a gate keeps.
In(q) == FateSeen[q] \in {"admitted", "silenced", "failed"} \cup Let
GateInv ==
    /\ \A p, q \in Procs : In(p) /\ In(q) /\ Key(p) = Key(q) /\ Key(p) \notin Rough
          => InstallOf(p) = InstallOf(q)
    /\ \A p \in Procs : FateSeen[p] = "dropped" =>
          \E q \in Procs : In(q) /\ Key(q) = Key(p) /\ InstallOf(q) # InstallOf(p)
    /\ \A p \in Procs : FateSeen[p] = "silenced" =>
          \E q \in Procs : FateSeen[q] \in Let /\ GuardKey(q) = GuardKey(p)

\* A run that changes its fate leaves the others theirs, and stays in once it is.
LEMMA FateChanges ==
    ASSUME NEW p \in Procs, NEW from, NEW to, Gate!Becomes(p, from, to)
    PROVE  /\ FateSeen[p] = from /\ FateSeen'[p] = to
           /\ \A q \in Procs \ {p} : FateSeen'[q] = FateSeen[q]
<1>1. DOMAIN FateSeen = Procs
  BY DEF FateSeen
<1>2. FateSeen[p] = from /\ FateSeen' = [FateSeen EXCEPT ![p] = to]
  BY DEF Gate!Becomes, FateSeen
<1>. QED
  BY <1>1, <1>2

LEMMA GateStep == ASSUME GateInv, GateMove PROVE GateInv'
<1>. USE DEF GateInv, In, Let
<1>1. CASE Gate!Roughen \/ UNCHANGED Gate!gateVars
  <2>1. FateSeen' = FateSeen /\ Rough \subseteq Rough'
    BY <1>1 DEF Gate!Roughen, Gate!gateVars, FateSeen, Rough
  <2>. QED
    BY <2>1
<1>2. ASSUME NEW p \in Procs, Gate!Admit(p) PROVE GateInv'
  <2>1. /\ FateSeen[p] = "asking" /\ FateSeen'[p] = "admitted"
        /\ \A q \in Procs \ {p} : FateSeen'[q] = FateSeen[q]
    BY <1>2, FateChanges DEF Gate!Admit
  <2>2. Rough \subseteq Rough'
    BY <1>2 DEF Gate!Admit, Rough
  <2>3. ASSUME Key(p) \notin Rough', NEW q \in Procs, In(q), Key(q) = Key(p)
        PROVE  InstallOf(q) = InstallOf(p)
    BY <1>2, <2>3 DEF Gate!Admit, Gate!Entered, Gate!LetThrough, FateSeen, Rough
  <2>. QED
    BY <2>1, <2>2, <2>3
<1>3. ASSUME NEW p \in Procs, Gate!Drop(p) PROVE GateInv'
  <2>1. /\ FateSeen[p] = "asking" /\ FateSeen'[p] = "dropped"
        /\ \A q \in Procs \ {p} : FateSeen'[q] = FateSeen[q]
    BY <1>3, FateChanges DEF Gate!Drop
  <2>2. Rough' = Rough
    BY <1>3 DEF Gate!Drop, Rough
  <2>3. PICK q \in Procs : In(q) /\ Key(q) = Key(p) /\ InstallOf(q) # InstallOf(p)
    BY <1>3 DEF Gate!Drop, Gate!Entered, Gate!LetThrough, FateSeen
  <2>. QED
    BY <2>1, <2>2, <2>3
<1>4. ASSUME NEW p \in Procs, Gate!Silence(p) PROVE GateInv'
  <2>1. /\ FateSeen[p] = "admitted" /\ FateSeen'[p] = "silenced"
        /\ \A q \in Procs \ {p} : FateSeen'[q] = FateSeen[q]
    BY <1>4, FateChanges DEF Gate!Silence
  <2>2. Rough' = Rough
    BY <1>4 DEF Gate!Silence, Rough
  <2>3. PICK q \in Procs : FateSeen[q] \in Let /\ GuardKey(q) = GuardKey(p)
    BY <1>4 DEF Gate!Silence, Gate!LetThrough, FateSeen
  <2>. QED
    BY <2>1, <2>2, <2>3
<1>5. ASSUME NEW p \in Procs, Gate!Pass(p) \/ Gate!Work(p) \/ Gate!Lose(p) PROVE GateInv'
  <2>1. PICK from \in {"asking", "admitted", "passed"}, to \in Let \cup {"lost", "failed"} :
           /\ Gate!Becomes(p, from, to)
           /\ from = "asking" => to = "lost"
           /\ from = "admitted" => to # "lost"
           /\ from = "passed" => to \in Let
    BY <1>5 DEF Gate!Pass, Gate!Work, Gate!Lose
  <2>2. /\ FateSeen[p] = from /\ FateSeen'[p] = to
        /\ \A q \in Procs \ {p} : FateSeen'[q] = FateSeen[q]
    BY <2>1, FateChanges
  <2>3. Rough' = Rough
    BY <1>5 DEF Gate!Pass, Gate!Work, Gate!Lose, Rough
  <2>. QED
    BY <2>1, <2>2, <2>3
<1>. QED
  BY <1>1, <1>2, <1>3, <1>4, <1>5 DEF GateMove, Gate!GateNext

(***************************************************************************)
(* From the steps of a gate alone it follows that on an undisturbed key    *)
(* one install is admitted, and that nobody is turned away for nobody.     *)
(***************************************************************************)
THEOREM GateSuffices == ImplementsGate => [](OneInstallAdmitted /\ TurnedAwayForAnother)
<1>1. Gate!GateInit => GateInv
  <2>. SUFFICES ASSUME Gate!GateInit PROVE GateInv
    OBVIOUS
  <2>1. FateSeen = [p \in Procs |-> "asking"]
    BY DEF Gate!GateInit, FateSeen
  <2>. QED
    BY <2>1 DEF GateInv, In, Let
<1>2. GateInv /\ [Gate!GateNext]_(Gate!gateVars) => GateInv'
  BY GateStep DEF GateMove
<1>3. GateInv => OneInstallAdmitted /\ TurnedAwayForAnother
  <2>1. \A p \in Procs : In(p) <=> pc[p] = "fired"
    BY DEF In, FateSeen, FateOf, Let
  <2>2. \A p \in Procs : /\ pc[p] = "suppressed" => FateSeen[p] = "dropped"
                         /\ pc[p] = "fired" /\ stage[p] = "silent" => FateSeen[p] = "silenced"
                         /\ FateSeen[p] \in Let => pc[p] = "fired" /\ stage[p] \in Let
    BY DEF FateSeen, FateOf, Let
  <2>. QED
    BY <2>1, <2>2, KeyType DEF GateInv, OneInstallAdmitted, TurnedAwayForAnother, Rough
<1>. QED
  BY <1>1, <1>2, <1>3, PTL DEF ImplementsGate, Gate!GateSpec
=============================================================================
