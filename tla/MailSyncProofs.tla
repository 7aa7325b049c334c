--------------------------- MODULE MailSyncProofs ---------------------------
(***************************************************************************)
(* MailSync for any number of runs, messages and files: its types, made    *)
(* inductive by WalkOK, which says where each run stands in its walk of    *)
(* the mailbox, and every safety property of the module.  That a first     *)
(* synchronisation leaves out no message needs no lock: it holds for runs  *)
(* that overlap.  When no run lasts longer than the 600 seconds of the     *)
(* lock (Slow = {}), runs do not overlap, the counter of an account that   *)
(* is its tenant's only one is reconciled, no file is orphaned and no      *)
(* message is skipped; when, moreover, no COMMIT goes unacknowledged, no   *)
(* row ever loses a file, and the synchronisation implements MailArchive.  *)
(***************************************************************************)
EXTENDS MailSync, FiniteSetTheorems, SequenceTheorems, TLAPS

Processing == {"lookup", "skip", "plain", "quota", "write", "hash", "rename",
               "charge", "commit", "rollback", "refund", "error"}

(* The message at hand is one of the mailbox, and the attachment at hand   *)
(* one of the message.                                                     *)
WalkAt(r) ==
  /\ pc[r] \in InSession => hi[r] <= Len(mailbox.msgs)
  /\ pc[r] \in Processing => cursor[r] < hi[r]
  /\ pc[r] \in {"idle", "reading", "cleaning", "opening", "first", "fetch",
                "next", "lookup", "plain", "quota"} => saved[r] = <<>>
  /\ pc[r] = "quota" => Attachments[MsgOf(r)] # <<>>
  /\ pc[r] \in {"charge", "commit"} => Len(saved[r]) <= Len(Attachments[MsgOf(r)])
  /\ pc[r] \in {"write", "hash", "rename"} =>
       Len(saved[r]) < Len(Attachments[MsgOf(r)])
  /\ pc[r] \in {"hash", "rename"} =>
       target[r] \in {Primary(Current(r).name),
                      Suffixed(Current(r).name, Current(r).body)}

WalkOK == \A r \in Run : WalkAt(r)

TypeInv == TypeOK /\ WalkOK

-----------------------------------------------------------------------------
(* What the helpers return *)

LEMMA MessageAtHand ==
  ASSUME TypeInv, NEW r \in Run, pc[r] \in Processing
  PROVE  /\ Uid(r) \in 1..MaxUid
         /\ Uid(r) <= Len(mailbox.msgs)
         /\ MsgOf(r) \in Msg
         /\ Attachments[MsgOf(r)] \in Seq(Attachment)
         /\ ThisId(r) \in MessageId
<1>1. /\ cursor[r] \in Nat /\ hi[r] \in Nat /\ cursor[r] < hi[r]
      /\ hi[r] <= Len(mailbox.msgs) /\ Len(mailbox.msgs) <= MaxUid
      /\ mailbox.msgs \in Seq(Msg)
  BY DEF TypeInv, TypeOK, WalkOK, WalkAt, Processing, InSession, Uids
<1>2. Uid(r) \in 1..Len(mailbox.msgs) /\ Uid(r) \in 1..MaxUid
  BY <1>1, ConstantsAssumption, SMTT(40) DEF Uid
<1>3. MsgOf(r) \in Msg
  BY <1>1, <1>2 DEF MsgOf
<1>4. ThisId(r) \in MessageId
  BY <1>2, <1>3 DEF ThisId, IdOf, Synthetic, MessageId
<1> QED BY <1>2, <1>3, <1>4, ConstantsAssumption

LEMMA AttachmentAtHand ==
  ASSUME TypeInv, NEW r \in Run, pc[r] \in {"write", "hash", "rename"}
  PROVE  Current(r) \in Attachment
<1>1. pc[r] \in Processing
  BY DEF Processing
<1>2. /\ Len(saved[r]) \in Nat
      /\ Len(saved[r]) < Len(Attachments[MsgOf(r)])
  BY DEF TypeInv, TypeOK, WalkOK, WalkAt
<1> QED BY <1>1, <1>2, MessageAtHand DEF Current

LEMMA TargetIsPath ==
  ASSUME TypeInv, NEW r \in Run, pc[r] \in {"hash", "rename"}
  PROVE  target[r] \in Path
<1>1. target[r] \in {Primary(Current(r).name),
                     Suffixed(Current(r).name, Current(r).body)}
  BY DEF TypeInv, WalkOK, WalkAt
<1>2. Current(r) \in Attachment
  BY AttachmentAtHand
<1> QED BY <1>1, <1>2 DEF Primary, Suffixed, Path, Attachment

LEMMA MessageIdFinite == IsFiniteSet(MessageId)
<1>1. IsFiniteSet({"header"} \X Msg)
  BY ConstantsAssumption, FS_Singleton, FS_Product
<1>2. IsFiniteSet({"synthetic"} \X (1..MaxUid))
  <2>1. IsFiniteSet(1..MaxUid)
    BY ConstantsAssumption, FS_Interval
  <2> QED BY <2>1, FS_Singleton, FS_Product
<1> QED BY <1>1, <1>2, FS_Union DEF MessageId

LEMMA DbUnitsType ==
  ASSUME TypeOK
  PROVE  DbUnits \in Nat
<1> DEFINE units(id) == {id} \X DOMAIN rows[id].files
           all == {units(id) : id \in MessageId}
           f == [id \in MessageId |-> units(id)]
<1>1. ASSUME NEW id \in MessageId PROVE IsFiniteSet(units(id))
  <2>1. rows[id].files \in Seq(FileRef)
    BY DEF TypeOK, Row
  <2>2. IsFiniteSet(DOMAIN rows[id].files)
    BY <2>1, LenProperties, FS_Interval
  <2> QED BY <2>2, FS_Singleton, FS_Product
<1>2. f \in Surjection(MessageId, all)
  BY DEF Surjection
<1>3. IsFiniteSet(all)
  <2> HIDE DEF all, f
  <2> QED BY <1>2, MessageIdFinite, FS_Surjection
<1>4. \A T \in all : IsFiniteSet(T)
  BY <1>1
<1>5. IsFiniteSet(UNION all)
  <2> HIDE DEF all
  <2> QED BY <1>3, <1>4, FS_UNION
<1> QED BY <1>5, FS_CardinalityType DEF DbUnits

LEMMA FreshIndexesType ==
  ASSUME TypeOK, NEW r \in Run
  PROVE  Cardinality(FreshIndexes(r)) \in Nat
<1>1. saved[r] \in Seq(SavedFile)
  BY DEF TypeOK
<1>2. IsFiniteSet(DOMAIN saved[r])
  BY <1>1, LenProperties, FS_Interval
<1>3. FreshIndexes(r) \in SUBSET DOMAIN saved[r]
  BY DEF FreshIndexes
<1> QED BY <1>2, <1>3, FS_Subset, FS_CardinalityType

LEMMA SpendType ==
  ASSUME TypeOK, NEW e \in Event, Spend(e)
  PROVE  left' \in [Event -> Nat]
BY DEF Spend, TypeOK

LEMMA InsertType ==
  ASSUME TypeOK, NEW id \in MessageId, NEW row \in Row, NEW u \in Nat,
         Insert(id, row, u)
  PROVE  rows' \in [MessageId -> Row] /\ account' \in Account
BY DEF Insert, TypeOK, Account

LEMMA MessageDoneType ==
  ASSUME TypeOK, NEW r \in Run, MessageDone(r)
  PROVE  /\ pc' \in [Run -> InSync \cup {"idle"}]
         /\ cursor' \in [Run -> Nat]
         /\ why' \in [Run -> ErrorDetail]
         /\ target' \in [Run -> Path \cup {Absent}]
         /\ saved' \in [Run -> Seq(SavedFile)]
BY EmptySeq, SMTT(40)
   DEF MessageDone, TypeOK, Go, Uid, InSync, InSession, ErrorDetail

-----------------------------------------------------------------------------
(* Each action preserves TypeInv *)

(* A step of one run leaves the others where they were in their walks.     *)
LEMMA WalkFrame ==
  ASSUME WalkOK, NEW r \in Run, WalkAt(r)', mailbox' = mailbox,
         \A s \in Run \ {r} : /\ pc'[s] = pc[s] /\ hi'[s] = hi[s]
                              /\ cursor'[s] = cursor[s] /\ saved'[s] = saved[s]
                              /\ target'[s] = target[s]
  PROVE  WalkOK'
<1> SUFFICES ASSUME NEW s \in Run, s # r PROVE WalkAt(s)'
  BY DEF WalkOK
<1>1. WalkAt(s)
  BY DEF WalkOK
<1> QED BY <1>1 DEF WalkAt, MsgOf, Uid, Current

LEMMA MessageDoneWalk ==
  ASSUME TypeInv, NEW r \in Run, MessageDone(r), mailbox' = mailbox, hi' = hi,
         pc[r] \in InSession
  PROVE  WalkOK'
<1>1. WalkAt(r)'
  BY DEF TypeInv, MessageDone, Go, TypeOK, WalkOK, WalkAt, InSession, Processing
<1> QED BY <1>1, WalkFrame DEF TypeInv, MessageDone, Go, TypeOK

LEMMA SyncPartTypes ==
  ASSUME TypeInv, NEW r \in Run,
         \/ Acquire(r) \/ ReadAccount(r) \/ CleanOrphanTmp(r) \/ OpenMailbox(r)
         \/ FirstSync(r) \/ Fetch(r) \/ NextMessage(r)
  PROVE  TypeInv'
<1> USE DEF TypeInv, Go, worldVars, dbVars, diskVars, redisVars, walkVars, fileVars
<1>1. CASE Acquire(r)
  <2>1. TypeOK'
    BY <1>1, ConstantsAssumption DEF Acquire, TypeOK, InSync, Around
  <2>2. WalkAt(r)'
    BY <1>1 DEF Acquire, TypeOK, WalkOK, WalkAt, InSession, Processing
  <2> QED BY <1>1, <2>1, <2>2, WalkFrame DEF Acquire, TypeOK
<1>2. CASE ReadAccount(r)
  <2>1. TypeOK'
    BY <1>2 DEF ReadAccount, TypeOK, InSync, Around, LogStatus
  <2>2. WalkAt(r)'
    BY <1>2 DEF ReadAccount, TypeOK, WalkOK, WalkAt, InSession, Processing
  <2> QED BY <1>2, <2>1, <2>2, WalkFrame DEF ReadAccount, TypeOK
<1>3. CASE CleanOrphanTmp(r)
  <2>1. TypeOK'
    BY <1>3 DEF CleanOrphanTmp, TypeOK, InSync, Around
  <2>2. WalkAt(r)'
    BY <1>3 DEF CleanOrphanTmp, TypeOK, WalkOK, WalkAt, InSession, Processing
  <2> QED BY <1>3, <2>1, <2>2, WalkFrame DEF CleanOrphanTmp, TypeOK
<1>4. CASE OpenMailbox(r)
  <2>1. StartUid(r) \in Nat
    BY DEF StartUid, TypeOK, Account
  <2>2. LastUid \in Uids
    BY DEF LastUid, Uids, TypeOK
  <2>3. TypeOK'
    BY <1>4, <2>1, <2>2 DEF OpenMailbox, TypeOK, Account, InSync, InSession
  <2>4. WalkAt(r)'
    BY <1>4, <2>2 DEF OpenMailbox, TypeOK, WalkOK, WalkAt, InSession, Processing, LastUid
  <2> QED BY <1>4, <2>3, <2>4, WalkFrame DEF OpenMailbox, TypeOK
<1>5. CASE FirstSync(r)
  <2>1. FirstSyncStartUid(r) \subseteq Nat
    BY DEF FirstSyncStartUid, SearchSince, FirstOf, TypeOK, Uids
  <2>2. TypeOK'
    BY <1>5, <2>1, ZenonT(60) DEF FirstSync, TypeOK, Account, InSync, InSession
  <2>3. WalkAt(r)'
    BY <1>5 DEF FirstSync, TypeOK, WalkOK, WalkAt, InSession, Processing
  <2> QED BY <1>5, <2>2, <2>3, WalkFrame DEF FirstSync, TypeOK
<1>6. CASE Fetch(r)
  <2>1. LastUid \in Uids
    BY DEF LastUid, Uids, TypeOK
  <2>2. TypeOK'
    BY <1>6, <2>1 DEF Fetch, TypeOK, InSync, InSession
  <2>3. WalkAt(r)'
    BY <1>6, <2>1 DEF Fetch, TypeOK, WalkOK, WalkAt, InSession, Processing, LastUid
  <2> QED BY <1>6, <2>2, <2>3, WalkFrame DEF Fetch, TypeOK
<1>7. CASE NextMessage(r)
  <2>1. TypeOK'
    BY <1>7 DEF NextMessage, TypeOK, InSync, InSession, Around
  <2>2. WalkAt(r)'
    BY <1>7 DEF NextMessage, TypeOK, WalkOK, WalkAt, InSession, Processing
  <2> QED BY <1>7, <2>1, <2>2, WalkFrame DEF NextMessage, TypeOK
<1> QED BY <1>1, <1>2, <1>3, <1>4, <1>5, <1>6, <1>7

LEMMA ChoiceTypes ==
  ASSUME TypeInv, NEW r \in Run,
         \/ EmptySource(r) \/ Lookup(r) \/ Skip(r) \/ PersistPlain(r)
         \/ QuotaCheck(r)
  PROVE  TypeInv'
<1> USE DEF TypeInv, Go, worldVars, dbVars, diskVars, redisVars, walkVars, fileVars
<1>1. CASE EmptySource(r)
  <2>1. TypeOK'
    <3>1. left' \in [Event -> Nat]
      BY <1>1, SpendType DEF EmptySource, Event
    <3> QED BY <1>1, <3>1 DEF EmptySource, TypeOK, InSync, InSession, ErrorDetail
  <2>2. WalkAt(r)'
    BY <1>1 DEF EmptySource, TypeOK, WalkOK, WalkAt, InSession, Processing
  <2> QED BY <1>1, <2>1, <2>2, WalkFrame DEF EmptySource, TypeOK
<1>2. CASE Lookup(r)
  <2>1. TypeOK'
    BY <1>2 DEF Lookup, TypeOK, InSync, InSession
  <2>2. WalkAt(r)'
    BY <1>2 DEF Lookup, TypeOK, WalkOK, WalkAt, InSession, Processing, MsgOf, Uid
  <2> QED BY <1>2, <2>1, <2>2, WalkFrame DEF Lookup, TypeOK
<1>3. CASE Skip(r)
  <2>1. Uid(r) \in Nat
    BY DEF Uid, TypeOK
  <2>2. TypeOK'
    BY <1>3, <2>1, MessageDoneType DEF Skip, TypeOK, Account
  <2> QED BY <1>3, <2>2, MessageDoneWalk DEF Skip, InSession
<1>4. CASE PersistPlain(r)
  <2>1. /\ Uid(r) \in Nat /\ MsgOf(r) \in Msg /\ ThisId(r) \in MessageId
    BY <1>4, MessageAtHand, ConstantsAssumption DEF PersistPlain, Processing
  <2>2. [status |-> "SIN_ADJUNTOS", detail |-> "none", msg |-> MsgOf(r),
         files |-> <<>>] \in Row
    BY <2>1, EmptySeq DEF Row, RowStatus, ErrorDetail
  <2>3. CASE Registered(ThisId(r))
    <3>1. PICK next \in {"skip", "failing"} : pc' = [pc EXCEPT ![r] = next]
      BY <1>4, <2>3 DEF PersistPlain
    <3>2. TypeOK'
      BY <1>4, <2>3, <3>1 DEF PersistPlain, TypeOK, InSync, InSession, Around
    <3>3. WalkAt(r)'
      BY <1>4, <2>3, <3>1 DEF PersistPlain, TypeOK, WalkOK, WalkAt, InSession, Processing
    <3> QED BY <1>4, <2>3, <3>1, <3>2, <3>3, WalkFrame DEF PersistPlain, TypeOK
  <2>4. CASE ~Registered(ThisId(r))
    <3>1. rows' \in [MessageId -> Row] /\ account' \in Account
      BY <1>4, <2>1, <2>2, <2>4, InsertType DEF PersistPlain
    <3>2. TypeOK'
      BY <1>4, <2>4, <3>1, MessageDoneType DEF PersistPlain, TypeOK
    <3> QED BY <1>4, <2>4, <3>2, MessageDoneWalk DEF PersistPlain, InSession
  <2> QED BY <2>3, <2>4
<1>5. CASE QuotaCheck(r)
  <2>1. Attachments[MsgOf(r)] \in Seq(Attachment)
    BY <1>5, MessageAtHand DEF QuotaCheck, Processing
  <2>2. TypeOK'
    BY <1>5 DEF QuotaCheck, TypeOK, InSync, InSession, ErrorDetail
  <2>3. saved[r] = <<>> /\ Attachments[MsgOf(r)] # <<>>
    BY <1>5 DEF QuotaCheck, WalkOK, WalkAt
  <2>4. Len(saved[r]) < Len(Attachments[MsgOf(r)])
    BY <2>1, <2>3, EmptySeq
  <2>5. MsgOf(r)' = MsgOf(r) /\ Attachments[MsgOf(r)]' = Attachments[MsgOf(r)]
    BY <1>5 DEF QuotaCheck, MsgOf, Uid
  <2>6. pc'[r] \in {"error", "write"}
    BY <1>5 DEF QuotaCheck, TypeOK
  <2>7. WalkAt(r)'
    BY <1>5, <2>3, <2>4, <2>5, <2>6 DEF QuotaCheck, TypeOK, WalkOK, WalkAt,
       InSession, Processing
  <2> QED BY <1>5, <2>2, <2>7, WalkFrame DEF QuotaCheck, TypeOK
<1> QED BY <1>1, <1>2, <1>3, <1>4, <1>5

LEMMA SaveTypes ==
  ASSUME TypeInv, NEW r \in Run, SaveAttachment(r)
  PROVE  TypeInv'
<1> USE DEF TypeInv, Go, worldVars, dbVars, diskVars, redisVars, walkVars, fileVars
<1>1. CASE WriteTmp(r)
  <2>1. Current(r) \in Attachment
    BY <1>1, AttachmentAtHand DEF WriteTmp
  <2>2. Primary(Current(r).name) \in Path
    BY <2>1 DEF Primary, Path, Attachment
  <2>3. TypeOK'
    BY <1>1, <2>1, <2>2, SMTT(40)
       DEF WriteTmp, TypeOK, Attachment, InSync, InSession
  <2>4. WalkAt(r)'
    BY <1>1 DEF WriteTmp, TypeOK, WalkOK, WalkAt, InSession, Processing, Current,
       MsgOf, Uid
  <2> QED BY <1>1, <2>3, <2>4, WalkFrame DEF WriteTmp, TypeOK
<1>2. ASSUME NEW reused \in BOOLEAN, NEW next \in {"save", "charge"},
             pc[r] \in {"hash", "rename"}, Keep(r, reused, next),
             UNCHANGED <<worldVars, dbVars, syncLog, redisVars, walkVars, why,
                         total, left>>,
             disk' \in [Path -> Body \cup {Absent}],
             tmp' \in [Name -> Body \cup {Absent}]
      PROVE  TypeInv'
  <2> DEFINE file == [path |-> target[r], body |-> Current(r).body,
                      reused |-> reused]
  <2>1. Current(r) \in Attachment /\ target[r] \in Path
    BY <1>2, AttachmentAtHand, TargetIsPath
  <2>2. file \in SavedFile
    BY <2>1 DEF SavedFile, Attachment
  <2>3. saved[r] \in Seq(SavedFile)
    BY DEF TypeOK
  <2>4. /\ Append(saved[r], file) \in Seq(SavedFile)
        /\ Len(Append(saved[r], file)) = Len(saved[r]) + 1
    BY <2>2, <2>3
  <2>5. /\ Attachments[MsgOf(r)] \in Seq(Attachment)
        /\ Len(saved[r]) < Len(Attachments[MsgOf(r)])
        /\ cursor[r] < hi[r] /\ hi[r] <= Len(mailbox.msgs)
    BY <1>2, MessageAtHand DEF WalkOK, WalkAt, Processing, InSession
  <2>6. /\ saved' = [saved EXCEPT ![r] = Append(saved[r], file)]
        /\ target' = [target EXCEPT ![r] = Absent]
    BY <1>2 DEF Keep
  <2>7. pc'[r] \in {"charge", "commit", "write"} /\ pc' = [pc EXCEPT ![r] = pc'[r]]
    BY <1>2 DEF Keep, TypeOK
  <2>8. pc'[r] = "write" => Len(saved'[r]) # Len(Attachments[MsgOf(r)])
    BY <1>2, <2>3, <2>6 DEF Keep, AllSaved, TypeOK
  <2> HIDE DEF file
  <2>9. /\ pc' \in [Run -> InSync \cup {"idle"}]
        /\ saved' \in [Run -> Seq(SavedFile)]
        /\ target' \in [Run -> Path \cup {Absent}]
    BY <2>4, <2>6, <2>7, ZenonT(60) DEF TypeOK, InSync, InSession
  <2>10. TypeOK'
    BY <1>2, <2>9 DEF TypeOK
  <2>11. Len(saved'[r]) = Len(saved[r]) + 1 /\ Len(saved[r]) \in Nat
    BY <2>3, <2>4, <2>6 DEF TypeOK
  <2>12. /\ Len(Attachments[MsgOf(r)]) \in Nat /\ MsgOf(r)' = MsgOf(r)
         /\ cursor' = cursor /\ hi' = hi /\ mailbox' = mailbox
    BY <1>2, <2>5 DEF MsgOf, Uid
  <2>13. WalkAt(r)'
    BY <2>5, <2>7, <2>8, <2>11, <2>12 DEF WalkAt, InSession, Processing
  <2> QED BY <2>6, <2>7, <2>10, <2>12, <2>13, WalkFrame DEF TypeOK
<1>3. CASE ReuseFile(r)
  <2>1. tmp' \in [Name -> Body \cup {Absent}] /\ disk' = disk
    BY <1>3 DEF ReuseFile, TypeOK
  <2> QED BY <1>3, <2>1, <1>2 DEF ReuseFile, TypeOK
<1>4. CASE ChoosePath(r)
  <2>1. Suffixed(Current(r).name, Current(r).body) \in Path
    BY <1>4, AttachmentAtHand DEF ChoosePath, Suffixed, Path, Attachment
  <2>2. CASE Go(r, "rename") /\ target' = target
    <3>1. TypeOK'
      BY <1>4, <2>2, SMTT(40) DEF ChoosePath, TypeOK, InSync, InSession
    <3>2. WalkAt(r)'
      BY <1>4, <2>2 DEF ChoosePath, TypeOK, WalkOK, WalkAt, InSession, Processing,
         Current, MsgOf, Uid
    <3> QED BY <1>4, <2>2, <3>1, <3>2, WalkFrame DEF ChoosePath, TypeOK
  <2>3. CASE /\ target' = [target EXCEPT ![r] =
                              Suffixed(Current(r).name, Current(r).body)]
             /\ pc' = pc
    <3>1. TypeOK'
      BY <1>4, <2>1, <2>3, SMTT(40) DEF ChoosePath, TypeOK
    <3>2. /\ Current(r)' = Current(r) /\ MsgOf(r)' = MsgOf(r)
          /\ UNCHANGED <<mailbox, cursor, hi, saved>> /\ pc[r] = "hash"
          /\ target'[r] = Suffixed(Current(r).name, Current(r).body)
      BY <1>4, <2>3 DEF ChoosePath, Current, MsgOf, Uid, TypeOK
    <3>3. WalkAt(r)'
      BY <2>3, <3>2 DEF WalkOK, WalkAt, InSession, Processing
    <3> QED BY <1>4, <2>3, <3>1, <3>3, WalkFrame DEF ChoosePath, TypeOK
  <2> QED BY <1>4, <2>2, <2>3 DEF ChoosePath
<1>5. CASE HashCollision(r)
  <2>1. TypeOK'
    BY <1>5 DEF HashCollision, TypeOK, InSync, Around
  <2>2. WalkAt(r)'
    BY <1>5 DEF HashCollision, TypeOK, WalkAt, InSession, Processing
  <2> QED BY <1>5, <2>1, <2>2, WalkFrame DEF HashCollision, TypeOK
<1>6. CASE Rename(r)
  <2>1. CASE tmp[Current(r).name] = Absent
    <3>1. TypeOK'
      BY <1>6, <2>1 DEF Rename, TypeOK, InSync, Around
    <3>2. WalkAt(r)'
      BY <1>6, <2>1 DEF Rename, TypeOK, WalkAt, InSession, Processing
    <3> QED BY <1>6, <2>1, <3>1, <3>2, WalkFrame DEF Rename, TypeOK
  <2>2. CASE tmp[Current(r).name] # Absent
    <3>1. Current(r).name \in Name
      BY <1>6, AttachmentAtHand DEF Rename, Attachment
    <3>2. /\ disk' \in [Path -> Body \cup {Absent}]
          /\ tmp' \in [Name -> Body \cup {Absent}]
      BY <1>6, <2>2, <3>1 DEF Rename, TypeOK
    <3> QED BY <1>6, <2>2, <3>2, <1>2 DEF Rename
  <2> QED BY <2>1, <2>2
<1>7. CASE Charge(r)
  <2>1. TypeOK'
    BY <1>7 DEF Charge, TypeOK, InSync, InSession
  <2>2. Attachments[MsgOf(r)] \in Seq(Attachment) /\ saved[r] \in Seq(SavedFile)
    BY <1>7, MessageAtHand DEF Charge, Processing, TypeOK
  <2>3. WalkAt(r)'
    BY <1>7, <2>2 DEF Charge, AllSaved, TypeOK, WalkOK, WalkAt, InSession,
       Processing, MsgOf, Uid
  <2> QED BY <1>7, <2>1, <2>3, WalkFrame DEF Charge, TypeOK
<1> QED BY <1>1, <1>3, <1>4, <1>5, <1>6, <1>7 DEF SaveAttachment

LEMMA ArchivedRowType ==
  ASSUME TypeInv, NEW r \in Run, pc[r] \in Processing
  PROVE  ArchivedRow(r) \in Row
<1> DEFINE files == [i \in DOMAIN saved[r] |-> [path |-> saved[r][i].path,
                                              body |-> saved[r][i].body]]
<1>1. saved[r] \in Seq(SavedFile)
  BY DEF TypeInv, TypeOK
<1>2. /\ Len(saved[r]) \in Nat /\ DOMAIN saved[r] = 1..Len(saved[r])
      /\ \A i \in 1..Len(saved[r]) : saved[r][i] \in SavedFile
  BY <1>1, LenProperties
<1>3. files \in [1..Len(saved[r]) -> FileRef]
  BY <1>2 DEF SavedFile, FileRef
<1>4. ArchivedRow(r) = [status |-> "PROCESADO", detail |-> "none", msg |-> MsgOf(r),
                        files |-> files]
  BY DEF ArchivedRow
<1> HIDE DEF files
<1>5. files \in Seq(FileRef)
  BY <1>2, <1>3
<1>6. MsgOf(r) \in Msg
  BY MessageAtHand
<1> QED BY <1>4, <1>5, <1>6 DEF Row, RowStatus, ErrorDetail

LEMMA ArchivedRowInsert ==
  ASSUME TypeInv, NEW r \in Run, pc[r] = "commit",
         Insert(ThisId(r), ArchivedRow(r), Uid(r))
  PROVE  rows' \in [MessageId -> Row] /\ account' \in Account
<1>1. pc[r] \in Processing
  BY DEF Processing
<1>2. Uid(r) \in Nat /\ ThisId(r) \in MessageId
  BY <1>1, MessageAtHand, ConstantsAssumption
<1> QED BY <1>1, <1>2, ArchivedRowType, InsertType DEF TypeInv

LEMMA OutcomeTypes ==
  ASSUME TypeInv, NEW r \in Run,
         \/ Commit(r) \/ CommitFails(r) \/ CommitUnacknowledged(r)
         \/ Rollback(r) \/ Refund(r) \/ RegisterError(r)
  PROVE  TypeInv'
<1> USE DEF TypeInv, Go, worldVars, dbVars, diskVars, redisVars, walkVars, fileVars
<1>1. CASE Commit(r)
  <2>1. CASE Registered(ThisId(r))
    <3>1. TypeOK'
      BY <1>1, <2>1 DEF Commit, TypeOK, InSync, InSession, ErrorDetail
    <3>2. WalkAt(r)'
      BY <1>1, <2>1 DEF Commit, TypeOK, WalkOK, WalkAt, InSession, Processing
    <3> QED BY <1>1, <2>1, <3>1, <3>2, WalkFrame DEF Commit, TypeOK
  <2>2. CASE ~Registered(ThisId(r))
    <3>1. /\ pc[r] = "commit" /\ Insert(ThisId(r), ArchivedRow(r), Uid(r))
          /\ MessageDone(r)
          /\ UNCHANGED <<worldVars, syncLog, diskVars, redisVars, limit, snap, hi,
                         hadErrors, total, left>>
      BY <1>1, <2>2 DEF Commit
    <3>2. rows' \in [MessageId -> Row] /\ account' \in Account
      BY <3>1, ArchivedRowInsert
    <3>3. TypeOK'
      BY <3>1, <3>2, MessageDoneType DEF TypeOK
    <3> QED BY <3>1, <3>3, MessageDoneWalk DEF InSession
  <2> QED BY <2>1, <2>2
<1>2. CASE CommitFails(r)
  <2>1. left' \in [Event -> Nat]
    BY <1>2, SpendType DEF CommitFails, Event
  <2>2. TypeOK'
    BY <1>2, <2>1 DEF CommitFails, TypeOK, InSync, InSession, ErrorDetail
  <2>3. WalkAt(r)'
    BY <1>2 DEF CommitFails, TypeOK, WalkOK, WalkAt, InSession, Processing
  <2> QED BY <1>2, <2>2, <2>3, WalkFrame DEF CommitFails, TypeOK
<1>3. CASE Rollback(r)
  <2>1. left' \in [Event -> Nat]
    BY <1>3, SpendType DEF Rollback, TypeOK, Event
  <2>2. disk' \in [Path -> Body \cup {Absent}]
    BY <1>3 DEF Rollback, TypeOK
  <2>3. TypeOK'
    BY <1>3, <2>1, <2>2 DEF Rollback, TypeOK, InSync, InSession
  <2>4. WalkAt(r)'
    BY <1>3 DEF Rollback, TypeOK, WalkOK, WalkAt, InSession, Processing
  <2> QED BY <1>3, <2>3, <2>4, WalkFrame DEF Rollback, TypeOK
<1>4. CASE Refund(r)
  <2>1. usage' \in Int
    BY <1>4, FreshIndexesType DEF Refund, TypeOK
  <2>2. TypeOK'
    BY <1>4, <2>1 DEF Refund, TypeOK, InSync, InSession
  <2>3. WalkAt(r)'
    BY <1>4 DEF Refund, TypeOK, WalkOK, WalkAt, InSession, Processing
  <2> QED BY <1>4, <2>2, <2>3, WalkFrame DEF Refund, TypeOK
<1>5. CASE RegisterError(r)
  <2> DEFINE row == [status |-> "ERROR", detail |-> why[r], msg |-> MsgOf(r),
                     files |-> <<>>]
  <2>1. /\ Uid(r) \in Nat /\ MsgOf(r) \in Msg /\ ThisId(r) \in MessageId
    BY <1>5, MessageAtHand, ConstantsAssumption DEF RegisterError, Processing
  <2>2. row \in Row
    BY <2>1, EmptySeq DEF TypeOK, Row, RowStatus, ErrorDetail
  <2>3. UNCHANGED dbVars \/ Insert(ThisId(r), row, Uid(r))
    BY <1>5 DEF RegisterError
  <2> HIDE DEF row
  <2>4. rows' \in [MessageId -> Row] /\ account' \in Account
    BY <2>1, <2>2, <2>3, InsertType DEF TypeOK
  <2>5. left' \in [Event -> Nat]
    BY <1>5, SpendType DEF RegisterError, TypeOK, Event
  <2>6. /\ MessageDone(r) /\ pc[r] \in InSession
        /\ hadErrors' = [hadErrors EXCEPT ![r] = TRUE]
        /\ UNCHANGED <<worldVars, syncLog, diskVars, redisVars, limit, snap, hi,
                       total>>
    BY <1>5 DEF RegisterError, InSession
  <2>7. TypeOK'
    BY <2>4, <2>5, <2>6, MessageDoneType DEF TypeOK
  <2> QED BY <2>6, <2>7, MessageDoneWalk
<1>6. CASE CommitUnacknowledged(r)
  <2>1. rows' \in [MessageId -> Row] /\ account' \in Account
    BY <1>6, ArchivedRowInsert DEF CommitUnacknowledged
  <2>2. left' \in [Event -> Nat]
    BY <1>6, SpendType DEF CommitUnacknowledged, Event
  <2>3. TypeOK'
    BY <1>6, <2>1, <2>2 DEF CommitUnacknowledged, TypeOK, InSync, InSession, ErrorDetail
  <2>4. WalkAt(r)'
    BY <1>6 DEF CommitUnacknowledged, TypeOK, WalkOK, WalkAt, InSession, Processing
  <2> QED BY <1>6, <2>3, <2>4, WalkFrame DEF CommitUnacknowledged, TypeOK
<1> QED BY <1>1, <1>2, <1>3, <1>4, <1>5, <1>6

LEMMA ForgetTypes ==
  ASSUME TypeOK, NEW r \in Run, Forget(r)
  PROVE  /\ limit' \in [Run -> Nat]
         /\ snap' \in [Run -> Account]
         /\ cursor' \in [Run -> Nat]
         /\ hi' \in [Run -> Uids]
         /\ hadErrors' \in [Run -> BOOLEAN]
         /\ why' \in [Run -> ErrorDetail]
         /\ target' \in [Run -> Path \cup {Absent}]
         /\ saved' \in [Run -> Seq(SavedFile)]
         /\ total' \in [Run -> Nat]
         /\ pc' \in [Run -> InSync \cup {"idle"}]
<1>1. snap' \in [Run -> Account]
  BY DEF Forget, TypeOK, Account
<1>2. hi' \in [Run -> Uids]
  BY ConstantsAssumption DEF Forget, TypeOK, Uids
<1>3. saved' \in [Run -> Seq(SavedFile)]
  BY EmptySeq DEF Forget, TypeOK
<1> QED BY <1>1, <1>2, <1>3 DEF Forget, TypeOK, Go, ErrorDetail

LEMMA ForgetWalk ==
  ASSUME TypeInv, NEW r \in Run, Forget(r), mailbox' = mailbox
  PROVE  WalkOK'
<1>1. WalkAt(r)'
  BY DEF TypeInv, Forget, Go, TypeOK, WalkAt, InSession, Processing
<1> QED BY <1>1, WalkFrame DEF TypeInv, Forget, Go, TypeOK

LEMMA EndTypes ==
  ASSUME TypeInv, NEW r \in Run,
         \/ Finish(r) \/ FinalizeSyncLog(r) \/ SumUsage(r) \/ ReconcileUsage(r)
         \/ Release(r) \/ Unlock(r) \/ Abort(r) \/ Crash(r)
  PROVE  TypeInv'
<1> USE DEF TypeInv, Go, worldVars, dbVars, diskVars, redisVars, walkVars, fileVars
<1>1. CASE Finish(r)
  <2>1. TypeOK'
    BY <1>1 DEF Finish, TypeOK, Account, InSync, Around
  <2>2. WalkAt(r)'
    BY <1>1 DEF Finish, TypeOK, WalkAt, InSession, Processing
  <2> QED BY <1>1, <2>1, <2>2, WalkFrame DEF Finish, TypeOK
<1>2. CASE FinalizeSyncLog(r)
  <2>1. TypeOK'
    BY <1>2 DEF FinalizeSyncLog, TypeOK, LogStatus, InSync, Around
  <2>2. WalkAt(r)'
    BY <1>2 DEF FinalizeSyncLog, TypeOK, WalkAt, InSession, Processing
  <2> QED BY <1>2, <2>1, <2>2, WalkFrame DEF FinalizeSyncLog, TypeOK
<1>3. CASE SumUsage(r)
  <2>1. TypeOK'
    BY <1>3, DbUnitsType DEF SumUsage, TypeOK, InSync, Around
  <2>2. WalkAt(r)'
    BY <1>3 DEF SumUsage, TypeOK, WalkAt, InSession, Processing
  <2> QED BY <1>3, <2>1, <2>2, WalkFrame DEF SumUsage, TypeOK
<1>4. CASE ReconcileUsage(r)
  <2>1. TypeOK'
    BY <1>4 DEF ReconcileUsage, TypeOK, InSync, Around
  <2>2. WalkAt(r)'
    BY <1>4 DEF ReconcileUsage, TypeOK, WalkAt, InSession, Processing
  <2> QED BY <1>4, <2>1, <2>2, WalkFrame DEF ReconcileUsage, TypeOK
<1>5. CASE Release(r)
  <2>1. CASE lock = r
    <3>1. TypeOK'
      BY <1>5, <2>1 DEF Release, TypeOK, InSync, Around
    <3>2. WalkAt(r)'
      BY <1>5, <2>1 DEF Release, TypeOK, WalkAt, InSession, Processing
    <3> QED BY <1>5, <2>1, <3>1, <3>2, WalkFrame DEF Release, TypeOK
  <2>2. CASE lock # r
    <3>1. /\ Forget(r)
          /\ UNCHANGED <<worldVars, dbVars, syncLog, diskVars, redisVars, left>>
      BY <1>5, <2>2 DEF Release
    <3>2. TypeOK'
      BY <3>1, ForgetTypes DEF TypeOK
    <3> QED BY <3>1, <3>2, ForgetWalk
  <2> QED BY <2>1, <2>2
<1>6. CASE Unlock(r)
  <2>1. TypeOK'
    BY <1>6, ForgetTypes DEF Unlock, TypeOK
  <2> QED BY <1>6, <2>1, ForgetWalk DEF Unlock
<1>7. CASE Abort(r)
  <2>1. left' \in [Event -> Nat]
    BY <1>7, SpendType DEF Abort, Event
  <2>2. TypeOK'
    BY <1>7, <2>1 DEF Abort, TypeOK, InSync, Around
  <2>3. WalkAt(r)'
    BY <1>7 DEF Abort, TypeOK, WalkAt, InSession, Processing
  <2> QED BY <1>7, <2>2, <2>3, WalkFrame DEF Abort, TypeOK
<1>8. CASE Crash(r)
  <2>1. left' \in [Event -> Nat]
    BY <1>8, SpendType DEF Crash, Event
  <2>2. TypeOK'
    BY <1>8, <2>1, ForgetTypes DEF Crash, TypeOK
  <2> QED BY <1>8, <2>2, ForgetWalk DEF Crash
<1> QED BY <1>1, <1>2, <1>3, <1>4, <1>5, <1>6, <1>7, <1>8

LEMMA WorldTypes ==
  ASSUME TypeInv, World \/ ExpireLock \/ UNCHANGED vars
  PROVE  TypeInv'
<1> USE DEF TypeInv, worldVars, dbVars, diskVars, redisVars, walkVars, fileVars
<1>1. ASSUME UNCHANGED <<mailbox, pc, hi, cursor, saved, target>> PROVE WalkOK'
  BY <1>1 DEF WalkOK, WalkAt, MsgOf, Uid, Current
<1>2. ASSUME NEW m \in Msg, Deliver(m) PROVE TypeInv'
  <2>1. /\ mailbox' \in [epoch : Nat \ {0}, msgs : Seq(Msg)]
        /\ mailbox'.msgs = Append(mailbox.msgs, m)
        /\ Len(mailbox'.msgs) = Len(mailbox.msgs) + 1
        /\ Len(mailbox'.msgs) <= MaxUid
    <3>1. /\ mailbox \in [epoch : Nat \ {0}, msgs : Seq(Msg)] /\ MaxUid \in Nat
          /\ Len(mailbox.msgs) < MaxUid
          /\ mailbox' = [mailbox EXCEPT !.msgs = Append(mailbox.msgs, m)]
          /\ mailbox.msgs \in Seq(Msg)
      BY <1>2, ConstantsAssumption DEF Deliver, TypeOK
    <3>2. /\ Append(mailbox.msgs, m) \in Seq(Msg) /\ Len(mailbox.msgs) \in Nat
          /\ Len(Append(mailbox.msgs, m)) = Len(mailbox.msgs) + 1
      BY <3>1
    <3>3. /\ mailbox' \in [epoch : Nat \ {0}, msgs : Seq(Msg)]
          /\ mailbox'.msgs = Append(mailbox.msgs, m)
      BY <3>1, <3>2
    <3> QED BY <3>1, <3>2, <3>3
  <2>2. TypeOK'
    BY <1>2, <2>1 DEF Deliver, TypeOK
  <2>3. ASSUME NEW r \in Run PROVE WalkAt(r)'
    <3>1. pc[r] \in Processing => Uid(r) \in 1..Len(mailbox.msgs)
      BY MessageAtHand DEF TypeOK, Uid
    <3>2. pc[r] \in Processing => MsgOf(r)' = MsgOf(r) /\ Current(r)' = Current(r)
      BY <1>2, <2>1, <3>1 DEF Deliver, MsgOf, Uid, Current, TypeOK
    <3>3. hi[r] <= Len(mailbox.msgs) => hi[r] <= Len(mailbox'.msgs)
      BY <2>1 DEF TypeOK, Uids
    <3>4. WalkAt(r) /\ UNCHANGED <<pc, hi, cursor, saved, target>>
      BY <1>2 DEF WalkOK, Deliver
    <3> QED BY <3>2, <3>3, <3>4 DEF WalkAt, Processing
  <2> QED BY <2>2, <2>3 DEF WalkOK
<1>3. CASE NewUidValidity
  <2>1. PICK n \in 0..Len(mailbox.msgs) : \E pick \in [1..n -> DOMAIN mailbox.msgs] :
          mailbox' = [epoch |-> mailbox.epoch + 1,
                      msgs |-> [i \in 1..n |-> mailbox.msgs[pick[i]]]]
    BY <1>3 DEF NewUidValidity
  <2>8. PICK pick \in [1..n -> DOMAIN mailbox.msgs] :
          mailbox' = [epoch |-> mailbox.epoch + 1,
                      msgs |-> [i \in 1..n |-> mailbox.msgs[pick[i]]]]
    BY <2>1
  <2>2. /\ mailbox.msgs \in Seq(Msg) /\ Len(mailbox.msgs) <= MaxUid
        /\ n \in Nat /\ n <= Len(mailbox.msgs) /\ Len(mailbox.msgs) \in Nat
    BY DEF TypeOK
  <2>3. [i \in 1..n |-> mailbox.msgs[pick[i]]] \in [1..n -> Msg]
    BY <2>2
  <2>4. /\ mailbox' \in [epoch : Nat \ {0}, msgs : Seq(Msg)]
        /\ Len(mailbox'.msgs) <= MaxUid
    <3> DEFINE new == [i \in 1..n |-> mailbox.msgs[pick[i]]]
    <3>1. new \in Seq(Msg) /\ Len(new) = n
      BY <2>2, <2>3
    <3>2. mailbox.epoch + 1 \in Nat \ {0} /\ MaxUid \in Nat
      BY ConstantsAssumption DEF TypeOK
    <3>3. mailbox' = [epoch |-> mailbox.epoch + 1, msgs |-> new]
      BY <2>8
    <3> HIDE DEF new
    <3> QED BY <2>2, <3>1, <3>2, <3>3
  <2>5. left' \in [Event -> Nat]
    BY <1>3, SpendType DEF NewUidValidity, Event
  <2>6. TypeOK'
    BY <1>3, <2>4, <2>5 DEF NewUidValidity, TypeOK
  <2>7. WalkOK'
    BY <1>3 DEF NewUidValidity, WalkOK, WalkAt, InSession, Processing
  <2> QED BY <2>6, <2>7
<1>4. ASSUME NEW d \in SyncDates, ResyncFrom(d) \/ OperatorRewind(d) PROVE TypeInv'
  <2>1. left' \in [Event -> Nat]
    BY <1>4, SpendType DEF ResyncFrom, OperatorRewind, Event
  <2>2. account' \in Account
    <3>1. d \in Nat /\ account \in Account
      BY ConstantsAssumption DEF TypeOK
    <3>2. CASE ResyncFrom(d)
      BY <3>1, <3>2 DEF ResyncFrom, Account
    <3>3. CASE OperatorRewind(d)
      BY <3>1, <3>3 DEF OperatorRewind, Account
    <3> QED BY <1>4, <3>2, <3>3
  <2>3. TypeOK'
    BY <1>4, <2>1, <2>2 DEF ResyncFrom, OperatorRewind, TypeOK
  <2> QED BY <1>1, <1>4, <2>3 DEF ResyncFrom, OperatorRewind
<1>5. ASSUME NEW q \in Quotas, ChangePlan(q) PROVE TypeInv'
  <2>1. left' \in [Event -> Nat]
    BY <1>5, SpendType DEF ChangePlan, Event
  <2>2. TypeOK'
    BY <1>5, <2>1 DEF ChangePlan, TypeOK
  <2> QED BY <1>1, <1>5, <2>2 DEF ChangePlan
<1>6. CASE ExpireLock
  <2>1. left' \in [Event -> Nat]
    BY <1>6, SpendType DEF ExpireLock, TypeOK, Event
  <2>2. TypeOK'
    BY <1>6, <2>1 DEF ExpireLock, TypeOK
  <2> QED BY <1>1, <1>6, <2>2 DEF ExpireLock
<1>7. CASE UNCHANGED vars
  <2>1. TypeOK'
    BY <1>7 DEF vars, TypeOK
  <2> QED BY <1>1, <1>7, <2>1 DEF vars
<1> QED BY <1>2, <1>3, <1>4, <1>5, <1>6, <1>7 DEF World

-----------------------------------------------------------------------------

LEMMA TypeInvInit == Init => TypeInv
<1> SUFFICES ASSUME Init PROVE TypeInv
  OBVIOUS
<1>1. rows \in [MessageId -> Row]
  BY EmptySeq DEF Init, NoRow, Row, RowStatus, ErrorDetail
<1>2. mailbox \in [epoch : Nat \ {0}, msgs : Seq(Msg)] /\ Len(mailbox.msgs) = 0
  BY EmptySeq DEF Init
<1>3. account \in Account
  <2>1. SyncDates \subseteq Nat
    BY ConstantsAssumption
  <2> QED BY <2>1 DEF Init, Account
<1>4. snap \in [Run -> Account]
  BY DEF Init, Account
<1>5. saved \in [Run -> Seq(SavedFile)]
  BY EmptySeq DEF Init
<1>6. TypeOK
  BY <1>1, <1>2, <1>3, <1>4, <1>5, ConstantsAssumption DEF Init, TypeOK, LogStatus,
     Uids, ErrorDetail
<1>7. WalkOK
  BY DEF Init, WalkOK, WalkAt, InSession, Processing
<1> QED BY <1>6, <1>7 DEF TypeInv

LEMMA TypeInvStep ==
  ASSUME TypeInv, [Next]_vars
  PROVE  TypeInv'
<1>1. ASSUME NEW r \in Run, Acquire(r) \/ RunStep(r) \/ Fault(r) PROVE TypeInv'
  BY <1>1, SyncPartTypes, ChoiceTypes, SaveTypes, OutcomeTypes, EndTypes
     DEF RunStep, ProcessMessage, Fault
<1> QED BY <1>1, WorldTypes DEF Next

LEMMA TypeInvariant == Spec => []TypeInv
BY TypeInvInit, TypeInvStep, PTL DEF Spec

(* Every variable keeps its type, whatever the number of runs, messages,   *)
(* files and failures; with it, no run ever reads past the end of the      *)
(* mailbox or past the last attachment of its message.                     *)
THEOREM TypesAreCorrect == Spec => []TypeOK
<1>1. TypeInv => TypeOK
  BY DEF TypeInv
<1> QED BY <1>1, TypeInvariant, PTL

-----------------------------------------------------------------------------
(* What every step shares: the bound on events only shrinks, and few steps *)
(* write a row or touch the mailbox.                                       *)

Spent == \A e \in Event : left[e] <= Budget[e]

LEMMA SpendLess ==
  ASSUME TypeOK, NEW e \in Event, Spend(e)
  PROVE  left' \in [Event -> Nat] /\ left'[e] < left[e] /\ \A f \in Event : left'[f] <= left[f]
BY DEF Spend, TypeOK

(* The bound on events only ever shrinks.                                  *)
LEMMA LeftShrinks ==
  ASSUME TypeOK, [Next]_vars
  PROVE  \A e \in Event : left'[e] <= left[e]
<1>1. ASSUME left' = left PROVE \A e \in Event : left'[e] <= left[e]
  BY <1>1 DEF TypeOK
<1>2. ASSUME NEW e \in Event, Spend(e) PROVE \A f \in Event : left'[f] <= left[f]
  BY <1>2, SpendLess
<1>3. left' = left \/ \E e \in Event : Spend(e)
  <2>1. CASE World \/ ExpireLock \/ UNCHANGED vars
    BY <2>1 DEF World, Deliver, NewUidValidity, ResyncFrom, OperatorRewind, ChangePlan,
       ExpireLock, vars, Event
  <2>2. ASSUME NEW r \in Run, Acquire(r) \/ RunStep(r)
        PROVE  left' = left \/ \E e \in Event : Spend(e)
    <3>1. CASE Acquire(r) \/ ReadAccount(r) \/ CleanOrphanTmp(r) \/ OpenMailbox(r)
               \/ FirstSync(r) \/ Fetch(r) \/ NextMessage(r)
      BY <3>1 DEF Acquire, ReadAccount, CleanOrphanTmp, OpenMailbox, FirstSync, Fetch,
         NextMessage
    <3>2. CASE \/ Finish(r) \/ FinalizeSyncLog(r) \/ SumUsage(r) \/ ReconcileUsage(r)
               \/ Release(r) \/ Unlock(r)
      BY <3>2 DEF Finish, FinalizeSyncLog, SumUsage, ReconcileUsage, Release, Unlock
    <3>3. CASE Lookup(r) \/ Skip(r) \/ PersistPlain(r) \/ QuotaCheck(r) \/ Commit(r)
               \/ Refund(r)
      BY <3>3 DEF Lookup, Skip, PersistPlain, QuotaCheck, Commit, Refund
    <3>4. CASE SaveAttachment(r)
      BY <3>4 DEF SaveAttachment, WriteTmp, ReuseFile, ChoosePath, HashCollision,
         Rename, Charge
    <3>5. CASE Rollback(r) \/ RegisterError(r)
      BY <3>5 DEF Rollback, RegisterError, Event
    <3> QED BY <2>2, <3>1, <3>2, <3>3, <3>4, <3>5 DEF RunStep, ProcessMessage
  <2>3. ASSUME NEW r \in Run, Fault(r) PROVE \E e \in Event : Spend(e)
    BY <2>3 DEF Fault, EmptySource, CommitFails, CommitUnacknowledged, Abort, Crash, Event
  <2> QED BY <2>1, <2>2, <2>3 DEF Next
<1> QED BY <1>1, <1>2, <1>3

LEMMA SpentStep ==
  ASSUME TypeInv, Spent, [Next]_vars
  PROVE  /\ Spent'
         /\ \A e \in Event : left'[e] = Budget[e] => left[e] = Budget[e]
<1>1. \A e \in Event : /\ left'[e] <= left[e] /\ left[e] <= Budget[e]
                       /\ left[e] \in Nat /\ left'[e] \in Nat /\ Budget[e] \in Nat
  BY LeftShrinks, TypeInvStep, ConstantsAssumption DEF TypeInv, TypeOK, Spent
<1> QED BY <1>1 DEF Spent

LEMMA RunKeepsMailbox ==
  ASSUME NEW r \in Run, Acquire(r) \/ RunStep(r) \/ Fault(r)
  PROVE  mailbox' = mailbox
<1> USE DEF worldVars
<1>1. CASE \/ Acquire(r) \/ ReadAccount(r) \/ CleanOrphanTmp(r) \/ OpenMailbox(r)
           \/ FirstSync(r) \/ Fetch(r) \/ NextMessage(r)
  BY <1>1 DEF Acquire, ReadAccount, CleanOrphanTmp, OpenMailbox, FirstSync, Fetch,
     NextMessage
<1>2. CASE \/ Finish(r) \/ FinalizeSyncLog(r) \/ SumUsage(r) \/ ReconcileUsage(r)
           \/ Release(r) \/ Unlock(r)
  BY <1>2 DEF Finish, FinalizeSyncLog, SumUsage, ReconcileUsage, Release, Unlock
<1>3. CASE \/ Lookup(r) \/ Skip(r) \/ PersistPlain(r) \/ QuotaCheck(r) \/ Commit(r)
           \/ Refund(r) \/ Rollback(r) \/ RegisterError(r)
  BY <1>3 DEF Lookup, Skip, PersistPlain, QuotaCheck, Commit, Refund, Rollback,
     RegisterError
<1>4. CASE SaveAttachment(r)
  BY <1>4 DEF SaveAttachment, WriteTmp, ReuseFile, ChoosePath, HashCollision, Rename,
     Charge
<1>5. CASE Fault(r)
  BY <1>5 DEF Fault, EmptySource, CommitFails, CommitUnacknowledged, Abort, Crash
<1> QED BY <1>1, <1>2, <1>3, <1>4, <1>5 DEF RunStep, ProcessMessage

(* The steps that write a row.                                             *)
LEMMA RowWriter ==
  ASSUME TypeInv, [Next]_vars, rows' # rows
  PROVE  \E r \in Run :
           /\ pc[r] \in {"plain", "commit", "error"} /\ ~Registered(ThisId(r))
           /\ ThisId(r) \in MessageId /\ UNCHANGED mailbox
           /\ rows'[ThisId(r)].status # "NONE" /\ rows'[ThisId(r)].msg = MsgOf(r)
           /\ \A id \in MessageId : id # ThisId(r) => rows'[id] = rows[id]
<1> USE DEF dbVars
<1>1. ~World /\ ~ExpireLock /\ ~UNCHANGED vars
  BY DEF World, Deliver, NewUidValidity, ResyncFrom, OperatorRewind, ChangePlan,
     ExpireLock, vars
<1>2. PICK r \in Run : Acquire(r) \/ RunStep(r) \/ Fault(r)
  BY <1>1 DEF Next
<1>3. PersistPlain(r) \/ Commit(r) \/ CommitUnacknowledged(r) \/ RegisterError(r)
  <2>1. /\ ~Acquire(r) /\ ~ReadAccount(r) /\ ~CleanOrphanTmp(r) /\ ~OpenMailbox(r)
        /\ ~FirstSync(r) /\ ~Fetch(r) /\ ~NextMessage(r)
    BY DEF Acquire, ReadAccount, CleanOrphanTmp, OpenMailbox, FirstSync, Fetch,
       NextMessage
  <2>2. /\ ~Finish(r) /\ ~FinalizeSyncLog(r) /\ ~SumUsage(r) /\ ~ReconcileUsage(r)
        /\ ~Release(r) /\ ~Unlock(r)
    BY DEF Finish, FinalizeSyncLog, SumUsage, ReconcileUsage, Release, Unlock
  <2>3. /\ ~Lookup(r) /\ ~Skip(r) /\ ~QuotaCheck(r) /\ ~SaveAttachment(r)
        /\ ~Rollback(r) /\ ~Refund(r)
    BY DEF Lookup, Skip, QuotaCheck, SaveAttachment, WriteTmp, ReuseFile, ChoosePath,
       HashCollision, Rename, Charge, Rollback, Refund
  <2>4. ~EmptySource(r) /\ ~CommitFails(r) /\ ~Abort(r) /\ ~Crash(r)
    BY DEF EmptySource, CommitFails, Abort, Crash
  <2> QED BY <1>2, <2>1, <2>2, <2>3, <2>4 DEF RunStep, ProcessMessage, Fault
<1>4. pc[r] \in {"plain", "commit", "error"} /\ mailbox' = mailbox
  BY <1>3 DEF PersistPlain, Commit, CommitUnacknowledged, RegisterError, worldVars
<1>5. ThisId(r) \in MessageId /\ rows \in [MessageId -> Row]
  BY <1>4, MessageAtHand DEF Processing, TypeInv, TypeOK
<1>6. /\ ~Registered(ThisId(r))
      /\ \E row : /\ row.msg = MsgOf(r) /\ row.status # "NONE"
                  /\ rows' = [rows EXCEPT ![ThisId(r)] = row]
  BY <1>3 DEF PersistPlain, Commit, CommitUnacknowledged, RegisterError, Insert,
     ArchivedRow
<1>7. PICK row : /\ row.msg = MsgOf(r) /\ row.status # "NONE"
                 /\ rows' = [rows EXCEPT ![ThisId(r)] = row]
  BY <1>6
<1>8. /\ rows'[ThisId(r)] = row
      /\ \A id \in MessageId : id # ThisId(r) => rows'[id] = rows[id]
  BY <1>5, <1>7
<1>9. rows'[ThisId(r)].status # "NONE"
  BY <1>7, <1>8
<1> QED BY <1>4, <1>5, <1>6, <1>7, <1>8, <1>9

(* The message of a run that is in its session stays where it is.          *)
LEMMA SameAttachment ==
  ASSUME TypeInv, NEW r \in Run, pc[r] \in {"hash", "rename"},
         World \/ ExpireLock \/ UNCHANGED vars
  PROVE  Current(r)' = Current(r)
<1>1. /\ Uid(r) \in 1..Len(mailbox.msgs) /\ mailbox.msgs \in Seq(Msg)
      /\ mailbox \in [epoch : Nat \ {0}, msgs : Seq(Msg)]
  <2>1. Uid(r) \in 1..MaxUid /\ Uid(r) <= Len(mailbox.msgs)
    BY MessageAtHand DEF Processing
  <2>2. mailbox \in [epoch : Nat \ {0}, msgs : Seq(Msg)]
    BY DEF TypeInv, TypeOK
  <2> QED BY <2>1, <2>2, ConstantsAssumption
<1>2. mailbox'.msgs[Uid(r)] = mailbox.msgs[Uid(r)]
  <2>1. CASE \E m \in Msg : Deliver(m)
    BY <1>1, <2>1 DEF Deliver
  <2>2. ~NewUidValidity
    BY DEF NewUidValidity, InSession
  <2>3. CASE mailbox' = mailbox
    BY <2>3
  <2> QED BY <2>1, <2>2, <2>3 DEF World, ResyncFrom, OperatorRewind, ChangePlan,
                                 ExpireLock, vars, worldVars
<1>3. UNCHANGED <<cursor, saved>>
  BY DEF World, Deliver, NewUidValidity, ResyncFrom, OperatorRewind, ChangePlan,
     ExpireLock, vars, walkVars, fileVars
<1> QED BY <1>2, <1>3 DEF Current, MsgOf, Uid

-----------------------------------------------------------------------------
(***************************************************************************)
(* The lock. When no run outlives the lock's 600 seconds, a run that is    *)
(* between the lock and its release holds the lock.                        *)
(***************************************************************************)
LockInv ==
  /\ pc \in [Run -> InSync \cup {"idle"}]
  /\ \A r \in Run : pc[r] \in InSync => lock = r

LEMMA LockInvInit == Init => LockInv
BY DEF Init, LockInv, InSync, InSession, Around

LEMMA LockInvStep ==
  ASSUME Slow = {}, LockInv, [Next]_vars
  PROVE  LockInv'
<1> USE ConstantsAssumption DEF LockInv, Go, InSync, InSession, Around
<1>1. CASE World
  BY <1>1 DEF World, Deliver, NewUidValidity, ResyncFrom, OperatorRewind,
     ChangePlan, redisVars
<1>2. CASE ExpireLock
  BY <1>2 DEF ExpireLock
<1>3. ASSUME NEW r \in Run, Acquire(r) PROVE LockInv'
  BY <1>3 DEF Acquire, LockFree
<1>4. ASSUME NEW r \in Run, RunStep(r) PROVE LockInv'
  <2>1. CASE ReadAccount(r) \/ CleanOrphanTmp(r) \/ OpenMailbox(r)
    BY <2>1 DEF ReadAccount, CleanOrphanTmp, OpenMailbox, redisVars
  <2>2. CASE FirstSync(r) \/ Fetch(r) \/ NextMessage(r)
    BY <2>2 DEF FirstSync, Fetch, NextMessage, redisVars
  <2>3. CASE ProcessMessage(r)
    <3>1. CASE Lookup(r) \/ Skip(r)
      BY <3>1 DEF Lookup, Skip, MessageDone, redisVars
    <3>2. CASE PersistPlain(r)
      BY <3>2, ZenonT(60) DEF PersistPlain, MessageDone, redisVars
    <3>3. CASE QuotaCheck(r)
      BY <3>3, ZenonT(60) DEF QuotaCheck, redisVars
    <3>4. CASE SaveAttachment(r)
      BY <3>4 DEF SaveAttachment, WriteTmp, ReuseFile, ChoosePath,
         HashCollision, Rename, Charge, Keep, redisVars
    <3>5. CASE Commit(r)
      BY <3>5, ZenonT(60) DEF Commit, MessageDone, redisVars
    <3>6. CASE Rollback(r) \/ Refund(r)
      BY <3>6 DEF Rollback, Refund, redisVars
    <3>7. CASE RegisterError(r)
      BY <3>7 DEF RegisterError, MessageDone, redisVars
    <3> QED BY <2>3, <3>1, <3>2, <3>3, <3>4, <3>5, <3>6, <3>7 DEF ProcessMessage
  <2>4. CASE Finish(r) \/ FinalizeSyncLog(r)
    BY <2>4 DEF Finish, FinalizeSyncLog, redisVars
  <2>5. CASE SumUsage(r) \/ ReconcileUsage(r)
    BY <2>5, ZenonT(60) DEF SumUsage, ReconcileUsage, redisVars
  <2>6. CASE Release(r)
    BY <2>6 DEF Release, Forget, redisVars
  <2>7. CASE Unlock(r)
    BY <2>7 DEF Unlock, Forget
  <2> QED BY <1>4, <2>1, <2>2, <2>3, <2>4, <2>5, <2>6, <2>7 DEF RunStep
<1>5. ASSUME NEW r \in Run, Fault(r) PROVE LockInv'
  <2>1. CASE EmptySource(r) \/ CommitFails(r) \/ CommitUnacknowledged(r)
    BY <2>1, ZenonT(60)
       DEF EmptySource, CommitFails, CommitUnacknowledged, redisVars
  <2>2. CASE Abort(r)
    <3>1. pc[r] \in InSync
      BY <2>2 DEF Abort, ThrowsAt
    <3> QED BY <2>2, <3>1 DEF Abort, redisVars
  <2>3. CASE Crash(r)
    BY <2>3 DEF Crash, Forget, redisVars
  <2> QED BY <1>5, <2>1, <2>2, <2>3 DEF Fault
<1>6. CASE UNCHANGED vars
  BY <1>6 DEF vars, redisVars
<1> QED BY <1>1, <1>2, <1>3, <1>4, <1>5, <1>6 DEF Next

(* RF-02.4 for every instance: two runs of one account never overlap, as   *)
(* long as no run lasts longer than the lock.                              *)
THEOREM RunsAreExclusive ==
  ASSUME Slow = {}
  PROVE  Spec => []MutualExclusion
<1>1. LockInv => MutualExclusion
  BY DEF LockInv, MutualExclusion
<1> QED BY <1>1, LockInvInit, LockInvStep, PTL DEF Spec

(* The other runs are outside the lock whatever this one does.             *)
LEMMA OthersAtRest ==
  ASSUME LockInv, NEW r \in Run, pc[r] \in InSync \/ lock = NoRun,
         \A s \in Run \ {r} : pc'[s] = pc[s]
  PROVE  \A s \in Run \ {r} : pc'[s] = "idle"
BY ConstantsAssumption DEF LockInv

-----------------------------------------------------------------------------
(* The files. A run writes over no path that holds something, and rolls    *)
(* back no path that a row points to.                                      *)

Storing == {"write", "hash", "rename", "charge", "commit"}

Unreferenced(p) == \A id \in MessageId : \A f \in FilesOf(id) : f.path # p

FilesAt(r) ==
  /\ pc[r] \in Storing => \A i \in DOMAIN saved[r] : Intact(saved[r][i])
  /\ pc[r] \in Storing \cup {"rollback"} =>
       \A p \in FreshPaths(r) : Unreferenced(p)
  /\ pc[r] \in {"hash", "rename"} => tmp[Current(r).name] = Current(r).body
  /\ pc[r] = "rename" => disk[target[r]] = Absent

Acknowledged == left["ack"] = 0

FilesInv ==
  /\ TypeInv
  /\ LockInv
  /\ Acknowledged
  /\ RowsHaveFiles
  /\ \A r \in Run : FilesAt(r)

LEMMA AcknowledgedStep ==
  ASSUME TypeInv, Acknowledged, [Next]_vars
  PROVE  Acknowledged' /\ \A r \in Run : ~CommitUnacknowledged(r)
<1>1. "ack" \in Event /\ left'["ack"] <= left["ack"]
  BY LeftShrinks DEF TypeInv, Event
<1>2. left' \in [Event -> Nat]
  BY TypeInvStep DEF TypeInv, TypeOK
<1>3. left'["ack"] = 0
  BY <1>1, <1>2 DEF Acknowledged
<1> QED BY <1>3 DEF Acknowledged, CommitUnacknowledged, Spend

LEMMA FileStates == Storing \cup {"rollback"} \subseteq InSync
BY DEF Storing, InSync, InSession

(* Nobody else is at work while a run holds the lock, or while it is free. *)
LEMMA OthersIdle ==
  ASSUME FilesInv, NEW r \in Run, pc[r] \in InSync \/ lock = NoRun,
         \A s \in Run \ {r} : pc'[s] = pc[s],
         FilesAt(r)'
  PROVE  \A s \in Run : FilesAt(s)'
<1> SUFFICES ASSUME NEW s \in Run, s # r PROVE FilesAt(s)'
  OBVIOUS
<1>1. pc[s] \notin InSync
  BY ConstantsAssumption DEF FilesInv, LockInv
<1>2. pc'[s] \notin Storing \cup {"rollback"}
  BY <1>1, FileStates
<1> QED BY <1>2 DEF FilesAt, Storing

(* A step that keeps the files of the rows and the disk, and leaves its    *)
(* run outside the states that store files, disturbs nothing.              *)
LEMMA QuietStep ==
  ASSUME FilesInv, TypeInv', LockInv', Acknowledged', NEW r \in Run,
         pc[r] \in InSync \/ lock = NoRun,
         \A s \in Run \ {r} : pc'[s] = pc[s],
         pc'[r] \notin Storing \cup {"rollback"},
         disk' = disk, \A id \in MessageId : FilesOf(id)' \subseteq FilesOf(id)
  PROVE  FilesInv'
<1>1. RowsHaveFiles'
  BY DEF FilesInv, RowsHaveFiles, Intact
<1>2. FilesAt(r)'
  BY DEF FilesAt, Storing
<1> QED BY <1>1, <1>2, OthersIdle DEF FilesInv

(* A row without files adds no reference.                                  *)
LEMMA BareRow ==
  ASSUME TypeOK, NEW id \in MessageId, NEW row, NEW u, row.files = <<>>,
         Insert(id, row, u)
  PROVE  \A other \in MessageId : FilesOf(other)' \subseteq FilesOf(other)
BY DEF TypeOK, Insert, FilesOf

LEMMA SameRows ==
  ASSUME rows' = rows
  PROVE  \A id \in MessageId : FilesOf(id)' = FilesOf(id)
BY DEF FilesOf

LEMMA SavedFileType ==
  ASSUME TypeOK, NEW r \in Run, NEW i \in DOMAIN saved[r]
  PROVE  saved[r][i].path \in Path /\ saved[r][i].body \in Body
<1>1. saved[r] \in Seq(SavedFile)
  BY DEF TypeOK
<1>2. saved[r][i] \in SavedFile
  BY <1>1, LenProperties, ElementOfSeq
<1> QED BY <1>2 DEF SavedFile

LEMMA RowFileType ==
  ASSUME TypeOK, NEW id \in MessageId, NEW f \in FilesOf(id)
  PROVE  f.path \in Path /\ f.body \in Body
<1>1. rows[id].files \in Seq(FileRef)
  BY DEF TypeOK, Row
<1>2. f \in FileRef
  BY <1>1, LenProperties, ElementOfSeq DEF FilesOf
<1> QED BY <1>2 DEF FileRef

LEMMA QuietSteps ==
  ASSUME FilesInv, TypeInv', LockInv', Acknowledged', NEW r \in Run,
         \/ Acquire(r) \/ ReadAccount(r) \/ CleanOrphanTmp(r) \/ OpenMailbox(r)
         \/ FirstSync(r) \/ Fetch(r) \/ NextMessage(r) \/ EmptySource(r)
         \/ Lookup(r) \/ Skip(r) \/ PersistPlain(r) \/ HashCollision(r)
         \/ Refund(r) \/ RegisterError(r) \/ Finish(r) \/ FinalizeSyncLog(r)
         \/ SumUsage(r) \/ ReconcileUsage(r) \/ Release(r) \/ Unlock(r)
         \/ Abort(r) \/ Crash(r)
  PROVE  FilesInv'
<1> USE DEF Go, dbVars, diskVars
<1>1. pc \in [Run -> InSync \cup {"idle"}]
  BY DEF FilesInv, LockInv
<1>2. CASE \/ Acquire(r) \/ ReadAccount(r) \/ CleanOrphanTmp(r) \/ OpenMailbox(r)
           \/ FirstSync(r) \/ Fetch(r) \/ NextMessage(r)
  <2>1. /\ pc[r] \in InSync \/ lock = NoRun
        /\ \A s \in Run \ {r} : pc'[s] = pc[s]
        /\ pc'[r] \notin Storing \cup {"rollback"}
        /\ disk' = disk /\ rows' = rows
    BY <1>1, <1>2 DEF Acquire, ReadAccount, CleanOrphanTmp, OpenMailbox, FirstSync,
       Fetch, NextMessage, LockFree, Storing, InSync, InSession, Around
  <2> QED BY <2>1, SameRows, QuietStep
<1>3. CASE \/ EmptySource(r) \/ Lookup(r) \/ Skip(r) \/ HashCollision(r) \/ Refund(r)
  <2>1. /\ pc[r] \in InSync
        /\ \A s \in Run \ {r} : pc'[s] = pc[s]
        /\ pc'[r] \notin Storing \cup {"rollback"}
        /\ disk' = disk /\ rows' = rows
    BY <1>1, <1>3 DEF EmptySource, Lookup, Skip, HashCollision, Refund, MessageDone,
       Storing, InSync, InSession
  <2> QED BY <2>1, SameRows, QuietStep
<1>4. CASE PersistPlain(r) \/ RegisterError(r)
  <2>1. /\ pc[r] \in InSync
        /\ \A s \in Run \ {r} : pc'[s] = pc[s]
        /\ pc'[r] \notin Storing \cup {"rollback"}
        /\ disk' = disk
    BY <1>1, <1>4 DEF PersistPlain, RegisterError, MessageDone, Storing, InSync,
       InSession
  <2>2. \/ rows' = rows
        \/ \E row : row.files = <<>> /\ Insert(ThisId(r), row, Uid(r))
    BY <1>4 DEF PersistPlain, RegisterError
  <2>3. ThisId(r) \in MessageId
    BY <1>4, MessageAtHand DEF PersistPlain, RegisterError, Processing, FilesInv
  <2>4. \A id \in MessageId : FilesOf(id)' \subseteq FilesOf(id)
    BY <2>2, <2>3, SameRows, BareRow DEF FilesInv, TypeInv
  <2> QED BY <2>1, <2>4, QuietStep
<1>5. CASE \/ Finish(r) \/ FinalizeSyncLog(r) \/ SumUsage(r) \/ ReconcileUsage(r)
           \/ Release(r) \/ Unlock(r) \/ Crash(r)
  <2>1. /\ pc[r] \in InSync
        /\ \A s \in Run \ {r} : pc'[s] = pc[s]
        /\ pc'[r] \notin Storing \cup {"rollback"}
        /\ disk' = disk /\ rows' = rows
    BY <1>1, <1>5 DEF Finish, FinalizeSyncLog, SumUsage, ReconcileUsage, Release,
       Unlock, Crash, Forget, Storing, InSync, Around
  <2> QED BY <2>1, SameRows, QuietStep
<1>6. CASE Abort(r)
  <2>1. pc[r] \in InSync
    BY <1>6 DEF Abort, ThrowsAt, InSync, InSession, Around
  <2>2. /\ \A s \in Run \ {r} : pc'[s] = pc[s]
        /\ pc'[r] \notin Storing \cup {"rollback"}
        /\ disk' = disk /\ rows' = rows
    BY <1>1, <1>6 DEF Abort, Storing
  <2> QED BY <2>1, <2>2, SameRows, QuietStep
<1> QED BY <1>2, <1>3, <1>4, <1>5, <1>6

(* The steps that store a message's files and its row.                     *)
LEMMA StoringSteps ==
  ASSUME FilesInv, TypeInv', LockInv', Acknowledged', NEW r \in Run,
         \/ QuotaCheck(r) \/ WriteTmp(r) \/ ReuseFile(r) \/ ChoosePath(r)
         \/ Rename(r) \/ Charge(r)
         \/ Commit(r) \/ CommitFails(r) \/ Rollback(r)
  PROVE  FilesInv'
<1> USE DEF Go, dbVars, diskVars, walkVars, fileVars, worldVars
<1>1. /\ pc \in [Run -> InSync \cup {"idle"}]
      /\ saved \in [Run -> Seq(SavedFile)]
      /\ disk \in [Path -> Body \cup {Absent}]
      /\ tmp \in [Name -> Body \cup {Absent}]
      /\ target \in [Run -> Path \cup {Absent}]
  BY DEF FilesInv, TypeInv, TypeOK
<1>2. FilesAt(r) /\ RowsHaveFiles
  BY DEF FilesInv
<1>3. ASSUME pc[r] \in InSync, \A s \in Run \ {r} : pc'[s] = pc[s],
             RowsHaveFiles', FilesAt(r)'
      PROVE  FilesInv'
  BY <1>3, OthersIdle DEF FilesInv
<1>4. ASSUME UNCHANGED <<disk, rows>> PROVE RowsHaveFiles' /\ \A p : Unreferenced(p)' <=> Unreferenced(p)
  BY <1>2, <1>4 DEF RowsHaveFiles, FilesOf, Intact, Unreferenced
<1>5. ASSUME UNCHANGED <<mailbox, cursor, saved>> PROVE Current(r)' = Current(r) /\ FreshPaths(r)' = FreshPaths(r)
  BY <1>5 DEF Current, MsgOf, Uid, FreshPaths, FreshIndexes
<1>6. CASE QuotaCheck(r)
  <2>1. saved'[r] = <<>>
    BY <1>6 DEF QuotaCheck, FilesInv, TypeInv, WalkOK, WalkAt
  <2>2. FreshPaths(r)' = {}
    BY <2>1 DEF FreshPaths, FreshIndexes
  <2>3. FilesAt(r)'
    BY <1>1, <1>6, <2>1, <2>2 DEF QuotaCheck, FilesAt, Storing
  <2> QED BY <1>1, <1>3, <1>4, <1>6, <2>3 DEF QuotaCheck, InSync, InSession
<1>7. CASE WriteTmp(r)
  <2>1. Current(r) \in Attachment
    BY <1>7, AttachmentAtHand DEF WriteTmp, FilesInv
  <2>2. /\ Current(r)' = Current(r) /\ FreshPaths(r)' = FreshPaths(r)
        /\ RowsHaveFiles' /\ \A p : Unreferenced(p)' <=> Unreferenced(p)
    BY <1>4, <1>5, <1>7 DEF WriteTmp
  <2>3. pc[r] = "write" /\ pc' = [pc EXCEPT ![r] = "hash"] /\ UNCHANGED <<disk, saved>>
        /\ tmp' = [tmp EXCEPT ![Current(r).name] = Current(r).body]
    BY <1>7 DEF WriteTmp
  <2>4. tmp'[Current(r).name] = Current(r).body
    BY <1>1, <2>1, <2>3 DEF Attachment
  <2>5. FilesAt(r)'
    BY <1>1, <1>2, <2>2, <2>3, <2>4 DEF FilesAt, Storing, Intact
  <2> QED BY <1>1, <1>3, <2>2, <2>3, <2>5 DEF InSync, InSession
<1>8. CASE ChoosePath(r)
  <2>1. /\ Current(r)' = Current(r) /\ FreshPaths(r)' = FreshPaths(r)
        /\ RowsHaveFiles' /\ \A p : Unreferenced(p)' <=> Unreferenced(p)
    BY <1>4, <1>5, <1>8 DEF ChoosePath
  <2>2. /\ pc[r] = "hash" /\ UNCHANGED <<disk, saved, tmp>>
        /\ \/ /\ pc' = [pc EXCEPT ![r] = "rename"]
              /\ disk[target[r]] = Absent /\ target' = target
           \/ pc' = pc
    BY <1>8 DEF ChoosePath, PathFree
  <2>3. FilesAt(r)'
    BY <1>1, <1>2, <2>1, <2>2 DEF FilesAt, Storing, Intact
  <2> QED BY <1>1, <1>3, <2>1, <2>2, <2>3 DEF InSync, InSession
<1>9. CASE Charge(r) \/ CommitFails(r)
  <2>1. /\ FreshPaths(r)' = FreshPaths(r)
        /\ RowsHaveFiles' /\ \A p : Unreferenced(p)' <=> Unreferenced(p)
    BY <1>4, <1>5, <1>9 DEF Charge, CommitFails
  <2>2. /\ pc[r] \in {"charge", "commit"} /\ UNCHANGED <<disk, saved>>
        /\ \/ /\ pc[r] = "charge"
              /\ pc' \in {[pc EXCEPT ![r] = "commit"], [pc EXCEPT ![r] = "write"]}
           \/ pc' = [pc EXCEPT ![r] = "rollback"]
    BY <1>9 DEF Charge, CommitFails
  <2>3. FilesAt(r)'
    BY <1>1, <1>2, <2>1, <2>2 DEF FilesAt, Storing, Intact
  <2> QED BY <1>1, <1>3, <2>1, <2>2, <2>3 DEF InSync, InSession
<1>10. ASSUME NEW reused \in BOOLEAN, NEW next \in {"save", "charge"},
              pc[r] \in {"hash", "rename"}, Keep(r, reused, next),
              RowsHaveFiles', disk'[target[r]] = Current(r).body,
              \A i \in DOMAIN saved[r] : disk'[saved[r][i].path] = saved[r][i].body,
              reused \/ Unreferenced(target[r]), rows' = rows
       PROVE  FilesInv'
  <2> DEFINE file == [path |-> target[r], body |-> Current(r).body,
                      reused |-> reused]
  <2>1. Current(r) \in Attachment /\ target[r] \in Path
    BY <1>10, AttachmentAtHand, TargetIsPath DEF FilesInv
  <2>2. file \in SavedFile
    BY <2>1 DEF SavedFile, Attachment
  <2>3. /\ saved' = [saved EXCEPT ![r] = Append(saved[r], file)]
        /\ pc' = [pc EXCEPT ![r] = pc'[r]] /\ pc'[r] \in {"charge", "commit", "write"}
    BY <1>1, <1>10 DEF Keep
  <2>4. /\ saved[r] \in Seq(SavedFile) /\ saved'[r] = Append(saved[r], file)
        /\ Len(saved[r]) \in Nat
    BY <1>1, <2>3
  <2>5. \A i \in DOMAIN saved'[r] :
           \/ i \in DOMAIN saved[r] /\ saved'[r][i] = saved[r][i]
           \/ saved'[r][i] = file
    <3> HIDE DEF file
    <3> QED BY <2>2, <2>4
  <2>6. \A i \in DOMAIN saved'[r] : disk'[saved'[r][i].path] = saved'[r][i].body
    BY <1>10, <2>5
  <2>7. \A p \in FreshPaths(r)' : p \in FreshPaths(r) \/ (~reused /\ p = target[r])
    BY <2>5 DEF FreshPaths, FreshIndexes
  <2>8. \A p \in FreshPaths(r)' : Unreferenced(p)'
    BY <1>2, <1>10, <2>7 DEF FilesAt, Storing, Unreferenced, FilesOf
  <2>9. FilesAt(r)'
    BY <2>3, <2>6, <2>8 DEF FilesAt, Intact
  <2> QED BY <1>1, <1>3, <1>10, <2>3, <2>9 DEF InSync, InSession
<1>11. CASE ReuseFile(r)
  <2>1. /\ pc[r] = "hash" /\ UNCHANGED <<disk, rows>>
        /\ disk[target[r]] = Current(r).body /\ Keep(r, TRUE, "save")
    BY <1>11 DEF ReuseFile
  <2>2. \A i \in DOMAIN saved[r] : disk'[saved[r][i].path] = saved[r][i].body
    BY <1>2, <2>1 DEF FilesAt, Storing, Intact
  <2> QED BY <1>4, <1>10, <2>1, <2>2
<1>12. CASE Rename(r)
  <2>1. Current(r) \in Attachment /\ target[r] \in Path
    BY <1>12, AttachmentAtHand, TargetIsPath DEF Rename, FilesInv
  <2>2. /\ tmp[Current(r).name] = Current(r).body /\ Current(r).body # Absent
        /\ disk[target[r]] = Absent /\ pc[r] = "rename"
    BY <1>2, <1>12, <2>1, ConstantsAssumption DEF Rename, FilesAt, Attachment
  <2>3. /\ disk' = [disk EXCEPT ![target[r]] = Current(r).body]
        /\ Keep(r, FALSE, "charge") /\ rows' = rows
    BY <1>12, <2>2 DEF Rename
  <2>4. ASSUME NEW f, f.body \in Body, Intact(f) PROVE Intact(f)' /\ f.path # target[r]
    BY <1>1, <2>1, <2>2, <2>3, <2>4, ConstantsAssumption DEF Intact
  <2>5. ASSUME NEW i \in DOMAIN saved[r]
        PROVE  disk'[saved[r][i].path] = saved[r][i].body
    <3>1. saved[r][i].body \in Body
      BY SavedFileType DEF FilesInv, TypeInv
    <3>2. Intact(saved[r][i])
      BY <1>2, <2>2 DEF FilesAt, Storing
    <3> QED BY <2>4, <3>1, <3>2 DEF Intact
  <2>6. \A id \in MessageId : \A f \in FilesOf(id) : f.body \in Body
    BY RowFileType DEF FilesInv, TypeInv
  <2>7. RowsHaveFiles' /\ Unreferenced(target[r])
    BY <1>2, <2>3, <2>4, <2>6 DEF RowsHaveFiles, Unreferenced, FilesOf
  <2>8. disk'[target[r]] = Current(r).body
    BY <1>1, <2>1, <2>3
  <2> QED BY <1>10, <2>2, <2>3, <2>5, <2>7, <2>8
<1>13. CASE Commit(r)
  <2>1. CASE Registered(ThisId(r))
    <3>1. /\ pc[r] = "commit" /\ pc' = [pc EXCEPT ![r] = "rollback"]
          /\ UNCHANGED <<mailbox, cursor, saved, disk, rows>>
      BY <1>13, <2>1 DEF Commit
    <3>2. FilesAt(r)'
      BY <1>1, <1>2, <1>4, <1>5, <3>1 DEF FilesAt, Storing
    <3> QED BY <1>1, <1>3, <1>4, <3>1, <3>2 DEF InSync, InSession
  <2>2. CASE ~Registered(ThisId(r))
    <3> DEFINE files == ArchivedRow(r).files
    <3>1. /\ pc[r] = "commit" /\ pc' = [pc EXCEPT ![r] = "next"] /\ disk' = disk
          /\ rows' = [rows EXCEPT ![ThisId(r)] = ArchivedRow(r)]
      BY <1>13, <2>2 DEF Commit, Insert, MessageDone
    <3>2. rows \in [MessageId -> Row]
      BY DEF FilesInv, TypeInv, TypeOK
    <3>3. \A i \in DOMAIN files : Intact(files[i])
      BY <1>2, <3>1 DEF FilesAt, Storing, Intact, ArchivedRow
    <3>4. ASSUME NEW id \in MessageId, NEW f \in FilesOf(id)' PROVE Intact(f)'
      <4>1. CASE id = ThisId(r)
        <5>1. rows'[id].files = files
          BY <3>1, <3>2, <4>1
        <5> QED BY <3>1, <3>3, <5>1 DEF FilesOf, Intact
      <4>2. CASE id # ThisId(r)
        <5>1. FilesOf(id)' = FilesOf(id)
          BY <3>1, <3>2, <4>2 DEF FilesOf
        <5> QED BY <1>2, <3>1, <5>1 DEF RowsHaveFiles, Intact
      <4> QED BY <4>1, <4>2
    <3>5. RowsHaveFiles'
      BY <3>4 DEF RowsHaveFiles
    <3>6. FilesAt(r)'
      BY <1>1, <3>1 DEF FilesAt, Storing
    <3> QED BY <1>1, <1>3, <3>1, <3>5, <3>6 DEF InSync, InSession
  <2> QED BY <2>1, <2>2
<1>14. CASE Rollback(r)
  <2>1. /\ pc[r] = "rollback" /\ pc' = [pc EXCEPT ![r] = "refund"] /\ rows' = rows
        /\ \E stuck \in SUBSET FreshPaths(r) :
             disk' = [p \in Path |-> IF p \in FreshPaths(r) \ stuck THEN Absent
                                    ELSE disk[p]]
    BY <1>14 DEF Rollback
  <2>2. \A id \in MessageId : \A f \in FilesOf(id) :
           f.path \in Path /\ f.path \notin FreshPaths(r)
    <3>1. \A id \in MessageId : \A f \in FilesOf(id) : f.path \in Path
      BY RowFileType DEF FilesInv, TypeInv
    <3> QED BY <1>2, <2>1, <3>1 DEF FilesAt, Unreferenced
  <2>3. RowsHaveFiles'
    BY <1>2, <2>1, <2>2 DEF RowsHaveFiles, Intact, FilesOf
  <2>4. FilesAt(r)'
    BY <1>1, <2>1 DEF FilesAt, Storing
  <2> QED BY <1>1, <1>3, <2>1, <2>3, <2>4 DEF InSync, InSession
<1> QED BY <1>6, <1>7, <1>8, <1>9, <1>11, <1>12, <1>13, <1>14

LEMMA OutsideSteps ==
  ASSUME FilesInv, TypeInv', LockInv', Acknowledged', World \/ ExpireLock \/ UNCHANGED vars
  PROVE  FilesInv'
<1>1. UNCHANGED <<rows, disk, tmp, pc, cursor, target, saved>>
  BY DEF World, Deliver, NewUidValidity, ResyncFrom, OperatorRewind, ChangePlan,
     ExpireLock, vars, dbVars, diskVars, walkVars, fileVars
<1>2. RowsHaveFiles'
  BY <1>1 DEF FilesInv, RowsHaveFiles, FilesOf, Intact
<1>3. ASSUME NEW r \in Run PROVE FilesAt(r)'
  <2>1. pc[r] \in {"hash", "rename"} => Current(r)' = Current(r)
    BY SameAttachment DEF FilesInv
  <2>2. FilesAt(r)
    BY DEF FilesInv
  <2> QED BY <1>1, <2>1, <2>2 DEF FilesAt, FreshPaths, FreshIndexes, Unreferenced,
             FilesOf, Intact
<1> QED BY <1>2, <1>3 DEF FilesInv

LEMMA FilesInvInit ==
  ASSUME Budget["ack"] = 0, Init
  PROVE  FilesInv
<1>1. RowsHaveFiles
  BY DEF Init, RowsHaveFiles, FilesOf, NoRow
<1>2. \A r \in Run : FilesAt(r)
  BY DEF Init, FilesAt, Storing
<1>3. Acknowledged
  BY DEF Init, Acknowledged
<1> QED BY <1>1, <1>2, <1>3, TypeInvInit, LockInvInit DEF FilesInv

LEMMA FilesInvStep ==
  ASSUME Slow = {}, FilesInv, [Next]_vars
  PROVE  FilesInv'
<1>1. /\ TypeInv' /\ LockInv' /\ Acknowledged'
      /\ \A r \in Run : ~CommitUnacknowledged(r)
  BY TypeInvStep, LockInvStep, AcknowledgedStep DEF FilesInv, TypeInv
<1>2. ASSUME NEW r \in Run, Acquire(r) \/ RunStep(r) \/ Fault(r) PROVE FilesInv'
  BY <1>1, <1>2, QuietSteps, StoringSteps
     DEF RunStep, ProcessMessage, SaveAttachment, Fault
<1> QED BY <1>1, <1>2, OutsideSteps DEF Next

(* Every attachment a row of the database points to stays on disk with the *)
(* content the row describes, for any mailbox and any sequence of crashes, *)
(* collisions, reuses and rollbacks, as long as no run lasts longer than   *)
(* the lock and PostgreSQL acknowledges what it commits.                   *)
THEOREM ArchivedFilesAreKept ==
  ASSUME Slow = {}, Budget["ack"] = 0
  PROVE  Spec => []RowsHaveFiles
<1>1. FilesInv => RowsHaveFiles
  BY DEF FilesInv
<1> QED BY <1>1, FilesInvInit, FilesInvStep, PTL DEF Spec

-----------------------------------------------------------------------------
(* The archive. The rows that can be read are the ones that are PROCESADO, *)
(* and a step either keeps every row or fills a vacant one.                *)

LEMMA ReadableRows ==
  ASSUME RowsHaveFiles
  PROVE  Readable = {id \in MessageId : Outcome[id] = "PROCESADO"}
BY DEF RowsHaveFiles, Readable, Outcome

LEMMA RowStep ==
  ASSUME TypeInv, [Next]_vars, rows' # rows
  PROVE  \E id \in MessageId, row \in [status : Archive!Final, detail : ErrorDetail,
                                     msg : Msg, files : Seq(FileRef)] :
            ~Registered(id) /\ rows' = [rows EXCEPT ![id] = row]
<1>1. PICK r \in Run :
        /\ pc[r] \in {"plain", "commit", "error"} /\ ~Registered(ThisId(r))
        /\ ThisId(r) \in MessageId
        /\ rows'[ThisId(r)].status # "NONE" /\ rows'[ThisId(r)].msg = MsgOf(r)
        /\ \A id \in MessageId : id # ThisId(r) => rows'[id] = rows[id]
  BY RowWriter
<1>2. rows \in [MessageId -> Row] /\ rows' \in [MessageId -> Row] /\ MsgOf(r) \in Msg
  BY <1>1, TypeInvStep, MessageAtHand DEF TypeInv, TypeOK, Processing
<1>3. PICK row : row = rows'[ThisId(r)]
  OBVIOUS
<1>4. row \in [status : Archive!Final, detail : ErrorDetail, msg : Msg,
               files : Seq(FileRef)]
  <2>1. row \in Row /\ row.status # "NONE" /\ row.msg \in Msg
    BY <1>1, <1>2, <1>3
  <2>2. row.status \in Archive!Final
    BY <2>1 DEF Row, RowStatus, Archive!Final
  <2> QED BY <2>1, <2>2 DEF Row
<1>5. rows' = [rows EXCEPT ![ThisId(r)] = row]
  BY <1>1, <1>2, <1>3
<1> QED BY <1>1, <1>4, <1>5

LEMMA ArchiveInit == Init => Archive!Init
BY DEF Init, NoRow, Archive!Init, Outcome, Readable

LEMMA ArchiveStep ==
  ASSUME FilesInv, FilesInv', [Next]_vars
  PROVE  [Archive!Next]_<<Outcome, Readable>>
<1>1. /\ Readable = {id \in MessageId : Outcome[id] = "PROCESADO"}
      /\ Readable' = {id \in MessageId : Outcome'[id] = "PROCESADO"}
  BY ReadableRows DEF FilesInv, RowsHaveFiles, Readable, Outcome
<1>2. CASE rows' = rows
  <2>1. Outcome' = Outcome
    BY <1>2 DEF Outcome
  <2> QED BY <1>1, <2>1
<1>3. CASE rows' # rows
  <2>1. PICK id \in MessageId, row \in [status : Archive!Final, detail : ErrorDetail,
                                      msg : Msg, files : Seq(FileRef)] :
          ~Registered(id) /\ rows' = [rows EXCEPT ![id] = row]
    BY <1>3, RowStep DEF FilesInv
  <2>2. rows \in [MessageId -> Row] /\ row.status \in Archive!Final
    BY <2>1 DEF FilesInv, TypeInv, TypeOK
  <2>3. Outcome[id] = "NONE" /\ Outcome' = [Outcome EXCEPT ![id] = row.status]
    BY <2>1, <2>2 DEF Outcome, Registered
  <2>4. Readable' = IF row.status = "PROCESADO" THEN Readable \cup {id} ELSE Readable
    BY <1>1, <2>2, <2>3 DEF Outcome, Archive!Final
  <2> QED BY <2>2, <2>3, <2>4 DEF Archive!Next, Archive!Record
<1> QED BY <1>2, <1>3

(* The synchronisation implements the archive: each message is recorded    *)
(* once, its outcome never changes, and it can be read from the moment it  *)
(* is recorded, as long as no run lasts longer than the lock and           *)
(* PostgreSQL acknowledges what it commits.                                *)
THEOREM SyncImplementsArchive ==
  ASSUME Slow = {}, Budget["ack"] = 0
  PROVE  Spec => ImplementsArchive
<1>1. Spec => []FilesInv
  BY FilesInvInit, FilesInvStep, PTL DEF Spec
<1> QED BY <1>1, ArchiveInit, ArchiveStep, PTL DEF Spec, ImplementsArchive, Archive!Spec

-----------------------------------------------------------------------------
(***************************************************************************)
(* The counter. Nobody but the run that holds the lock writes rows or the  *)
(* counter, so what it read is still true when it writes it and when it    *)
(* gives the lock back. It gets there without the sum only when PostgreSQL *)
(* or Redis fails: its SyncLog is not ERROR before onConnectionFailure.    *)
(***************************************************************************)
NothingFailed == left["store"] = Budget["store"]

CountAt(r) ==
  /\ pc[r] \in InSession \cup {"cleaning", "opening", "finish", "finalize"} =>
       syncLog[r] # "ERROR"
  /\ NothingFailed /\ pc[r] = "reconcile" => total[r] = DbUnits
  /\ NothingFailed /\ pc[r] \in {"release", "unlock"} => usage = DbUnits

CountInv ==
  /\ TypeInv
  /\ LockInv
  /\ Spent
  /\ \A r \in Run : CountAt(r)

LEMMA SameCount ==
  ASSUME rows' = rows
  PROVE  DbUnits' = DbUnits
BY DEF DbUnits

(* The steps of a run that has not finished its walk.                      *)
LEMMA WalkCount ==
  ASSUME CountInv, NothingFailed' => NothingFailed, NEW r \in Run,
         \/ Acquire(r) \/ ReadAccount(r) \/ CleanOrphanTmp(r) \/ OpenMailbox(r)
         \/ FirstSync(r) \/ Fetch(r) \/ NextMessage(r) \/ ProcessMessage(r)
         \/ Finish(r) \/ EmptySource(r) \/ CommitFails(r) \/ CommitUnacknowledged(r)
  PROVE  \A s \in Run : CountAt(s)'
<1> USE DEF Go, LockInv
<1>1. pc \in [Run -> InSync \cup {"idle"}] /\ syncLog \in [Run -> LogStatus]
      /\ LockInv /\ CountAt(r)
  BY DEF CountInv, TypeInv, TypeOK
<1> DEFINE Walks == /\ pc[r] \in InSync \/ lock = NoRun
                    /\ \A s \in Run \ {r} : pc'[s] = pc[s]
                    /\ pc'[r] \notin {"reconcile", "release", "unlock"}
                    /\ \/ pc'[r] \in {"reading", "failing"}
                       \/ /\ pc[r] \in InSession \cup {"cleaning", "opening", "finish"}
                          /\ syncLog' = syncLog
                       \/ pc[r] = "reading" /\ syncLog'[r] = "EJECUTANDO"
<1>2. CASE \/ Acquire(r) \/ ReadAccount(r) \/ CleanOrphanTmp(r) \/ OpenMailbox(r)
           \/ FirstSync(r) \/ Fetch(r) \/ NextMessage(r) \/ Finish(r)
  <2>1. Walks
    BY <1>1, <1>2 DEF Acquire, ReadAccount, CleanOrphanTmp, OpenMailbox, FirstSync,
       Fetch, NextMessage, Finish, LockFree, InSync, InSession, Around
  <2> QED BY <1>1, <2>1, OthersAtRest DEF CountAt, InSession
<1>3. CASE ProcessMessage(r)
  <2>1. ASSUME Lookup(r) \/ Skip(r) \/ Refund(r) \/ Rollback(r) PROVE Walks
    BY <1>1, <2>1 DEF Lookup, Skip, Refund, Rollback, MessageDone, InSync, InSession
  <2>2. ASSUME PersistPlain(r) PROVE Walks
    <3>1. /\ pc[r] = "plain" /\ syncLog' = syncLog
          /\ pc' \in {[pc EXCEPT ![r] = "skip"], [pc EXCEPT ![r] = "failing"],
                     [pc EXCEPT ![r] = "next"]}
      BY <2>2, ZenonT(60) DEF PersistPlain, MessageDone
    <3> QED BY <1>1, <3>1 DEF InSync, InSession
  <2>3. ASSUME Commit(r) PROVE Walks
    <3>1. /\ pc[r] = "commit" /\ syncLog' = syncLog
          /\ pc' \in {[pc EXCEPT ![r] = "rollback"], [pc EXCEPT ![r] = "next"]}
      BY <2>3, ZenonT(60) DEF Commit, MessageDone
    <3> QED BY <1>1, <3>1 DEF InSync, InSession
  <2>4. ASSUME QuotaCheck(r) PROVE Walks
    <3>1. /\ pc[r] = "quota" /\ syncLog' = syncLog
          /\ pc' \in {[pc EXCEPT ![r] = "error"], [pc EXCEPT ![r] = "write"]}
      BY <2>4, ZenonT(60) DEF QuotaCheck
    <3> QED BY <1>1, <3>1 DEF InSync, InSession
  <2>5. ASSUME SaveAttachment(r) PROVE Walks
    BY <1>1, <2>5 DEF SaveAttachment, WriteTmp, ReuseFile, ChoosePath, HashCollision,
       Rename, Charge, Keep, InSync, InSession
  <2>6. ASSUME RegisterError(r) PROVE Walks
    BY <1>1, <2>6 DEF RegisterError, MessageDone, InSync, InSession
  <2>7. Walks
    BY <1>3, <2>1, <2>2, <2>3, <2>4, <2>5, <2>6 DEF ProcessMessage
  <2> QED BY <1>1, <2>7, OthersAtRest DEF CountAt, InSession
<1>4. CASE EmptySource(r) \/ CommitFails(r) \/ CommitUnacknowledged(r)
  <2>1. Walks
    BY <1>1, <1>4 DEF EmptySource, CommitFails, CommitUnacknowledged, InSync, InSession
  <2> QED BY <1>1, <2>1, OthersAtRest DEF CountAt, InSession
<1> QED BY <1>2, <1>3, <1>4

(* The end of a run, the steps that cut it short and those around it.      *)
LEMMA EndCount ==
  ASSUME CountInv, NothingFailed' => NothingFailed, TypeInv',
         \/ World \/ ExpireLock \/ UNCHANGED vars
         \/ \E r \in Run : FinalizeSyncLog(r) \/ SumUsage(r) \/ ReconcileUsage(r)
                           \/ Release(r) \/ Unlock(r) \/ Abort(r) \/ Crash(r)
  PROVE  \A s \in Run : CountAt(s)'
<1> USE DEF Go, LockInv, dbVars, redisVars
<1>1. /\ pc \in [Run -> InSync \cup {"idle"}] /\ syncLog \in [Run -> LogStatus]
      /\ LockInv /\ \A s \in Run : CountAt(s)
      /\ total \in [Run -> Nat]
  BY DEF CountInv, TypeInv, TypeOK
<1>2. CASE World \/ ExpireLock \/ UNCHANGED vars
  <2>1. UNCHANGED <<pc, rows, usage, total, syncLog>>
    BY <1>2 DEF World, Deliver, NewUidValidity, ResyncFrom, OperatorRewind, ChangePlan,
       ExpireLock, vars
  <2> QED BY <1>1, <2>1, SameCount DEF CountAt
<1>3. ASSUME NEW r \in Run, \A s \in Run \ {r} : pc'[s] = pc[s], pc[r] \in InSync,
             CountAt(r)'
      PROVE  \A s \in Run : CountAt(s)'
  <2>1. \A s \in Run \ {r} : pc'[s] = "idle"
    BY <1>1, <1>3, OthersAtRest
  <2> QED BY <1>3, <2>1 DEF CountAt, InSession
<1>4. ASSUME NEW r \in Run, FinalizeSyncLog(r) PROVE \A s \in Run : CountAt(s)'
  <2>1. pc[r] \in InSync /\ pc' = [pc EXCEPT ![r] = "sum"]
    BY <1>4 DEF FinalizeSyncLog, InSync, Around
  <2> QED BY <1>1, <1>3, <2>1 DEF CountAt, InSession
<1>5. ASSUME NEW r \in Run, SumUsage(r) PROVE \A s \in Run : CountAt(s)'
  <2>1. /\ pc[r] \in InSync /\ pc' = [pc EXCEPT ![r] = "reconcile"]
        /\ total' = [total EXCEPT ![r] = DbUnits] /\ DbUnits' = DbUnits
    BY <1>5, SameCount DEF SumUsage, InSync, Around
  <2> QED BY <1>1, <1>3, <2>1 DEF CountAt, InSession
<1>6. ASSUME NEW r \in Run, ReconcileUsage(r) PROVE \A s \in Run : CountAt(s)'
  <2>1. /\ pc[r] = "reconcile" /\ pc' = [pc EXCEPT ![r] = "release"]
        /\ usage' = total[r] /\ DbUnits' = DbUnits
    BY <1>6, SameCount DEF ReconcileUsage
  <2> QED BY <1>1, <1>3, <2>1 DEF CountAt, InSession, InSync, Around
<1>7. ASSUME NEW r \in Run, Release(r) PROVE \A s \in Run : CountAt(s)'
  <2>1. /\ pc[r] = "release" /\ UNCHANGED <<usage, rows>> /\ DbUnits' = DbUnits
        /\ pc' \in {[pc EXCEPT ![r] = "unlock"], [pc EXCEPT ![r] = "idle"]}
    BY <1>7, SameCount DEF Release, Forget
  <2> QED BY <1>1, <1>3, <2>1 DEF CountAt, InSession, InSync, Around
<1>8. ASSUME NEW r \in Run, Unlock(r) \/ Crash(r) PROVE \A s \in Run : CountAt(s)'
  <2>1. /\ pc[r] \in InSync /\ pc' = [pc EXCEPT ![r] = "idle"]
    BY <1>1, <1>8 DEF Unlock, Crash, Forget, InSync, Around
  <2> QED BY <1>1, <1>3, <2>1 DEF CountAt, InSession
<1>9. ASSUME NEW r \in Run, Abort(r) PROVE \A s \in Run : CountAt(s)'
  <2>1. /\ pc[r] \in InSync /\ \A s \in Run \ {r} : pc'[s] = pc[s]
        /\ pc'[r] \in {"release", "failing"} /\ syncLog' = syncLog
    BY <1>1, <1>9 DEF Abort, ThrowsAt, InSync, InSession, Around
  <2>2. CASE pc'[r] = "failing"
    BY <1>3, <2>1, <2>2 DEF CountAt, InSession
  <2>3. CASE pc'[r] = "release"
    <3>1. pc[r] \in {"reading", "failing"} \/ syncLog[r] = "ERROR"
      BY <1>1, <1>9, <2>3 DEF Abort
    <3>2. pc[r] \notin {"opening", "first", "fetch", "next", "cleaning", "write", "hash",
                        "rename"}
      BY <1>1, <3>1 DEF CountAt, InSession
    <3>3. Spend("store")
      BY <1>9, <3>2 DEF Abort, ThrowsAt
    <3>4. TypeOK /\ "store" \in Event
      BY DEF CountInv, TypeInv, Event
    <3>5. left'["store"] < left["store"] /\ left'["store"] \in Nat
      BY <3>3, <3>4, SpendLess
    <3>6. /\ left["store"] \in Nat /\ Budget["store"] \in Nat
          /\ left["store"] <= Budget["store"]
      BY <3>4, ConstantsAssumption DEF CountInv, TypeOK, Spent
    <3>7. ~NothingFailed'
      BY <3>5, <3>6 DEF NothingFailed
    <3> QED BY <1>3, <2>1, <2>3, <3>7 DEF CountAt, InSession
  <2> QED BY <2>1, <2>2, <2>3
<1> QED BY <1>2, <1>4, <1>5, <1>6, <1>7, <1>8, <1>9

LEMMA CountInvInit == Init => CountInv
<1> SUFFICES ASSUME Init PROVE CountInv
  OBVIOUS
<1>1. Spent
  BY ConstantsAssumption DEF Init, Spent
<1>2. \A r \in Run : CountAt(r)
  BY DEF Init, CountAt, InSession
<1> QED BY <1>1, <1>2, TypeInvInit, LockInvInit DEF CountInv

LEMMA CountInvStep ==
  ASSUME Slow = {}, CountInv, [Next]_vars
  PROVE  CountInv'
<1>1. TypeInv' /\ LockInv' /\ Spent' /\ (NothingFailed' => NothingFailed)
  BY TypeInvStep, LockInvStep, SpentStep DEF CountInv, NothingFailed, Event
<1>2. \A r \in Run : CountAt(r)'
  BY <1>1, WalkCount, EndCount DEF Next, RunStep, Fault
<1> QED BY <1>1, <1>2 DEF CountInv

(* For an account that is its tenant's only one, a run that reaches its    *)
(* end leaves the counter equal to what the database holds, after any      *)
(* number of crashes, duplicates and rollbacks of this run or of earlier   *)
(* ones, as long as no run lasts longer than the lock.                     *)
THEOREM CounterIsReconciled ==
  ASSUME Slow = {}
  PROVE  Spec => []UsageReconciled
<1>1. CountInv => UsageReconciled
  BY DEF CountInv, CountAt, NothingFailed, UsageReconciled
<1> QED BY <1>1, CountInvInit, CountInvStep, PTL DEF Spec

-----------------------------------------------------------------------------
(***************************************************************************)
(* The files nobody refers to. While no step is cut short, a file belongs  *)
(* to a row, or the run that wrote it still has it in hand and will either *)
(* register it or roll it back. No .tmp changes between its writing and    *)
(* its rename, and no suffixed name holds another content, so that         *)
(* saveAttachment never throws on the way.                                 *)
(***************************************************************************)
NothingCutShort == \A e \in {"crash", "disk", "store"} : left[e] = Budget[e]

Owned(p) == \E id \in MessageId : \E f \in FilesOf(id) : f.path = p

InHand(r, p) == pc[r] \in Storing \cup {"rollback"} /\ p \in FreshPaths(r)

TmpAt(r) ==
  pc[r] \in {"hash", "rename"} => tmp[Current(r).name] = Current(r).body

SuffixedFiles == \A n \in Name, b \in Body : disk[Suffixed(n, b)] \in {Absent, b}

EveryFileHasOwner ==
  \A p \in Path : disk[p] # Absent => Owned(p) \/ \E r \in Run : InHand(r, p)

VacantRows == \A id \in MessageId : ~Registered(id) => rows[id].files = <<>>

TidyInv ==
  /\ TypeInv
  /\ LockInv
  /\ Spent
  /\ VacantRows
  /\ SuffixedFiles
  /\ \A r \in Run : TmpAt(r)
  /\ NothingCutShort => EveryFileHasOwner

(* A file that belongs to a row keeps its row.                             *)
LEMMA OwnedStays ==
  ASSUME TypeInv, VacantRows, [Next]_vars
  PROVE  VacantRows' /\ \A p : Owned(p) => Owned(p)'
<1>1. CASE rows' = rows
  BY <1>1 DEF VacantRows, Registered, Owned, FilesOf
<1>2. CASE rows' # rows
  <2>1. PICK id \in MessageId, row \in [status : Archive!Final, detail : ErrorDetail,
                                      msg : Msg, files : Seq(FileRef)] :
          ~Registered(id) /\ rows' = [rows EXCEPT ![id] = row]
    BY <1>2, RowStep
  <2>2. row.status # "NONE"
    BY <2>1 DEF Archive!Final
  <2>3. \A other \in MessageId : other # id => rows'[other] = rows[other]
    BY <2>1
  <2>4. Registered(id)'
    BY <2>1, <2>2 DEF Registered, TypeInv, TypeOK
  <2>5. FilesOf(id) = {}
    BY <2>1 DEF VacantRows, FilesOf
  <2>6. ASSUME NEW p, Owned(p) PROVE Owned(p)'
    <3>1. PICK other \in MessageId : \E f \in FilesOf(other) : f.path = p
      BY <2>6 DEF Owned
    <3>2. rows'[other] = rows[other]
      BY <2>3, <2>5, <3>1
    <3> QED BY <3>1, <3>2 DEF Owned, FilesOf
  <2> QED BY <2>3, <2>4, <2>6 DEF VacantRows, Registered
<1> QED BY <1>1, <1>2

(* What the step of one run has to show: the other runs hold nothing.      *)
LEMMA TidyFrame ==
  ASSUME TidyInv, TypeInv', LockInv', Spent', VacantRows', NEW r \in Run,
         pc[r] \in InSync \/ lock = NoRun,
         \A s \in Run \ {r} : pc'[s] = pc[s],
         TmpAt(r)', SuffixedFiles', NothingCutShort' => EveryFileHasOwner'
  PROVE  TidyInv'
<1>1. \A s \in Run \ {r} : pc'[s] = "idle"
  BY OthersAtRest DEF TidyInv
<1>2. \A s \in Run : TmpAt(s)'
  BY <1>1 DEF TmpAt
<1> QED BY <1>2 DEF TidyInv

LEMMA OnlyMine ==
  ASSUME TidyInv, NEW r \in Run, pc[r] \in InSync \/ lock = NoRun, NEW s \in Run,
         NEW p, InHand(s, p)
  PROVE  s = r
BY FileStates, ConstantsAssumption DEF TidyInv, LockInv, InHand

(* Steps that keep the disk and begin and end with no file in hand.        *)
LEMMA TidyQuiet ==
  ASSUME TidyInv, TypeInv', LockInv', Spent', VacantRows', \A p : Owned(p) => Owned(p)',
         NothingCutShort' => NothingCutShort, NEW r \in Run,
         pc[r] \in InSync \/ lock = NoRun,
         \A s \in Run \ {r} : pc'[s] = pc[s],
         pc[r] \notin Storing \cup {"rollback"} \/ ~NothingCutShort',
         pc'[r] \notin {"hash", "rename"},
         disk' = disk
  PROVE  TidyInv'
<1>1. TmpAt(r)' /\ SuffixedFiles'
  BY DEF TidyInv, TmpAt, SuffixedFiles
<1>2. ASSUME NothingCutShort' PROVE EveryFileHasOwner'
  <2>1. EveryFileHasOwner
    BY <1>2 DEF TidyInv
  <2>2. \A s \in Run : \A p : ~InHand(s, p)
    BY <1>2, OnlyMine DEF InHand
  <2> QED BY <2>1, <2>2 DEF EveryFileHasOwner
<1> QED BY <1>1, <1>2, TidyFrame

LEMMA TidyQuietSteps ==
  ASSUME TidyInv, TypeInv', LockInv', Spent', VacantRows', \A p : Owned(p) => Owned(p)',
         NothingCutShort' => NothingCutShort, NEW r \in Run,
         \/ Acquire(r) \/ ReadAccount(r) \/ CleanOrphanTmp(r) \/ OpenMailbox(r)
         \/ FirstSync(r) \/ Fetch(r) \/ NextMessage(r) \/ EmptySource(r)
         \/ Lookup(r) \/ Skip(r) \/ PersistPlain(r) \/ QuotaCheck(r)
         \/ Refund(r) \/ RegisterError(r) \/ Finish(r) \/ FinalizeSyncLog(r)
         \/ SumUsage(r) \/ ReconcileUsage(r) \/ Release(r) \/ Unlock(r)
         \/ Abort(r) \/ Crash(r)
  PROVE  TidyInv'
<1> USE DEF Go, diskVars
<1>1. pc \in [Run -> InSync \cup {"idle"}]
  BY DEF TidyInv, LockInv
<1> DEFINE Quiet == /\ pc[r] \in InSync \/ lock = NoRun
                    /\ \A s \in Run \ {r} : pc'[s] = pc[s]
                    /\ pc[r] \notin Storing \cup {"rollback"} \/ ~NothingCutShort'
                    /\ pc'[r] \notin {"hash", "rename"}
                    /\ disk' = disk
<1>2. ASSUME \/ Acquire(r) \/ ReadAccount(r) \/ CleanOrphanTmp(r) \/ OpenMailbox(r)
             \/ FirstSync(r) \/ Fetch(r) \/ NextMessage(r)
      PROVE  Quiet
  BY <1>1, <1>2 DEF Acquire, ReadAccount, CleanOrphanTmp, OpenMailbox, FirstSync,
     Fetch, NextMessage, LockFree, Storing, InSync, InSession, Around
<1>3. ASSUME EmptySource(r) \/ Lookup(r) \/ Skip(r) \/ Refund(r) PROVE Quiet
  BY <1>1, <1>3 DEF EmptySource, Lookup, Skip, Refund, MessageDone, Storing, InSync,
     InSession
<1>4. ASSUME PersistPlain(r) PROVE Quiet
  <2>1. /\ pc[r] = "plain" /\ disk' = disk
        /\ pc' \in {[pc EXCEPT ![r] = "skip"], [pc EXCEPT ![r] = "failing"],
                     [pc EXCEPT ![r] = "next"]}
    BY <1>4, ZenonT(60) DEF PersistPlain, MessageDone
  <2> QED BY <1>1, <2>1 DEF Storing, InSync, InSession
<1>5. ASSUME QuotaCheck(r) PROVE Quiet
  <2>1. /\ pc[r] = "quota" /\ disk' = disk
        /\ pc' \in {[pc EXCEPT ![r] = "error"], [pc EXCEPT ![r] = "write"]}
    BY <1>5, ZenonT(60) DEF QuotaCheck
  <2> QED BY <1>1, <2>1 DEF Storing, InSync, InSession
<1>6. ASSUME RegisterError(r) PROVE Quiet
  BY <1>1, <1>6 DEF RegisterError, MessageDone, Storing, InSync, InSession
<1>7. ASSUME \/ Finish(r) \/ FinalizeSyncLog(r) \/ SumUsage(r) \/ ReconcileUsage(r)
             \/ Release(r) \/ Unlock(r)
      PROVE  Quiet
  BY <1>1, <1>7 DEF Finish, FinalizeSyncLog, SumUsage, ReconcileUsage, Release,
     Unlock, Forget, Storing, InSync, Around
<1>8. ASSUME NEW e \in {"crash", "disk", "store"}, Spend(e) PROVE ~NothingCutShort'
  <2>1. TypeOK /\ e \in Event
    BY DEF TidyInv, TypeInv, Event
  <2>2. left'[e] < left[e] /\ left'[e] \in Nat /\ left[e] \in Nat
        /\ Budget[e] \in Nat /\ left[e] <= Budget[e]
    BY <1>8, <2>1, SpendLess, ConstantsAssumption DEF TidyInv, Spent, TypeOK
  <2> QED BY <2>2 DEF NothingCutShort
<1>9. ASSUME Crash(r) PROVE Quiet
  <2>1. /\ pc[r] \in InSync /\ pc' = [pc EXCEPT ![r] = "idle"] /\ disk' = disk
    BY <1>1, <1>9 DEF Crash, Forget
  <2>2. ~NothingCutShort'
    BY <1>8, <1>9 DEF Crash
  <2> QED BY <1>1, <2>1, <2>2
<1>10. ASSUME Abort(r) PROVE Quiet
  <2>1. /\ pc[r] \in InSync /\ disk' = disk /\ \A s \in Run \ {r} : pc'[s] = pc[s]
        /\ pc'[r] \in {"release", "failing"}
    BY <1>1, <1>10 DEF Abort, ThrowsAt, InSync, InSession, Around
  <2>2. pc[r] \in Storing \cup {"rollback"} => Spend("disk") \/ Spend("store")
    BY <1>10 DEF Abort, ThrowsAt, Storing
  <2>3. pc[r] \in Storing \cup {"rollback"} => ~NothingCutShort'
    BY <1>8, <2>2
  <2> QED BY <2>1, <2>3
<1>11. Quiet
  BY <1>2, <1>3, <1>4, <1>5, <1>6, <1>7, <1>9, <1>10
<1> HIDE DEF Go
<1> QED BY <1>11, TidyQuiet

(* Steps between two states in which the run has its files in hand.        *)
LEMMA TidyHolding ==
  ASSUME TidyInv, TypeInv', LockInv', Spent', VacantRows', \A p : Owned(p) => Owned(p)',
         NothingCutShort' => NothingCutShort, NEW r \in Run,
         pc[r] \in Storing, pc'[r] \in Storing \cup {"rollback"},
         \A s \in Run \ {r} : pc'[s] = pc[s],
         FreshPaths(r) \subseteq FreshPaths(r)', TmpAt(r)', disk' = disk
  PROVE  TidyInv'
<1>1. pc[r] \in InSync /\ SuffixedFiles'
  BY FileStates DEF TidyInv, SuffixedFiles
<1>2. ASSUME NothingCutShort' PROVE EveryFileHasOwner'
  <2>1. EveryFileHasOwner
    BY <1>2 DEF TidyInv
  <2>2. ASSUME NEW s \in Run, NEW p, InHand(s, p) PROVE InHand(r, p)'
    <3>1. s = r
      BY <1>1, <2>2, OnlyMine
    <3> QED BY <2>2, <3>1 DEF InHand
  <2> QED BY <2>1, <2>2 DEF EveryFileHasOwner
<1> QED BY <1>1, <1>2, TidyFrame

(* saveAttachment returned the file at the path it was looking at.         *)
LEMMA KeepFresh ==
  ASSUME TypeInv, NEW r \in Run, pc[r] \in {"hash", "rename"}, NEW reused \in BOOLEAN,
         NEW next \in {"save", "charge"}, Keep(r, reused, next)
  PROVE  /\ \A s \in Run \ {r} : pc'[s] = pc[s]
         /\ pc'[r] \in {"charge", "commit", "write"}
         /\ FreshPaths(r)' = FreshPaths(r) \cup (IF reused THEN {} ELSE {target[r]})
<1> DEFINE file == [path |-> target[r], body |-> Current(r).body, reused |-> reused]
<1>1. pc \in [Run -> InSync \cup {"idle"}] /\ saved \in [Run -> Seq(SavedFile)]
  BY DEF TypeInv, TypeOK
<1>2. Current(r) \in Attachment /\ target[r] \in Path
  BY AttachmentAtHand, TargetIsPath
<1>3. file \in SavedFile /\ file.path = target[r] /\ file.reused = reused
  BY <1>2 DEF SavedFile, Attachment
<1>4. /\ saved' = [saved EXCEPT ![r] = Append(saved[r], file)]
      /\ pc' = [pc EXCEPT ![r] = pc'[r]] /\ pc'[r] \in {"charge", "commit", "write"}
  BY <1>1 DEF Keep, Go
<1> HIDE DEF file
<1>5. saved'[r] = Append(saved[r], file) /\ saved[r] \in Seq(SavedFile)
  BY <1>1, <1>4
<1>6. /\ DOMAIN saved'[r] = DOMAIN saved[r] \cup {Len(saved[r]) + 1}
      /\ \A i \in DOMAIN saved[r] : saved'[r][i] = saved[r][i]
      /\ saved'[r][Len(saved[r]) + 1] = file
  BY <1>3, <1>5, AppendProperties
<1>7. FreshPaths(r)' = FreshPaths(r) \cup (IF reused THEN {} ELSE {target[r]})
  <2>1. FreshIndexes(r)' = FreshIndexes(r) \cup
                             (IF reused THEN {} ELSE {Len(saved[r]) + 1})
    BY <1>3, <1>5, <1>6 DEF FreshIndexes
  <2> QED BY <1>3, <1>6, <2>1 DEF FreshPaths, FreshIndexes
<1> QED BY <1>1, <1>4, <1>7

(* The steps that store a message's files and its row.                     *)
LEMMA TidyStoringSteps ==
  ASSUME TidyInv, TypeInv', LockInv', Spent', VacantRows', \A p : Owned(p) => Owned(p)',
         NothingCutShort' => NothingCutShort, NEW r \in Run,
         \/ WriteTmp(r) \/ ReuseFile(r) \/ ChoosePath(r) \/ HashCollision(r)
         \/ Rename(r) \/ Charge(r) \/ Commit(r) \/ CommitFails(r)
         \/ CommitUnacknowledged(r) \/ Rollback(r)
  PROVE  TidyInv'
<1> USE DEF Go, dbVars, diskVars, walkVars, fileVars, worldVars
<1>1. /\ pc \in [Run -> InSync \cup {"idle"}]
      /\ disk \in [Path -> Body \cup {Absent}]
      /\ tmp \in [Name -> Body \cup {Absent}]
      /\ TypeInv /\ TmpAt(r) /\ SuffixedFiles
  BY DEF TidyInv, TypeInv, TypeOK
<1>2. ASSUME UNCHANGED <<mailbox, cursor, saved>>
      PROVE  Current(r)' = Current(r) /\ FreshPaths(r)' = FreshPaths(r)
  BY <1>2 DEF Current, MsgOf, Uid, FreshPaths, FreshIndexes
<1>3. CASE WriteTmp(r)
  <2>1. /\ pc[r] = "write" /\ pc' = [pc EXCEPT ![r] = "hash"]
        /\ UNCHANGED <<mailbox, cursor, saved, disk>>
        /\ tmp' = [tmp EXCEPT ![Current(r).name] = Current(r).body]
    BY <1>3 DEF WriteTmp
  <2>2. Current(r) \in Attachment
    BY <1>1, <2>1, AttachmentAtHand
  <2>3. TmpAt(r)'
    BY <1>1, <1>2, <2>1, <2>2 DEF TmpAt, Attachment
  <2> QED BY <1>1, <1>2, <2>1, <2>3, TidyHolding DEF Storing
<1>4. CASE ChoosePath(r)
  <2>1. /\ pc[r] = "hash" /\ pc' \in {[pc EXCEPT ![r] = "rename"], pc}
        /\ UNCHANGED <<mailbox, cursor, saved, disk, tmp>>
    BY <1>4 DEF ChoosePath
  <2>2. TmpAt(r)'
    BY <1>1, <1>2, <2>1 DEF TmpAt
  <2> QED BY <1>1, <1>2, <2>1, <2>2, TidyHolding DEF Storing
<1>5. CASE Charge(r) \/ CommitFails(r)
  <2>1. /\ pc[r] \in {"charge", "commit"} /\ \A s \in Run \ {r} : pc'[s] = pc[s]
        /\ pc'[r] \in {"commit", "write", "rollback"}
        /\ UNCHANGED <<mailbox, cursor, saved, disk>>
    BY <1>1, <1>5 DEF Charge, CommitFails
  <2> QED BY <1>2, <2>1, TidyHolding DEF Storing, TmpAt
<1>6. CASE CommitUnacknowledged(r)
  <2>1. /\ pc[r] = "commit" /\ pc' = [pc EXCEPT ![r] = "rollback"]
        /\ UNCHANGED <<mailbox, cursor, saved, disk>>
    BY <1>6 DEF CommitUnacknowledged
  <2> QED BY <1>1, <1>2, <2>1, TidyHolding DEF Storing, TmpAt
<1>7. CASE ReuseFile(r)
  <2>1. pc[r] = "hash" /\ disk' = disk /\ Keep(r, TRUE, "save")
    BY <1>7 DEF ReuseFile
  <2>2. /\ \A s \in Run \ {r} : pc'[s] = pc[s]
        /\ pc'[r] \in {"charge", "commit", "write"}
        /\ FreshPaths(r) \subseteq FreshPaths(r)'
    BY <1>1, <2>1, KeepFresh
  <2> QED BY <2>1, <2>2, TidyHolding DEF Storing, TmpAt
<1>8. CASE HashCollision(r)
  <2>1. /\ pc[r] = "hash" /\ disk[target[r]] \notin {Absent, Current(r).body}
        /\ target[r] = Suffixed(Current(r).name, Current(r).body)
    BY <1>8 DEF HashCollision
  <2>2. Current(r).name \in Name /\ Current(r).body \in Body
    BY <1>1, <2>1, AttachmentAtHand DEF Attachment
  <2> QED BY <1>1, <2>1, <2>2 DEF SuffixedFiles
<1>9. CASE Rename(r)
  <2>1. pc[r] = "rename"
    BY <1>9 DEF Rename
  <2>2. /\ Current(r).name \in Name /\ Current(r).body \in Body /\ target[r] \in Path
        /\ target[r] \in {Primary(Current(r).name),
                          Suffixed(Current(r).name, Current(r).body)}
    BY <1>1, <2>1, AttachmentAtHand, TargetIsPath DEF Attachment, TypeInv, WalkOK, WalkAt
  <2>3. tmp[Current(r).name] = Current(r).body /\ Current(r).body # Absent
    BY <1>1, <2>1, <2>2, ConstantsAssumption DEF TmpAt
  <2>4. /\ disk' = [disk EXCEPT ![target[r]] = Current(r).body]
        /\ Keep(r, FALSE, "charge")
    BY <1>9, <2>3 DEF Rename
  <2>5. /\ \A s \in Run \ {r} : pc'[s] = pc[s]
        /\ pc'[r] \in {"charge", "commit", "write"}
        /\ FreshPaths(r)' = FreshPaths(r) \cup {target[r]}
    BY <1>1, <2>1, <2>4, KeepFresh
  <2>6. SuffixedFiles'
    <3> SUFFICES ASSUME NEW n \in Name, NEW b \in Body
                 PROVE  disk'[Suffixed(n, b)] \in {Absent, b}
      BY DEF SuffixedFiles
    <3>1. Suffixed(n, b) \in Path /\ b # "primary"
      BY ConstantsAssumption DEF Suffixed, Path
    <3>2. CASE Suffixed(n, b) = target[r]
      <4>1. b = Current(r).body
        BY <2>2, <3>1, <3>2 DEF Primary, Suffixed
      <4> QED BY <1>1, <2>4, <3>1, <3>2, <4>1
    <3>3. CASE Suffixed(n, b) # target[r]
      BY <1>1, <2>4, <3>1, <3>3 DEF SuffixedFiles
    <3> QED BY <3>2, <3>3
  <2>7. ASSUME NothingCutShort' PROVE EveryFileHasOwner'
    <3>1. EveryFileHasOwner
      BY <2>7 DEF TidyInv
    <3>2. ASSUME NEW p \in Path, disk'[p] # Absent
          PROVE  Owned(p)' \/ InHand(r, p)'
      <4>1. CASE p = target[r]
        BY <2>5, <4>1 DEF InHand, Storing
      <4>2. CASE p # target[r]
        <5>1. Owned(p) \/ \E s \in Run : InHand(s, p)
          BY <1>1, <2>4, <3>1, <3>2, <4>2 DEF EveryFileHasOwner
        <5>2. \A s \in Run : InHand(s, p) => s = r
          BY <2>1, OnlyMine, FileStates DEF Storing
        <5> QED BY <2>5, <5>1, <5>2 DEF InHand, Storing
      <4> QED BY <4>1, <4>2
    <3> QED BY <3>2 DEF EveryFileHasOwner
  <2>8. pc[r] \in InSync /\ TmpAt(r)'
    BY <2>1, <2>5 DEF TmpAt, InSync, InSession
  <2> QED BY <2>5, <2>6, <2>7, <2>8, TidyFrame
<1>10. CASE Commit(r)
  <2>1. CASE Registered(ThisId(r))
    <3>1. /\ pc[r] = "commit" /\ pc' = [pc EXCEPT ![r] = "rollback"]
          /\ UNCHANGED <<mailbox, cursor, saved, disk>>
      BY <1>10, <2>1 DEF Commit
    <3> QED BY <1>1, <1>2, <3>1, TidyHolding DEF Storing, TmpAt
  <2>2. CASE ~Registered(ThisId(r))
    <3>1. /\ pc[r] = "commit" /\ pc' = [pc EXCEPT ![r] = "next"] /\ disk' = disk
          /\ rows' = [rows EXCEPT ![ThisId(r)] = ArchivedRow(r)]
      BY <1>10, <2>2 DEF Commit, Insert, MessageDone
    <3>2. ThisId(r) \in MessageId /\ rows'[ThisId(r)] = ArchivedRow(r)
      BY <1>1, <3>1, MessageAtHand DEF Processing, TypeInv, TypeOK
    <3>3. ASSUME NEW p, InHand(r, p) PROVE Owned(p)'
      <4>1. PICK i \in DOMAIN saved[r] : p = saved[r][i].path
        BY <3>3 DEF InHand, FreshPaths, FreshIndexes
      <4>2. /\ i \in DOMAIN rows'[ThisId(r)].files
            /\ rows'[ThisId(r)].files[i].path = p
        BY <3>2, <4>1 DEF ArchivedRow
      <4> QED BY <3>2, <4>2 DEF Owned, FilesOf
    <3>4. pc[r] \in InSync
      BY <3>1 DEF InSync, InSession
    <3>5. ASSUME NothingCutShort' PROVE EveryFileHasOwner'
      <4>1. EveryFileHasOwner
        BY <3>5 DEF TidyInv
      <4> QED BY <3>1, <3>3, <3>4, <4>1, OnlyMine DEF EveryFileHasOwner
    <3>6. SuffixedFiles' /\ TmpAt(r)'
      BY <1>1, <3>1 DEF SuffixedFiles, TmpAt
    <3> QED BY <1>1, <3>1, <3>4, <3>5, <3>6, TidyFrame
  <2> QED BY <2>1, <2>2
<1>11. CASE Rollback(r)
  <2>1. PICK stuck \in SUBSET FreshPaths(r) :
          /\ disk' = [p \in Path |-> IF p \in FreshPaths(r) \ stuck THEN Absent
                                    ELSE disk[p]]
          /\ stuck # {} => Spend("disk")
    BY <1>11 DEF Rollback
  <2>2. pc[r] = "rollback" /\ pc' = [pc EXCEPT ![r] = "refund"] /\ pc[r] \in InSync
    BY <1>11 DEF Rollback, InSync, InSession
  <2>3. SuffixedFiles' /\ TmpAt(r)'
    <3>1. \A n \in Name, b \in Body : Suffixed(n, b) \in Path
      BY DEF Suffixed, Path
    <3> QED BY <1>1, <2>1, <2>2, <3>1 DEF SuffixedFiles, TmpAt
  <2>4. ASSUME NothingCutShort' PROVE EveryFileHasOwner'
    <3>1. EveryFileHasOwner
      BY <2>4 DEF TidyInv
    <3>2. stuck = {}
      <4>1. "disk" \in Event /\ left'["disk"] = Budget["disk"] /\ left["disk"] = Budget["disk"]
        BY <2>4 DEF NothingCutShort, Event
      <4>2. TypeOK /\ left["disk"] \in Nat
        BY <1>1, <4>1 DEF TypeInv, TypeOK
      <4>3. Spend("disk") => left'["disk"] < left["disk"]
        BY <4>1, <4>2, SpendLess
      <4> QED BY <2>1, <4>1, <4>2, <4>3
    <3>3. ASSUME NEW p \in Path, disk'[p] # Absent PROVE Owned(p)'
      <4>1. disk[p] # Absent /\ p \notin FreshPaths(r)
        BY <2>1, <3>2, <3>3
      <4>2. \A s \in Run : ~InHand(s, p)
        BY <2>2, <4>1, OnlyMine DEF InHand
      <4> QED BY <3>1, <4>1, <4>2 DEF EveryFileHasOwner
    <3> QED BY <3>3 DEF EveryFileHasOwner
  <2> QED BY <1>1, <2>2, <2>3, <2>4, TidyFrame
<1> QED BY <1>3, <1>4, <1>5, <1>6, <1>7, <1>8, <1>9, <1>10, <1>11

LEMMA TidyOutside ==
  ASSUME TidyInv, TypeInv', LockInv', Spent', NothingCutShort' => NothingCutShort,
         World \/ ExpireLock \/ UNCHANGED vars
  PROVE  TidyInv'
<1>1. UNCHANGED <<rows, disk, tmp, pc, cursor, target, saved>>
  BY DEF World, Deliver, NewUidValidity, ResyncFrom, OperatorRewind, ChangePlan,
     ExpireLock, vars, dbVars, diskVars, walkVars, fileVars
<1>2. VacantRows' /\ SuffixedFiles' /\ (NothingCutShort' => EveryFileHasOwner')
  BY <1>1 DEF TidyInv, VacantRows, Registered, SuffixedFiles, EveryFileHasOwner, Owned,
     FilesOf, InHand, FreshPaths, FreshIndexes
<1>3. ASSUME NEW r \in Run PROVE TmpAt(r)'
  <2>1. pc[r] \in {"hash", "rename"} => Current(r)' = Current(r)
    BY <1>1, SameAttachment DEF TidyInv
  <2> QED BY <1>1, <2>1 DEF TidyInv, TmpAt
<1> QED BY <1>2, <1>3 DEF TidyInv

LEMMA TidyInvInit == Init => TidyInv
<1> SUFFICES ASSUME Init PROVE TidyInv
  OBVIOUS
<1>1. Spent
  BY ConstantsAssumption DEF Init, Spent
<1>2. VacantRows /\ \A r \in Run : TmpAt(r)
  BY DEF Init, VacantRows, NoRow, TmpAt
<1>3. SuffixedFiles /\ EveryFileHasOwner
  <2>1. \A n \in Name, b \in Body : Suffixed(n, b) \in Path
    BY DEF Suffixed, Path
  <2> QED BY <2>1 DEF Init, SuffixedFiles, EveryFileHasOwner
<1> QED BY <1>1, <1>2, <1>3, TypeInvInit, LockInvInit DEF TidyInv

LEMMA TidyInvStep ==
  ASSUME Slow = {}, TidyInv, [Next]_vars
  PROVE  TidyInv'
<1>1. TypeInv' /\ LockInv' /\ Spent' /\ (NothingCutShort' => NothingCutShort)
  BY TypeInvStep, LockInvStep, SpentStep DEF TidyInv, NothingCutShort, Event
<1>2. VacantRows' /\ \A p : Owned(p) => Owned(p)'
  BY OwnedStays DEF TidyInv
<1>3. ASSUME NEW r \in Run, Acquire(r) \/ RunStep(r) \/ Fault(r) PROVE TidyInv'
  BY <1>1, <1>2, <1>3, TidyQuietSteps, TidyStoringSteps
     DEF RunStep, ProcessMessage, SaveAttachment, Fault
<1> QED BY <1>1, <1>3, TidyOutside DEF Next

(* Failed transactions, lost races, lost acknowledgements and broken IMAP  *)
(* connections leave no file that no row points to: as long as no run      *)
(* lasts longer than the lock, only a crash, a failure of the file system  *)
(* or one of PostgreSQL and Redis in the middle of a message can.          *)
THEOREM NoFileIsOrphaned ==
  ASSUME Slow = {}
  PROVE  Spec => []NoOrphanFiles
<1>1. TidyInv => NoOrphanFiles
  BY DEF TidyInv, NothingCutShort, EveryFileHasOwner, Owned, InHand, Storing,
     NoOrphanFiles
<1> QED BY <1>1, TidyInvInit, TidyInvStep, PTL DEF Spec

-----------------------------------------------------------------------------
(***************************************************************************)
(* The walk. The persisted cursor is in the numbering of the open mailbox, *)
(* and behind the cursor of a run there are only messages that the account *)
(* had passed when the run began or that have a row. A message taken for a *)
(* duplicate has one of its own, as long as no synthetic identifier        *)
(* survives a renumbering.                                                 *)
(***************************************************************************)
SyntheticNamesLast ==
  Budget["epoch"] = 0 \/ (HasHeader = Msg /\ Budget["source"] = 0)

Recorded(u) == u <= Len(mailbox.msgs) /\ Archived(mailbox.msgs[u])

NamesInv ==
  \A id \in MessageId : Registered(id) =>
    \/ id = <<"header", rows[id].msg>>
    \/ /\ Budget["epoch"] = 0
       /\ \E u \in 1..Len(mailbox.msgs) :
             id = Synthetic(u) /\ rows[id].msg = mailbox.msgs[u]

CursorAt(r) ==
  /\ pc[r] \in {"cleaning", "opening"} =>
       /\ snap[r].lastUid = account.lastUid
       /\ snap[r].uidValidity = account.uidValidity
  /\ pc[r] \in InSession => account.uidValidity = mailbox.epoch
  /\ pc[r] \in InSession \ {"first"} =>
       \/ "errtx" \in Happened
       \/ \A u \in 1..cursor[r] : u <= account.lastUid \/ Recorded(u)
  /\ pc[r] = "skip" => Recorded(Uid(r))
  /\ pc[r] \in {"rollback", "refund"} /\ why[r] = "DUPLICATE" => Recorded(Uid(r))
  /\ why[r] = "NO_SOURCE" => Budget["source"] # 0

CursorInv ==
  /\ TypeInv
  /\ LockInv
  /\ Spent
  /\ NamesInv
  /\ account.uidValidity = 0 => account.lastUid = 0
  /\ \A r \in Run : CursorAt(r)

LEMMA ArchivedStays ==
  ASSUME TypeInv, [Next]_vars
  PROVE  \A m : Archived(m) => Archived(m)'
<1>1. CASE rows' = rows
  BY <1>1 DEF Archived, Registered
<1>2. CASE rows' # rows
  BY <1>2, RowWriter DEF Archived, Registered
<1> QED BY <1>1, <1>2

LEMMA RecordedStays ==
  ASSUME TypeInv, [Next]_vars, mailbox' = mailbox
  PROVE  \A u : Recorded(u) => Recorded(u)'
BY ArchivedStays DEF Recorded

(* A message whose identifier is taken is one that has a row.              *)
LEMMA DuplicateIsRecorded ==
  ASSUME TypeInv, NamesInv, NEW r \in Run, pc[r] \in Processing, Registered(ThisId(r))
  PROVE  Recorded(Uid(r))
<1>1. ThisId(r) \in MessageId /\ Uid(r) <= Len(mailbox.msgs)
  BY MessageAtHand
<1>2. rows[ThisId(r)].msg = MsgOf(r)
  <2>1. CASE ThisId(r) = <<"header", rows[ThisId(r)].msg>>
    BY <2>1 DEF ThisId, IdOf, Synthetic
  <2>2. CASE \E u \in 1..Len(mailbox.msgs) :
               ThisId(r) = Synthetic(u) /\ rows[ThisId(r)].msg = mailbox.msgs[u]
    BY <2>2 DEF ThisId, IdOf, Synthetic, MsgOf
  <2> QED BY <1>1, <2>1, <2>2 DEF NamesInv
<1> QED BY <1>1, <1>2 DEF Recorded, Archived, MsgOf

LEMMA RowsKeepNames ==
  ASSUME TypeInv, Spent, NamesInv, SyntheticNamesLast, [Next]_vars,
         \A r \in Run : why[r] = "NO_SOURCE" => Budget["source"] # 0
  PROVE  NamesInv'
<1>1. TypeInv /\ NamesInv
  OBVIOUS
<1>2. mailbox \in [epoch : Nat \ {0}, msgs : Seq(Msg)] /\ mailbox.msgs \in Seq(Msg)
  BY <1>1 DEF TypeInv, TypeOK
<1> DEFINE Numbered(id) == /\ Budget["epoch"] = 0
                           /\ \E u \in 1..Len(mailbox.msgs) :
                                id = Synthetic(u) /\ rows[id].msg = mailbox.msgs[u]
<1>3. CASE rows' # rows
  <2>1. PICK r \in Run :
           /\ pc[r] \in {"plain", "commit", "error"} /\ ~Registered(ThisId(r))
           /\ ThisId(r) \in MessageId /\ UNCHANGED mailbox
           /\ rows'[ThisId(r)].status # "NONE" /\ rows'[ThisId(r)].msg = MsgOf(r)
           /\ \A id \in MessageId : id # ThisId(r) => rows'[id] = rows[id]
    BY <1>1, <1>3, RowWriter
  <2>2. Uid(r) \in 1..Len(mailbox.msgs) /\ MsgOf(r) \in Msg
    BY <1>1, <1>2, <2>1, MessageAtHand DEF Processing
  <2>3. \/ ThisId(r) = <<"header", rows'[ThisId(r)].msg>>
        \/ /\ Budget["epoch"] = 0
           /\ ThisId(r) = Synthetic(Uid(r)) /\ rows'[ThisId(r)].msg = mailbox'.msgs[Uid(r)]
    <3>1. why[r] = "NO_SOURCE" => Budget["source"] # 0
      OBVIOUS
    <3> QED BY <2>1, <2>2, <3>1 DEF ThisId, IdOf, SyntheticNamesLast, MsgOf
  <2>4. ASSUME NEW id \in MessageId, Registered(id)', id # ThisId(r)
        PROVE  id = <<"header", rows'[id].msg>> \/ Numbered(id)'
    <3>1. rows'[id] = rows[id] /\ Registered(id)
      BY <2>1, <2>4 DEF Registered
    <3> QED BY <1>1, <2>1, <3>1 DEF NamesInv
  <2> QED BY <2>1, <2>2, <2>3, <2>4 DEF NamesInv
<1>4. CASE rows' = rows /\ mailbox' = mailbox
  BY <1>1, <1>4 DEF NamesInv, Registered
<1>5. CASE rows' = rows /\ \E m \in Msg : Deliver(m)
  <2>1. PICK m \in Msg : mailbox' = [mailbox EXCEPT !.msgs = Append(@, m)]
    BY <1>5 DEF Deliver
  <2>2. /\ mailbox'.msgs = Append(mailbox.msgs, m)
        /\ \A u \in 1..Len(mailbox.msgs) : /\ u \in 1..Len(mailbox'.msgs)
                                           /\ mailbox'.msgs[u] = mailbox.msgs[u]
    BY <1>2, <2>1
  <2> QED BY <1>1, <1>5, <2>2 DEF NamesInv, Registered
<1>6. CASE rows' = rows /\ NewUidValidity
  <2>1. Budget["epoch"] # 0
    <3>1. left["epoch"] > 0 /\ left["epoch"] <= Budget["epoch"]
      BY <1>6 DEF NewUidValidity, Spend, Spent, Event
    <3>2. left["epoch"] \in Nat /\ Budget["epoch"] \in Nat
      BY <1>1, ConstantsAssumption DEF TypeInv, TypeOK, Event
    <3> QED BY <3>1, <3>2
  <2> QED BY <1>1, <1>6, <2>1 DEF NamesInv, Registered
<1>7. CASE UNCHANGED vars
  BY <1>4, <1>7 DEF vars, dbVars, worldVars
<1>8. ASSUME NEW r \in Run, Acquire(r) \/ RunStep(r) \/ Fault(r) PROVE mailbox' = mailbox
  BY <1>8, RunKeepsMailbox
<1> QED BY <1>3, <1>4, <1>5, <1>6, <1>7, <1>8
   DEF Next, World, ResyncFrom, OperatorRewind, ChangePlan, ExpireLock, worldVars

SkipsAllowed == "errtx" \in Happened

LEMMA SkipsStayAllowed ==
  ASSUME TypeInv, Spent, [Next]_vars
  PROVE  SkipsAllowed => SkipsAllowed'
<1>1. "errtx" \in Event /\ left'["errtx"] <= left["errtx"]
  BY LeftShrinks DEF TypeInv, Event
<1>2. left \in [Event -> Nat] /\ left' \in [Event -> Nat] /\ Budget \in [Event -> Nat]
  BY TypeInvStep, ConstantsAssumption DEF TypeInv, TypeOK
<1>3. left["errtx"] \in Nat /\ left'["errtx"] \in Nat /\ Budget["errtx"] \in Nat
  BY <1>1, <1>2
<1> QED BY <1>1, <1>3 DEF SkipsAllowed, Happened

(* What the step of one run has to show: the others are outside the lock.  *)
LEMMA CursorFrame ==
  ASSUME CursorInv, TypeInv', LockInv', Spent', NamesInv', NEW r \in Run,
         pc[r] \in InSync \/ lock = NoRun,
         \A s \in Run \ {r} : pc'[s] = pc[s] /\ why'[s] = why[s],
         account'.uidValidity = 0 => account'.lastUid = 0,
         CursorAt(r)'
  PROVE  CursorInv'
<1>1. \A s \in Run \ {r} : pc'[s] = "idle"
  BY OthersAtRest DEF CursorInv
<1>2. ASSUME NEW s \in Run, s # r PROVE CursorAt(s)'
  <2>1. why[s] = "NO_SOURCE" => Budget["source"] # 0
    BY DEF CursorInv, CursorAt
  <2> QED BY <1>1, <1>2, <2>1 DEF CursorAt, InSession
<1> QED BY <1>2 DEF CursorInv

(* A step that ends outside the session, and says nothing of the cursor.   *)
LEMMA CursorQuiet ==
  ASSUME CursorInv, TypeInv', LockInv', Spent', NamesInv', NEW r \in Run,
         pc[r] \in InSync \/ lock = NoRun,
         \A s \in Run \ {r} : pc'[s] = pc[s] /\ why'[s] = why[s],
         pc'[r] \notin InSession \cup {"cleaning", "opening"},
         why'[r] \in {why[r], "none"},
         account'.uidValidity = account.uidValidity, account'.lastUid = account.lastUid
  PROVE  CursorInv'
<1>1. CursorAt(r)'
  BY DEF CursorInv, CursorAt, InSession
<1>2. account'.uidValidity = 0 => account'.lastUid = 0
  BY DEF CursorInv
<1> QED BY <1>1, <1>2, CursorFrame

(* A step inside the session that leaves the cursor alone.                 *)
LEMMA CursorSteady ==
  ASSUME CursorInv, TypeInv', LockInv', Spent', NamesInv', [Next]_vars, NEW r \in Run,
         pc[r] \in InSession \ {"first"}, pc'[r] \in InSession \ {"first"},
         \A s \in Run \ {r} : pc'[s] = pc[s] /\ why'[s] = why[s],
         UNCHANGED <<mailbox, account, cursor>>,
         pc'[r] = "skip" => Recorded(Uid(r)),
         pc'[r] \in {"rollback", "refund"} /\ why'[r] = "DUPLICATE" => Recorded(Uid(r)),
         why'[r] = "NO_SOURCE" => Budget["source"] # 0
  PROVE  CursorInv'
<1>1. Uid(r)' = Uid(r) /\ \A u : Recorded(u) => Recorded(u)'
  BY RecordedStays DEF CursorInv, Uid
<1>2. /\ account.uidValidity = mailbox.epoch
      /\ SkipsAllowed \/ \A u \in 1..cursor[r] : u <= account.lastUid \/ Recorded(u)
  BY DEF CursorInv, CursorAt, SkipsAllowed
<1>3. SkipsAllowed => SkipsAllowed'
  BY SkipsStayAllowed DEF CursorInv
<1>4. ASSUME ~SkipsAllowed
      PROVE  \A u \in 1..cursor'[r] : u <= account'.lastUid \/ Recorded(u)'
  BY <1>1, <1>2, <1>4
<1>5. /\ pc'[r] = "skip" => Recorded(Uid(r))'
      /\ pc'[r] \in {"rollback", "refund"} /\ why'[r] = "DUPLICATE" => Recorded(Uid(r))'
  <2>1. Recorded(Uid(r)) => Recorded(Uid(r))'
    BY RecordedStays, <1>1 DEF Recorded, CursorInv
  <2> QED BY <2>1
<1>6. CursorAt(r)'
  BY <1>2, <1>3, <1>4, <1>5 DEF CursorAt, SkipsAllowed, InSession
<1>7. account'.uidValidity = 0 => account'.lastUid = 0
  BY DEF CursorInv
<1> QED BY <1>6, <1>7, CursorFrame, FileStates DEF InSync

(* processMessage is over, or PostgreSQL has moved the cursor.             *)
LEMMA CursorMoves ==
  ASSUME CursorInv, TypeInv', LockInv', Spent', NamesInv', [Next]_vars, NEW r \in Run,
         pc[r] \in Processing, pc'[r] \in {"next", "rollback"},
         \A s \in Run \ {r} : pc'[s] = pc[s] /\ why'[s] = why[s],
         mailbox' = mailbox, cursor'[r] \in {cursor[r], Uid(r)},
         why'[r] \in {"none", "PERSIST"},
         \/ account'.lastUid = Uid(r)
         \/ account' = account /\ (SkipsAllowed' \/ Recorded(Uid(r))),
         account'.uidValidity = account.uidValidity
  PROVE  CursorInv'
<1>1. /\ TypeInv /\ cursor[r] \in Nat /\ cursor'[r] \in Nat
      /\ account.lastUid \in Nat /\ account'.lastUid \in Nat
  BY DEF CursorInv, TypeInv, TypeOK, Account
<1>2. \A u : Recorded(u) => Recorded(u)'
  BY <1>1, RecordedStays
<1>3. pc[r] \in InSession \ {"first"} /\ pc[r] \in InSync
  BY DEF Processing, InSession, InSync
<1>4. /\ account.uidValidity = mailbox.epoch
      /\ SkipsAllowed \/ \A u \in 1..cursor[r] : u <= account.lastUid \/ Recorded(u)
  BY <1>3 DEF CursorInv, CursorAt, SkipsAllowed
<1>5. SkipsAllowed => SkipsAllowed'
  BY SkipsStayAllowed DEF CursorInv
<1>6. ASSUME ~SkipsAllowed'
      PROVE  \A u \in 1..cursor'[r] : u <= account'.lastUid \/ Recorded(u)'
  <2> SUFFICES ASSUME NEW u \in 1..cursor'[r] PROVE u <= account'.lastUid \/ Recorded(u)'
    OBVIOUS
  <2>1. u \in 1..cursor[r] \/ u = Uid(r)
    BY <1>1 DEF Uid
  <2>2. CASE account'.lastUid = Uid(r)
    BY <1>1, <2>1, <2>2 DEF Uid
  <2>3. CASE account' = account /\ Recorded(Uid(r))
    BY <1>2, <1>4, <1>5, <1>6, <2>1, <2>3
  <2> QED BY <1>6, <2>2, <2>3
<1>7. CursorAt(r)'
  BY <1>4, <1>6 DEF CursorAt, SkipsAllowed, InSession
<1>8. account'.uidValidity # 0
  BY <1>1, <1>4 DEF TypeInv, TypeOK
<1> QED BY <1>3, <1>7, <1>8, CursorFrame

LEMMA CursorQuietSteps ==
  ASSUME CursorInv, TypeInv', LockInv', Spent', NamesInv', NEW r \in Run,
         \/ Acquire(r) \/ HashCollision(r) \/ Finish(r) \/ FinalizeSyncLog(r)
         \/ SumUsage(r) \/ ReconcileUsage(r) \/ Release(r) \/ Unlock(r)
         \/ Abort(r) \/ Crash(r)
  PROVE  CursorInv'
<1> USE DEF Go, dbVars
<1>1. /\ pc \in [Run -> InSync \cup {"idle"}] /\ why \in [Run -> ErrorDetail]
      /\ account \in Account
  BY DEF CursorInv, TypeInv, TypeOK
<1> DEFINE Quiet == /\ pc[r] \in InSync \/ lock = NoRun
                    /\ \A s \in Run \ {r} : pc'[s] = pc[s] /\ why'[s] = why[s]
                    /\ pc'[r] \notin InSession \cup {"cleaning", "opening"}
                    /\ why'[r] \in {why[r], "none"}
                    /\ account'.uidValidity = account.uidValidity
                    /\ account'.lastUid = account.lastUid
<1>2. ASSUME Acquire(r) \/ HashCollision(r) PROVE Quiet
  BY <1>1, <1>2 DEF Acquire, HashCollision, LockFree, InSync, InSession
<1>3. ASSUME Finish(r) PROVE Quiet
  BY <1>1, <1>3 DEF Finish, Account, InSync, InSession, Around
<1>4. ASSUME FinalizeSyncLog(r) \/ SumUsage(r) \/ ReconcileUsage(r) PROVE Quiet
  BY <1>1, <1>4 DEF FinalizeSyncLog, SumUsage, ReconcileUsage, InSync, InSession, Around
<1>5. ASSUME Release(r) \/ Unlock(r) \/ Crash(r) PROVE Quiet
  BY <1>1, <1>5 DEF Release, Unlock, Crash, Forget, InSync, InSession, Around
<1>6. ASSUME Abort(r) PROVE Quiet
  <2>1. pc[r] \in InSync
    BY <1>6 DEF Abort, ThrowsAt, InSync, InSession, Around
  <2> QED BY <1>1, <1>6, <2>1 DEF Abort, InSession
<1>7. Quiet
  BY <1>2, <1>3, <1>4, <1>5, <1>6
<1> HIDE DEF Go
<1> QED BY <1>7, CursorQuiet

(* From the account to the first message.                                  *)
LEMMA CursorOpens ==
  ASSUME CursorInv, TypeInv', LockInv', Spent', NamesInv', [Next]_vars, NEW r \in Run,
         \/ ReadAccount(r) \/ CleanOrphanTmp(r) \/ OpenMailbox(r) \/ FirstSync(r)
         \/ Fetch(r) \/ NextMessage(r)
  PROVE  CursorInv'
<1> USE DEF Go, dbVars, worldVars
<1>1. /\ pc \in [Run -> InSync \cup {"idle"}] /\ why \in [Run -> ErrorDetail]
      /\ account \in Account /\ snap \in [Run -> Account] /\ cursor \in [Run -> Nat]
      /\ mailbox \in [epoch : Nat \ {0}, msgs : Seq(Msg)]
      /\ CursorAt(r) /\ (account.uidValidity = 0 => account.lastUid = 0)
  BY DEF CursorInv, TypeInv, TypeOK
<1>2. CASE ReadAccount(r)
  <2>1. /\ pc[r] \in InSync /\ pc' = [pc EXCEPT ![r] = "cleaning"] /\ why' = why
        /\ snap'[r] = account /\ account' = account
    BY <1>1, <1>2 DEF ReadAccount, InSync, Around
  <2>2. CursorAt(r)'
    BY <1>1, <2>1 DEF CursorAt, InSession
  <2> QED BY <1>1, <2>1, <2>2, CursorFrame
<1>3. CASE CleanOrphanTmp(r)
  <2>1. /\ pc[r] = "cleaning" /\ pc[r] \in InSync /\ pc' = [pc EXCEPT ![r] = "opening"]
        /\ why' = why /\ snap' = snap /\ account' = account
    BY <1>1, <1>3 DEF CleanOrphanTmp, walkVars, InSync, Around
  <2>2. CursorAt(r)'
    BY <1>1, <2>1 DEF CursorAt, InSession
  <2> QED BY <1>1, <2>1, <2>2, CursorFrame
<1>4. CASE OpenMailbox(r)
  <2>1. /\ pc[r] = "opening" /\ pc[r] \in InSync /\ why' = why /\ mailbox' = mailbox
        /\ \A s \in Run \ {r} : pc'[s] = pc[s]
        /\ pc'[r] \in {"fetch", "first"} /\ cursor'[r] = StartUid(r)
    BY <1>1, <1>4 DEF OpenMailbox, InSync, Around
  <2>2. account'.lastUid = StartUid(r) /\ account'.uidValidity = mailbox.epoch
    BY <1>1, <1>4, <2>1 DEF OpenMailbox, StartUid, CursorAt, Account
  <2>3. StartUid(r) \in Nat
    BY <1>1 DEF StartUid, Account
  <2>4. CursorAt(r)'
    BY <1>1, <2>1, <2>2, <2>3 DEF CursorAt
  <2> QED BY <1>1, <2>1, <2>2, <2>4, CursorFrame
<1>5. CASE FirstSync(r)
  <2>1. /\ pc[r] = "first" /\ pc[r] \in InSync /\ pc[r] \in InSession /\ why' = why
        /\ mailbox' = mailbox /\ pc' = [pc EXCEPT ![r] = "fetch"]
    BY <1>1, <1>5 DEF FirstSync, InSync, InSession
  <2>2. PICK start : /\ cursor' = [cursor EXCEPT ![r] = start]
                     /\ account' = [account EXCEPT !.lastUid = start]
    BY <1>5 DEF FirstSync
  <2>3. /\ account'.lastUid = start /\ cursor'[r] = start
        /\ account'.uidValidity = account.uidValidity
    BY <1>1, <2>2 DEF Account
  <2>4. cursor'[r] \in Nat
    BY DEF TypeInv, TypeOK
  <2>5. account.uidValidity = mailbox.epoch
    BY <1>1, <2>1 DEF CursorAt
  <2>6. CursorAt(r)'
    BY <1>1, <2>1, <2>3, <2>4, <2>5 DEF CursorAt
  <2> QED BY <1>1, <2>1, <2>3, <2>5, <2>6, CursorFrame
<1>6. CASE Fetch(r)
  <2>1. /\ pc[r] = "fetch" /\ pc' = [pc EXCEPT ![r] = "next"] /\ why' = why
        /\ UNCHANGED <<mailbox, account, cursor>>
    BY <1>6 DEF Fetch
  <2> QED BY <1>1, <2>1, CursorSteady DEF InSession, CursorAt
<1>7. CASE NextMessage(r)
  <2>1. /\ pc[r] = "next" /\ why' = why /\ UNCHANGED <<mailbox, account, cursor>>
        /\ pc' \in {[pc EXCEPT ![r] = "lookup"], [pc EXCEPT ![r] = "finish"]}
    BY <1>7 DEF NextMessage, walkVars
  <2>2. CASE pc' = [pc EXCEPT ![r] = "lookup"]
    BY <1>1, <2>1, <2>2, CursorSteady DEF InSession, CursorAt
  <2>3. CASE pc' = [pc EXCEPT ![r] = "finish"]
    BY <1>1, <2>1, <2>3, CursorQuiet DEF InSync, InSession
  <2> QED BY <2>1, <2>2, <2>3
<1> QED BY <1>2, <1>3, <1>4, <1>5, <1>6, <1>7

(* What a step of processMessage does: it goes on inside the session and   *)
(* leaves the cursor alone; or it is over with the message, which has a    *)
(* row unless its ERROR row failed, or has stored its row; or it throws.   *)
SkippedAt(r) ==
  /\ pc[r] = "skip" => Recorded(Uid(r))
  /\ pc[r] \in {"rollback", "refund"} /\ why[r] = "DUPLICATE" => Recorded(Uid(r))
  /\ why[r] = "NO_SOURCE" => Budget["source"] # 0

Steady(r) ==
  /\ pc[r] \in InSession \ {"first"} /\ pc'[r] \in InSession \ {"first"}
  /\ \A s \in Run \ {r} : pc'[s] = pc[s] /\ why'[s] = why[s]
  /\ UNCHANGED <<mailbox, account, cursor>>
  /\ pc'[r] = "skip" => Recorded(Uid(r))
  /\ pc'[r] \in {"rollback", "refund"} /\ why'[r] = "DUPLICATE" => Recorded(Uid(r))
  /\ why'[r] = "NO_SOURCE" => Budget["source"] # 0
Moves(r) ==
  /\ pc[r] \in Processing /\ pc'[r] \in {"next", "rollback"}
  /\ \A s \in Run \ {r} : pc'[s] = pc[s] /\ why'[s] = why[s]
  /\ mailbox' = mailbox /\ cursor'[r] \in {cursor[r], Uid(r)}
  /\ why'[r] \in {"none", "PERSIST"}
  /\ \A u : u = Uid(r) => SkipsAllowed' \/ Recorded(u) \/ Recorded(u)'
  /\ \/ account'.lastUid = Uid(r)
     \/ account' = account /\ (SkipsAllowed' \/ Recorded(Uid(r)))
  /\ account'.uidValidity = account.uidValidity
Leaves(r) ==
  /\ pc[r] \in InSession \ {"first"} /\ pc'[r] = "failing"
  /\ \A s \in Run \ {r} : pc'[s] = pc[s]
  /\ UNCHANGED <<mailbox, account, cursor, why>>

LEMMA ProcessSteps ==
  ASSUME TypeInv, Spent, NamesInv, NEW r \in Run, SkippedAt(r),
         \/ EmptySource(r) \/ Lookup(r) \/ Skip(r) \/ PersistPlain(r) \/ QuotaCheck(r)
         \/ WriteTmp(r) \/ ReuseFile(r) \/ ChoosePath(r) \/ Rename(r) \/ Charge(r)
         \/ Commit(r) \/ CommitFails(r) \/ CommitUnacknowledged(r) \/ Rollback(r)
         \/ Refund(r) \/ RegisterError(r)
  PROVE  Steady(r) \/ Moves(r) \/ Leaves(r)
<1> USE DEF Go, dbVars, worldVars, walkVars, Steady, Moves, Leaves
<1>1. /\ pc \in [Run -> InSync \cup {"idle"}] /\ why \in [Run -> ErrorDetail]
      /\ account \in Account /\ cursor \in [Run -> Nat]
      /\ TypeInv /\ NamesInv /\ SkippedAt(r)
  BY DEF TypeInv, TypeOK
<1>2. why[r] = "NO_SOURCE" => Budget["source"] # 0
  BY <1>1 DEF SkippedAt
<1>3. ASSUME EmptySource(r) PROVE Steady(r)
  <2>1. Budget["source"] # 0
    <3>1. left["source"] > 0 /\ left["source"] <= Budget["source"]
      BY <1>3 DEF EmptySource, Spend, Spent, Event
    <3>2. left["source"] \in Nat /\ Budget["source"] \in Nat
      BY <1>1, ConstantsAssumption DEF TypeInv, TypeOK, Event
    <3> QED BY <3>1, <3>2
  <2> QED BY <1>1, <1>3, <2>1 DEF EmptySource, InSession
<1>4. ASSUME Lookup(r) PROVE Steady(r)
  <2>1. /\ pc[r] = "lookup" /\ why' = why /\ UNCHANGED <<mailbox, account, cursor>>
        /\ \/ pc' = [pc EXCEPT ![r] = "skip"] /\ Registered(ThisId(r))
           \/ pc' \in {[pc EXCEPT ![r] = "plain"], [pc EXCEPT ![r] = "quota"]}
    BY <1>4 DEF Lookup
  <2>2. Registered(ThisId(r)) => Recorded(Uid(r))
    BY <1>1, <2>1, DuplicateIsRecorded DEF Processing
  <2> QED BY <1>1, <1>2, <2>1, <2>2 DEF InSession
<1>5. ASSUME Skip(r) PROVE Moves(r)
  <2>1. pc[r] = "skip" /\ mailbox' = mailbox /\ MessageDone(r)
        /\ account' = [account EXCEPT !.lastUid = Uid(r)]
    BY <1>5 DEF Skip
  <2>2. Recorded(Uid(r))
    BY <1>1, <2>1 DEF SkippedAt
  <2> QED BY <1>1, <2>1, <2>2 DEF MessageDone, Processing, Account
<1>6. ASSUME NEW row, row.msg = MsgOf(r), row.status # "NONE", pc[r] \in Processing,
             mailbox' = mailbox, Insert(ThisId(r), row, Uid(r))
      PROVE  /\ account'.lastUid = Uid(r) /\ account'.uidValidity = account.uidValidity
             /\ \A u : u = Uid(r) => Recorded(u)'
  <2>1. rows \in [MessageId -> Row] /\ ThisId(r) \in MessageId /\ Uid(r) <= Len(mailbox.msgs)
    BY <1>1, <1>6, MessageAtHand DEF TypeInv, TypeOK
  <2>2. PICK id \in MessageId : id = ThisId(r)
    BY <2>1
  <2>3. rows'[id] = row
    BY <1>6, <2>1, <2>2 DEF Insert
  <2>4. Archived(row.msg)'
    BY <1>6, <2>2, <2>3 DEF Archived, Registered
  <2> QED BY <1>1, <1>6, <2>1, <2>4 DEF Insert, Account, Recorded, MsgOf
<1>7. ASSUME PersistPlain(r) PROVE Steady(r) \/ Moves(r) \/ Leaves(r)
  <2>1. CASE Registered(ThisId(r))
    <3>1. /\ pc[r] = "plain" /\ why' = why /\ UNCHANGED <<mailbox, account, cursor>>
          /\ pc' \in {[pc EXCEPT ![r] = "skip"], [pc EXCEPT ![r] = "failing"]}
      BY <1>7, <2>1 DEF PersistPlain
    <3>2. Recorded(Uid(r))
      BY <1>1, <2>1, <3>1, DuplicateIsRecorded DEF Processing
    <3> QED BY <1>1, <1>2, <3>1, <3>2 DEF InSession
  <2>2. CASE ~Registered(ThisId(r))
    <3>1. /\ pc[r] = "plain" /\ mailbox' = mailbox /\ MessageDone(r)
          /\ \E row : /\ row.msg = MsgOf(r) /\ row.status # "NONE"
                      /\ Insert(ThisId(r), row, Uid(r))
      BY <1>7, <2>2 DEF PersistPlain
    <3> QED BY <1>1, <1>6, <3>1 DEF MessageDone, Processing
  <2> QED BY <2>1, <2>2
<1>8. ASSUME QuotaCheck(r) PROVE Steady(r)
  <2>1. /\ pc[r] = "quota" /\ UNCHANGED <<mailbox, account, cursor>>
        /\ why' \in {why, [why EXCEPT ![r] = "QUOTA_EXCEEDED"]}
        /\ pc' \in {[pc EXCEPT ![r] = "error"], [pc EXCEPT ![r] = "write"]}
    BY <1>8 DEF QuotaCheck
  <2> QED BY <1>1, <1>2, <2>1 DEF InSession
<1>9. ASSUME WriteTmp(r) \/ ReuseFile(r) \/ ChoosePath(r) \/ Charge(r) PROVE Steady(r)
  BY <1>1, <1>2, <1>9 DEF WriteTmp, ReuseFile, ChoosePath, Charge, Keep, InSession
<1>10. ASSUME Rename(r) PROVE Steady(r) \/ Leaves(r)
  <2>1. /\ pc[r] = "rename" /\ why' = why /\ UNCHANGED <<mailbox, account, cursor>>
        /\ \A s \in Run \ {r} : pc'[s] = pc[s]
        /\ pc'[r] \in {"charge", "failing"}
    BY <1>1, <1>10 DEF Rename, Keep
  <2> QED BY <1>1, <1>2, <2>1 DEF InSession
<1>11. ASSUME Commit(r) PROVE Steady(r) \/ Moves(r) \/ Leaves(r)
  <2>1. CASE Registered(ThisId(r))
    <3>1. /\ pc[r] = "commit" /\ UNCHANGED <<mailbox, account, cursor>>
          /\ why' \in {[why EXCEPT ![r] = "DUPLICATE"], [why EXCEPT ![r] = "PERSIST"]}
          /\ pc' = [pc EXCEPT ![r] = "rollback"]
      BY <1>11, <2>1 DEF Commit
    <3>2. Recorded(Uid(r))
      BY <1>1, <2>1, <3>1, DuplicateIsRecorded DEF Processing
    <3> QED BY <1>1, <3>1, <3>2 DEF InSession
  <2>2. CASE ~Registered(ThisId(r))
    <3>1. /\ pc[r] = "commit" /\ mailbox' = mailbox /\ MessageDone(r)
          /\ \E row : /\ row.msg = MsgOf(r) /\ row.status # "NONE"
                      /\ Insert(ThisId(r), row, Uid(r))
      BY <1>11, <2>2 DEF Commit, ArchivedRow
    <3> QED BY <1>1, <1>6, <3>1 DEF MessageDone, Processing
  <2> QED BY <2>1, <2>2
<1>12. ASSUME CommitFails(r) PROVE Steady(r)
  BY <1>1, <1>12 DEF CommitFails, InSession
<1>13. ASSUME CommitUnacknowledged(r) PROVE Moves(r)
  <2>1. /\ pc[r] = "commit" /\ UNCHANGED <<mailbox, cursor>>
        /\ \E row : /\ row.msg = MsgOf(r) /\ row.status # "NONE"
                    /\ Insert(ThisId(r), row, Uid(r))
        /\ why' = [why EXCEPT ![r] = "PERSIST"] /\ pc' = [pc EXCEPT ![r] = "rollback"]
    BY <1>13 DEF CommitUnacknowledged, ArchivedRow
  <2> QED BY <1>1, <1>6, <2>1 DEF Processing
<1>14. ASSUME Rollback(r) \/ Refund(r) PROVE Steady(r)
  BY <1>1, <1>2, <1>14 DEF Rollback, Refund, SkippedAt, InSession
<1>15. ASSUME RegisterError(r) PROVE Moves(r)
  <2>1. pc[r] = "error" /\ pc[r] \in Processing /\ mailbox' = mailbox /\ MessageDone(r)
    BY <1>15 DEF RegisterError, Processing
  <2>2. \/ account' = account /\ Registered(ThisId(r))
        \/ \E row : /\ row.msg = MsgOf(r) /\ row.status # "NONE"
                    /\ Insert(ThisId(r), row, Uid(r))
        \/ account' = account /\ Spend("errtx")
    BY <1>15 DEF RegisterError
  <2>3. Registered(ThisId(r)) => Recorded(Uid(r))
    BY <1>1, <2>1, DuplicateIsRecorded
  <2>4. Spend("errtx") => SkipsAllowed'
    <3>1. "errtx" \in Event /\ TypeOK
      BY <1>1 DEF TypeInv, Event
    <3>2. Spend("errtx") => left'["errtx"] < left["errtx"] /\ left' \in [Event -> Nat]
      BY <3>1, SpendLess
    <3>3. left["errtx"] \in Nat /\ Budget["errtx"] \in Nat /\ left["errtx"] <= Budget["errtx"]
      BY <3>1, ConstantsAssumption DEF TypeOK, Spent
    <3>4. Spend("errtx") => left'["errtx"] < Budget["errtx"]
      BY <3>1, <3>2, <3>3
    <3> QED BY <3>1, <3>4 DEF SkipsAllowed, Happened
  <2> QED BY <1>1, <1>6, <2>1, <2>2, <2>3, <2>4 DEF MessageDone
<1> HIDE DEF Steady, Moves, Leaves
<1> QED BY <1>3, <1>4, <1>5, <1>7, <1>8, <1>9, <1>10, <1>11, <1>12, <1>13, <1>14, <1>15

LEMMA CursorProcesses ==
  ASSUME CursorInv, TypeInv', LockInv', Spent', NamesInv', [Next]_vars, NEW r \in Run,
         \/ EmptySource(r) \/ Lookup(r) \/ Skip(r) \/ PersistPlain(r) \/ QuotaCheck(r)
         \/ WriteTmp(r) \/ ReuseFile(r) \/ ChoosePath(r) \/ Rename(r) \/ Charge(r)
         \/ Commit(r) \/ CommitFails(r) \/ CommitUnacknowledged(r) \/ Rollback(r)
         \/ Refund(r) \/ RegisterError(r)
  PROVE  CursorInv'
<1>1. SkippedAt(r) /\ TypeInv /\ Spent /\ NamesInv
  BY DEF CursorInv, CursorAt, SkippedAt
<1>2. CASE Steady(r)
  BY <1>2, CursorSteady DEF Steady
<1>3. CASE Moves(r)
  BY <1>3, CursorMoves DEF Moves
<1>4. CASE Leaves(r)
  BY <1>4, CursorQuiet DEF Leaves, InSync, InSession
<1> QED BY <1>1, <1>2, <1>3, <1>4, ProcessSteps

LEMMA CursorOutside ==
  ASSUME Budget["rewind"] = 0, CursorInv, TypeInv', LockInv', Spent', NamesInv', [Next]_vars,
         World \/ ExpireLock \/ UNCHANGED vars
  PROVE  CursorInv'
<1> USE DEF dbVars, worldVars, walkVars
<1>1. /\ account \in Account /\ snap \in [Run -> Account] /\ cursor \in [Run -> Nat]
      /\ mailbox \in [epoch : Nat \ {0}, msgs : Seq(Msg)]
      /\ TypeInv /\ \A r \in Run : CursorAt(r)
      /\ account.uidValidity = 0 => account.lastUid = 0
  BY DEF CursorInv, TypeInv, TypeOK
<1>2. UNCHANGED <<pc, why, snap, cursor, rows>>
  BY DEF World, Deliver, NewUidValidity, ResyncFrom, OperatorRewind, ChangePlan,
     ExpireLock, vars
<1>3. \A d : ~OperatorRewind(d)
  <2>1. left["rewind"] <= 0 /\ left["rewind"] \in Nat
    BY <1>1 DEF CursorInv, Spent, TypeInv, TypeOK, Event
  <2> QED BY <2>1 DEF OperatorRewind, Spend
<1>4. account'.uidValidity = account.uidValidity /\ account'.lastUid = account.lastUid
  BY <1>1, <1>3 DEF World, Deliver, NewUidValidity, ResyncFrom, ChangePlan, ExpireLock,
     vars, Account
<1>5. SkipsAllowed => SkipsAllowed'
  BY SkipsStayAllowed DEF CursorInv
<1>6. CASE NewUidValidity
  <2>1. \A r \in Run : pc[r] \notin InSession
    BY <1>6 DEF NewUidValidity
  <2>2. ASSUME NEW r \in Run PROVE CursorAt(r)'
    BY <1>1, <1>2, <1>4, <2>1 DEF CursorAt, InSession
  <2> QED BY <1>1, <1>4, <2>2 DEF CursorInv
<1>7. CASE ~NewUidValidity
  <2>1. /\ mailbox'.epoch = mailbox.epoch
        /\ \A u \in Nat \ {0} : Recorded(u) => Recorded(u)'
    <3>1. CASE \E m \in Msg : Deliver(m)
      <4>1. PICK m \in Msg : mailbox' = [mailbox EXCEPT !.msgs = Append(@, m)]
        BY <3>1 DEF Deliver
      <4>2. /\ mailbox'.epoch = mailbox.epoch /\ mailbox.msgs \in Seq(Msg)
            /\ mailbox'.msgs = Append(mailbox.msgs, m)
        BY <1>1, <4>1
      <4>3. \A u \in Nat \ {0} : u <= Len(mailbox.msgs) =>
               u <= Len(mailbox'.msgs) /\ mailbox'.msgs[u] = mailbox.msgs[u]
        BY <4>2
      <4> QED BY <1>2, <4>2, <4>3 DEF Recorded, Archived, Registered
    <3>2. CASE ~(\E m \in Msg : Deliver(m))
      <4>1. mailbox' = mailbox
        BY <1>7, <3>2 DEF World, ResyncFrom, OperatorRewind, ChangePlan, ExpireLock, vars
      <4> QED BY <1>2, <4>1 DEF Recorded, Archived, Registered
    <3> QED BY <3>1, <3>2
  <2>2. ASSUME NEW r \in Run PROVE CursorAt(r)'
    <3>1. CursorAt(r) /\ cursor[r] \in Nat /\ Uid(r) \in Nat \ {0} /\ Uid(r)' = Uid(r)
      BY <1>1, <1>2 DEF Uid
    <3>2. Recorded(Uid(r)) => Recorded(Uid(r))'
      BY <1>2, <2>1, <3>1 DEF Recorded
    <3>3. ASSUME SkipsAllowed \/ \A u \in 1..cursor[r] : u <= account.lastUid \/ Recorded(u)
          PROVE  SkipsAllowed' \/ \A u \in 1..cursor'[r] :
                                    u <= account'.lastUid \/ Recorded(u)'
      BY <1>2, <1>4, <1>5, <2>1, <3>1, <3>3
    <3> QED BY <1>2, <1>4, <2>1, <3>1, <3>2, <3>3 DEF CursorAt, SkipsAllowed, InSession
  <2> QED BY <1>1, <1>4, <2>2 DEF CursorInv
<1> QED BY <1>6, <1>7

LEMMA CursorInvInit == Init => CursorInv
<1> SUFFICES ASSUME Init PROVE CursorInv
  OBVIOUS
<1>1. Spent
  BY ConstantsAssumption DEF Init, Spent
<1>2. NamesInv
  BY DEF Init, NamesInv, Registered, NoRow
<1>3. \A r \in Run : CursorAt(r)
  BY DEF Init, CursorAt, InSession
<1>4. account.lastUid = 0
  BY DEF Init
<1> QED BY <1>1, <1>2, <1>3, <1>4, TypeInvInit, LockInvInit DEF CursorInv

LEMMA CursorInvStep ==
  ASSUME Slow = {}, Budget["rewind"] = 0, SyntheticNamesLast, CursorInv, [Next]_vars
  PROVE  CursorInv'
<1>1. TypeInv' /\ LockInv' /\ Spent' /\ NamesInv'
  BY TypeInvStep, LockInvStep, SpentStep, RowsKeepNames DEF CursorInv, CursorAt
<1>2. ASSUME NEW r \in Run, Acquire(r) \/ RunStep(r) \/ Fault(r) PROVE CursorInv'
  BY <1>1, <1>2, CursorQuietSteps, CursorOpens, CursorProcesses
     DEF RunStep, ProcessMessage, SaveAttachment, Fault
<1> QED BY <1>1, <1>2, CursorOutside DEF Next

(* The steps that change the numbers the account keeps of the mailbox.     *)
LEMMA CursorWriter ==
  ASSUME Budget["rewind"] = 0, CursorInv, [Next]_vars,
         \/ account'.lastUid # account.lastUid
         \/ account'.uidValidity # account.uidValidity
  PROVE  \E r \in Run : \/ OpenMailbox(r) \/ FirstSync(r) \/ Skip(r) \/ PersistPlain(r)
                        \/ Commit(r) \/ CommitUnacknowledged(r) \/ RegisterError(r)
<1> USE DEF dbVars
<1>1. account \in Account /\ left["rewind"] <= 0 /\ left["rewind"] \in Nat
  BY DEF CursorInv, Spent, TypeInv, TypeOK, Event
<1>2. ~World /\ ~ExpireLock /\ ~UNCHANGED vars
  <2>1. ASSUME NEW d PROVE ~ResyncFrom(d)
    BY <1>1 DEF ResyncFrom, Account
  <2>2. ASSUME NEW d PROVE ~OperatorRewind(d)
    BY <1>1 DEF OperatorRewind, Spend
  <2>3. (\E m \in Msg : Deliver(m)) \/ NewUidValidity \/ (\E q \in Quotas : ChangePlan(q))
           \/ ExpireLock \/ UNCHANGED vars => account' = account
    BY DEF Deliver, NewUidValidity, ChangePlan, ExpireLock, vars
  <2> QED BY <2>1, <2>2, <2>3 DEF World
<1>3. PICK r \in Run : Acquire(r) \/ RunStep(r) \/ Fault(r)
  BY <1>2 DEF Next
<1>4. /\ ~Acquire(r) /\ ~ReadAccount(r) /\ ~CleanOrphanTmp(r) /\ ~Fetch(r)
      /\ ~NextMessage(r)
  BY DEF Acquire, ReadAccount, CleanOrphanTmp, Fetch, NextMessage
<1>5. /\ ~Finish(r) /\ ~FinalizeSyncLog(r) /\ ~SumUsage(r) /\ ~ReconcileUsage(r)
      /\ ~Release(r) /\ ~Unlock(r)
  BY <1>1 DEF Finish, FinalizeSyncLog, SumUsage, ReconcileUsage, Release, Unlock, Account
<1>6. ~Lookup(r) /\ ~QuotaCheck(r) /\ ~SaveAttachment(r) /\ ~Rollback(r) /\ ~Refund(r)
  BY DEF Lookup, QuotaCheck, SaveAttachment, WriteTmp, ReuseFile, ChoosePath,
     HashCollision, Rename, Charge, Rollback, Refund
<1>7. ~EmptySource(r) /\ ~CommitFails(r) /\ ~Abort(r) /\ ~Crash(r)
  BY DEF EmptySource, CommitFails, Abort, Crash
<1> QED BY <1>3, <1>4, <1>5, <1>6, <1>7 DEF RunStep, ProcessMessage, Fault

(* A step that moves the cursor to the message it is about leaves behind   *)
(* it only messages that the account had passed or that have a row.        *)
LEMMA NothingBehind ==
  ASSUME CursorInv, [Next]_vars, NEW r \in Run, pc[r] \in Processing,
         mailbox' = mailbox, account'.uidValidity = account.uidValidity,
         account'.lastUid = Uid(r), NEW m, m = MsgOf(r), Archived(m)',
         ~SkipsAllowed, NEW u \in 1..account'.lastUid
  PROVE  \/ u <= account.lastUid /\ account'.uidValidity = account.uidValidity
         \/ (u <= Len(mailbox.msgs) /\ Archived(mailbox.msgs[u]))'
<1>1. TypeInv /\ cursor[r] \in Nat
  BY DEF CursorInv, TypeInv, TypeOK
<1>2. u \in 1..cursor[r] \/ u = Uid(r)
  BY <1>1 DEF Uid
<1>3. \A v \in 1..cursor[r] : v <= account.lastUid \/ Recorded(v)
  BY DEF CursorInv, CursorAt, SkipsAllowed, Processing, InSession
<1>4. Recorded(u) => (u <= Len(mailbox.msgs) /\ Archived(mailbox.msgs[u]))'
  BY <1>1, ArchivedStays DEF Recorded
<1>5. u = Uid(r) => /\ u <= Len(mailbox'.msgs)
                    /\ mailbox'.msgs[u] = m
  BY <1>1, MessageAtHand DEF MsgOf
<1>6. u = Uid(r) => (u <= Len(mailbox.msgs) /\ Archived(mailbox.msgs[u]))'
  BY <1>5 DEF Archived
<1>7. u <= account.lastUid \/ Recorded(u) \/ u = Uid(r)
  BY <1>2, <1>3
<1> QED BY <1>4, <1>6, <1>7

Skipless ==
  \/ \E r \in Run : pc[r] = "first" /\ pc'[r] = "fetch"
  \/ "errtx" \in Happened
  \/ \A u \in 1..account'.lastUid :
        \/ u <= account.lastUid /\ account'.uidValidity = account.uidValidity
        \/ (u <= Len(mailbox.msgs) /\ Archived(mailbox.msgs[u]))'
        \/ u <= Len(mailbox.msgs) /\ Day[mailbox.msgs[u]] < account.syncFrom

LEMMA SkiplessStep ==
  ASSUME Budget["rewind"] = 0, CursorInv, [Next]_vars
  PROVE  Skipless
<1> USE DEF dbVars, worldVars
<1>1. /\ TypeInv /\ NamesInv /\ account \in Account /\ account' \in Account
      /\ pc \in [Run -> InSync \cup {"idle"}] /\ rows \in [MessageId -> Row]
      /\ mailbox \in [epoch : Nat \ {0}, msgs : Seq(Msg)]
  BY TypeInvStep DEF CursorInv, TypeInv, TypeOK
<1>2. CASE account'.lastUid = account.lastUid /\ account'.uidValidity = account.uidValidity
  BY <1>1, <1>2 DEF Skipless, Account
<1>3. CASE SkipsAllowed
  BY <1>3 DEF Skipless, SkipsAllowed
<1>4. CASE /\ ~SkipsAllowed
           /\ ~(/\ account'.lastUid = account.lastUid
                /\ account'.uidValidity = account.uidValidity)
  <2>1. PICK r \in Run : \/ OpenMailbox(r) \/ FirstSync(r) \/ Skip(r) \/ PersistPlain(r)
                         \/ Commit(r) \/ CommitUnacknowledged(r) \/ RegisterError(r)
    BY <1>4, CursorWriter
  <2>2. CASE OpenMailbox(r)
    <3>1. /\ snap[r].lastUid = account.lastUid /\ snap[r].uidValidity = account.uidValidity
          /\ account.uidValidity = 0 => account.lastUid = 0
      BY <2>2 DEF OpenMailbox, CursorInv, CursorAt
    <3>2. mailbox.epoch # snap[r].uidValidity /\ account'.lastUid = StartUid(r)
      BY <1>1, <1>4, <2>2 DEF OpenMailbox, Account
    <3>3. account'.lastUid = 0
      BY <3>1, <3>2 DEF StartUid
    <3> QED BY <3>3 DEF Skipless
  <2>3. CASE FirstSync(r)
    <3>1. pc[r] = "first" /\ pc'[r] = "fetch"
      BY <1>1, <2>3 DEF FirstSync, Go
    <3> QED BY <3>1 DEF Skipless
  <2>4. CASE Skip(r)
    <3>1. pc[r] = "skip" /\ pc[r] \in Processing /\ mailbox' = mailbox
      BY <2>4 DEF Skip, Processing
    <3>2. account'.lastUid = Uid(r) /\ account'.uidValidity = account.uidValidity
      BY <1>1, <2>4 DEF Skip, Account
    <3>3. PICK m : m = MsgOf(r)
      OBVIOUS
    <3>4. Archived(m)'
      <4>1. Archived(m)
        BY <3>1, <3>3 DEF CursorInv, CursorAt, Recorded, MsgOf
      <4> QED BY <1>1, <4>1, ArchivedStays
    <3>5. \A u \in 1..account'.lastUid :
             \/ u <= account.lastUid /\ account'.uidValidity = account.uidValidity
             \/ (u <= Len(mailbox.msgs) /\ Archived(mailbox.msgs[u]))'
      BY <1>4, <3>1, <3>2, <3>3, <3>4, NothingBehind
    <3> QED BY <3>5 DEF Skipless
  <2>5. CASE PersistPlain(r) \/ Commit(r) \/ CommitUnacknowledged(r) \/ RegisterError(r)
    <3>1. pc[r] \in Processing /\ mailbox' = mailbox
      BY <2>5 DEF PersistPlain, Commit, CommitUnacknowledged, RegisterError, Processing
    <3>2. \E row : row.msg = MsgOf(r) /\ row.status # "NONE" /\ Insert(ThisId(r), row, Uid(r))
      BY <1>4, <2>5 DEF PersistPlain, Commit, CommitUnacknowledged, RegisterError, ArchivedRow
    <3>3. PICK row : row.msg = MsgOf(r) /\ row.status # "NONE" /\ Insert(ThisId(r), row, Uid(r))
      BY <3>2
    <3>4. account'.lastUid = Uid(r) /\ account'.uidValidity = account.uidValidity
      BY <1>1, <3>3 DEF Insert, Account
    <3>5. PICK m : m = MsgOf(r)
      OBVIOUS
    <3>6. ThisId(r) \in MessageId /\ rows'[ThisId(r)] = row
      BY <1>1, <3>1, <3>3, MessageAtHand DEF Insert
    <3>7. Archived(m)'
      BY <3>3, <3>5, <3>6 DEF Archived, Registered
    <3>8. \A u \in 1..account'.lastUid :
             \/ u <= account.lastUid /\ account'.uidValidity = account.uidValidity
             \/ (u <= Len(mailbox.msgs) /\ Archived(mailbox.msgs[u]))'
      BY <1>4, <3>1, <3>4, <3>5, <3>7, NothingBehind
    <3> QED BY <3>8 DEF Skipless
  <2> QED BY <2>1, <2>2, <2>3, <2>4, <2>5
<1> QED BY <1>2, <1>3, <1>4

(* No message is lost behind the persisted cursor, whatever the crashes,   *)
(* duplicates, rollbacks, renumberings of the mailbox and changes of the   *)
(* starting date: as long as no run lasts longer than the lock, nobody     *)
(* rewinds the cursor under a run, and no synthetic identifier of a        *)
(* message without source or Message-ID outlives a renumbering.            *)
THEOREM NothingIsSkipped ==
  ASSUME Slow = {}, Budget["rewind"] = 0,
         Budget["epoch"] = 0 \/ (HasHeader = Msg /\ Budget["source"] = 0)
  PROVE  Spec => NoMessageSkipped
<1>1. SyntheticNamesLast
  BY DEF SyntheticNamesLast
<1>2. CursorInv /\ [Next]_vars => [Skipless]_vars
  BY SkiplessStep
<1>3. Spec => []CursorInv
  BY <1>1, CursorInvInit, CursorInvStep, PTL DEF Spec
<1> QED BY <1>2, <1>3, PTL DEF Spec, NoMessageSkipped, Skipless

-----------------------------------------------------------------------------
(***************************************************************************)
(* The first synchronisation. It starts before the first message that the  *)
(* server says is not older than the day before the date asked for, and a  *)
(* server that leaves that day out still reports the date itself.  From    *)
(* there the walk of a run leaves only messages with a row behind it,      *)
(* whoever else runs: no lock is needed.                                   *)
(***************************************************************************)
LEMMA FirstSyncCovers ==
  ASSUME TypeInv, TypeInv', NEW r \in Run, FirstSync(r), NEW u \in 1..cursor'[r]
  PROVE  u <= Len(mailbox.msgs) /\ Day[mailbox.msgs[u]] < snap[r].syncFrom
<1>1. /\ snap[r] \in Account /\ mailbox.msgs \in Seq(Msg) /\ pc[r] = "first"
      /\ hi[r] \in Nat /\ hi[r] <= Len(mailbox.msgs) /\ cursor \in [Run -> Nat]
      /\ cursor' \in [Run -> Nat]
  <2>1. pc[r] = "first" /\ pc[r] \in InSession
    BY DEF FirstSync, InSession
  <2>2. hi[r] <= Len(mailbox.msgs)
    BY <2>1 DEF TypeInv, WalkOK, WalkAt
  <2>3. /\ snap[r] \in Account /\ mailbox.msgs \in Seq(Msg) /\ cursor \in [Run -> Nat]
        /\ cursor' \in [Run -> Nat]
    BY DEF TypeInv, TypeOK
  <2>4. hi[r] \in Nat
    BY DEF TypeInv, TypeOK, Uids
  <2> QED BY <2>1, <2>2, <2>3, <2>4
<1>2. PICK start \in FirstSyncStartUid(r) : cursor' = [cursor EXCEPT ![r] = start]
  BY DEF FirstSync
<1>3. cursor'[r] = start /\ start \in Nat /\ snap[r].syncFrom \in Nat
  BY <1>1, <1>2 DEF Account
<1> DEFINE date == snap[r].syncFrom
           matches == SearchSince(date - SearchMargin)
<1>4. u \in 1..LastUid /\ u \notin matches
  <2>1. CASE matches = {}
    BY <1>1, <1>2, <1>3, <2>1 DEF FirstSyncStartUid, LastUid
  <2>2. CASE matches # {}
    <3>1. PICK first \in FirstOf(matches) : start = first - 1
      BY <1>2, <2>2 DEF FirstSyncStartUid
    <3>2. first \in matches /\ \A v \in matches : first <= v
      BY <3>1 DEF FirstOf
    <3>3. matches \subseteq 1..LastUid /\ LastUid \in Nat
      BY <1>1 DEF SearchSince, LastUid
    <3> HIDE DEF matches
    <3>4. u < first /\ first <= LastUid
      BY <1>3, <3>1, <3>2, <3>3
    <3> QED BY <3>2, <3>3, <3>4
  <2> QED BY <2>1, <2>2
<1>5. Day[mailbox.msgs[u]] \in Nat /\ u <= Len(mailbox.msgs)
  BY <1>1, <1>4, ConstantsAssumption DEF LastUid
<1> QED BY <1>3, <1>4, <1>5, ConstantsAssumption DEF SearchSince, SearchMargin

(* What a run in its first synchronisation has behind it: messages older   *)
(* than the date it read, and messages with a row.                         *)
Seen(r, u) ==
  /\ u <= Len(mailbox.msgs)
  /\ Day[mailbox.msgs[u]] < snap[r].syncFrom \/ Archived(mailbox.msgs[u])

SeenAt(r) ==
  /\ pc[r] \in InSession \ {"first"} /\ ~snap[r].synced =>
       SkipsAllowed \/ \A u \in 1..cursor[r] : Seen(r, u)
  /\ SkippedAt(r)

SeenInv ==
  /\ TypeInv
  /\ Spent
  /\ NamesInv
  /\ \A r \in Run : SeenAt(r)

LEMMA SeenStays ==
  ASSUME TypeInv, [Next]_vars, mailbox' = mailbox, NEW r, snap'[r] = snap[r]
  PROVE  \A u : Seen(r, u) => Seen(r, u)'
BY ArchivedStays DEF Seen

(* A run that keeps its place keeps what is behind it.                     *)
LEMMA SeenFrame ==
  ASSUME SeenInv, [Next]_vars, mailbox' = mailbox, NEW s \in Run,
         pc'[s] = pc[s], why'[s] = why[s], cursor'[s] = cursor[s], snap'[s] = snap[s]
  PROVE  SeenAt(s)'
<1>1. SeenAt(s) /\ TypeInv /\ Spent
  BY DEF SeenInv
<1>2. \A u : /\ Recorded(u) => Recorded(u)'
             /\ Seen(s, u) => Seen(s, u)'
  BY <1>1, RecordedStays, SeenStays
<1>3. SkipsAllowed => SkipsAllowed'
  BY <1>1, SkipsStayAllowed
<1>4. Uid(s)' = Uid(s)
  BY DEF Uid
<1>5. SkippedAt(s)'
  BY <1>1, <1>2, <1>4 DEF SeenAt, SkippedAt, Recorded
<1> QED BY <1>1, <1>2, <1>3, <1>5 DEF SeenAt

(* The steps of one run leave the memory of the others alone.              *)
LEMMA OthersUntouched ==
  ASSUME TypeInv, NEW r \in Run, Acquire(r) \/ RunStep(r) \/ Fault(r),
         NEW s \in Run \ {r}
  PROVE  pc'[s] = pc[s] /\ why'[s] = why[s] /\ cursor'[s] = cursor[s] /\ snap'[s] = snap[s]
<1> USE DEF Go, walkVars
<1>1. /\ pc \in [Run -> InSync \cup {"idle"}] /\ why \in [Run -> ErrorDetail]
      /\ cursor \in [Run -> Nat] /\ snap \in [Run -> Account]
  BY DEF TypeInv, TypeOK
<1>2. CASE \/ Acquire(r) \/ ReadAccount(r) \/ CleanOrphanTmp(r) \/ OpenMailbox(r)
           \/ Fetch(r) \/ NextMessage(r)
  BY <1>1, <1>2 DEF Acquire, ReadAccount, CleanOrphanTmp, OpenMailbox, Fetch, NextMessage
<1>3. CASE FirstSync(r)
  BY <1>1, <1>3 DEF FirstSync
<1>4. CASE \/ Finish(r) \/ FinalizeSyncLog(r) \/ SumUsage(r) \/ ReconcileUsage(r)
           \/ Release(r) \/ Unlock(r)
  BY <1>1, <1>4 DEF Finish, FinalizeSyncLog, SumUsage, ReconcileUsage, Release, Unlock,
     Forget
<1>5. CASE Lookup(r) \/ Skip(r) \/ QuotaCheck(r) \/ Refund(r) \/ Rollback(r)
  BY <1>1, <1>5 DEF Lookup, Skip, QuotaCheck, Refund, Rollback, MessageDone
<1>6. CASE PersistPlain(r)
  BY <1>1, <1>6 DEF PersistPlain, MessageDone
<1>7. CASE Commit(r)
  BY <1>1, <1>7 DEF Commit, MessageDone
<1>8. CASE RegisterError(r)
  BY <1>1, <1>8 DEF RegisterError, MessageDone
<1>9. CASE SaveAttachment(r)
  BY <1>1, <1>9 DEF SaveAttachment, WriteTmp, ReuseFile, ChoosePath, HashCollision,
     Rename, Charge, Keep
<1>10. CASE Fault(r)
  BY <1>1, <1>10 DEF Fault, EmptySource, CommitFails, CommitUnacknowledged, Abort, Crash,
     Forget
<1> QED BY <1>2, <1>3, <1>4, <1>5, <1>6, <1>7, <1>8, <1>9, <1>10
   DEF RunStep, ProcessMessage

(* The steps outside the session, and those that leave it.                 *)
LEMMA SeenQuietSteps ==
  ASSUME SeenInv, NEW r \in Run,
         \/ Acquire(r) \/ ReadAccount(r) \/ CleanOrphanTmp(r) \/ HashCollision(r)
         \/ Finish(r) \/ FinalizeSyncLog(r) \/ SumUsage(r) \/ ReconcileUsage(r)
         \/ Release(r) \/ Unlock(r) \/ Abort(r) \/ Crash(r)
  PROVE  SeenAt(r)'
<1> USE DEF Go, walkVars, InSession
<1>1. /\ pc \in [Run -> InSync \cup {"idle"}] /\ why \in [Run -> ErrorDetail]
      /\ SeenAt(r)
  BY DEF SeenInv, TypeInv, TypeOK
<1> DEFINE Quiet == pc'[r] \notin InSession /\ why'[r] \in {why[r], "none"}
<1>2. ASSUME \/ Acquire(r) \/ ReadAccount(r) \/ CleanOrphanTmp(r) \/ HashCollision(r)
             \/ Finish(r) \/ FinalizeSyncLog(r) \/ SumUsage(r) \/ ReconcileUsage(r)
      PROVE  Quiet
  BY <1>1, <1>2 DEF Acquire, ReadAccount, CleanOrphanTmp, HashCollision, Finish,
     FinalizeSyncLog, SumUsage, ReconcileUsage
<1>3. ASSUME Release(r) \/ Unlock(r) \/ Abort(r) \/ Crash(r) PROVE Quiet
  BY <1>1, <1>3 DEF Release, Unlock, Abort, Crash, Forget
<1>4. Quiet
  BY <1>2, <1>3
<1> QED BY <1>1, <1>4 DEF SeenAt, SkippedAt

(* From the account to the first message.                                  *)
LEMMA SeenOpens ==
  ASSUME SeenInv, TypeInv', [Next]_vars, NEW r \in Run,
         OpenMailbox(r) \/ FirstSync(r) \/ Fetch(r) \/ NextMessage(r)
  PROVE  SeenAt(r)'
<1> USE DEF Go, worldVars, walkVars
<1>1. /\ pc \in [Run -> InSync \cup {"idle"}] /\ TypeInv /\ SeenAt(r)
  BY DEF SeenInv, TypeInv, TypeOK
<1>2. CASE OpenMailbox(r)
  <2>1. /\ snap' = snap /\ why' = why
        /\ pc'[r] \in {"fetch", "first"} /\ (pc'[r] = "fetch" => snap[r].synced)
    BY <1>1, <1>2 DEF OpenMailbox
  <2> QED BY <1>1, <2>1 DEF SeenAt, SkippedAt
<1>3. CASE FirstSync(r)
  <2>1. snap' = snap /\ why' = why /\ mailbox' = mailbox /\ pc'[r] = "fetch"
    BY <1>1, <1>3 DEF FirstSync
  <2>2. \A u \in 1..cursor'[r] : Seen(r, u)'
    BY <1>1, <1>3, <2>1, FirstSyncCovers DEF Seen
  <2> QED BY <1>1, <2>1, <2>2 DEF SeenAt, SkippedAt
<1>4. CASE Fetch(r) \/ NextMessage(r)
  <2>1. /\ pc[r] \in InSession \ {"first"} /\ mailbox' = mailbox /\ cursor' = cursor
        /\ snap' = snap /\ why' = why /\ pc'[r] \in {"next", "lookup", "finish"}
    BY <1>1, <1>4 DEF Fetch, NextMessage, InSession
  <2>2. \A u : Seen(r, u) => Seen(r, u)'
    BY <1>1, <2>1, SeenStays
  <2>3. SkipsAllowed => SkipsAllowed'
    BY SkipsStayAllowed DEF SeenInv
  <2> QED BY <1>1, <2>1, <2>2, <2>3 DEF SeenAt, SkippedAt
<1> QED BY <1>2, <1>3, <1>4

(* processMessage goes on to the next message only past one with a row.    *)
LEMMA SeenProcesses ==
  ASSUME SeenInv, TypeInv', [Next]_vars, NEW r \in Run,
         \/ EmptySource(r) \/ Lookup(r) \/ Skip(r) \/ PersistPlain(r) \/ QuotaCheck(r)
         \/ WriteTmp(r) \/ ReuseFile(r) \/ ChoosePath(r) \/ Rename(r) \/ Charge(r)
         \/ Commit(r) \/ CommitFails(r) \/ CommitUnacknowledged(r) \/ Rollback(r)
         \/ Refund(r) \/ RegisterError(r)
  PROVE  SeenAt(r)'
<1>1. /\ TypeInv /\ Spent /\ NamesInv /\ SeenAt(r) /\ SkippedAt(r)
      /\ cursor \in [Run -> Nat]
  BY DEF SeenInv, SeenAt, TypeInv, TypeOK
<1>2. snap' = snap /\ mailbox' = mailbox
  BY DEF EmptySource, Lookup, Skip, PersistPlain, QuotaCheck, WriteTmp, ReuseFile,
     ChoosePath, Rename, Charge, Commit, CommitFails, CommitUnacknowledged, Rollback,
     Refund, RegisterError, walkVars, worldVars
<1>3. \A u : /\ Recorded(u) => Recorded(u)'
             /\ Seen(r, u) => Seen(r, u)'
  BY <1>1, <1>2, RecordedStays, SeenStays
<1>4. SkipsAllowed => SkipsAllowed'
  BY <1>1, SkipsStayAllowed
<1>5. \A u : Recorded(u)' => Seen(r, u)'
  BY DEF Seen, Recorded
<1>6. CASE Steady(r)
  <2>1. /\ pc[r] \in InSession \ {"first"} /\ cursor' = cursor
        /\ pc'[r] = "skip" => Recorded(Uid(r))
        /\ pc'[r] \in {"rollback", "refund"} /\ why'[r] = "DUPLICATE" => Recorded(Uid(r))
        /\ why'[r] = "NO_SOURCE" => Budget["source"] # 0
    BY <1>6 DEF Steady
  <2>2. Uid(r)' = Uid(r)
    BY <2>1 DEF Uid
  <2>3. Recorded(Uid(r)) => Recorded(Uid(r))'
    <3>1. PICK u : u = Uid(r)
      OBVIOUS
    <3> QED BY <1>3, <2>2, <3>1 DEF Recorded
  <2>4. SkippedAt(r)'
    BY <2>1, <2>3 DEF SkippedAt
  <2> QED BY <1>1, <1>2, <1>3, <1>4, <2>1, <2>4 DEF SeenAt
<1>7. CASE Moves(r)
  <2>1. /\ pc[r] \in InSession \ {"first"} /\ pc'[r] \in {"next", "rollback"}
        /\ cursor'[r] \in {cursor[r], Uid(r)} /\ why'[r] \in {"none", "PERSIST"}
        /\ \A u : u = Uid(r) => SkipsAllowed' \/ Recorded(u) \/ Recorded(u)'
    BY <1>7 DEF Moves, Processing, InSession
  <2>2. SkippedAt(r)'
    BY <2>1 DEF SkippedAt
  <2>3. ASSUME NEW u \in 1..cursor'[r], ~snap[r].synced
        PROVE  SkipsAllowed' \/ Seen(r, u)'
    <3>1. u \in 1..cursor[r] \/ u = Uid(r)
      BY <1>1, <2>1 DEF Uid
    <3>2. CASE u \in 1..cursor[r]
      BY <1>1, <1>3, <1>4, <2>1, <2>3, <3>2 DEF SeenAt
    <3>3. CASE u = Uid(r)
      BY <1>3, <1>5, <2>1, <3>3
    <3> QED BY <3>1, <3>2, <3>3
  <2> QED BY <1>2, <2>2, <2>3 DEF SeenAt
<1>8. CASE Leaves(r)
  BY <1>1, <1>8 DEF Leaves, SeenAt, SkippedAt, InSession
<1> QED BY <1>1, <1>6, <1>7, <1>8, ProcessSteps

(* The mailbox grows under a session, and is renumbered only without one.  *)
LEMMA SeenOutside ==
  ASSUME SeenInv, TypeInv', [Next]_vars, World \/ ExpireLock \/ UNCHANGED vars,
         NEW r \in Run
  PROVE  SeenAt(r)'
<1> USE DEF dbVars, worldVars, walkVars
<1>1. /\ TypeInv /\ Spent /\ SeenAt(r)
      /\ mailbox \in [epoch : Nat \ {0}, msgs : Seq(Msg)] /\ cursor \in [Run -> Nat]
  BY DEF SeenInv, TypeInv, TypeOK
<1>2. UNCHANGED <<pc, why, snap, cursor>>
  BY DEF World, Deliver, NewUidValidity, ResyncFrom, OperatorRewind, ChangePlan,
     ExpireLock, vars
<1>3. CASE mailbox' = mailbox
  BY <1>2, <1>3, SeenFrame
<1>4. CASE \E m \in Msg : Deliver(m)
  <2>1. PICK m \in Msg : mailbox' = [mailbox EXCEPT !.msgs = Append(@, m)]
    BY <1>4 DEF Deliver
  <2>2. mailbox.msgs \in Seq(Msg) /\ mailbox'.msgs = Append(mailbox.msgs, m)
    BY <1>1, <2>1
  <2>3. \A u \in Nat \ {0} : u <= Len(mailbox.msgs) =>
           u <= Len(mailbox'.msgs) /\ mailbox'.msgs[u] = mailbox.msgs[u]
    BY <2>2
  <2>4. \A u \in Nat \ {0} : /\ Recorded(u) => Recorded(u)'
                             /\ Seen(r, u) => Seen(r, u)'
    BY <1>1, <1>2, <2>3, ArchivedStays DEF Seen, Recorded
  <2>5. Uid(r) \in Nat \ {0} /\ Uid(r)' = Uid(r)
    BY <1>1, <1>2 DEF Uid
  <2>6. SkippedAt(r)'
    <3>1. Recorded(Uid(r)) => Recorded(Uid(r))'
      BY <2>4, <2>5 DEF Recorded
    <3> QED BY <1>1, <1>2, <3>1 DEF SeenAt, SkippedAt
  <2>7. SkipsAllowed => SkipsAllowed'
    BY <1>1, SkipsStayAllowed
  <2> QED BY <1>1, <1>2, <2>4, <2>6, <2>7 DEF SeenAt
<1>5. CASE NewUidValidity
  <2>1. pc[r] \notin InSession
    BY <1>5 DEF NewUidValidity
  <2> QED BY <1>1, <1>2, <2>1 DEF SeenAt, SkippedAt, InSession
<1> QED BY <1>3, <1>4, <1>5
   DEF World, ResyncFrom, OperatorRewind, ChangePlan, ExpireLock, vars

LEMMA SeenInvInit == Init => SeenInv
<1> SUFFICES ASSUME Init PROVE SeenInv
  OBVIOUS
<1>1. Spent
  BY ConstantsAssumption DEF Init, Spent
<1>2. NamesInv
  BY DEF Init, NamesInv, Registered, NoRow
<1>3. \A r \in Run : SeenAt(r)
  BY DEF Init, SeenAt, SkippedAt, InSession
<1> QED BY <1>1, <1>2, <1>3, TypeInvInit DEF SeenInv

LEMMA SeenInvStep ==
  ASSUME SyntheticNamesLast, SeenInv, [Next]_vars
  PROVE  SeenInv'
<1>1. TypeInv' /\ Spent' /\ NamesInv'
  BY TypeInvStep, SpentStep, RowsKeepNames DEF SeenInv, SeenAt, SkippedAt
<1>2. ASSUME NEW r \in Run, Acquire(r) \/ RunStep(r) \/ Fault(r), NEW s \in Run
      PROVE  SeenAt(s)'
  <2>1. CASE s = r
    BY <1>1, <1>2, <2>1, SeenQuietSteps, SeenOpens, SeenProcesses
       DEF RunStep, ProcessMessage, SaveAttachment, Fault
  <2>2. CASE s # r
    BY <1>2, <2>2, RunKeepsMailbox, OthersUntouched, SeenFrame DEF SeenInv
  <2> QED BY <2>1, <2>2
<1>3. ASSUME World \/ ExpireLock \/ UNCHANGED vars, NEW s \in Run PROVE SeenAt(s)'
  BY <1>1, <1>3, SeenOutside
<1> QED BY <1>1, <1>2, <1>3 DEF Next, SeenInv

(* A walk ends only where NextMessage finds nothing left to read.          *)
LEMMA OnlyNextMessage ==
  ASSUME TypeInv, [Next]_vars, NEW r \in Run, pc[r] = "next", pc'[r] = "finish"
  PROVE  NextMessage(r)
<1>1. pc \in [Run -> InSync \cup {"idle"}]
  BY DEF TypeInv, TypeOK
<1>2. ~World /\ ~ExpireLock /\ ~UNCHANGED vars
  BY DEF World, Deliver, NewUidValidity, ResyncFrom, OperatorRewind, ChangePlan,
     ExpireLock, vars
<1>3. PICK s \in Run : Acquire(s) \/ RunStep(s) \/ Fault(s)
  BY <1>2 DEF Next
<1>4. s = r
  BY <1>3, OthersUntouched
<1> USE DEF Go
<1>5. /\ ~Acquire(r) /\ ~ReadAccount(r) /\ ~CleanOrphanTmp(r) /\ ~OpenMailbox(r)
      /\ ~FirstSync(r) /\ ~Fetch(r)
  BY <1>1 DEF Acquire, ReadAccount, CleanOrphanTmp, OpenMailbox, FirstSync, Fetch
<1>6. /\ ~Finish(r) /\ ~FinalizeSyncLog(r) /\ ~SumUsage(r) /\ ~ReconcileUsage(r)
      /\ ~Release(r) /\ ~Unlock(r)
  BY DEF Finish, FinalizeSyncLog, SumUsage, ReconcileUsage, Release, Unlock
<1>7. ~ProcessMessage(r)
  BY DEF ProcessMessage, Lookup, Skip, PersistPlain, QuotaCheck, SaveAttachment, WriteTmp,
     ReuseFile, ChoosePath, HashCollision, Rename, Charge, Commit, Rollback, Refund,
     RegisterError
<1>8. ~Fault(r)
  BY <1>1 DEF Fault, EmptySource, CommitFails, CommitUnacknowledged, Abort, Crash, Forget
<1> QED BY <1>3, <1>4, <1>5, <1>6, <1>7, <1>8 DEF RunStep

CoversDate ==
  \A r \in Run : pc[r] = "next" /\ pc'[r] = "finish" /\ ~snap[r].synced =>
    \/ "errtx" \in Happened
    \/ \A u \in 1..hi[r] : \/ Day[mailbox.msgs[u]] < snap[r].syncFrom
                          \/ Archived(mailbox.msgs[u])

LEMMA CoversDateStep ==
  ASSUME SeenInv, [Next]_vars
  PROVE  CoversDate
<1> SUFFICES ASSUME NEW r \in Run, pc[r] = "next", pc'[r] = "finish", ~snap[r].synced,
                    ~SkipsAllowed, NEW u \in 1..hi[r]
             PROVE  Seen(r, u)
  BY DEF CoversDate, Seen, SkipsAllowed
<1>1. /\ TypeInv /\ SeenAt(r) /\ pc \in [Run -> InSync \cup {"idle"}]
      /\ cursor[r] \in Nat /\ hi[r] \in Nat
  <2>1. TypeInv /\ SeenAt(r)
    BY DEF SeenInv
  <2>2. pc \in [Run -> InSync \cup {"idle"}] /\ cursor \in [Run -> Nat]
    BY <2>1 DEF TypeInv, TypeOK
  <2>3. hi \in [Run -> Nat]
    BY <2>1, ConstantsAssumption DEF TypeInv, TypeOK, Uids
  <2> QED BY <2>1, <2>2, <2>3
<1>2. ~(cursor[r] < hi[r])
  BY <1>1, OnlyNextMessage DEF NextMessage, Go
<1>3. \A v \in 1..cursor[r] : Seen(r, v)
  BY <1>1 DEF SeenAt, InSession
<1> QED BY <1>1, <1>2, <1>3

(* A first synchronisation that reaches the end of the mailbox has left a  *)
(* row for every message of the date the account asked for or later: from  *)
(* its first UID to its last, through messages that fail, crashes, lost    *)
(* locks, races with other runs and changes of the date, and whichever way *)
(* the server reads SINCE. The hypothesis is the one of NothingIsSkipped   *)
(* on synthetic identifiers: a message without one of its own would be     *)
(* taken for the message that had its UID before a renumbering.            *)
THEOREM FirstSyncIsComplete ==
  ASSUME Budget["epoch"] = 0 \/ (HasHeader = Msg /\ Budget["source"] = 0)
  PROVE  Spec => FirstSyncCoversDate
<1>1. SyntheticNamesLast
  BY DEF SyntheticNamesLast
<1>2. SeenInv /\ [Next]_vars => [CoversDate]_vars
  BY CoversDateStep
<1>3. Spec => []SeenInv
  BY <1>1, SeenInvInit, SeenInvStep, PTL DEF Spec
<1> QED BY <1>2, <1>3, PTL DEF Spec, FirstSyncCoversDate, CoversDate
=============================================================================
