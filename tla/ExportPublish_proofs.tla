------------------------ MODULE ExportPublish_proofs ------------------------
(* Theorems about ExportPublish, for every value of its constants. *)
EXTENDS ExportPublish, TLAPS

\* The three parts of the data, in the order a publisher reads them.
LEMMA PartsFacts ==
  /\ Len(Parts) = 3
  /\ Parts[1] = "reviews" /\ Parts[2] = "pins" /\ Parts[3] = "policy"
BY DEF Parts

\* The rename units are nonempty, cover the files and do not overlap.
LEMMA UnitsFacts ==
  /\ ~MountedExport => Len(Units) = 1 /\ Units[1] = Files
  /\ MountedExport => /\ Len(Units) = 2
                      /\ Units[1] = {"by-article"} /\ Units[2] = {"index.json"}
BY DEF Units

LEMMA UnitsLen == Len(Units) \in {1, 2} /\ 1 \in 1 .. Len(Units)
<1>1. Len(Units) \in {1, 2}
  BY UnitsFacts, ExportAssumption
<1> QED BY <1>1

LEMMA UnitsFiles == ASSUME NEW u \in 1 .. Len(Units) PROVE Units[u] \subseteq Files
<1>1. u = 1 \/ u = 2
  BY UnitsLen
<1> QED BY <1>1, UnitsFacts, ExportAssumption DEF Files

\* One part past the last is read next when everything was read.
LEMMA PartsRange == 1 .. Len(Parts) + 1 = 1 .. 4
BY PartsFacts

-----------------------------------------------------------------------------
\* Type correctness.

LEMMA TypeInit == Init => TypeOK
<1> SUFFICES ASSUME Init PROVE TypeOK
  OBVIOUS
<1>1. MarkerTypeOK
  BY DEF Init, MarkerTypeOK
<1>2. FileTypeOK
  BY DEF Init, FileTypeOK
<1>3. PublisherTypeOK
  BY PartsRange, UnitsLen DEF Init, PublisherTypeOK
<1>4. BoundsTypeOK
  BY ExportAssumption DEF Init, BoundsTypeOK
<1> QED BY <1>1, <1>2, <1>3, <1>4 DEF TypeOK

LEMMA ResetType ==
  ASSUME PublisherTypeOK, NEW p \in Publishers, NEW s \in {"idle", "marking"},
         NEW t \in 0 .. clock, clock' = clock, Reset(p, s, t)
  PROVE  PublisherTypeOK'
BY PartsRange, UnitsLen DEF PublisherTypeOK, Reset

LEMMA EditType ==
  ASSUME TypeOK, NEW c \in Changes, Edit(c)
  PROVE  TypeOK'
<1> USE DEF TypeOK, history, marker, files, publisher, bounds
<1>1. CASE Commit(c)
  BY <1>1 DEF Commit, MarkerTypeOK, FileTypeOK, PublisherTypeOK, BoundsTypeOK
<1>2. CASE StampMark(c)
  <2>1. clock + 1 \in Nat /\ \A n \in 0 .. clock : n \in 0 .. clock + 1
    BY DEF MarkerTypeOK
  <2>2. MarkerTypeOK'
    BY <1>2, <2>1 DEF StampMark, MarkerTypeOK
  <2>3. PublisherTypeOK'
    BY <1>2, <2>1 DEF StampMark, PublisherTypeOK
  <2> QED BY <1>2, <2>2, <2>3 DEF StampMark, FileTypeOK, BoundsTypeOK
<1>3. CASE WriteMark(c)
  BY <1>3 DEF WriteMark, OvertakenBy, MarkerTypeOK, FileTypeOK, PublisherTypeOK, BoundsTypeOK
<1>4. CASE LoseMark(c)
  BY <1>4, ExportAssumption
  DEF LoseMark, MarkerTypeOK, FileTypeOK, PublisherTypeOK, BoundsTypeOK
<1> QED BY <1>1, <1>2, <1>3, <1>4 DEF Edit

LEMMA WakeType ==
  ASSUME TypeOK, Wake
  PROVE  TypeOK'
<1> USE DEF TypeOK, data, history, marker, files, bounds
<1>1. 0 \in 0 .. clock /\ {"auto", "manual", "refresh"} \subseteq Publishers
  BY DEF MarkerTypeOK, Publishers
<1>2. CASE AutoReadDirty
  BY <1>1, <1>2 DEF AutoReadDirty, MarkerTypeOK, FileTypeOK, PublisherTypeOK, BoundsTypeOK
<1>3. CASE AutoReadPublished
  <2>1. PublisherTypeOK'
    <3>1. CASE upTo["auto"] > publishedAt
      BY <1>1, <1>3, <3>1 DEF AutoReadPublished, PublisherTypeOK
    <3>2. CASE ~(upTo["auto"] > publishedAt)
      BY <1>1, <1>3, <3>2 DEF AutoReadPublished, PublisherTypeOK
    <3> QED BY <3>1, <3>2
  <2> QED BY <1>3, <2>1 DEF AutoReadPublished, MarkerTypeOK, FileTypeOK, BoundsTypeOK
<1>4. CASE PressPublish
  BY <1>1, <1>4, ExportAssumption
  DEF PressPublish, MarkerTypeOK, FileTypeOK, PublisherTypeOK, BoundsTypeOK
<1>5. CASE CrawlEnds
  BY <1>1, <1>5 DEF CrawlEnds, MarkerTypeOK, FileTypeOK, PublisherTypeOK, BoundsTypeOK
<1> QED BY <1>2, <1>3, <1>4, <1>5 DEF Wake

\* The steps under exportMu, and the mark that follows.
LEMMA WorkType ==
  ASSUME TypeOK, NEW p \in Publishers, LockExport(p) \/ Work(p)
  PROVE  TypeOK'
<1> USE DEF TypeOK, data, history, marker, files, bounds
<1>1. 0 \in 0 .. clock /\ upTo[p] \in 0 .. clock
  BY DEF MarkerTypeOK, PublisherTypeOK
<1>2. CASE LockExport(p)
  BY <1>2 DEF LockExport, MarkerTypeOK, FileTypeOK, PublisherTypeOK, BoundsTypeOK
<1>3. CASE ReadPart(p)
  <2>1. part[p] + 1 \in 1 .. Len(Parts) + 1
    <3>1. part[p] \in 1 .. 4 /\ part[p] <= 3
      BY <1>3, PartsFacts, PartsRange DEF ReadPart, PublisherTypeOK
    <3> QED BY <3>1, PartsRange
  <2>2. PublisherTypeOK'
    BY <1>3, <2>1 DEF ReadPart, PublisherTypeOK
  <2> QED BY <1>3, <2>2 DEF ReadPart, MarkerTypeOK, FileTypeOK, BoundsTypeOK
<1>4. CASE ReadPolicyFails(p)
  <2>1. part[p] + 1 \in 1 .. Len(Parts) + 1
    <3>1. part[p] \in 1 .. 4 /\ part[p] <= 3
      BY <1>4, PartsFacts, PartsRange DEF ReadPolicyFails, PublisherTypeOK
    <3> QED BY <3>1, PartsRange
  <2>2. PublisherTypeOK'
    BY <1>4, <2>1 DEF ReadPolicyFails, PublisherTypeOK
  <2>3. BoundsTypeOK'
    BY <1>4, ExportAssumption DEF ReadPolicyFails, BoundsTypeOK
  <2> QED BY <1>4, <2>2, <2>3 DEF ReadPolicyFails, MarkerTypeOK, FileTypeOK
<1>5. CASE Stage(p)
  <2>1. /\ clock + 1 \in Nat /\ clock + 1 \in 0 .. clock + 1
        /\ \A n \in 0 .. clock : n \in 0 .. clock + 1
    BY DEF MarkerTypeOK
  <2>2. CASE p = "manual"
    <3>1. MarkerTypeOK'
      BY <1>5, <2>1, <2>2 DEF Stage, LeftOut, MarkerTypeOK
    <3>2. PublisherTypeOK'
      BY <1>5, <2>1, <2>2 DEF Stage, PublisherTypeOK
    <3> QED BY <1>5, <3>1, <3>2 DEF Stage, FileTypeOK, BoundsTypeOK
  <2>3. CASE p # "manual"
    BY <1>5, <2>3 DEF Stage, MarkerTypeOK, FileTypeOK, PublisherTypeOK, BoundsTypeOK
  <2> QED BY <2>2, <2>3
<1>6. CASE MoveAside(p)
  <2>1. FileTypeOK'
    BY <1>6 DEF MoveAside, FileTypeOK
  <2>2. PublisherTypeOK'
    BY <1>6 DEF MoveAside, PublisherTypeOK
  <2> QED BY <1>6, <2>1, <2>2 DEF MoveAside, MarkerTypeOK, BoundsTypeOK
<1>7. CASE MoveIn(p)
  <2>1. FileTypeOK'
    BY <1>7 DEF MoveIn, FileTypeOK, PublisherTypeOK
  <2>2. PublisherTypeOK'
    <3>1. CASE unit[p] < Len(Units)
      <4>1. unit[p] \in Nat /\ unit[p] + 1 \in 1 .. Len(Units)
        BY <3>1, UnitsLen DEF PublisherTypeOK
      <4> QED BY <1>7, <3>1, <4>1 DEF MoveIn, PublisherTypeOK
    <3>2. CASE ~(unit[p] < Len(Units))
      BY <1>7, <3>2 DEF MoveIn, PublisherTypeOK
    <3> QED BY <3>1, <3>2
  <2> QED BY <1>7, <2>1, <2>2 DEF MoveIn, MarkerTypeOK, BoundsTypeOK
<1>8. CASE Unlock(p)
  <2>1. PublisherTypeOK'
    BY <1>1, <1>8, ResetType DEF Unlock
  <2>2. FileTypeOK'
    BY <1>8 DEF Unlock, FileTypeOK
  <2> QED BY <1>8, <2>1, <2>2 DEF Unlock, MarkerTypeOK, BoundsTypeOK
<1>9. CASE MarkExportPublished(p)
  BY <1>1, <1>9
  DEF MarkExportPublished, MarkerTypeOK, FileTypeOK, PublisherTypeOK, BoundsTypeOK
<1>10. CASE PublishFails(p)
  <2>1. PublisherTypeOK'
    BY <1>1, <1>10, ResetType DEF PublishFails
  <2>2. BoundsTypeOK'
    BY <1>10, ExportAssumption DEF PublishFails, BoundsTypeOK
  <2> QED BY <1>10, <2>1, <2>2 DEF PublishFails, MarkerTypeOK, FileTypeOK
<1>11. CASE MoveInFails(p)
  <2>1. PublisherTypeOK'
    BY <1>1, <1>11, ResetType DEF MoveInFails
  <2>2. BoundsTypeOK'
    BY <1>11, ExportAssumption DEF MoveInFails, BoundsTypeOK
  <2>3. FileTypeOK'
    BY <1>11 DEF MoveInFails, FileTypeOK
  <2> QED BY <1>11, <2>1, <2>2, <2>3 DEF MoveInFails, MarkerTypeOK
<1> QED BY <1>2, <1>3, <1>4, <1>5, <1>6, <1>7, <1>8, <1>9, <1>10, <1>11 DEF Work

LEMMA RestartType ==
  ASSUME TypeOK, ServerRestart
  PROVE  TypeOK'
<1> USE DEF TypeOK
<1>1. 0 \in 0 .. clock
  BY DEF MarkerTypeOK
<1>2. MarkerTypeOK'
  BY DEF ServerRestart, MarkerTypeOK, marker, history
<1>3. FileTypeOK'
  BY DEF ServerRestart, FileTypeOK
<1>4. PublisherTypeOK'
  BY <1>1, PartsRange, UnitsLen DEF ServerRestart, PublisherTypeOK
<1>5. BoundsTypeOK'
  BY ExportAssumption DEF ServerRestart, BoundsTypeOK
<1> QED BY <1>2, <1>3, <1>4, <1>5

LEMMA TypeNext == TypeOK /\ [Next]_vars => TypeOK'
<1> SUFFICES ASSUME TypeOK, [Next]_vars PROVE TypeOK'
  OBVIOUS
<1>1. CASE UNCHANGED vars
  BY <1>1 DEF vars, data, history, marker, files, publisher, bounds, TypeOK, MarkerTypeOK,
     FileTypeOK, PublisherTypeOK, BoundsTypeOK
<1> QED BY <1>1, EditType, WakeType, WorkType, RestartType DEF Next

\* Every variable keeps its type: in particular the two marker times were
\* really handed out by the clock, and no publisher reads or swaps past the end.
THEOREM ExportTypeCorrect == Spec => []TypeOK
BY TypeInit, TypeNext, PTL DEF Spec
-----------------------------------------------------------------------------
\* The lock, and what the holder has read.

Holding(p) == pc[p] \in {"reading", "staged", "swapping", "swapped"}
ReadBy(p, c) == \E i \in 1 .. 3 : i < part[p] /\ Parts[i] = PartOf[c]

\* One publisher is at work; the others have nothing in their hands.
LockInv ==
  \A p \in Publishers :
    /\ Holding(p) => exportMu = {p}
    /\ pc[p] \in {"staged", "swapping", "swapped"} => part[p] = 4
    /\ ~Holding(p) => part[p] = 1
    /\ pc[p] \notin {"staged", "swapping", "swapped"} => unit[p] = 1

Shows(file, c) == file # Missing /\ c \in file

\* What is served, was moved aside or was read had been committed.
CommittedInv ==
  /\ \A f \in Files, c \in Changes :
       Shows(live[f], c) \/ Shows(aside[f], c) => Visible(c)
  /\ \A p \in Publishers, c \in Changes : c \in snap[p] => Visible(c)

\* The holder of the lock has read what is served, if it has read that part.
ForwardInv ==
  \A p \in Publishers, c \in Changes :
    Holding(p) /\ ReadBy(p, c) /\ PartOf[c] # "policy" =>
      \A f \in Files :
        Shows(live[f], c) \/ (pc[p] = "swapping" /\ Shows(aside[f], c)) => c \in snap[p]

\* What a step of the publisher p does to the lock, its place and its reads.
LEMMA LockNext ==
  ASSUME TypeOK, LockInv, [Next]_vars
  PROVE  LockInv'
<1> USE DEF TypeOK, LockInv, Holding
<1>1. ASSUME NEW p \in Publishers, NEW s \in {"idle", "marking"}, NEW t, Reset(p, s, t)
      PROVE  LockInv'
  BY <1>1 DEF Reset, PublisherTypeOK
<1>2. CASE UNCHANGED publisher /\ UNCHANGED exportMu
  BY <1>2 DEF publisher
<1>3. CASE Wake
  BY <1>3 DEF Wake, AutoReadDirty, AutoReadPublished, PressPublish, CrawlEnds,
     PublisherTypeOK, Publishers
<1>4. CASE ServerRestart
  BY <1>4 DEF ServerRestart
<1>5. ASSUME NEW p \in Publishers, LockExport(p)
      PROVE  LockInv'
  BY <1>5 DEF LockExport, PublisherTypeOK
<1>6. ASSUME NEW p \in Publishers, ReadPart(p) \/ ReadPolicyFails(p)
      PROVE  LockInv'
  BY <1>6 DEF ReadPart, ReadPolicyFails, PublisherTypeOK
<1>7. ASSUME NEW p \in Publishers, Stage(p)
      PROVE  LockInv'
  <2>1. part[p] = 4
    <3>1. part[p] \in 1 .. 4 /\ part[p] > 3
      BY <1>7, PartsFacts, PartsRange DEF Stage, PublisherTypeOK
    <3> QED BY <3>1
  <2> QED BY <1>7, <2>1 DEF Stage, PublisherTypeOK
<1>8. ASSUME NEW p \in Publishers, MoveAside(p)
      PROVE  LockInv'
  BY <1>8 DEF MoveAside, PublisherTypeOK
<1>9. ASSUME NEW p \in Publishers, MoveIn(p)
      PROVE  LockInv'
  BY <1>9 DEF MoveIn, PublisherTypeOK
<1>10. ASSUME NEW p \in Publishers, Unlock(p) \/ PublishFails(p) \/ MoveInFails(p)
       PROVE  LockInv'
  BY <1>1, <1>10 DEF Unlock, PublishFails, MoveInFails
<1>11. ASSUME NEW p \in Publishers, MarkExportPublished(p)
       PROVE  LockInv'
  BY <1>11 DEF MarkExportPublished, PublisherTypeOK
<1>12. ASSUME NEW c \in Changes, Edit(c)
       PROVE  LockInv'
  BY <1>2, <1>12 DEF Edit, Commit, StampMark, WriteMark, LoseMark
<1>13. CASE UNCHANGED vars
  BY <1>2, <1>13 DEF vars
<1> QED BY <1>3, <1>4, <1>5, <1>6, <1>7, <1>8, <1>9, <1>10, <1>11, <1>12, <1>13
        DEF Next, Work

-----------------------------------------------------------------------------
\* A publisher never swaps in an older view.

\* A committed edit stays committed.
LEMMA VisibleStays ==
  ASSUME TypeOK, [Next]_vars, NEW c \in Changes, Visible(c)
  PROVE  Visible(c)'
<1> USE DEF TypeOK, MarkerTypeOK, Visible
<1>1. CASE UNCHANGED chg
  BY <1>1
<1>2. ASSUME NEW d \in Changes, Edit(d)
      PROVE  Visible(c)'
  BY <1>2 DEF Edit, Commit, StampMark, WriteMark, LoseMark
<1>3. CASE ServerRestart
  BY <1>3 DEF ServerRestart
<1>4. CASE Wake
  BY <1>1, <1>4 DEF Wake, AutoReadDirty, AutoReadPublished, PressPublish, CrawlEnds, data
<1>5. ASSUME NEW p \in Publishers, LockExport(p) \/ Work(p)
      PROVE  Visible(c)'
  BY <1>1, <1>5 DEF LockExport, Work, ReadPart, ReadPolicyFails, Stage, MoveAside, MoveIn,
     Unlock, MarkExportPublished, PublishFails, MoveInFails, data
<1>6. CASE UNCHANGED vars
  BY <1>1, <1>6 DEF vars, data
<1> QED BY <1>2, <1>3, <1>4, <1>5, <1>6 DEF Next

LEMMA CommittedNext ==
  ASSUME TypeOK, CommittedInv, [Next]_vars
  PROVE  CommittedInv'
<1> USE DEF CommittedInv, Shows
<1>1. \A c \in Changes : Visible(c) => Visible(c)'
  BY VisibleStays
<1>2. CASE UNCHANGED <<files, snap>>
  BY <1>1, <1>2 DEF files
<1>3. ASSUME NEW p \in Publishers, NEW s, NEW t, Reset(p, s, t),
             UNCHANGED files \/ (aside' = [f \in Files |-> Missing] /\ UNCHANGED live)
      PROVE  CommittedInv'
  BY <1>1, <1>3 DEF Reset, files, TypeOK, PublisherTypeOK
<1>4. ASSUME NEW p \in Publishers, LockExport(p) \/ Work(p)
      PROVE  CommittedInv'
  <2>1. CASE LockExport(p) \/ Stage(p) \/ ReadPolicyFails(p) \/ MarkExportPublished(p)
    BY <1>2, <2>1 DEF LockExport, Stage, ReadPolicyFails, MarkExportPublished
  <2>2. CASE ReadPart(p)
    BY <1>1, <2>2 DEF ReadPart, files, TypeOK, PublisherTypeOK
  <2>3. CASE MoveAside(p)
    BY <1>1, <2>3 DEF MoveAside
  <2>4. CASE MoveIn(p)
    BY <1>1, <2>4 DEF MoveIn
  <2>5. CASE Unlock(p) \/ PublishFails(p)
    BY <1>3, <2>5 DEF Unlock, PublishFails
  <2>6. CASE MoveInFails(p)
    BY <1>1, <2>6 DEF MoveInFails, Reset, TypeOK, PublisherTypeOK
  <2> QED BY <1>4, <2>1, <2>2, <2>3, <2>4, <2>5, <2>6 DEF Work
<1>5. CASE Wake
  BY <1>2, <1>5 DEF Wake, AutoReadDirty, AutoReadPublished, PressPublish, CrawlEnds
<1>6. ASSUME NEW c \in Changes, Edit(c)
      PROVE  CommittedInv'
  BY <1>2, <1>6 DEF Edit, Commit, StampMark, WriteMark, LoseMark, publisher
<1>7. CASE ServerRestart
  BY <1>1, <1>7 DEF ServerRestart
<1>8. CASE UNCHANGED vars
  BY <1>2, <1>8 DEF vars, publisher
<1> QED BY <1>4, <1>5, <1>6, <1>7, <1>8 DEF Next

LEMMA ForwardNext ==
  ASSUME TypeOK, LockInv, CommittedInv, ForwardInv, [Next]_vars
  PROVE  ForwardInv'
<1>1. ASSUME UNCHANGED <<files, pc, part, snap>>
      PROVE  ForwardInv'
  BY <1>1 DEF ForwardInv, Holding, ReadBy, files
<1>2. ASSUME NEW p \in Publishers, NEW s \in {"idle", "marking"}, NEW t,
             Holding(p), Reset(p, s, t)
      PROVE  ForwardInv'
  <2>1. \A q \in Publishers : ~Holding(q)'
    BY <1>2 DEF Reset, Holding, LockInv, TypeOK, PublisherTypeOK
  <2> QED BY <2>1 DEF ForwardInv
<1>3. ASSUME UNCHANGED <<files, part, snap>>,
             \A q \in Publishers :
                Holding(q)' =>
                  (Holding(q) \/ part[q] = 1) /\ (pc'[q] = pc[q] \/ pc'[q] # "swapping")
      PROVE  ForwardInv'
  <2>1. \A q \in Publishers, c \in Changes : ReadBy(q, c) => part[q] # 1
    BY DEF ReadBy, TypeOK, PublisherTypeOK
  <2>2. ASSUME NEW q \in Publishers, NEW c \in Changes, NEW f \in Files,
               Holding(q)', ReadBy(q, c)', PartOf[c] # "policy",
               Shows(live[f], c) \/ (pc'[q] = "swapping" /\ Shows(aside[f], c))
        PROVE  c \in snap[q]
    <3>1. ReadBy(q, c)
      BY <1>3, <2>2 DEF ReadBy
    <3>2. Holding(q) /\ (pc'[q] = "swapping" => pc[q] = "swapping")
      BY <1>3, <2>1, <2>2, <3>1 DEF Holding
    <3> QED BY <2>2, <3>1, <3>2 DEF ForwardInv
  <2>3. live' = live /\ aside' = aside /\ snap' = snap
    BY <1>3 DEF files
  <2> QED BY <2>2, <2>3 DEF ForwardInv
<1>4. ASSUME NEW p \in Publishers, LockExport(p) \/ Work(p)
      PROVE  ForwardInv'
  <2>1. CASE LockExport(p) \/ Stage(p)
    <3>1. \A q \in Publishers :
              Holding(q)' =>
                (Holding(q) \/ part[q] = 1) /\ (pc'[q] = pc[q] \/ pc'[q] # "swapping")
      BY <2>1 DEF LockExport, Stage, Holding, LockInv, TypeOK, PublisherTypeOK
    <3> QED BY <1>3, <2>1, <3>1 DEF LockExport, Stage
  <2>2. CASE ReadPart(p)
    <3>1. ASSUME NEW q \in Publishers, NEW c \in Changes, NEW f \in Files,
                 Holding(q)', ReadBy(q, c)', PartOf[c] # "policy",
                 Shows(live[f], c) \/ (pc'[q] = "swapping" /\ Shows(aside[f], c))
          PROVE  c \in snap'[q]
      <4>1. CASE ReadBy(q, c)
        BY <2>2, <3>1, <4>1 DEF ForwardInv, ReadPart, Holding, TypeOK, PublisherTypeOK
      <4>2. CASE ~ReadBy(q, c)
        <5>1. q = p /\ Parts[part[p]] = PartOf[c]
          BY <2>2, <3>1, <4>2 DEF ReadPart, ReadBy, TypeOK, PublisherTypeOK
        <5>2. Visible(c)
          BY <3>1 DEF CommittedInv
        <5> QED BY <2>2, <5>1, <5>2 DEF ReadPart, TypeOK, PublisherTypeOK
      <4> QED BY <4>1, <4>2
    <3> QED BY <2>2, <3>1 DEF ForwardInv, ReadPart, files
  <2>3. CASE ReadPolicyFails(p)
    <3>1. \A q \in Publishers, c \in Changes :
            PartOf[c] # "policy" /\ ReadBy(q, c)' => ReadBy(q, c)
      BY <2>3 DEF ReadPolicyFails, ReadBy, TypeOK, PublisherTypeOK
    <3> QED BY <2>3, <3>1 DEF ForwardInv, ReadPolicyFails, Holding, files
  <2>4. CASE MoveAside(p)
    <3>1. \A q \in Publishers : Holding(q)' => Holding(q) /\ (pc'[q] = "swapping" => q = p)
      BY <2>4 DEF MoveAside, Holding, LockInv, TypeOK, PublisherTypeOK
    <3>2. \A f \in Files, c \in Changes :
            Shows(live'[f], c) \/ Shows(aside'[f], c) => Shows(live[f], c)
      BY <2>4 DEF MoveAside, Shows
    <3>3. \A q \in Publishers, c \in Changes : ReadBy(q, c)' <=> ReadBy(q, c)
      BY <2>4 DEF MoveAside, ReadBy
    <3> QED BY <2>4, <3>1, <3>2, <3>3 DEF ForwardInv, MoveAside
  <2>5. CASE MoveIn(p)
    <3>1. \A q \in Publishers : Holding(q)' => q = p /\ Holding(q)
      <4>1. \A q \in Publishers : Holding(q) => q = p
        BY <2>5 DEF MoveIn, Holding, LockInv
      <4>2. Holding(p) /\ \A q \in Publishers : q # p => pc'[q] = pc[q]
        BY <2>5 DEF MoveIn, Holding, TypeOK, PublisherTypeOK
      <4> QED BY <4>1, <4>2 DEF Holding
    <3>2. \A f \in Files, c \in Changes :
            Shows(live'[f], c) => Shows(live[f], c) \/ c \in snap[p]
      BY <2>5 DEF MoveIn, Shows
    <3>3. \A c \in Changes : ReadBy(p, c)' <=> ReadBy(p, c)
      BY <2>5 DEF MoveIn, ReadBy
    <3>4. pc'[p] # "swapping"
      BY <2>5 DEF MoveIn, TypeOK, PublisherTypeOK
    <3> QED BY <2>5, <3>1, <3>2, <3>3, <3>4 DEF ForwardInv, MoveIn
  <2>6. CASE Unlock(p) \/ MoveInFails(p)
    BY <1>2, <2>6 DEF Unlock, MoveInFails, Holding
  <2>7. CASE PublishFails(p)
    <3>1. CASE Holding(p)
      BY <1>2, <2>7, <3>1 DEF PublishFails
    <3>2. CASE ~Holding(p)
      <4>1. \A q \in Publishers : Holding(q)' =>
              /\ q # p /\ Holding(q) /\ pc'[q] = pc[q]
              /\ part'[q] = part[q] /\ snap'[q] = snap[q]
        BY <2>7, <3>2 DEF PublishFails, Reset, Holding, TypeOK, PublisherTypeOK
      <4>2. \A q \in Publishers, c \in Changes :
              Holding(q)' /\ ReadBy(q, c)' => ReadBy(q, c)
        BY <4>1 DEF ReadBy
      <4> QED BY <2>7, <4>1, <4>2 DEF ForwardInv, PublishFails, files
    <3> QED BY <3>1, <3>2
  <2>8. CASE MarkExportPublished(p)
    <3>1. \A q \in Publishers : Holding(q)' => Holding(q) /\ pc'[q] = pc[q]
      BY <2>8 DEF MarkExportPublished, Holding, TypeOK, PublisherTypeOK
    <3> QED BY <1>3, <2>8, <3>1 DEF MarkExportPublished
  <2> QED BY <1>4, <2>1, <2>2, <2>3, <2>4, <2>5, <2>6, <2>7, <2>8 DEF Work
<1>5. CASE Wake
  <2>1. \A q \in Publishers : Holding(q)' => Holding(q) /\ pc'[q] = pc[q]
    BY <1>5 DEF Wake, AutoReadDirty, AutoReadPublished, PressPublish, CrawlEnds,
       Holding, TypeOK, PublisherTypeOK
  <2> QED BY <1>3, <1>5, <2>1
          DEF Wake, AutoReadDirty, AutoReadPublished, PressPublish, CrawlEnds
<1>6. ASSUME NEW c \in Changes, Edit(c)
      PROVE  ForwardInv'
  BY <1>1, <1>6 DEF Edit, Commit, StampMark, WriteMark, LoseMark, publisher
<1>7. CASE ServerRestart
  <2>1. \A q \in Publishers : ~Holding(q)'
    BY <1>7 DEF ServerRestart, Holding
  <2> QED BY <2>1 DEF ForwardInv
<1>8. CASE UNCHANGED vars
  BY <1>1, <1>8 DEF vars, publisher
<1> QED BY <1>4, <1>5, <1>6, <1>7, <1>8 DEF Next

LEMMA ForwardSuffices ==
  ASSUME TypeOK, LockInv, ForwardInv
  PROVE  ExportMovesForward
<1> SUFFICES ASSUME NEW p \in Publishers, pc[p] = "swapping", NEW f \in Units[unit[p]],
                    aside[f] # Missing, NEW c \in aside[f], PartOf[c] # "policy"
             PROVE  c \in snap[p]
  BY DEF ExportMovesForward
<1>1. f \in Files
  <2>1. unit[p] \in 1 .. Len(Units)
    BY DEF TypeOK, PublisherTypeOK
  <2> QED BY <2>1, UnitsFiles
<1>2. c \in Changes
  BY <1>1 DEF TypeOK, FileTypeOK
<1>3. ReadBy(p, c)
  <2>1. PartOf[c] \in {"reviews", "pins", "policy"}
    BY <1>2, ExportAssumption
  <2> QED BY <2>1, PartsFacts DEF ReadBy, LockInv
<1> QED BY <1>1, <1>2, <1>3 DEF ForwardInv, Holding, Shows

ForwardIInv == TypeOK /\ LockInv /\ CommittedInv /\ ForwardInv

LEMMA ForwardInit == Init => ForwardIInv
<1> SUFFICES ASSUME Init PROVE ForwardIInv
  OBVIOUS
<1>1. TypeOK
  BY TypeInit
<1>2. LockInv
  BY DEF Init, LockInv, Holding
<1>3. CommittedInv
  BY DEF Init, CommittedInv, Shows
<1>4. ForwardInv
  BY DEF Init, ForwardInv, Holding
<1> QED BY <1>1, <1>2, <1>3, <1>4 DEF ForwardIInv

LEMMA ForwardInvariant == Spec => []ForwardIInv
<1>1. ForwardIInv /\ [Next]_vars => ForwardIInv'
  BY TypeNext, LockNext, CommittedNext, ForwardNext DEF ForwardIInv
<1> QED BY ForwardInit, <1>1, PTL DEF Spec

\* Whatever the publishers, edits, failures and restarts do, no publisher
\* replaces a file by an older view of the reviews and the pins.
THEOREM NeverOlder == Spec => []ExportMovesForward
<1>1. ForwardIInv => ExportMovesForward
  BY ForwardSuffices DEF ForwardIInv
<1> QED BY <1>1, ForwardInvariant, PTL

-----------------------------------------------------------------------------
\* Nothing marked is forgotten: what the published mark covers is served.

\* A mark that no older one was written over is not newer than the dirty mark.
OrderInv ==
  \A c \in Changes : chg[c] = "marked" => stamp[c] <= dirtyAt \/ c \in overtaken

\* The files whose swap is over hold what the publisher read.
SwapInv ==
  \A p \in Publishers, f \in Files :
    /\ pc[p] = "swapped" => live[f] = snap[p]
    /\ pc[p] \in {"staged", "swapping"} /\ unit[p] = 2 /\ f \in Units[1] => live[f] = snap[p]

\* The edits the published mark covers now, or once it is written by a publisher
\* that has swapped the files; and those it covers when the export of p succeeds.
MarkTaken(c) == chg[c] \in {"stamped", "marked"} /\ c \notin missed
Safe(c) ==
  /\ MarkTaken(c)
  /\ \/ stamp[c] <= publishedAt
     \/ \E p \in Publishers : pc[p] = "marking" /\ stamp[c] <= upTo[p]
Owed(p, c) == p # "refresh" /\ MarkTaken(c) /\ stamp[c] <= upTo[p]

ServedInv == \A c \in Changes : Safe(c) => Covered(c)
ReadInv ==
  \A p \in Publishers, c \in Changes :
    Holding(p) /\ ReadBy(p, c) /\ (Safe(c) \/ Owed(p, c)) => c \in snap[p]
AsideInv ==
  \A p \in Publishers, c \in Changes : pc[p] = "swapping" /\ Safe(c) =>
    \A f \in Units[unit[p]] : aside[f] # Missing => c \in aside[f]

LEMMA OrderNext ==
  ASSUME TypeOK, OrderInv, [Next]_vars
  PROVE  OrderInv'
<1> USE DEF TypeOK, MarkerTypeOK, OrderInv
<1>1. CASE UNCHANGED <<chg, stamp, dirtyAt, overtaken>>
  BY <1>1
<1>2. ASSUME NEW c \in Changes, Edit(c)
      PROVE  OrderInv'
  <2>1. CASE Commit(c)
    BY <2>1 DEF Commit, history, marker
  <2>2. CASE StampMark(c)
    BY <2>2 DEF StampMark, history, marker
  <2>3. CASE WriteMark(c)
    BY <2>3 DEF WriteMark, OvertakenBy
  <2>4. CASE LoseMark(c)
    BY <2>4 DEF LoseMark, history, marker
  <2> QED BY <1>2, <2>1, <2>2, <2>3, <2>4 DEF Edit
<1>3. CASE Wake
  BY <1>1, <1>3 DEF Wake, AutoReadDirty, AutoReadPublished, PressPublish, CrawlEnds,
     data, history, marker
<1>4. ASSUME NEW p \in Publishers, LockExport(p) \/ Work(p)
      PROVE  OrderInv'
  BY <1>1, <1>4 DEF LockExport, Work, ReadPart, ReadPolicyFails, Stage, MoveAside, MoveIn,
     Unlock, MarkExportPublished, PublishFails, MoveInFails, data, history, marker
<1>5. CASE ServerRestart
  BY <1>5 DEF ServerRestart, InFlight, history, marker
<1>6. CASE UNCHANGED vars
  BY <1>1, <1>6 DEF vars, data, history, marker
<1> QED BY <1>2, <1>3, <1>4, <1>5, <1>6 DEF Next

LEMMA SwapNext ==
  ASSUME TypeOK, LockInv, SwapInv, [Next]_vars
  PROVE  SwapInv'
<1> USE DEF TypeOK, PublisherTypeOK
<1>0. /\ Len(Units) \in {1, 2}
      /\ \A p \in Publishers : unit[p] \in {1, 2} /\ unit[p] <= Len(Units)
      /\ \A f \in Files : f \in Units[Len(Units)] \/ (Len(Units) = 2 /\ f \in Units[1])
      /\ \A f \in Files : Len(Units) = 2 => ~(f \in Units[1] /\ f \in Units[2])
  BY UnitsLen, UnitsFacts, ExportAssumption DEF Files
<1>1. CASE UNCHANGED <<live, pc, snap, unit>>
  BY <1>1 DEF SwapInv
<1>2. ASSUME \A q \in Publishers :
               \/ pc'[q] \notin {"staged", "swapping", "swapped"}
               \/ pc'[q] = "staged" /\ unit'[q] = 1
               \/ pc'[q] = pc[q] /\ unit'[q] = unit[q] /\ snap'[q] = snap[q],
             UNCHANGED live
      PROVE  SwapInv'
  BY <1>2 DEF SwapInv
<1>3. ASSUME NEW p \in Publishers, Holding(p), \A q \in Publishers : q # p => pc'[q] = pc[q]
      PROVE  \A q \in Publishers : q # p => pc'[q] \notin {"staged", "swapping", "swapped"}
  BY <1>3 DEF Holding, LockInv
<1>4. ASSUME NEW p \in Publishers, NEW s \in {"idle", "marking"}, NEW t,
             Holding(p), Reset(p, s, t)
      PROVE  SwapInv'
  <2>1. \A q \in Publishers : pc'[q] \notin {"staged", "swapping", "swapped"}
    BY <1>3, <1>4 DEF Reset
  <2> QED BY <2>1 DEF SwapInv
<1>5. ASSUME NEW p \in Publishers, LockExport(p) \/ Work(p)
      PROVE  SwapInv'
  <2>1. CASE LockExport(p) \/ ReadPart(p) \/ ReadPolicyFails(p) \/ MarkExportPublished(p)
    BY <1>2, <2>1
    DEF LockExport, ReadPart, ReadPolicyFails, MarkExportPublished, files
  <2>2. CASE Stage(p)
    <3>1. unit[p] = 1
      BY <2>2 DEF Stage, LockInv
    <3> QED BY <1>2, <2>2, <3>1 DEF Stage, files
  <2>3. CASE MoveAside(p)
    <3>1. \A q \in Publishers : q # p => pc'[q] \notin {"staged", "swapping", "swapped"}
      BY <1>3, <2>3 DEF MoveAside, Holding
    <3>2. pc'[p] = "swapping" /\ pc[p] = "staged"
      BY <2>3 DEF MoveAside
    <3>3. ASSUME NEW f \in Files, unit[p] = 2, f \in Units[1]
          PROVE  live'[f] = live[f]
      BY <1>0, <2>3, <3>3 DEF MoveAside
    <3> QED BY <2>3, <3>1, <3>2, <3>3 DEF SwapInv, MoveAside
  <2>4. CASE MoveIn(p)
    <3>1. \A q \in Publishers : q # p => pc'[q] \notin {"staged", "swapping", "swapped"}
      BY <1>3, <2>4 DEF MoveIn, Holding
    <3>2. \A f \in Files : f \in Units[unit[p]] => live'[f] = snap[p]
      BY <2>4 DEF MoveIn
    <3>3. CASE unit[p] < Len(Units)
      <4>1. unit[p] = 1
        <5>1. unit[p] \in {1, 2} /\ (Len(Units) = 1 \/ Len(Units) = 2)
          BY <1>0
        <5>2. PICK n \in {1, 2} : n = unit[p]
          BY <5>1
        <5>3. PICK l \in {1, 2} : l = Len(Units)
          BY <5>1
        <5>4. n < l
          BY <3>3, <5>2, <5>3
        <5> QED BY <5>2, <5>4
      <4>2. pc'[p] = "staged" /\ snap' = snap /\ unit'[p] = unit[p] + 1
        BY <2>4, <3>3 DEF MoveIn
      <4> QED BY <3>1, <3>2, <4>1, <4>2 DEF SwapInv
    <3>4. CASE ~(unit[p] < Len(Units))
      <4>1. pc'[p] = "swapped" /\ snap' = snap /\ unit[p] = Len(Units)
        BY <1>0, <2>4, <3>4 DEF MoveIn
      <4>2. ASSUME NEW f \in Files, f \notin Units[unit[p]]
            PROVE  live'[f] = snap[p]
        <5>1. unit[p] = 2 /\ f \in Units[1]
          BY <1>0, <4>1, <4>2
        <5>2. live'[f] = live[f]
          BY <2>4, <4>2 DEF MoveIn
        <5> QED BY <2>4, <5>1, <5>2 DEF SwapInv, MoveIn
      <4> QED BY <3>1, <3>2, <4>1, <4>2 DEF SwapInv
    <3> QED BY <3>3, <3>4
  <2>5. CASE Unlock(p) \/ MoveInFails(p)
    BY <1>4, <2>5 DEF Unlock, MoveInFails, Holding
  <2>6. CASE PublishFails(p)
    BY <1>2, <2>6 DEF PublishFails, Reset, files
  <2> QED BY <1>5, <2>1, <2>2, <2>3, <2>4, <2>5, <2>6 DEF Work
<1>6. CASE Wake
  BY <1>2, <1>6 DEF Wake, AutoReadDirty, AutoReadPublished, PressPublish, CrawlEnds, files
<1>7. ASSUME NEW c \in Changes, Edit(c)
      PROVE  SwapInv'
  BY <1>1, <1>7 DEF Edit, Commit, StampMark, WriteMark, LoseMark, files, publisher
<1>8. CASE ServerRestart
  BY <1>2, <1>8 DEF ServerRestart
<1>9. CASE UNCHANGED vars
  BY <1>1, <1>9 DEF vars, files, publisher
<1> QED BY <1>5, <1>6, <1>7, <1>8, <1>9 DEF Next

\* A step makes no edit safe, except the end of an export.
LEMMA SafeShrinks ==
  ASSUME TypeOK, [Next]_vars, \A p \in Publishers : ~Unlock(p), NEW c \in Changes, Safe(c)'
  PROVE  Safe(c)
<1> USE DEF TypeOK, MarkerTypeOK, PublisherTypeOK, Safe, MarkTaken
<1>1. CASE /\ UNCHANGED <<chg, stamp, publishedAt>> /\ missed \subseteq missed'
           /\ \A p \in Publishers :
                pc'[p] = "marking" => pc[p] = "marking" /\ upTo'[p] = upTo[p]
  BY <1>1
<1>2. ASSUME NEW p \in Publishers, LockExport(p) \/ Work(p)
      PROVE  Safe(c)
  <2>1. CASE LockExport(p) \/ ReadPart(p) \/ ReadPolicyFails(p) \/ MoveAside(p) \/ MoveIn(p)
    BY <1>1, <2>1
    DEF LockExport, ReadPart, ReadPolicyFails, MoveAside, MoveIn, data, history, marker
  <2>2. CASE Stage(p)
    BY <1>1, <2>2 DEF Stage, marker
  <2>3. CASE PublishFails(p) \/ MoveInFails(p)
    BY <1>1, <2>3 DEF PublishFails, MoveInFails, Reset, data, history, marker
  <2>4. CASE MarkExportPublished(p)
    <3>1. /\ pc[p] = "marking" /\ publishedAt' = upTo[p]
          /\ UNCHANGED <<chg, stamp, missed>>
          /\ \A q \in Publishers : pc'[q] = "marking" => pc[q] = "marking" /\ upTo'[q] = upTo[q]
      BY <2>4 DEF MarkExportPublished, data, history
    <3> QED BY <3>1
  <2> QED BY <1>2, <2>1, <2>2, <2>3, <2>4 DEF Work
<1>3. CASE Wake
  <2>1. CASE AutoReadDirty
    BY <1>1, <2>1 DEF AutoReadDirty, data, history, marker
  <2>2. CASE AutoReadPublished
    BY <1>1, <2>2 DEF AutoReadPublished, data, history, marker
  <2>3. CASE PressPublish \/ CrawlEnds
    BY <1>1, <2>3 DEF PressPublish, CrawlEnds, data, history, marker
  <2> QED BY <1>3, <2>1, <2>2, <2>3 DEF Wake
<1>4. ASSUME NEW d \in Changes, Edit(d)
      PROVE  Safe(c)
  <2>1. CASE Commit(d) \/ LoseMark(d) \/ WriteMark(d)
    <3>1. /\ UNCHANGED <<stamp, missed, publishedAt, pc, upTo>>
          /\ chg'[c] \in {"stamped", "marked"} => chg[c] \in {"stamped", "marked"}
      BY <2>1 DEF Commit, LoseMark, WriteMark, history, marker, publisher
    <3> QED BY <3>1
  <2>2. CASE StampMark(d)
    <3>1. /\ UNCHANGED <<missed, publishedAt, pc, upTo>>
          /\ stamp' = [stamp EXCEPT ![d] = clock + 1]
          /\ c # d => chg'[c] = chg[c]
      BY <2>2 DEF StampMark, history, marker, publisher
    <3>2. c # d
      <4> SUFFICES ASSUME c = d PROVE FALSE
        OBVIOUS
      <4>1. stamp'[c] = clock + 1
        BY <3>1
      <4>2. /\ publishedAt <= clock /\ \A p \in Publishers : upTo[p] <= clock
            /\ clock \in Int /\ publishedAt \in Int /\ \A p \in Publishers : upTo[p] \in Int
        OBVIOUS
      <4> QED BY <3>1, <4>1, <4>2
    <3> QED BY <3>1, <3>2
  <2> QED BY <1>4, <2>1, <2>2 DEF Edit
<1>5. CASE ServerRestart
  BY <1>5 DEF ServerRestart, InFlight, history, marker
<1>6. CASE UNCHANGED vars
  BY <1>1, <1>6 DEF vars, data, history, marker, publisher
<1> QED BY <1>2, <1>3, <1>4, <1>5, <1>6 DEF Next

\* When an export ends, the files show everything it read, and what it owed.
LEMMA SwappedCovers ==
  ASSUME TypeOK, LockInv, SwapInv, ReadInv, NEW p \in Publishers, pc[p] = "swapped",
         NEW c \in Changes, c \in snap[p] \/ Owed(p, c)
  PROVE  Covered(c)
<1>1. ReadBy(p, c)
  <2>1. PartOf[c] \in {"reviews", "pins", "policy"} /\ part[p] = 4
    BY ExportAssumption DEF LockInv
  <2> QED BY <2>1, PartsFacts DEF ReadBy
<1>2. c \in snap[p]
  BY <1>1 DEF ReadInv, Holding
<1> QED BY <1>2 DEF SwapInv, Covered

LEMMA ServedNext ==
  ASSUME TypeOK, LockInv, SwapInv, ServedInv, ReadInv, AsideInv, [Next]_vars
  PROVE  ServedInv'
<1> SUFFICES ASSUME NEW c \in Changes, Safe(c)' PROVE Covered(c)'
  BY DEF ServedInv
<1>1. ASSUME NEW p \in Publishers, Unlock(p) PROVE Covered(c)'
  <2>1. Covered(c)' <=> Covered(c)
    BY <1>1 DEF Unlock, Covered
  <2>2. Safe(c) \/ Owed(p, c) \/ c \in snap[p]
    <3>1. /\ UNCHANGED <<chg, stamp, publishedAt>>
          /\ c \notin snap[p] => (c \in missed <=> c \in missed')
      BY <1>1 DEF Unlock, marker
    <3>2. \A q \in Publishers : pc'[q] = "marking" =>
             \/ pc[q] = "marking" /\ upTo'[q] = upTo[q]
             \/ q = p /\ p # "refresh" /\ upTo'[q] = upTo[p]
      BY <1>1 DEF Unlock, Reset, TypeOK, PublisherTypeOK
    <3> QED BY <3>1, <3>2 DEF Safe, Owed, MarkTaken
  <2>3. pc[p] = "swapped"
    BY <1>1 DEF Unlock
  <2> QED BY <2>1, <2>2, <2>3, SwappedCovers DEF ServedInv
<1>2. CASE \A p \in Publishers : ~Unlock(p)
  <2>1. Safe(c) /\ Covered(c)
    BY <1>2, SafeShrinks DEF ServedInv
  <2>2. CASE UNCHANGED live
    BY <2>1, <2>2 DEF Covered
  <2>3. ASSUME NEW p \in Publishers, LockExport(p) \/ Work(p)
        PROVE  Covered(c)'
    <3>1. CASE MoveAside(p)
      BY <2>1, <3>1 DEF MoveAside, Covered
    <3>2. CASE MoveIn(p)
      <4>1. PartOf[c] \in {"reviews", "pins", "policy"} /\ part[p] = 4
        BY <3>2, ExportAssumption DEF MoveIn, LockInv
      <4>2. ReadBy(p, c)
        BY <4>1, PartsFacts DEF ReadBy
      <4>3. c \in snap[p]
        BY <2>1, <3>2, <4>2 DEF MoveIn, ReadInv, Holding
      <4> QED BY <2>1, <3>2, <4>3 DEF MoveIn, Covered
    <3>3. CASE MoveInFails(p)
      <4>1. \A f \in Units[unit[p]] : aside[f] # Missing => c \in aside[f]
        BY <2>1, <3>3 DEF MoveInFails, AsideInv
      <4> QED BY <2>1, <2>2, <3>3, <4>1 DEF MoveInFails, Covered
    <3>4. CASE LockExport(p) \/ ReadPart(p) \/ ReadPolicyFails(p) \/ Stage(p) \/ Unlock(p)
               \/ MarkExportPublished(p) \/ PublishFails(p)
      BY <2>2, <3>4 DEF LockExport, ReadPart, ReadPolicyFails, Stage, Unlock,
         MarkExportPublished, PublishFails, files
    <3> QED BY <2>3, <3>1, <3>2, <3>3, <3>4 DEF Work
  <2>4. CASE Wake
    BY <2>2, <2>4 DEF Wake, AutoReadDirty, AutoReadPublished, PressPublish, CrawlEnds, files
  <2>5. ASSUME NEW d \in Changes, Edit(d)
        PROVE  Covered(c)'
    BY <2>2, <2>5 DEF Edit, Commit, StampMark, WriteMark, LoseMark, files
  <2>6. CASE ServerRestart
    BY <2>2, <2>6 DEF ServerRestart
  <2>7. CASE UNCHANGED vars
    BY <2>2, <2>7 DEF vars, files
  <2> QED BY <2>3, <2>4, <2>5, <2>6, <2>7 DEF Next
<1> QED BY <1>1, <1>2

\* A publisher that goes on exporting comes to owe nothing it did not owe: the
\* mark of a new edit is newer than the time it will mark published, and what a
\* manual publish takes a later time for, it has read or missed.
LEMMA OwedShrinks ==
  ASSUME TypeOK, LockInv, [Next]_vars, NEW p \in Publishers, Holding(p), Holding(p)',
         NEW c \in Changes, Owed(p, c)'
  PROVE  Owed(p, c) \/ (Stage(p) /\ c \in snap[p])
<1> USE DEF TypeOK, MarkerTypeOK, PublisherTypeOK, Owed, MarkTaken, Holding
<1>1. CASE UNCHANGED <<chg, stamp>> /\ missed \subseteq missed' /\ upTo'[p] = upTo[p]
  BY <1>1
<1>2. ASSUME NEW q \in Publishers, LockExport(q) \/ Work(q)
      PROVE  Owed(p, c) \/ (Stage(p) /\ c \in snap[p])
  <2>1. CASE LockExport(q) \/ ReadPart(q) \/ ReadPolicyFails(q) \/ MoveAside(q) \/ MoveIn(q)
    BY <1>1, <2>1
    DEF LockExport, ReadPart, ReadPolicyFails, MoveAside, MoveIn, data, history
  <2>2. CASE Stage(q)
    <3>1. CASE q = p /\ p = "manual"
      BY <2>2, <3>1 DEF Stage, LeftOut
    <3>2. CASE ~(q = p /\ p = "manual")
      BY <1>1, <2>2, <3>2 DEF Stage
    <3> QED BY <3>1, <3>2
  <2>3. CASE Unlock(q) \/ PublishFails(q) \/ MoveInFails(q)
    <3>1. q # p
      BY <2>3 DEF Unlock, PublishFails, MoveInFails, Reset
    <3>2. CASE Unlock(q)
      BY <3>1, <3>2 DEF Unlock, Reset, LockInv
    <3> QED BY <1>1, <2>3, <3>1, <3>2 DEF PublishFails, MoveInFails, Reset, data, history
  <2>4. CASE MarkExportPublished(q)
    BY <1>1, <2>4 DEF MarkExportPublished, data, history
  <2> QED BY <1>2, <2>1, <2>2, <2>3, <2>4 DEF Work
<1>3. CASE Wake
  BY <1>1, <1>3
  DEF Wake, AutoReadDirty, AutoReadPublished, PressPublish, CrawlEnds, data, history
<1>4. ASSUME NEW d \in Changes, Edit(d)
      PROVE  Owed(p, c)
  <2>1. CASE Commit(d) \/ LoseMark(d) \/ WriteMark(d)
    <3>1. /\ UNCHANGED <<stamp, missed, upTo>>
          /\ chg'[c] \in {"stamped", "marked"} => chg[c] \in {"stamped", "marked"}
      BY <2>1 DEF Commit, LoseMark, WriteMark, history, publisher
    <3> QED BY <3>1
  <2>2. CASE StampMark(d)
    <3>1. /\ UNCHANGED <<missed, upTo>>
          /\ stamp' = [stamp EXCEPT ![d] = clock + 1]
          /\ c # d => chg'[c] = chg[c]
      BY <2>2 DEF StampMark, history, publisher
    <3>2. c # d
      <4> SUFFICES ASSUME c = d PROVE FALSE
        OBVIOUS
      <4>1. stamp'[c] = clock + 1
        BY <3>1
      <4>2. upTo[p] <= clock /\ clock \in Int /\ upTo[p] \in Int
        OBVIOUS
      <4> QED BY <3>1, <4>1, <4>2
    <3> QED BY <3>1, <3>2
  <2> QED BY <1>4, <2>1, <2>2 DEF Edit
<1>5. CASE ServerRestart
  BY <1>5 DEF ServerRestart
<1>6. CASE UNCHANGED vars
  BY <1>1, <1>6 DEF vars, data, history, publisher
<1> QED BY <1>2, <1>3, <1>4, <1>5, <1>6 DEF Next

\* Who holds the lock after a step held it before or has just taken it, and
\* keeps what it has: only its own steps touch what it has read or moved.
LEMMA HolderKeeps ==
  ASSUME TypeOK, LockInv, [Next]_vars, NEW p \in Publishers, Holding(p)'
  PROVE  \/ LockExport(p)
         \/ Holding(p) /\ ReadPart(p)
         \/ Holding(p) /\ ReadPolicyFails(p)
         \/ Holding(p) /\ MoveAside(p)
         \/ /\ Holding(p) /\ part'[p] = part[p] /\ snap'[p] = snap[p]
            /\ pc'[p] = "swapping" => pc[p] = "swapping" /\ unit'[p] = unit[p] /\ aside' = aside
<1> DEFINE Keeps == \/ LockExport(p)
                    \/ Holding(p) /\ ReadPart(p)
                    \/ Holding(p) /\ ReadPolicyFails(p)
                    \/ Holding(p) /\ MoveAside(p)
                    \/ /\ Holding(p) /\ part'[p] = part[p] /\ snap'[p] = snap[p]
                       /\ pc'[p] = "swapping" => pc[p] = "swapping" /\ unit'[p] = unit[p] /\ aside' = aside
<1> USE DEF TypeOK, PublisherTypeOK, Holding
<1>1. ASSUME NEW q \in Publishers, LockExport(q) \/ Work(q)
      PROVE  Keeps
  <2>1. CASE q = p
    <3>1. CASE LockExport(p) \/ ReadPart(p) \/ ReadPolicyFails(p) \/ MoveAside(p)
      BY <3>1 DEF ReadPart, ReadPolicyFails, MoveAside
    <3>2. CASE Stage(p)
      BY <3>2 DEF Stage
    <3>3. CASE MoveIn(p)
      BY <3>3 DEF MoveIn
    <3>4. CASE Unlock(p) \/ MarkExportPublished(p) \/ PublishFails(p) \/ MoveInFails(p)
      BY <3>4 DEF Unlock, MarkExportPublished, PublishFails, MoveInFails, Reset
    <3> QED BY <1>1, <2>1, <3>1, <3>2, <3>3, <3>4 DEF Work
  <2>2. CASE q # p
    <3>1. pc'[p] = pc[p] /\ part'[p] = part[p] /\ snap'[p] = snap[p]
      BY <1>1, <2>2 DEF LockExport, Work, ReadPart, ReadPolicyFails, Stage, MoveAside, MoveIn,
         Unlock, MarkExportPublished, PublishFails, MoveInFails, Reset
    <3>2. ~Holding(q) /\ ~LockExport(q)
      BY <2>2, <3>1 DEF LockInv, LockExport
    <3>3. PublishFails(q) \/ MarkExportPublished(q)
      BY <1>1, <3>2 DEF Work, ReadPart, ReadPolicyFails, Stage, MoveAside, MoveIn, Unlock,
         MoveInFails
    <3>4. unit'[p] = unit[p] /\ aside' = aside
      BY <2>2, <3>3 DEF PublishFails, MarkExportPublished, Reset, files
    <3> QED BY <3>1, <3>4
  <2> QED BY <2>1, <2>2
<1>2. CASE Wake
  BY <1>2 DEF Wake, AutoReadDirty, AutoReadPublished, PressPublish, CrawlEnds, files
<1>3. ASSUME NEW d \in Changes, Edit(d)
      PROVE  Keeps
  BY <1>3 DEF Edit, Commit, StampMark, WriteMark, LoseMark, publisher, files
<1>4. CASE ServerRestart
  BY <1>4 DEF ServerRestart
<1>5. CASE UNCHANGED vars
  BY <1>5 DEF vars, publisher, files
<1> QED BY <1>1, <1>2, <1>3, <1>4, <1>5 DEF Next

LEMMA UnlockFrees ==
  ASSUME TypeOK, LockInv, NEW q \in Publishers, Unlock(q), NEW p \in Publishers
  PROVE  ~Holding(p)'
BY DEF Unlock, Reset, Holding, LockInv, TypeOK, PublisherTypeOK

LEMMA ReadNext ==
  ASSUME TypeOK, LockInv, ReadInv, [Next]_vars
  PROVE  ReadInv'
<1> SUFFICES ASSUME NEW p \in Publishers, NEW c \in Changes,
                    Holding(p)', ReadBy(p, c)', Safe(c)' \/ Owed(p, c)'
             PROVE  c \in snap'[p]
  BY DEF ReadInv
<1>1. \A q \in Publishers : ~Unlock(q)
  BY UnlockFrees
<1>2. ~LockExport(p)
  BY DEF LockExport, LockInv, ReadBy, Holding
<1>3. Holding(p)
  BY <1>2, HolderKeeps
<1>4. CASE Stage(p) /\ c \in snap[p]
  BY <1>4 DEF Stage
<1>5. CASE Safe(c) \/ Owed(p, c)
  <2>1. CASE ReadBy(p, c) /\ snap[p] \subseteq snap'[p]
    BY <1>3, <1>5, <2>1 DEF ReadInv
  <2>2. CASE ReadPart(p)
    <3>1. snap[p] \subseteq snap'[p]
      BY <2>2 DEF ReadPart, TypeOK, PublisherTypeOK
    <3>2. CASE ~ReadBy(p, c)
      <4>1. Parts[part[p]] = PartOf[c]
        BY <2>2, <3>2 DEF ReadPart, ReadBy, TypeOK, PublisherTypeOK
      <4>2. Visible(c)
        BY <1>5 DEF Safe, Owed, MarkTaken, Visible
      <4> QED BY <2>2, <4>1, <4>2 DEF ReadPart, TypeOK, PublisherTypeOK
    <3> QED BY <2>1, <3>1, <3>2
  <2>3. CASE ReadPolicyFails(p)
    <3>1. snap' = snap
      BY <2>3 DEF ReadPolicyFails
    <3>2. CASE ~ReadBy(p, c)
      <4>1. PartOf[c] = "policy"
        BY <2>3, <3>2 DEF ReadPolicyFails, ReadBy, TypeOK, PublisherTypeOK
      <4>2. Visible(c)
        BY <1>5 DEF Safe, Owed, MarkTaken, Visible
      <4>3. c \in missed'
        BY <2>3, <4>1, <4>2 DEF ReadPolicyFails
      <4> QED BY <4>3 DEF Safe, Owed, MarkTaken
    <3> QED BY <2>1, <3>1, <3>2
  <2>4. CASE part'[p] = part[p] /\ snap'[p] = snap[p]
    <3>1. ReadBy(p, c)
      BY <2>4 DEF ReadBy
    <3> QED BY <2>1, <2>4, <3>1
  <2>5. CASE MoveAside(p)
    BY <2>4, <2>5 DEF MoveAside
  <2> QED BY <1>2, <2>2, <2>3, <2>4, <2>5, HolderKeeps
<1>6. Safe(c) \/ Owed(p, c) \/ (Stage(p) /\ c \in snap[p])
  BY <1>1, <1>3, SafeShrinks, OwedShrinks
<1> QED BY <1>4, <1>5, <1>6

LEMMA AsideNext ==
  ASSUME TypeOK, LockInv, ServedInv, AsideInv, [Next]_vars
  PROVE  AsideInv'
<1> SUFFICES ASSUME NEW p \in Publishers, NEW c \in Changes, pc'[p] = "swapping", Safe(c)',
                    NEW f \in Units[unit'[p]], aside'[f] # Missing
             PROVE  c \in aside'[f]
  BY DEF AsideInv
<1>1. Holding(p)'
  BY DEF Holding
<1>2. \A q \in Publishers : ~Unlock(q)
  BY <1>1, UnlockFrees
<1>3. Safe(c)
  BY <1>2, SafeShrinks
<1>4. f \in Files
  <2>1. TypeOK'
    BY TypeNext
  <2>2. unit'[p] \in 1 .. Len(Units)
    BY <2>1 DEF TypeOK, PublisherTypeOK
  <2> QED BY <2>2, UnitsFiles
<1>5. CASE MoveAside(p)
  BY <1>3, <1>4, <1>5 DEF MoveAside, ServedInv, Covered
<1>6. CASE pc[p] = "swapping" /\ unit'[p] = unit[p] /\ aside' = aside
  BY <1>3, <1>6 DEF AsideInv
<1>7. CASE LockExport(p) \/ ReadPart(p) \/ ReadPolicyFails(p)
  BY <1>7 DEF LockExport, ReadPart, ReadPolicyFails, TypeOK, PublisherTypeOK
<1> QED BY <1>1, <1>5, <1>6, <1>7, HolderKeeps

\* The inductive invariant behind the marker.
MarkerIInv ==
  /\ TypeOK /\ LockInv /\ OrderInv /\ SwapInv
  /\ ServedInv /\ ReadInv /\ AsideInv

LEMMA MarkerInit == Init => MarkerIInv
<1> SUFFICES ASSUME Init PROVE MarkerIInv
  OBVIOUS
<1>1. TypeOK
  BY TypeInit
<1>2. LockInv /\ SwapInv /\ ReadInv /\ AsideInv
  BY DEF Init, LockInv, SwapInv, ReadInv, AsideInv, Holding
<1>3. OrderInv
  BY DEF Init, OrderInv
<1>4. ServedInv
  BY DEF Init, ServedInv, Safe, MarkTaken
<1> QED BY <1>1, <1>2, <1>3, <1>4 DEF MarkerIInv

LEMMA MarkerInvariant == Spec => []MarkerIInv
<1>1. MarkerIInv /\ [Next]_vars => MarkerIInv'
  BY TypeNext, LockNext, OrderNext, SwapNext, ServedNext, ReadNext, AsideNext DEF MarkerIInv
<1>2. Init => MarkerIInv
  BY MarkerInit
<1> QED BY <1>1, <1>2, PTL DEF Spec

\* Whoever publishes, and whatever edits and failures there are, what the
\* published mark covers is in every served file, or is one of the edits a
\* manual publish or a failed read of the policy is known to pass over.
THEOREM PublishedIsServed == Spec => []PublishedCovers
<1>1. MarkerIInv => PublishedCovers
  BY DEF MarkerIInv, ServedInv, Safe, MarkTaken, PublishedCovers
<1> QED BY <1>1, MarkerInvariant, PTL

\* An edit that set the marker is served or leaves the export dirty for the
\* next tick, unless it was passed over that way or an older mark was written
\* over its own.
THEOREM NothingForgotten == Spec => []NoChangeForgotten
<1>1. MarkerIInv => NoChangeForgotten
  <2> SUFFICES ASSUME MarkerIInv, NEW c \in Changes, chg[c] = "marked", ~Dirty,
                      c \notin missed \cup overtaken
               PROVE  Covered(c)
    BY DEF NoChangeForgotten
  <2>1. stamp[c] <= dirtyAt /\ dirtyAt <= publishedAt
    BY DEF MarkerIInv, OrderInv, Dirty, TypeOK, MarkerTypeOK
  <2>2. stamp[c] <= publishedAt
    BY <2>1 DEF MarkerIInv, TypeOK, MarkerTypeOK
  <2> QED BY <2>2 DEF MarkerIInv, ServedInv, Safe, MarkTaken
<1> QED BY <1>1, MarkerInvariant, PTL
=============================================================================
