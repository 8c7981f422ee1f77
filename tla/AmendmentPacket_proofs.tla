----------------------- MODULE AmendmentPacket_proofs -----------------------
(***************************************************************************)
(* Proofs about AmendmentPacket, for any forms and payloads and any number *)
(* of runs in one directory, refused or killed anywhere.                   *)
(***************************************************************************)
EXTENDS AmendmentPacket, FiniteSetTheorems, WellFoundedInduction, TLAPS

\* No run starts in a directory whose packet is complete.  The program does
\* not ensure it: run_amendment_packet never looks for a manifest.
FreshDirectory == ReuseComplete = FALSE

\* The next form to render is one of those left: names are sorted by a rank.
Less == {ss \in Nat \X Nat : ss[1] < ss[2]}

LEMMA LessIsWellFounded == IsWellFoundedOn(Less, Nat)
BY NatLessThanWellFounded DEF OpToRel, Less

LEMMA FirstIsMember ==
  ASSUME NEW S \in SUBSET Forms, S # {}
  PROVE  First(S) \in S
<1> DEFINE Ranks == {Rank[f] : f \in S}
<1>1. Ranks \subseteq Nat /\ Ranks # {}
  BY FormAssumption
<1>2. PICK n \in Ranks : \A m \in Ranks : ~ (<<m, n>> \in Less)
  BY <1>1, LessIsWellFounded, WFMin
<1>3. PICK f \in S : Rank[f] = n
  BY <1>2
<1>4. ASSUME NEW g \in S PROVE Rank[f] <= Rank[g]
  <2>1. Rank[g] \in Ranks /\ Rank[g] \in Nat /\ Rank[f] \in Nat
    BY FormAssumption
  <2>2. ~ (<<Rank[g], Rank[f]>> \in Less)
    BY <1>2, <1>3, <2>1
  <2>3. ~ (Rank[g] < Rank[f])
    BY <2>1, <2>2 DEF Less
  <2>4. QED
    BY <2>1, <2>3
<1>5. QED
  BY <1>3, <1>4 DEF First

\* A directory holds at most one manifest.
LEMMA OneManifest ==
  /\ Cardinality({}) = 0
  /\ \A S, m : S = {m} => Cardinality(S) <= 1
<1>1. Cardinality({}) = 0
  BY FS_EmptySet
<1>2. ASSUME NEW m PROVE Cardinality({m}) <= 1
  <2>1. Cardinality({m}) = 1
    BY FS_Singleton
  <2>2. QED
    BY <2>1
<1>3. QED
  BY <1>1, <1>2

\* A fill keeps the record and the directory in step.
LEMMA FillKeepsDisk ==
  ASSUME TypeOK, DiskInv, pc \in Running, NEW file \in Files, Fill(file), run' = run
  PROVE  DiskInv' /\ disk' \in [Files -> Contents] /\ record' \subseteq Files
<1>1. /\ run \in Nat /\ MaxRuns \in Nat /\ 1 <= run /\ run <= MaxRuns
      /\ disk \in [Files -> Contents] /\ record \subseteq Files
  BY FormAssumption, SMT DEF TypeOK, DiskInv
<1>2. disk' = [disk EXCEPT ![file] = run] /\ record' = record \cup {file}
  BY DEF Fill
<1>3. run \in Contents
  BY <1>1, SMT DEF Contents
<1>4. disk' \in [Files -> Contents] /\ record' \subseteq Files
  BY <1>1, <1>2, <1>3
<1>5. \A f \in Files : disk'[f] \in 1 .. run' \cup {Absent, Torn, Original}
  BY <1>1, <1>2, SMT DEF DiskInv
<1>6. \A f \in Files : disk'[f] = run' <=> f \in record'
  BY <1>1, <1>2, SMT DEF DiskInv
<1>7. QED
  BY <1>1, <1>4, <1>5, <1>6 DEF DiskInv

\* Before the end of a run there is no manifest, so none can be wrong.
LEMMA NoManifestYet ==
  ASSUME ManifestInv, pc \in Running, UNCHANGED manifest, pc' # "done"
  PROVE  ManifestInv'
<1>1. manifest = {} /\ manifest' = {}
  BY DEF ManifestInv
<1>2. QED
  BY <1>1 DEF ManifestInv, ManifestVouches

\* A run that ended without a manifest leaves the invariant with nothing to
\* say but of the files on disk.
LEMMA EndsHere ==
  ASSUME pc' \in {"idle", "refused"}, Forget
  PROVE  MailingInv' /\ PrintableInv'
BY DEF MailingInv, PrintableInv, Running, NextCA, Forget

\* What a run is given, as far as the steps below need it.
LEMMA GivenFacts ==
  ASSUME TypeOK, pc \in Running \cup {"done"}
  PROVE  /\ given \in CoherentCases
         /\ given.ca \in {"none", "compute only", "full"}
         /\ given.required \subseteq {"sch_d_540", "ftb3532"}
         /\ Attached \subseteq Forms
         /\ Dropped \subseteq Forms
<1>1. given \in CoherentCases
  BY DEF TypeOK
<1>2. given \in Cases
  BY <1>1 DEF CoherentCases
<1>3. given.ca \in {"none", "compute only", "full"}
      /\ given.required \subseteq {"sch_d_540", "ftb3532"}
  BY <1>2 DEF Cases
<1>4. Attached \subseteq Forms /\ Dropped \subseteq Forms
  BY DEF Attached, ChangedForms, Dropped, DroppedForms
<1>5. QED
  BY <1>1, <1>3, <1>4

\* Federal forms, California files and Form 1040-X are different files.
LEMMA FileNames ==
  /\ Forms \subseteq Files /\ "f1040x" \in Files
  /\ {"schedule_x", "f540", "f540_amended", "sch_ca", "sch_d_540", "ftb3532"} \subseteq Files
  /\ Forms \cap {"f1040x", "schedule_x", "f540", "f540_amended", "sch_ca",
                 "sch_d_540", "ftb3532"} = {}
BY FormAssumption DEF Files, CAFiles, StateForms

\* The California files a run mails are none of the federal forms, nor the
\* original Form 540.
LEMMA StateMailNames ==
  ASSUME TypeOK, pc \in Running \cup {"done"}
  PROVE  StateMail \cap (Forms \cup {"f540"}) = {}
<1>1. /\ given.ca \in {"none", "compute only", "full"}
      /\ given.required \subseteq {"sch_d_540", "ftb3532"}
  BY GivenFacts
<1>2. StateMail \subseteq {"schedule_x", "f540_amended", "sch_ca",
                           "sch_d_540", "ftb3532"}
  BY <1>1, Zenon DEF StateMail
<1>3. QED
  BY <1>2, FileNames

LEMMA InductiveInit == Init => IInv
<1> SUFFICES ASSUME Init PROVE IInv
  OBVIOUS
<1>1. TypeOK
  <2>1. run \in 0 .. MaxRuns
    BY FormAssumption, SMT DEF Init
  <2>2. disk \in [Files -> Contents]
    BY DEF Init, Contents
  <2>3. QED
    BY <2>1, <2>2, OneManifest DEF Init, TypeOK, Running
<1>2. \A f \in Files : disk[f] \in {Absent, Torn, Original}
  BY DEF Init
<1>3. QED
  BY <1>1, <1>2 DEF Init, IInv, MailingInv, DiskInv, PrintableInv, ManifestInv,
     ManifestVouches, Running, NextCA

\* Start: the new run's number is no file's content yet.
LEMMA StartKeeps ==
  ASSUME FreshDirectory, IInv, NEW c \in CoherentCases, Start(c)
  PROVE  IInv'
<1>1. /\ run \in Nat /\ MaxRuns \in Nat /\ run + 1 <= MaxRuns /\ run' = run + 1
      /\ manifest = {} /\ manifest' = {} /\ pc' = "1040x" /\ given' = c
      /\ queue' = {} /\ mailed' = {} /\ record' = {} /\ disk' = disk
  BY FormAssumption, SMT DEF FreshDirectory, Start, IInv, TypeOK
<1>2. TypeOK'
  <2>1. run' \in 0 .. MaxRuns
    BY <1>1
  <2>2. disk' \in [Files -> Contents]
    BY <1>1 DEF IInv, TypeOK
  <2>3. QED
    BY <1>1, <2>1, <2>2, OneManifest DEF TypeOK, Running
<1>3. MailingInv'
  BY <1>1 DEF MailingInv, Unlisted, Running, NextCA
<1>4. DiskInv'
  <2>1. \A f \in Files : disk[f] \in 1 .. run \cup {Absent, Torn, Original}
    BY DEF IInv, DiskInv
  <2>2. \A f \in Files : disk'[f] \in 1 .. run' \cup {Absent, Torn, Original}
    BY <1>1, <2>1, SMT
  <2>3. run' \in 1 .. MaxRuns
    BY <1>1, SMT
  <2>4. run' \notin {Absent, Torn, Original}
    BY <2>3, FormAssumption
  <2>5. \A f \in Files : disk'[f] # run'
    BY <1>1, <2>1, <2>4, SMT
  <2>6. QED
    BY <1>1, <2>2, <2>3, <2>5, SMT DEF DiskInv
<1>5. PrintableInv'
  BY <1>1 DEF PrintableInv, Running
<1>6. ManifestInv'
  BY <1>1 DEF ManifestInv, ManifestVouches
<1>7. QED
  BY <1>2, <1>3, <1>4, <1>5, <1>6 DEF IInv

LEMMA Fill1040XKeeps ==
  ASSUME IInv, Fill1040X
  PROVE  IInv'
<1>1. /\ pc = "1040x" /\ pc' = "select" /\ Fill("f1040x") /\ "f1040x" \in Files
      /\ mailed' = mailed \cup {"f1040x"} /\ pc \in Running
      /\ UNCHANGED <<run, given, queue, manifest>>
  BY FileNames DEF Fill1040X, Running
<1>2. DiskInv' /\ disk' \in [Files -> Contents] /\ record' \subseteq Files
  BY <1>1, FillKeepsDisk DEF IInv
<1>3. TypeOK'
  BY <1>1, <1>2, FileNames DEF IInv, TypeOK, Running
<1>4. MailingInv'
  BY <1>1 DEF IInv, MailingInv, Unlisted, Running, NextCA, Fill
<1>5. PrintableInv'
  BY <1>1 DEF PrintableInv
<1>6. ManifestInv'
  BY <1>1, NoManifestYet DEF IInv
<1>7. QED
  BY <1>2, <1>3, <1>4, <1>5, <1>6 DEF IInv

\* SelectForms: a refused selection forgets the run; otherwise everything
\* attached is still in the queue.
LEMMA SelectFormsKeeps ==
  ASSUME IInv, SelectForms
  PROVE  IInv'
<1> DEFINE changed    == ChangedForms(given.filed, given.corrected)
           unattached == given.statement /\ Sch1 \in changed
<1>1. /\ pc = "select" /\ pc \in Running /\ mailed = {"f1040x"} /\ manifest = {}
      /\ record = {"f1040x"}
      /\ UNCHANGED <<run, disk, manifest>>
  BY DEF SelectForms, IInv, MailingInv, Unlisted, ManifestInv, Running
<1>2. given.fullFederal => Attached = changed
  BY DEF Attached
<1>3. CASE ~given.fullFederal
  <2>1. /\ pc' = "california" /\ UNCHANGED <<given, queue, mailed, record>>
        /\ Attached = {} /\ Attached' = {}
    BY <1>3 DEF SelectForms, Attached
  <2>2. TypeOK'
    BY <1>1, <2>1 DEF IInv, TypeOK, Running
  <2>3. MailingInv'
    BY <1>1, <2>1 DEF MailingInv, Unlisted, Running, NextCA
  <2>4. DiskInv'
    BY <1>1, <2>1 DEF IInv, DiskInv
  <2>5. PrintableInv' /\ ManifestInv'
    BY <1>1, <2>1 DEF PrintableInv, ManifestInv, ManifestVouches
  <2>6. QED
    BY <2>2, <2>3, <2>4, <2>5 DEF IInv
<1>4. CASE given.fullFederal /\ unattached
  <2>1. pc' = "refused" /\ Forget
    BY <1>4 DEF SelectForms
  <2>2. TypeOK'
    BY <1>1, <2>1 DEF IInv, TypeOK, Running, Forget
  <2>3. MailingInv' /\ PrintableInv'
    BY <2>1, EndsHere
  <2>4. DiskInv' /\ ManifestInv'
    BY <1>1, <2>1 DEF IInv, DiskInv, ManifestInv, ManifestVouches, Running
  <2>5. QED
    BY <2>2, <2>3, <2>4 DEF IInv
<1>5. CASE given.fullFederal /\ ~unattached
  <2>1. /\ pc' = "attach" /\ queue' = changed
        /\ UNCHANGED <<given, mailed, record>>
        /\ Attached = changed /\ Attached' = changed
    BY <1>5 DEF SelectForms, Attached
  <2>2. changed \subseteq Forms
    BY DEF ChangedForms
  <2>3. TypeOK'
    BY <1>1, <2>1, <2>2 DEF IInv, TypeOK, Running
  <2>4. MailingInv'
    BY <1>1, <1>5, <2>1 DEF MailingInv, Unlisted, Running, NextCA
  <2>5. DiskInv'
    BY <1>1, <2>1 DEF IInv, DiskInv
  <2>6. PrintableInv' /\ ManifestInv'
    BY <1>1, <1>5, <2>1 DEF PrintableInv, ManifestInv, ManifestVouches
  <2>7. QED
    BY <2>3, <2>4, <2>5, <2>6 DEF IInv
<1>6. QED
  BY <1>3, <1>4, <1>5

\* RenderChanged: one form moves from the queue to the mailing list; it is
\* not a refused Form 1040, which therefore stays in the queue.
LEMMA RenderChangedKeeps ==
  ASSUME IInv, RenderChanged
  PROVE  IInv'
<1> DEFINE f == First(queue)
<1>1. /\ pc = "attach" /\ pc' = "attach" /\ pc \in Running /\ queue # {}
      /\ ~(given.refused /\ f = Form1040) /\ Fill(f)
      /\ mailed' = mailed \cup {f} /\ queue' = queue \ {f}
      /\ UNCHANGED <<run, given, manifest>>
      /\ queue \in SUBSET Forms
  BY DEF RenderChanged, Running, IInv, TypeOK
<1>2. f \in queue /\ f \in Files /\ f \in Forms
  BY <1>1, FirstIsMember, FileNames
<1>3. DiskInv' /\ disk' \in [Files -> Contents] /\ record' \subseteq Files
  BY <1>1, <1>2, FillKeepsDisk DEF IInv
<1>4. Attached' = Attached
  BY <1>1 DEF Attached
<1>5. TypeOK'
  BY <1>1, <1>2, <1>3 DEF IInv, TypeOK, Running
<1>6. MailingInv'
  <2>1. /\ given.fullFederal /\ queue \subseteq Attached
        /\ mailed = {"f1040x"} \cup (Attached \ queue) /\ record = mailed
    BY <1>1 DEF IInv, MailingInv, Unlisted
  <2>2. mailed' = {"f1040x"} \cup (Attached \ queue')
    BY <1>1, <1>2, <2>1
  <2>3. record' = mailed'
    BY <1>1, <2>1 DEF Fill
  <2>4. QED
    BY <1>1, <1>4, <2>1, <2>2, <2>3 DEF MailingInv, Unlisted, NextCA
<1>7. PrintableInv'
  BY <1>1, <1>2, <1>4 DEF IInv, PrintableInv
<1>8. ManifestInv'
  BY <1>1, NoManifestYet DEF IInv
<1>9. QED
  BY <1>3, <1>5, <1>6, <1>7, <1>8 DEF IInv

LEMMA AttachmentsDoneKeeps ==
  ASSUME IInv, AttachmentsDone
  PROVE  IInv'
<1>1. /\ pc = "attach" /\ pc' = "california" /\ pc \in Running /\ queue = {}
      /\ UNCHANGED <<run, given, queue, mailed, record, disk, manifest>>
  BY DEF AttachmentsDone, Running
<1>2. Attached' = Attached
  BY <1>1 DEF Attached
<1>3. TypeOK'
  BY <1>1 DEF IInv, TypeOK, Running
<1>4. MailingInv'
  BY <1>1, <1>2 DEF IInv, MailingInv, Unlisted, Running, NextCA
<1>5. DiskInv'
  BY <1>1 DEF IInv, DiskInv
<1>6. PrintableInv'
  BY <1>1, <1>2 DEF IInv, PrintableInv, Running
<1>7. ManifestInv'
  BY <1>1, NoManifestYet DEF IInv
<1>8. QED
  BY <1>3, <1>4, <1>5, <1>6, <1>7 DEF IInv

LEMMA FillScheduleXKeeps ==
  ASSUME IInv, FillScheduleX
  PROVE  IInv'
<1>1. /\ pc = "california" /\ pc \in Running /\ given.ca # "none"
      /\ Fill("schedule_x") /\ "schedule_x" \in Files
      /\ mailed' = mailed \cup {"schedule_x"}
      /\ pc' = (IF given.ca = "full" THEN "f540" ELSE "manifest")
      /\ UNCHANGED <<run, given, queue, manifest>>
  BY FileNames DEF FillScheduleX, Running
<1>2. pc' \in {"f540", "manifest"} /\ pc' # "done"
  BY <1>1
<1>3. DiskInv' /\ disk' \in [Files -> Contents] /\ record' \subseteq Files
  BY <1>1, FillKeepsDisk DEF IInv
<1>4. Attached' = Attached /\ given.ca \in {"none", "compute only", "full"}
  BY <1>1, GivenFacts DEF Attached, IInv
<1>5. TypeOK'
  BY <1>1, <1>2, <1>3 DEF IInv, TypeOK, Running
<1>6. MailingInv'
  <2>1. mailed = {"f1040x"} \cup Attached /\ record = mailed
    BY <1>1 DEF IInv, MailingInv, Unlisted
  <2>2. record' = mailed' /\ mailed' = {"f1040x", "schedule_x"} \cup Attached
    BY <1>1, <2>1 DEF Fill
  <2>3. CASE given.ca = "full"
    BY <1>1, <1>4, <2>2, <2>3 DEF MailingInv, Unlisted, Running, NextCA
  <2>4. CASE given.ca = "compute only"
    <3>1. StateMail' = {"schedule_x"} /\ pc' = "manifest"
      BY <1>1, <2>4 DEF StateMail
    <3>2. QED
      BY <1>4, <2>2, <3>1 DEF MailingInv, Unlisted, NextCA
  <2>5. QED
    BY <1>1, <1>4, <2>3, <2>4
<1>7. PrintableInv'
  BY <1>1, <1>2, <1>4 DEF IInv, PrintableInv, Running
<1>8. ManifestInv'
  BY <1>1, <1>2, NoManifestYet DEF IInv
<1>9. QED
  BY <1>3, <1>5, <1>6, <1>7, <1>8 DEF IInv

LEMMA NoCaliforniaKeeps ==
  ASSUME IInv, NoCalifornia
  PROVE  IInv'
<1>1. /\ pc = "california" /\ pc' = "manifest" /\ pc \in Running
      /\ given.ca = "none"
      /\ UNCHANGED <<run, given, queue, mailed, record, disk, manifest>>
  BY DEF NoCalifornia, Running
<1>2. Attached' = Attached /\ StateMail' = {}
  BY <1>1 DEF Attached, StateMail
<1>3. TypeOK'
  BY <1>1 DEF IInv, TypeOK, Running
<1>4. MailingInv'
  BY <1>1, <1>2 DEF IInv, MailingInv, Unlisted, NextCA, Running
<1>5. DiskInv'
  BY <1>1 DEF IInv, DiskInv, Running
<1>6. PrintableInv'
  BY <1>1, <1>2 DEF IInv, PrintableInv, Running
<1>7. ManifestInv'
  BY <1>1, NoManifestYet DEF IInv
<1>8. QED
  BY <1>3, <1>4, <1>5, <1>6, <1>7 DEF IInv

\* FillCA: each California form goes on disk and in the record; the mailing
\* list waits for the rename.
LEMMA FillCAKeeps ==
  ASSUME IInv, FillCA
  PROVE  IInv'
<1> DEFINE filled == pc \in {"f540", "sch_ca"} \cup given.required
<1>1. /\ pc \in {"f540", "sch_ca", "sch_d_540", "ftb3532"} /\ pc \in Running
      /\ pc \in DOMAIN NextCA /\ pc' = NextCA[pc] /\ pc \in Files
      /\ IF filled THEN Fill(pc) ELSE UNCHANGED <<disk, record>>
      /\ UNCHANGED <<run, given, queue, mailed, manifest>>
  BY FileNames DEF FillCA, NextCA, Running
<1>2. /\ pc' \in {"sch_ca", "sch_d_540", "ftb3532", "rename"} /\ pc' \in Running
      /\ pc' # "done"
  BY <1>1 DEF NextCA, Running
<1>3. DiskInv' /\ disk' \in [Files -> Contents] /\ record' \subseteq Files
  <2>1. CASE filled
    BY <1>1, <2>1, FillKeepsDisk DEF IInv
  <2>2. CASE ~filled
    BY <1>1, <2>2 DEF IInv, DiskInv, TypeOK
  <2>3. QED
    BY <2>1, <2>2
<1>4. /\ Attached' = Attached
      /\ given.required \subseteq {"sch_d_540", "ftb3532"}
  BY <1>1, GivenFacts DEF Attached, IInv
<1>5. TypeOK'
  BY <1>1, <1>2, <1>3 DEF IInv, TypeOK, Running
<1>6. MailingInv'
  <2>1. /\ given.ca = "full" /\ mailed = {"f1040x", "schedule_x"} \cup Attached
        /\ record = mailed \cup Unlisted
    BY <1>1 DEF IInv, MailingInv
  <2>2. record' = IF filled THEN record \cup {pc} ELSE record
    BY <1>1 DEF Fill
  <2>3. Unlisted' = Unlisted \cup (IF filled THEN {pc} ELSE {})
    <3>1. CASE pc = "f540"
      <4>1. Unlisted = {} /\ Unlisted' = {"f540"}
        BY <3>1, <1>1 DEF Unlisted, NextCA
      <4>2. QED
        BY <3>1, <4>1
    <3>2. CASE pc = "sch_ca"
      <4>1. Unlisted = {"f540"} /\ Unlisted' = {"f540", "sch_ca"}
        BY <3>2, <1>1 DEF Unlisted, NextCA
      <4>2. QED
        BY <3>2, <4>1
    <3>3. CASE pc = "sch_d_540"
      <4>1. /\ Unlisted = {"f540", "sch_ca"}
            /\ Unlisted' = {"f540", "sch_ca"} \cup (given.required \cap {"sch_d_540"})
        BY <3>3, <1>1 DEF Unlisted, NextCA
      <4>2. QED
        BY <3>3, <4>1
    <3>4. CASE pc = "ftb3532"
      <4>1. /\ Unlisted = {"f540", "sch_ca"} \cup (given.required \cap {"sch_d_540"})
            /\ Unlisted' = {"f540", "sch_ca"} \cup given.required
        BY <3>4, <1>1 DEF Unlisted, NextCA
      <4>2. QED
        BY <3>4, <1>4, <4>1
    <3>5. QED
      BY <1>1, <3>1, <3>2, <3>3, <3>4
  <2>4. record' = mailed' \cup Unlisted'
    BY <1>1, <2>1, <2>2, <2>3
  <2>5. QED
    BY <1>1, <1>2, <1>4, <2>1, <2>4 DEF MailingInv, NextCA
<1>7. PrintableInv'
  BY <1>1, <1>2, <1>4 DEF IInv, PrintableInv, Running
<1>8. ManifestInv'
  BY <1>1, <1>2, NoManifestYet DEF IInv
<1>9. QED
  BY <1>3, <1>5, <1>6, <1>7, <1>8 DEF IInv

\* Rename540: on disk, in the record and on the mailing list at once.
LEMMA Rename540Keeps ==
  ASSUME IInv, Rename540
  PROVE  IInv'
<1>1. /\ pc = "rename" /\ pc' = "manifest" /\ pc \in Running
      /\ disk' = [disk EXCEPT !["f540_amended"] = disk["f540"], !["f540"] = Absent]
      /\ record' = (record \ {"f540"}) \cup {"f540_amended"}
      /\ mailed' = mailed \cup {"f540_amended", "sch_ca"} \cup given.required
      /\ UNCHANGED <<run, given, queue, manifest>>
  BY DEF Rename540, Running
<1>2. /\ Attached' = Attached /\ Attached \subseteq Forms
      /\ given.required \subseteq {"sch_d_540", "ftb3532"}
  BY <1>1, GivenFacts DEF Attached, IInv
<1>3. /\ given.ca = "full" /\ mailed = {"f1040x", "schedule_x"} \cup Attached
      /\ record = mailed \cup {"f540", "sch_ca"} \cup given.required
  <2>1. Unlisted = {"f540", "sch_ca"} \cup given.required
    BY <1>1 DEF Unlisted
  <2>2. QED
    BY <1>1, <2>1 DEF IInv, MailingInv
<1>4. /\ run \in 1 .. MaxRuns /\ run \notin {Absent, Torn, Original}
      /\ disk \in [Files -> Contents] /\ record \subseteq Files /\ disk["f540"] = run
      /\ \A f \in Files : disk[f] = run <=> f \in record
  <2>1. run \in 1 .. MaxRuns
    BY <1>1, FormAssumption, SMT DEF IInv, TypeOK, DiskInv
  <2>2. \A f \in Files : disk[f] = run <=> f \in record
    BY <1>1 DEF IInv, DiskInv
  <2>3. disk["f540"] = run
    BY <1>3, <2>2, FileNames
  <2>4. QED
    BY <2>1, <2>2, <2>3, FormAssumption DEF IInv, TypeOK
<1>5. /\ disk'["f540_amended"] = run /\ disk'["f540"] = Absent
      /\ \A f \in Files \ {"f540", "f540_amended"} : disk'[f] = disk[f]
  BY <1>1, <1>4, FileNames
<1>6. disk' \in [Files -> Contents] /\ record' \subseteq Files /\ mailed' \subseteq Files
  <2>1. Absent \in Contents
    BY DEF Contents
  <2>2. disk["f540"] \in Contents
    BY <1>4, FileNames
  <2>3. QED
    BY <1>1, <1>2, <1>3, <1>4, <2>1, <2>2, FileNames
<1>7. TypeOK'
  BY <1>1, <1>6 DEF IInv, TypeOK, Running
<1>8. MailingInv'
  <2>1. StateMail' = {"schedule_x", "f540_amended", "sch_ca"} \cup given.required
    BY <1>1, <1>3 DEF StateMail
  <2>2. Unlisted' = {}
    BY <1>1 DEF Unlisted
  <2>3. mailed' = {"f1040x"} \cup Attached \cup StateMail'
    BY <1>1, <1>3, <2>1
  <2>4. "f540" \notin mailed /\ "f540" \notin given.required
    BY <1>2, <1>3, FileNames
  <2>5. record' = mailed'
    BY <1>1, <1>3, <2>4
  <2>6. QED
    BY <1>1, <1>2, <2>2, <2>3, <2>5 DEF MailingInv, NextCA
<1>9. DiskInv'
  <2>1. \A f \in Files : disk'[f] \in 1 .. run' \cup {Absent, Torn, Original}
    <3>1. run \in 1 .. run
      BY <1>4, FormAssumption, SMT
    <3>2. QED
      BY <1>1, <1>5, <3>1 DEF IInv, DiskInv
  <2>2. run' >= 1
    BY <1>1 DEF IInv, DiskInv
  <2>3. \A f \in Files : disk'[f] = run' <=> f \in record'
    BY <1>1, <1>4, <1>5
  <2>4. QED
    BY <2>1, <2>2, <2>3 DEF DiskInv
<1>10. PrintableInv'
  BY <1>1, <1>2 DEF IInv, PrintableInv, Running
<1>11. ManifestInv'
  BY <1>1, NoManifestYet DEF IInv
<1>12. QED
  BY <1>7, <1>8, <1>9, <1>10, <1>11 DEF IInv

\* WriteManifest: it lists exactly the files of this run.
LEMMA WriteManifestKeeps ==
  ASSUME IInv, WriteManifest
  PROVE  IInv'
<1> DEFINE m == [run |-> run, mailed |-> mailed, dropped |-> Dropped]
<1>1. /\ pc = "manifest" /\ pc' = "done" /\ pc \in Running /\ manifest' = {m}
      /\ UNCHANGED <<run, given, queue, mailed, record, disk>>
  BY DEF WriteManifest, Running
<1>2. Attached' = Attached /\ StateMail' = StateMail /\ Dropped' = Dropped
  BY <1>1 DEF Attached, StateMail, Dropped
<1>3. record = mailed /\ Unlisted' = {}
  BY <1>1 DEF IInv, MailingInv, Unlisted
<1>4. m \in Manifests
  <2>1. run \in 1 .. MaxRuns
    BY <1>1, FormAssumption, SMT DEF IInv, TypeOK, DiskInv
  <2>2. mailed \subseteq Files /\ Dropped \subseteq Forms
    BY <1>1, GivenFacts DEF IInv, TypeOK
  <2>3. QED
    BY <2>1, <2>2 DEF Manifests
<1>5. TypeOK'
  <2>1. manifest' \subseteq Manifests
    BY <1>1, <1>4
  <2>2. Cardinality(manifest') <= 1
    BY <1>1, OneManifest, Zenon
  <2>3. QED
    BY <1>1, <2>1, <2>2 DEF IInv, TypeOK, Running
<1>6. MailingInv'
  BY <1>1, <1>2, <1>3 DEF IInv, MailingInv, NextCA, Running
<1>7. DiskInv'
  BY <1>1 DEF IInv, DiskInv
<1>8. PrintableInv'
  BY <1>1, <1>2 DEF IInv, PrintableInv, Running
<1>9. ManifestInv'
  <2>1. \A f \in mailed : disk'[f] = run
    <3>1. mailed \subseteq Files
      BY DEF IInv, TypeOK
    <3>2. QED
      BY <1>1, <1>3, <3>1 DEF IInv, DiskInv
  <2>2. ManifestVouches'
    BY <1>1, <2>1 DEF ManifestVouches
  <2>3. QED
    BY <1>1, <1>2, <2>2 DEF ManifestInv, Running
<1>10. QED
  BY <1>5, <1>6, <1>7, <1>8, <1>9 DEF IInv

LEMMA RefuseKeeps ==
  ASSUME IInv, Refuse
  PROVE  IInv'
<1>1. /\ pc \in Running /\ pc' = "refused" /\ Forget
      /\ UNCHANGED <<run, disk, manifest>>
  BY DEF Refuse
<1>2. TypeOK'
  BY <1>1 DEF IInv, TypeOK, Running, Forget
<1>3. MailingInv' /\ PrintableInv'
  BY <1>1, EndsHere
<1>4. DiskInv'
  BY <1>1 DEF IInv, DiskInv, Running
<1>5. ManifestInv'
  BY <1>1, NoManifestYet DEF IInv
<1>6. QED
  BY <1>2, <1>3, <1>4, <1>5 DEF IInv

\* Crash: a manifest cut short still lists files of this run only.
LEMMA CrashKeeps ==
  ASSUME IInv, Crash
  PROVE  IInv'
<1>1. pc \in Running /\ pc' = "idle" /\ Forget /\ run' = run /\ manifest = {}
  BY DEF Crash, IInv, ManifestInv
<1>2. PICK torn \in SUBSET BeingWritten :
        disk' = [f \in Files |-> IF f \in torn THEN Torn ELSE disk[f]]
  BY DEF Crash
<1>3. disk' \in [Files -> Contents]
  BY <1>2 DEF IInv, TypeOK, Contents
<1>4. DiskInv'
  BY <1>1, <1>2 DEF IInv, DiskInv, Running
<1>5. MailingInv' /\ PrintableInv'
  BY <1>1, EndsHere
<1>6. CASE manifest' = manifest
  <2>1. TypeOK'
    BY <1>1, <1>3, <1>6, OneManifest DEF IInv, TypeOK, Running, Forget
  <2>2. ManifestInv'
    BY <1>1, <1>6, NoManifestYet DEF IInv
  <2>3. QED
    BY <1>4, <1>5, <2>1, <2>2 DEF IInv
<1>7. CASE pc = "manifest" /\ \E part \in SUBSET mailed :
             manifest' = {[run |-> run, mailed |-> part, dropped |-> {}]}
  <2>1. PICK part \in SUBSET mailed :
          manifest' = {[run |-> run, mailed |-> part, dropped |-> {}]}
    BY <1>7
  <2>2. record = mailed /\ mailed \subseteq Files /\ BeingWritten = {}
    BY <1>7 DEF IInv, TypeOK, MailingInv, Unlisted, BeingWritten
  <2>3. \A f \in part : disk'[f] = run
    BY <1>1, <1>2, <2>2 DEF IInv, DiskInv
  <2>4. run \in 1 .. MaxRuns
    BY <1>1, FormAssumption, SMT DEF IInv, TypeOK, DiskInv
  <2>5. manifest' \subseteq Manifests /\ Cardinality(manifest') <= 1
    <3>1. [run |-> run, mailed |-> part, dropped |-> {}] \in Manifests
      BY <2>2, <2>4 DEF Manifests
    <3>2. Cardinality(manifest') <= 1
      BY <2>1, OneManifest, Zenon
    <3>3. QED
      BY <2>1, <3>1, <3>2
  <2>6. TypeOK'
    BY <1>1, <1>3, <2>5 DEF IInv, TypeOK, Running, Forget
  <2>7. ManifestInv'
    BY <1>1, <2>1, <2>3 DEF ManifestInv, ManifestVouches, Running
  <2>8. QED
    BY <1>4, <1>5, <2>6, <2>7 DEF IInv
<1>8. QED
  BY <1>6, <1>7 DEF Crash

LEMMA InductiveStep ==
  ASSUME FreshDirectory, IInv, [Next]_vars
  PROVE  IInv'
<1>1. CASE UNCHANGED vars
  <2>1. UNCHANGED <<pc, run, given, queue, mailed, record, disk, manifest>>
    BY <1>1 DEF vars
  <2>2. Attached' = Attached /\ StateMail' = StateMail /\ Unlisted' = Unlisted
        /\ Dropped' = Dropped
    BY <2>1 DEF Attached, StateMail, Unlisted, Dropped
  <2>3. TypeOK' /\ DiskInv'
    BY <2>1 DEF IInv, TypeOK, DiskInv
  <2>4. MailingInv' /\ PrintableInv'
    BY <2>1, <2>2 DEF IInv, MailingInv, PrintableInv
  <2>5. ManifestInv'
    BY <2>1, <2>2 DEF IInv, ManifestInv, ManifestVouches
  <2>6. QED
    BY <2>3, <2>4, <2>5 DEF IInv
<1>2. ASSUME NEW c \in CoherentCases, Start(c) PROVE IInv'
  BY <1>2, StartKeeps
<1>3. CASE Fill1040X
  BY <1>3, Fill1040XKeeps
<1>4. CASE SelectForms
  BY <1>4, SelectFormsKeeps
<1>5. CASE RenderChanged
  BY <1>5, RenderChangedKeeps
<1>6. CASE AttachmentsDone
  BY <1>6, AttachmentsDoneKeeps
<1>7. CASE FillScheduleX
  BY <1>7, FillScheduleXKeeps
<1>8. CASE NoCalifornia
  BY <1>8, NoCaliforniaKeeps
<1>9. CASE FillCA
  BY <1>9, FillCAKeeps
<1>10. CASE Rename540
  BY <1>10, Rename540Keeps
<1>11. CASE WriteManifest
  BY <1>11, WriteManifestKeeps
<1>12. CASE Refuse
  BY <1>12, RefuseKeeps
<1>13. CASE Crash
  BY <1>13, CrashKeeps
<1>14. QED
  BY <1>1, <1>2, <1>3, <1>4, <1>5, <1>6, <1>7, <1>8, <1>9, <1>10, <1>11,
     <1>12, <1>13 DEF Next

\* The inductive invariant holds in every state: what is on disk, in the
\* record and on the mailing list at each point of run_amendment_packet.
THEOREM Invariance == ASSUME FreshDirectory PROVE Spec => []IInv
<1>1. Init => IInv
  BY InductiveInit
<1>2. IInv /\ [Next]_vars => IInv'
  BY InductiveStep
<1>3. QED
  BY <1>1, <1>2, PTL DEF Spec

\* Every file's content is of a run that took place, and there is at most one
\* manifest, of known forms.
THEOREM TypeCorrect == ASSUME FreshDirectory PROVE Spec => []TypeOK
<1>1. IInv => TypeOK
  BY DEF IInv
<1>2. QED
  BY <1>1, Invariance, PTL

\* Where there is a manifest, every file it mails is whole and of its run,
\* whatever refusals and crashes came before (run_amendment_packet).
THEOREM ManifestIsTrue == ASSUME FreshDirectory PROVE Spec => []ManifestVouches
<1>1. IInv => ManifestVouches
  BY DEF IInv, ManifestInv
<1>2. QED
  BY <1>1, Invariance, PTL

\* A refused run leaves no manifest: "the missing manifest marks the packet
\* incomplete" (orchestrator.py:3803).
THEOREM RefusalIsMarked ==
  ASSUME FreshDirectory
  PROVE  Spec => []RefusalLeavesNoManifest
<1>1. IInv => RefusalLeavesNoManifest
  BY DEF IInv, ManifestInv, RefusalLeavesNoManifest
<1>2. QED
  BY <1>1, Invariance, PTL

\* What is attached is the correction: a form that is not mailed and not
\* dropped reads as it was filed (selector.py).
LEMMA CorrectionIsAttached ==
  ASSUME IInv
  PROVE  AttachmentsCarryCorrection
<1> SUFFICES ASSUME pc = "done", given.fullFederal, NEW m \in manifest
             PROVE  [f \in Forms |-> CASE f \in m.mailed  -> given.corrected[f]
                                       [] f \in m.dropped -> NoForm
                                       [] OTHER           -> given.filed[f]]
                      = given.corrected
  BY DEF AttachmentsCarryCorrection
<1>1. /\ m.mailed = {"f1040x"} \cup Attached \cup StateMail
      /\ m.dropped = DroppedForms(given.filed, given.corrected)
      /\ Attached = ChangedForms(given.filed, given.corrected)
  BY DEF IInv, ManifestInv, MailingInv, Dropped, Attached
<1>2. StateMail \cap Forms = {} /\ "f1040x" \notin Forms
  BY StateMailNames, FileNames DEF IInv
<1>3. given.corrected \in [Forms -> Payloads \cup {NoForm}]
  BY GivenFacts DEF IInv, CoherentCases, Cases
<1>4. ASSUME NEW f \in Forms
      PROVE  (CASE f \in m.mailed  -> given.corrected[f]
                [] f \in m.dropped -> NoForm
                [] OTHER           -> given.filed[f]) = given.corrected[f]
  <2>1. /\ f \in m.mailed <=> given.corrected[f] # NoForm
                              /\ given.corrected[f] # given.filed[f]
        /\ f \in m.dropped <=> given.filed[f] # NoForm /\ given.corrected[f] = NoForm
    BY <1>1, <1>2 DEF ChangedForms, DroppedForms
  <2>2. CASE f \in m.mailed
    BY <2>1, <2>2
  <2>3. CASE f \in m.dropped
    BY <2>1, <2>3
  <2>4. CASE f \notin m.mailed /\ f \notin m.dropped
    BY <2>1, <2>4
  <2>5. QED
    BY <2>2, <2>3, <2>4
<1>5. QED
  BY <1>3, <1>4

\* The filed return, with the mailed forms replaced and the dropped ones
\* struck, is the corrected return, for any forms and payloads.
THEOREM CorrectionIsCarried ==
  ASSUME FreshDirectory
  PROVE  Spec => []AttachmentsCarryCorrection
BY Invariance, CorrectionIsAttached, PTL

\* A complete packet has no page the program refuses to print.
THEOREM OnlyPrintableIsMailed ==
  ASSUME FreshDirectory
  PROVE  Spec => []MailsOnlyPrintable
<1>1. IInv => MailsOnlyPrintable
  <2> SUFFICES ASSUME IInv, pc = "done", NEW m \in manifest
               PROVE  /\ given.refused => Form1040 \notin m.mailed
                      /\ given.statement => Sch1 \notin m.mailed
    BY DEF MailsOnlyPrintable
  <2>1. m.mailed = {"f1040x"} \cup Attached \cup StateMail
    BY DEF IInv, ManifestInv, MailingInv
  <2>2. StateMail \cap Forms = {} /\ "f1040x" \notin Forms
    BY StateMailNames, FileNames DEF IInv
  <2>3. Sch1 \in Forms /\ Form1040 \in Forms
    BY FormAssumption
  <2>4. QED
    BY <2>1, <2>2, <2>3 DEF IInv, PrintableInv
<1>2. QED
  BY <1>1, Invariance, PTL

\* The record of a complete packet lists what is mailed, under the names on
\* disk, and the original's Form 540 is not left with this run's content.
THEOREM RecordIsTrue ==
  ASSUME FreshDirectory
  PROVE  Spec => []RecordIsDelivered
<1>1. IInv => RecordIsDelivered
  <2> SUFFICES ASSUME IInv, pc = "done"
               PROVE  record = mailed /\ disk["f540"] # run
    BY DEF RecordIsDelivered
  <2>1. record = mailed /\ mailed = {"f1040x"} \cup Attached \cup StateMail
    BY DEF IInv, MailingInv, Unlisted
  <2>2. "f540" \notin Attached /\ "f540" \notin StateMail
    BY GivenFacts, StateMailNames, FileNames DEF IInv
  <2>3. "f540" \notin record
    BY <2>1, <2>2
  <2>4. QED
    BY <2>1, <2>3, FileNames DEF IInv, DiskInv
<1>2. QED
  BY <1>1, Invariance, PTL
=============================================================================
