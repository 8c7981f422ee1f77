-------------------------- MODULE AmendmentPacket --------------------------
(***************************************************************************)
(* tenforty/orchestrator.py: run_amendment_packet, over the directory its  *)
(* runs write into, with the changed-forms selection of                    *)
(* tenforty/selector.py.  A run fills Form 1040-X, then the federal forms  *)
(* whose payload changed, then Schedule X and the amended Form 540, and    *)
(* writes packet_manifest.txt last.  It may refuse at every form, and the  *)
(* process may die at every write; another run may follow in the same      *)
(* directory.                                                              *)
(*                                                                         *)
(* A file's content is the number of the run that wrote it.  A form's      *)
(* payload is a member of Payloads.                                        *)
(***************************************************************************)
EXTENDS Naturals, FiniteSets

CONSTANTS
  Forms,          \* federal individual forms, by name
  Rank,           \* [Forms -> Nat]: the names' sort order, one to one
  Sch1,           \* the form that is Schedule 1
  Form1040,       \* the form that is Form 1040, the one that may be refused
  Payloads,       \* what a form may print
  FiledPayloads,  \* what a form of the filed return may print
  MaxRuns,        \* bound: runs in one directory
  ComputeOnly,    \* are there compute-only years? (years.py lists none today)
  ReuseComplete,  \* may a run start where a manifest already is?
  NoForm,         \* the payload of a form a return does not have
  Absent, Torn, Original   \* no file; a half-written one; one of the original return's

StateForms == {"sch_ca", "sch_d_540", "ftb3532"}
CAFiles    == StateForms \cup {"schedule_x", "f540", "f540_amended"}
Files      == Forms \cup CAFiles \cup {"f1040x"}
Contents   == 1 .. MaxRuns \cup {Absent, Torn, Original}

ASSUME FormAssumption ==
  /\ Rank \in [Forms -> Nat]
  /\ \A f, g \in Forms : Rank[f] = Rank[g] => f = g
  /\ Sch1 \in Forms /\ Form1040 \in Forms
  /\ NoForm \notin Payloads /\ FiledPayloads \subseteq Payloads
  /\ MaxRuns \in Nat
  /\ ComputeOnly \in BOOLEAN /\ ReuseComplete \in BOOLEAN
  /\ Forms \cap (CAFiles \cup {"f1040x"}) = {}
  /\ {Absent, Torn, Original} \cap (1 .. MaxRuns) = {}
  /\ Absent # Torn /\ Absent # Original /\ Torn # Original

\* What one run is given, as far as it decides what the run writes.
\*   filed, corrected   the payloads of the as-filed and of the corrected run
\*   refused            the corrected 1040 must not be rendered
\*   statement          the corrected Schedule 1 line 8z reads "See statement"
\*   fullFederal        the year is a full-emit federal year
\*   ca                 no CA side, a compute-only CA year, a full-emit one
\*   required           the optional 540 attachments this return needs
Cases == [filed : [Forms -> FiledPayloads \cup {NoForm}],
          corrected : [Forms -> Payloads \cup {NoForm}],
          refused : BOOLEAN, statement : BOOLEAN, fullFederal : BOOLEAN,
          ca : {"none", "compute only", "full"},
          required : SUBSET {"sch_d_540", "ftb3532"}]

\* Every return has a Form 1040; only a full-emit year builds payloads, and
\* only a full-emit CA year has 540 attachments.
CoherentCases ==
  {c \in Cases :
     /\ IF c.fullFederal
          THEN c.filed[Form1040] # NoForm /\ c.corrected[Form1040] # NoForm
          ELSE /\ \A f \in Forms : c.filed[f] = NoForm /\ c.corrected[f] = NoForm
               /\ ~c.refused
     /\ c.statement => c.corrected[Sch1] # NoForm
     /\ c.ca # "full" => c.required = {}
     /\ ~ComputeOnly => c.fullFederal /\ c.ca # "compute only"}

VARIABLES
  pc,        \* where the current run is
  run,       \* the number of the current (or last) run
  given,     \* the case of the current run
  queue,     \* changed forms still to render
  mailed,    \* files this run has put on its mailing list
  record,    \* paths in this run's emit record
  disk,      \* [Files -> Contents]: the output directory
  manifest   \* packet_manifest.txt: {} or one [run, mailed, dropped]

vars == <<pc, run, given, queue, mailed, record, disk, manifest>>

Running == {"1040x", "select", "attach", "california", "f540", "sch_ca",
            "sch_d_540", "ftb3532", "rename", "manifest"}

Manifests == [run : 1 .. MaxRuns, mailed : SUBSET Files, dropped : SUBSET Forms]

TypeOK ==
  /\ pc \in Running \cup {"idle", "refused", "done"}
  /\ run \in 0 .. MaxRuns
  /\ given \in IF pc \in Running \cup {"done"} THEN CoherentCases ELSE {{}}
  /\ queue \subseteq IF pc = "attach" THEN Forms ELSE {}
  /\ mailed \subseteq Files
  /\ record \subseteq Files
  /\ disk \in [Files -> Contents]
  /\ manifest \subseteq Manifests /\ Cardinality(manifest) <= 1

\* The directory is empty, or holds the original return's loose forms.
Init ==
  /\ pc = "idle" /\ run = 0 /\ given = {}
  /\ queue = {} /\ mailed = {} /\ record = {} /\ manifest = {}
  /\ \E left \in {{}, Forms \cup {"f540", "sch_ca"}} :
       disk = [f \in Files |-> IF f \in left THEN Original ELSE Absent]

----------------------------------------------------------------------------
(* tenforty/selector.py.                                                   *)

\* Mutant: a form the filed return did not have is not selected.
ChangedFormsNotNew(filed, corrected) ==
  {f \in Forms : /\ corrected[f] # NoForm /\ filed[f] # NoForm
                 /\ corrected[f] # filed[f]}

ChangedForms(filed, corrected) ==
  {f \in Forms : corrected[f] # NoForm /\ corrected[f] # filed[f]}

DroppedForms(filed, corrected) ==
  {f \in Forms : filed[f] # NoForm /\ corrected[f] = NoForm}

\* Changed forms are rendered in the order of their names.
First(S) == CHOOSE f \in S : \A g \in S : Rank[f] <= Rank[g]

----------------------------------------------------------------------------
(* One run.                                                                *)

\* The fill chokepoint: the form is on disk and in the record, or nothing is.
Fill(file) ==
  /\ disk' = [disk EXCEPT ![file] = run]
  /\ record' = record \cup {file}

\* The run raises or dies: its locals are gone, and nothing on disk is
\* cleaned up.
Forget == given' = {} /\ queue' = {} /\ mailed' = {} /\ record' = {}

\* The named refusals fall here before anything happens; otherwise mkdir, and
\* the run begins with an empty record and mailing list.
Start(c) ==
  /\ pc \notin Running
  /\ run < MaxRuns
  /\ manifest = {} \/ ReuseComplete
  /\ pc' = "1040x" /\ run' = run + 1 /\ given' = c
  /\ queue' = {} /\ mailed' = {} /\ record' = {}
  /\ UNCHANGED <<disk, manifest>>

\* The corrected return, Column A and the assembler's guards, then the fill.
Fill1040X ==
  /\ pc = "1040x"
  /\ Fill("f1040x")
  /\ mailed' = mailed \cup {"f1040x"}
  /\ pc' = "select"
  /\ UNCHANGED <<run, given, queue, manifest>>

\* Full-emit federal years select the changed forms; a changed Schedule 1
\* whose line 8z refers to a statement refuses the run.
SelectForms ==
  LET changed    == ChangedForms(given.filed, given.corrected)
      unattached == given.statement /\ Sch1 \in changed
  IN
  /\ pc = "select"
  /\ \/ ~given.fullFederal /\ pc' = "california"
        /\ UNCHANGED <<given, queue, mailed, record>>
     \/ given.fullFederal /\ unattached /\ pc' = "refused" /\ Forget
     \/ given.fullFederal /\ ~unattached /\ pc' = "attach" /\ queue' = changed
        /\ UNCHANGED <<given, mailed, record>>
  /\ UNCHANGED <<run, disk, manifest>>

\* Mutant: a spec's refusal is not looked at.
RenderAnyChanged ==
  LET f == First(queue) IN
  /\ pc = "attach" /\ queue # {}
  /\ Fill(f)
  /\ mailed' = mailed \cup {f}
  /\ queue' = queue \ {f}
  /\ UNCHANGED <<pc, run, given, manifest>>

\* The next changed form is rendered, unless it is refused.
RenderChanged ==
  LET f == First(queue) IN
  /\ pc = "attach" /\ queue # {}
  /\ ~(given.refused /\ f = Form1040)
  /\ Fill(f)
  /\ mailed' = mailed \cup {f}
  /\ queue' = queue \ {f}
  /\ UNCHANGED <<pc, run, given, manifest>>

\* Mutant: the manifest is written before the California side.
AttachmentsDoneEarlyManifest ==
  /\ pc = "attach" /\ queue = {}
  /\ manifest' = {[run |-> run, mailed |-> mailed, dropped |-> {}]}
  /\ pc' = "california"
  /\ UNCHANGED <<run, given, queue, mailed, record, disk>>

\* Mutant: rendering stops while changed forms are left.
AttachmentsDoneTooSoon ==
  /\ pc = "attach"
  /\ pc' = "california"
  /\ UNCHANGED <<run, given, queue, mailed, record, disk, manifest>>

AttachmentsDone ==
  /\ pc = "attach" /\ queue = {}
  /\ pc' = "california"
  /\ UNCHANGED <<run, given, queue, mailed, record, disk, manifest>>

\* The California side: Schedule X, and the 540 in a full-emit year.
FillScheduleX ==
  /\ pc = "california" /\ given.ca # "none"
  /\ Fill("schedule_x")
  /\ mailed' = mailed \cup {"schedule_x"}
  /\ pc' = IF given.ca = "full" THEN "f540" ELSE "manifest"
  /\ UNCHANGED <<run, given, queue, manifest>>

NoCalifornia ==
  /\ pc = "california" /\ given.ca = "none"
  /\ pc' = "manifest"
  /\ UNCHANGED <<run, given, queue, mailed, record, disk, manifest>>

\* _emit_ca_pdfs_internal: the amended 540 is filled under the ORIGINAL 540's
\* name, then its schedules in order, each only when required.
NextCA == [f540 |-> "sch_ca", sch_ca |-> "sch_d_540",
           sch_d_540 |-> "ftb3532", ftb3532 |-> "rename"]

FillCA ==
  /\ pc \in DOMAIN NextCA
  /\ IF pc \in {"f540", "sch_ca"} \cup given.required
       THEN Fill(pc) ELSE UNCHANGED <<disk, record>>
  /\ pc' = NextCA[pc]
  /\ UNCHANGED <<run, given, queue, mailed, manifest>>

\* Mutant: the record keeps the 540's old path.
Rename540Unrecorded ==
  /\ pc = "rename"
  /\ disk' = [disk EXCEPT !["f540_amended"] = disk["f540"], !["f540"] = Absent]
  /\ mailed' = mailed \cup {"f540_amended", "sch_ca"} \cup given.required
  /\ pc' = "manifest"
  /\ UNCHANGED <<run, given, queue, record, manifest>>

\* Mutant: the optional attachments are listed whether or not they were filled.
Rename540ListingAll ==
  /\ pc = "rename"
  /\ disk' = [disk EXCEPT !["f540_amended"] = disk["f540"], !["f540"] = Absent]
  /\ record' = (record \ {"f540"}) \cup {"f540_amended"}
  /\ mailed' = mailed \cup {"f540_amended", "sch_ca", "sch_d_540", "ftb3532"}
  /\ pc' = "manifest"
  /\ UNCHANGED <<run, given, queue, manifest>>

\* The 540 moves to its amended name, the record with it, and the CA files
\* join the mailing list.
Rename540 ==
  /\ pc = "rename"
  /\ disk' = [disk EXCEPT !["f540_amended"] = disk["f540"], !["f540"] = Absent]
  /\ record' = (record \ {"f540"}) \cup {"f540_amended"}
  /\ mailed' = mailed \cup {"f540_amended", "sch_ca"} \cup given.required
  /\ pc' = "manifest"
  /\ UNCHANGED <<run, given, queue, manifest>>

\* packet_manifest.txt, last.
Dropped == IF given.fullFederal THEN DroppedForms(given.filed, given.corrected) ELSE {}

WriteManifest ==
  /\ pc = "manifest"
  /\ manifest' = {[run |-> run, mailed |-> mailed, dropped |-> Dropped]}
  /\ pc' = "done"
  /\ UNCHANGED <<run, given, queue, mailed, record, disk>>

\* Everything else that raises: a compute guard, a filed-value or assembler
\* guard, the emit gate, a CA gate, the refused 1040.
Refuse ==
  /\ pc \in Running \ {"rename", "manifest"}
  /\ pc = "attach" => queue # {}
  /\ pc = "california" => given.ca # "none"
  /\ pc' = "refused"
  /\ Forget
  /\ UNCHANGED <<run, disk, manifest>>

\* The process dies.  The form being written may be left half written; so may
\* the manifest, which then lists only part of what the run mails.
BeingWritten ==
  CASE pc = "1040x" -> {"f1040x"}
    [] pc = "attach" /\ queue # {} -> {First(queue)}
    [] pc = "california" /\ given.ca # "none" -> {"schedule_x"}
    [] pc \in {"f540", "sch_ca"} -> {pc}
    [] pc \in {"sch_d_540", "ftb3532"} -> {pc} \cap given.required
    [] OTHER -> {}

Crash ==
  /\ pc \in Running
  /\ \E torn \in SUBSET BeingWritten :
       disk' = [f \in Files |-> IF f \in torn THEN Torn ELSE disk[f]]
  /\ \/ UNCHANGED manifest
     \/ pc = "manifest" /\ \E part \in SUBSET mailed :
          manifest' = {[run |-> run, mailed |-> part, dropped |-> {}]}
  /\ pc' = "idle"
  /\ Forget
  /\ UNCHANGED run

Next ==
  \/ \E c \in CoherentCases : Start(c)
  \/ Fill1040X \/ SelectForms \/ RenderChanged \/ AttachmentsDone
  \/ FillScheduleX \/ NoCalifornia \/ FillCA \/ Rename540 \/ WriteManifest
  \/ Refuse \/ Crash

Spec == Init /\ [][Next]_vars

----------------------------------------------------------------------------
(* Properties.                                                             *)

\* "The absence of packet_manifest.txt marks the packet incomplete"
\* (orchestrator.py:2373-2376): so where there is a manifest, every file it
\* mails is whole, is on disk, and is of the run that wrote the manifest,
\* whatever earlier runs and crashes left in the directory.
ManifestVouches ==
  \A m \in manifest : \A f \in m.mailed : disk[f] = m.run

\* A run refused after its Form 1040-X was written says that file "is already
\* written in the output directory and no packet_manifest.txt is: the missing
\* manifest marks the packet incomplete" (orchestrator.py:3799-3803), so it
\* leaves a directory without one.
RefusalLeavesNoManifest ==
  pc = "refused" /\ disk["f1040x"] = run => manifest = {}

\* The attachments of a full-emit federal year carry the correction: taking
\* the filed return, replacing the mailed forms by the corrected ones and
\* striking the dropped ones gives the corrected return (selector.py).
AttachmentsCarryCorrection ==
  pc = "done" /\ given.fullFederal =>
    \A m \in manifest :
      [f \in Forms |-> CASE f \in m.mailed  -> given.corrected[f]
                         [] f \in m.dropped -> NoForm
                         [] OTHER           -> given.filed[f]]
        = given.corrected

\* A packet that is marked complete mails no form the program refuses to
\* print, and no Schedule 1 that refers to a statement it does not attach.
MailsOnlyPrintable ==
  pc = "done" =>
    \A m \in manifest : /\ given.refused => Form1040 \notin m.mailed
                        /\ given.statement => Sch1 \notin m.mailed

\* The emit record describes the packet as delivered: what it lists is what
\* is mailed, under the name it has on disk (record.py:51-53), and no amended
\* 540 is left under the original's name.
RecordIsDelivered ==
  pc = "done" => record = mailed /\ disk["f540"] # run

----------------------------------------------------------------------------
(* The inductive strengthening of the properties above, for directories in *)
(* which no run starts where a manifest already is.                        *)

\* The federal forms a run attaches, once it has selected them.
Attached == IF given.fullFederal
              THEN ChangedForms(given.filed, given.corrected) ELSE {}

\* The California files a run mails, and those it has filled so far but not
\* yet put on the mailing list.
StateMail == CASE given.ca = "none"         -> {}
               [] given.ca = "compute only" -> {"schedule_x"}
               [] given.ca = "full"         ->
                    {"schedule_x", "f540_amended", "sch_ca"} \cup given.required

Unlisted == CASE pc = "sch_ca"    -> {"f540"}
              [] pc = "sch_d_540" -> {"f540", "sch_ca"}
              [] pc = "ftb3532"   -> {"f540", "sch_ca"}
                                       \cup (given.required \cap {"sch_d_540"})
              [] pc = "rename"    -> {"f540", "sch_ca"} \cup given.required
              [] OTHER            -> {}

\* What the mailing list holds at each point, and the record beside it.
MailingInv ==
  /\ pc = "1040x"  => mailed = {}
  /\ pc = "select" => mailed = {"f1040x"}
  /\ pc = "attach" => /\ given.fullFederal /\ queue \subseteq Attached
                      /\ mailed = {"f1040x"} \cup (Attached \ queue)
  /\ pc = "california" => mailed = {"f1040x"} \cup Attached
  /\ pc \in DOMAIN NextCA \cup {"rename"} =>
       given.ca = "full" /\ mailed = {"f1040x", "schedule_x"} \cup Attached
  /\ pc \in {"manifest", "done"} => mailed = {"f1040x"} \cup Attached \cup StateMail
  /\ pc \in Running \cup {"done"} => record = mailed \cup Unlisted

\* The files a run has written are the ones in its record: files of other
\* runs have other, lower numbers.
DiskInv ==
  /\ \A f \in Files : disk[f] \in 1 .. run \cup {Absent, Torn, Original}
  /\ pc \in Running \cup {"done"} =>
       run >= 1 /\ \A f \in Files : disk[f] = run <=> f \in record

\* Nothing that must not be printed is attached.
PrintableInv ==
  /\ pc \in (Running \ {"1040x", "select"}) \cup {"done"} /\ given.statement
       => Sch1 \notin Attached
  /\ pc = "attach" /\ given.refused /\ Form1040 \in Attached => Form1040 \in queue
  /\ pc \in (Running \ {"1040x", "select", "attach"}) \cup {"done"} /\ given.refused
       => Form1040 \notin Attached

\* There is no manifest before the end of a run, and then it is the run's.
ManifestInv ==
  /\ pc \in Running \cup {"refused"} => manifest = {}
  /\ pc = "done" => manifest = {[run |-> run, mailed |-> mailed, dropped |-> Dropped]}
  /\ ManifestVouches

IInv == TypeOK /\ MailingInv /\ DiskInv /\ PrintableInv /\ ManifestInv
=============================================================================
