----------------------------- MODULE ReturnRun -----------------------------
(***************************************************************************)
(* tenforty/__main__.py (the federal, ca and scorp commands) over one      *)
(* output directory, with the emission order of tenforty/orchestrator.py   *)
(* and the packets of PdfPacket.                                           *)
(*                                                                         *)
(* A command emits loose forms one at a time, assembles them into packets  *)
(* and then removes the loose forms that went into one.  It may refuse at  *)
(* every form and every packet, and the process may die at every write;    *)
(* another command, for the same return or a corrected one, may follow in  *)
(* the same directory.                                                     *)
(*                                                                         *)
(* A file's content is the number of the run that wrote it.  One tax year. *)
(***************************************************************************)
EXTENDS PdfPacket

CONSTANTS
  Returns,    \* what commands are run on: the records Coherent describes
  MaxCopies,  \* bound: businesses, shareholders
  MaxRuns,    \* bound: commands run in the directory
  Absent, Torn, Source   \* no file; a half-written one; a source document's content

Nums == 1 .. MaxCopies
K1(n)     == Numbered("1120s_k1", n)
K1Stmt(n) == Numbered("1120s_k1_qbi_stmt", n)
CAK1(n)   == Numbered("f100s_k1", n)
SchC(n)   == Numbered("sch_c", n)

\* Form 4562 copies are named by activity; sections count from 0.
Form4562Copies == [i \in 1 .. 2 * MaxCopies |->
  IF i <= MaxCopies THEN ActivityCopy("f4562", 1, i - 1)
                    ELSE ActivityCopy("f4562", 2, i - MaxCopies - 1)]

\* Files a command writes that are not in the mapping it returns.
SideFiles == {Sole("f3115_filing_manifest"), Sole("ca_resolved"),
              Sole("scorp_amendment_note")}

\* The order in which forms are emitted (_federal_individual_emit_plan,
\* _emit_pdfs_internal and the corporate and California emitters).
IndividualOrder ==
  <<Sole("1040"), Sole("4868"), Sole("sch_b"), Sole("sch_d"), Sole("f8949"),
    Sole("sch_e"), Sole("sch_a"), Sole("sch_1"), Sole("sch_2")>>
  \o [n \in Nums |-> SchC(n)]
  \o <<Sole("sch_se"), Sole("f4562")>> \o Form4562Copies
  \o <<Sole("8959"), Sole("8962"), Sole("f8995"), Sole("f8582"),
       Sole("sch_1_8z_stmt"),
       Sole("f3115"), Sole("f3115_asset_stmt"), Sole("f3115_duplicate_copy"),
       Sole("f3115_filing_manifest")>>

CorporateOrder ==
  <<Sole("1120s")>>
  \o [i \in 1 .. 2 * MaxCopies |->
        IF i % 2 = 1 THEN K1((i + 1) \div 2) ELSE K1Stmt(i \div 2)]
  \o <<Sole("1120s_other_deductions_stmt")>>

CaliforniaOrder ==
  <<Sole("f540"), Sole("sch_ca"), Sole("sch_d_540"), Sole("ftb3532"),
    Sole("ca_resolved")>>

CaliforniaCorporateOrder ==
  <<Sole("f100s")>> \o [n \in Nums |-> CAK1(n)]
  \o <<Sole("f100s_other_deductions_stmt"), Sole("scorp_amendment_note")>>

EmitOrder ==
  [federal |-> IndividualOrder \o CorporateOrder \o <<Sole("depreciation_audit")>>,
   ca      |-> CaliforniaOrder,
   scorp   |-> CorporateOrder \o CaliforniaCorporateOrder]

Keys == UNION {ToSet(EmitOrder[cmd]) : cmd \in DOMAIN EmitOrder}

\* A return: the command, the files its run emits, and the packets each of
\* its W-2's source document is routed to.
Docs == {{"federal_individual"}, {"federal_individual", "california"}}

Contiguous(keys, F(_)) ==
  \A n \in Nums \ {1} : F(n) \in keys => F(n - 1) \in keys

Coherent(c) ==
  LET has(base) == Sole(base) \in c.keys
      copies    == {k \in c.keys : k.base = "f4562"}
  IN
  /\ c.cmd \in DOMAIN EmitOrder
  /\ c.keys \subseteq ToSet(EmitOrder[c.cmd]) /\ c.docs \in Seq(Docs)
  /\ c.cmd = "federal" => has("1040") /\ has("4868")
  /\ c.cmd = "ca" => has("f540") /\ has("sch_ca") /\ has("ca_resolved")
  /\ c.cmd = "scorp" => has("1120s")
  /\ has("sch_1_8z_stmt") => has("sch_1")
  /\ Cardinality({base \in {"f3115", "f3115_asset_stmt",
        "f3115_duplicate_copy", "f3115_filing_manifest"} : has(base)}) \in {0, 4}
  /\ has("f4562") => copies = {Sole("f4562")}
  /\ ~has("f4562") => Cardinality(copies) # 1
  /\ Contiguous(c.keys, SchC) /\ Contiguous(c.keys, K1) /\ Contiguous(c.keys, CAK1)
  /\ \A n \in Nums : /\ K1(n) \in c.keys <=> K1Stmt(n) \in c.keys
                     /\ K1(n) \in c.keys => has("1120s")
                     /\ has("f100s") => (K1(n) \in c.keys <=> CAK1(n) \in c.keys)
                     /\ CAK1(n) \in c.keys => has("f100s")
  /\ has("1120s") => K1(1) \in c.keys
  /\ has("1120s_other_deductions_stmt") => has("1120s")
  /\ has("f100s_other_deductions_stmt") => has("f100s")
  /\ has("scorp_amendment_note") => has("f100s")

\* What a packet is made of: forms, with the run that wrote them, and the
\* W-2s of the return.
DocKey(i) == Numbered("w2", i)
Entries == (Keys \X (1 .. MaxRuns))
             \cup ([base : {"w2"}, slug : {0}, num : Nat] \X {Source})

ASSUME ReturnsAssumption ==
  /\ MaxCopies \in Nat \ {0} /\ MaxRuns \in Nat
  /\ Absent # Torn /\ Absent # Source /\ Torn # Source
  /\ {Absent, Torn, Source} \cap (1 .. MaxRuns) = {}
  /\ Absent \notin Seq(Entries) /\ Torn \notin Seq(Entries)
  /\ \A c \in Returns : Coherent(c)

VARIABLES
  pc,       \* "idle", "emit", "assemble", "prune", "done" or "refused"
  returns,  \* the returns run so far, the current one last
  step,     \* the next form to emit, packet to assemble or form to prune
  emitted,  \* keys the current run has emitted
  files,    \* [Keys -> content]: the loose files
  packets,  \* [PacketNames -> content]: sequences of <<key, content>>
  shown     \* the run has pointed the filer at a Form 3115 manifest

vars == <<pc, returns, step, emitted, files, packets, shown>>

run   == Len(returns)
given == returns[run]
Plan(c) == Where(EmitOrder[c.cmd], LAMBDA k : k \in c.keys)

\* The mapping a command returns lists its forms in emission order.
EmittedOrder == Where(Plan(given), LAMBDA k : k \notin SideFiles)

TypeOK ==
  /\ pc \in {"idle", "emit", "assemble", "prune", "done", "refused"}
  /\ returns \in Seq(Returns) /\ run <= MaxRuns
  /\ step \in CASE pc = "emit"     -> 1 .. Len(Plan(given)) + 1
                [] pc = "assemble" -> 1 .. Len(Packets) + 1
                [] pc = "prune"    -> 1 .. Len(EmittedOrder) + 1
                [] OTHER           -> {1}
  /\ emitted \subseteq Keys
  /\ files \in [Keys -> 1 .. MaxRuns \cup {Absent, Torn}]
  /\ packets \in [PacketNames -> {Absent, Torn} \cup Seq(Entries)]
  /\ shown \in BOOLEAN

Init ==
  /\ pc = "idle" /\ returns = <<>> /\ step = 1 /\ emitted = {} /\ shown = FALSE
  /\ files = [k \in Keys |-> Absent]
  /\ packets = [p \in PacketNames |-> Absent]

Go(stage) == pc' = stage /\ step' = 1

----------------------------------------------------------------------------

\* A command starts: the scenario loads, and the gates and the computation
\* let it through (a return they refuse writes nothing).
Start(c) ==
  /\ pc \in {"idle", "done", "refused"}
  /\ run < MaxRuns
  /\ Go("emit")
  /\ returns' = Append(returns, c)
  /\ emitted' = {} /\ shown' = FALSE
  /\ UNCHANGED <<files, packets>>

\* One form is filled, or one statement or side file written.
Emit ==
  LET k == Plan(given)[step] IN
  /\ pc = "emit" /\ step <= Len(Plan(given))
  /\ files' = [files EXCEPT ![k] = run]
  /\ emitted' = emitted \cup ({k} \ SideFiles)
  /\ step' = step + 1
  /\ UNCHANGED <<pc, returns, packets, shown>>

\* Mutant: assembly goes on counting where emission stopped.
EmitDoneKeepsStep ==
  /\ pc = "emit" /\ step > Len(Plan(given))
  /\ pc' = "assemble"
  /\ UNCHANGED <<returns, step, emitted, files, packets, shown>>

EmitDone ==
  /\ pc = "emit" /\ step > Len(Plan(given))
  /\ Go("assemble")
  /\ UNCHANGED <<returns, emitted, files, packets, shown>>

\* The documents routed to a packet, in declaration order.
DocsFor(packet) ==
  LET routed == Kept(Len(given.docs),
                     {i \in DOMAIN given.docs : packet.name \in given.docs[i]})
  IN [j \in DOMAIN routed |-> DocKey(routed[j])]

Content(k) == IF k.base = "w2" THEN Source ELSE files[k]

\* Mutant: a packet is assembled from the forms found in the directory.
AssemblePacketFromDirectory ==
  LET packet  == Packets[step]
      present == {k \in Keys : files[k] \notin {Absent, Torn}}
      members == OrderedMembers(present, packet)
      paths   == Splice(members, DocsFor(packet), packet, present)
  IN
  /\ pc = "assemble" /\ step <= Len(Packets)
  /\ packets' = IF members = <<>> THEN packets
                ELSE [packets EXCEPT ![packet.name] =
                        [i \in DOMAIN paths |-> <<paths[i], Content(paths[i])>>]]
  /\ step' = step + 1
  /\ UNCHANGED <<pc, returns, emitted, files, shown>>

\* One packet is assembled from the run's own forms; one that has none is
\* skipped, whatever documents are routed to it.
AssemblePacket ==
  LET packet  == Packets[step]
      members == OrderedMembers(emitted, packet)
      paths   == Splice(members, DocsFor(packet), packet, emitted)
  IN
  /\ pc = "assemble" /\ step <= Len(Packets)
  /\ packets' = IF members = <<>> THEN packets
                ELSE [packets EXCEPT ![packet.name] =
                        [i \in DOMAIN paths |-> <<paths[i], Content(paths[i])>>]]
  /\ step' = step + 1
  /\ UNCHANGED <<pc, returns, emitted, files, shown>>

\* Mutant: pruning starts as soon as the first packet is assembled.
AssembleDoneEarly ==
  /\ pc = "assemble" /\ step > 1
  /\ Go("prune")
  /\ UNCHANGED <<returns, emitted, files, packets, shown>>

AssembleDone ==
  /\ pc = "assemble" /\ step > Len(Packets)
  /\ Go("prune")
  /\ UNCHANGED <<returns, emitted, files, packets, shown>>

\* A loose form that went into a packet is removed; one no packet claims is
\* kept.
Prune ==
  LET k == EmittedOrder[step] IN
  /\ pc = "prune" /\ step <= Len(EmittedOrder)
  /\ files' = IF ClassifyKey(k) \in {"none", "standalone"} THEN files
              ELSE [files EXCEPT ![k] = Absent]
  /\ step' = step + 1
  /\ UNCHANGED <<pc, returns, emitted, packets, shown>>

\* The command reports what it made.  The federal command then points at
\* every Form 3115 filing manifest in the directory.
Report ==
  /\ pc = "prune" /\ step > Len(EmittedOrder)
  /\ Go("done")
  /\ shown' = (given.cmd = "federal" /\ files[Sole("f3115_filing_manifest")] # Absent)
  /\ UNCHANGED <<returns, emitted, files, packets>>

\* Whatever raises: an emit gate, a fill, a later form's computation, optional
\* content a packet cannot merge.  Nothing on disk is cleaned up.
Refuse ==
  /\ \/ pc = "emit" /\ step <= Len(Plan(given))
     \/ pc = "assemble" /\ step <= Len(Packets)
        /\ OrderedMembers(emitted, Packets[step]) # <<>>
  /\ Go("refused")
  /\ UNCHANGED <<returns, emitted, files, packets, shown>>

\* The process dies, possibly in the middle of a write.
Crash ==
  /\ \/ /\ pc \in {"emit", "assemble", "prune"}
        /\ UNCHANGED <<files, packets>>
     \/ /\ pc = "emit" /\ step <= Len(Plan(given))
        /\ files' = [files EXCEPT ![Plan(given)[step]] = Torn]
        /\ UNCHANGED packets
     \/ /\ pc = "assemble" /\ step <= Len(Packets)
        /\ OrderedMembers(emitted, Packets[step]) # <<>>
        /\ packets' = [packets EXCEPT ![Packets[step].name] = Torn]
        /\ UNCHANGED files
  /\ Go("idle")
  /\ UNCHANGED <<returns, emitted, shown>>

Next ==
  \/ \E c \in Returns : Start(c)
  \/ Emit \/ EmitDone \/ AssemblePacket \/ AssembleDone \/ Prune \/ Report
  \/ Refuse \/ Crash

Spec == Init /\ [][Next]_vars

----------------------------------------------------------------------------
(* Properties.                                                             *)

\* The filing each form belongs to and its place there: the attachment
\* sequence numbers the packet comments of pdf_packet.py give (times ten).
Place == [
  federal_individual |-> <<<<"1040", 0>>, <<"sch_1", 10>>,
    <<"sch_1_8z_stmt", 11>>, <<"sch_2", 20>>, <<"sch_a", 70>>, <<"sch_b", 80>>,
    <<"sch_c", 90>>, <<"sch_d", 120>>, <<"f8949", 121>>, <<"sch_e", 130>>,
    <<"sch_se", 170>>, <<"f8995", 550>>, <<"8959", 710>>, <<"8962", 730>>,
    <<"f8582", 880>>, <<"f4562", 1790>>, <<"f3115", 3150>>,
    <<"f3115_asset_stmt", 3151>>>>,
  federal_corporate |-> <<<<"1120s", 0>>, <<"1120s_k1", 1>>,
    <<"1120s_k1_qbi_stmt", 2>>, <<"1120s_other_deductions_stmt", 3>>>>,
  california |-> <<<<"f540", 0>>, <<"sch_ca", 1>>, <<"sch_d_540", 2>>,
    <<"ftb3532", 3>>>>,
  california_corporate |-> <<<<"f100s", 0>>, <<"f100s_k1", 1>>,
    <<"f100s_other_deductions_stmt", 2>>>>]

Belongs(k, p) == \E e \in ToSet(Place[p]) : e[1] = k.base
PlaceOf(k, p) == (CHOOSE e \in ToSet(Place[p]) : e[1] = k.base)[2]

\* Every packet in the directory that is not half-written is the whole filing
\* of ONE run: all of that run's forms that belong to it, none of another
\* run's (a crashed or refused run leaves forms of its own behind), in
\* attachment order with copies by activity and number, and the W-2s routed
\* to it, in their order, directly behind the main form.
InAttachmentOrder(k, l, p) ==
  \/ PlaceOf(k, p) < PlaceOf(l, p)
  \/ PlaceOf(k, p) = PlaceOf(l, p) /\ k.slug < l.slug
  \/ PlaceOf(k, p) = PlaceOf(l, p) /\ k.slug = l.slug /\ k.num < l.num

IsFiling(packet, p, c, r) ==
  LET docs == {i \in DOMAIN c.docs : p \in c.docs[i]}
      n    == Cardinality(docs)
      form(i) == packet[IF i = 1 THEN 1 ELSE i + n]
      forms == 1 .. Len(packet) - n
  IN
  /\ forms # {}
  /\ {form(i) : i \in forms} = {<<k, r>> : k \in {f \in c.keys : Belongs(f, p)}}
  /\ \A i \in forms : i + 1 \in forms =>
       InAttachmentOrder(form(i)[1], form(i + 1)[1], p)
  /\ {packet[i + 1] : i \in 1 .. n} = {<<DocKey(d), Source>> : d \in docs}
  /\ \A i \in 1 .. n - 1 : packet[i + 1][1].num < packet[i + 2][1].num

WholePackets ==
  \A p \in PacketNames : packets[p] \notin {Absent, Torn} =>
    \E r \in 1 .. run : IsFiling(packets[p], p, returns[r], r)

FiledOnce ==
  pc = "done" =>
    \A k \in emitted :
      LET in == {p \in PacketNames : packets[p] \notin {Absent, Torn}
                                     /\ <<k, run>> \in ToSet(packets[p])}
      IN IF \E p \in PacketNames : Belongs(k, p)
         THEN files[k] = Absent /\ Cardinality(in) = 1
         ELSE files[k] = run /\ in = {}

\* Packets are filings of one run each, and a command that finished leaves
\* each of its forms in exactly one place: in the packet of its filing, or,
\* when it is a filing of its own, as a file.
PacketsAreFilings == WholePackets /\ FiledOnce

\* A form is never in neither place: from the moment a run has emitted it,
\* through assembly, pruning, refusals and crashes, it is a loose file or a
\* page of a packet that is whole.
NoFormIsLost ==
  \A k \in emitted :
    \/ files[k] = run
    \/ \E p \in PacketNames : /\ packets[p] \notin {Absent, Torn}
                              /\ <<k, run>> \in ToSet(packets[p])

\* "Point at the Form 3115 filing manifest when the run wrote one"
\* (__main__.py:117-119).
PointsAtOwnManifest ==
  shown => Sole("f3115_filing_manifest") \in given.keys
=============================================================================
