----------------------------- MODULE PdfPacket -----------------------------
(***************************************************************************)
(* tenforty/pdf_packet.py: which packet an emitted form belongs to, and in *)
(* what order a packet's members are assembled.                            *)
(*                                                                         *)
(* An emitted key is its name taken apart: the form, the activity slug of  *)
(* a per-activity copy (0 none, 1 "rental", 2 "sch_c": their sort order)   *)
(* and the number at the end (-1 when there is none).                      *)
(***************************************************************************)
EXTENDS Lists, SequencesExt

Key(base, slug, num) == [base |-> base, slug |-> slug, num |-> num]
Sole(base)           == Key(base, 0, -1)
Numbered(base, n)    == Key(base, 0, n)
ActivityCopy(base, slug, n) == Key(base, slug, n)

Exact(base)  == [base |-> base, kind |-> "exact"]
Family(base) == [base |-> base, kind |-> "family"]
Copies(base) == [base |-> base, kind |-> "copies"]

FederalIndividual ==
  [name |-> "federal_individual",
   members |-> <<Exact("1040"), Exact("sch_1"), Exact("sch_1_8z_stmt"),
     Exact("sch_2"), Exact("sch_a"), Exact("sch_b"), Family("sch_c"),
     Exact("sch_d"), Exact("f8949"), Exact("sch_e"), Exact("sch_se"),
     Exact("f8995"), Exact("8959"), Exact("8962"), Exact("f8582"),
     Copies("f4562"), Exact("f3115"), Exact("f3115_asset_stmt")>>]

FederalCorporate ==
  [name |-> "federal_corporate",
   members |-> <<Exact("1120s"), Family("1120s_k1"),
     Family("1120s_k1_qbi_stmt"), Exact("1120s_other_deductions_stmt")>>]

California ==
  [name |-> "california",
   members |-> <<Exact("f540"), Exact("sch_ca"), Exact("sch_d_540"),
                 Exact("ftb3532")>>]

CaliforniaCorporate ==
  [name |-> "california_corporate",
   members |-> <<Exact("f100s"), Family("f100s_k1"),
                 Exact("f100s_other_deductions_stmt")>>]

Packets == <<FederalIndividual, FederalCorporate, California,
             CaliforniaCorporate>>

PacketNames == {Packets[i].name : i \in DOMAIN Packets}

\* Separate filings and review files: never packet members.
StandaloneBases == {"4868", "f3115_duplicate_copy", "depreciation_audit"}

\* Does a packet's slot claim a key?
Claims(m, k) ==
  /\ k.base = m.base
  /\ \/ m.kind # "family" /\ k.slug = 0 /\ k.num = -1
     \/ m.kind = "family" /\ k.slug = 0 /\ k.num >= 0
     \/ m.kind = "copies" /\ k.slug # 0 /\ k.num >= 0

\* The order inside a slot: by slug, then by number.
Before(k, l) == k.slug < l.slug \/ (k.slug = l.slug /\ k.num < l.num)

\* The members of a packet among the emitted keys, in packet order: by slot,
\* and in a slot by slug and number.
SlotMembers(emitted, packet) ==
  {m \in (DOMAIN packet.members) \X emitted : Claims(packet.members[m[1]], m[2])}
Precedes(m, l) == m[1] < l[1] \/ (m[1] = l[1] /\ Before(m[2], l[2]))

OrderedMembers(emitted, packet) ==
  LET members == SlotMembers(emitted, packet)
      rank(m) == Cardinality({l \in members : Precedes(l, m)})
  IN [n \in 1 .. Cardinality(members) |-> (CHOOSE m \in members : rank(m) = n - 1)[2]]

\* The packet that claims a key, "standalone", or "none".
ClassifyKey(k) ==
  IF k.base \in StandaloneBases THEN "standalone"
  ELSE LET claiming == {i \in DOMAIN Packets :
                          \E m \in ToSet(Packets[i].members) : Claims(m, k)}
       IN IF claiming = {} THEN "none"
          ELSE Packets[CHOOSE i \in claiming : \A j \in claiming : i <= j].name

\* The source documents routed to a packet go right behind its main form, or
\* in front when that form is not there.
Splice(paths, docs, packet, emitted) ==
  LET at == IF Sole(packet.members[1].base) \in emitted THEN 1 ELSE 0
  IN SubSeq(paths, 1, at) \o docs \o SubSeq(paths, at + 1, Len(paths))
=============================================================================
