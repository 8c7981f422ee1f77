------------------------ MODULE FederalReturn_proofs ------------------------
(***************************************************************************)
(* What the pipeline of FederalReturn guarantees for every set of          *)
(* scenarios, tables and workbook answers: the payments of a printed 1040  *)
(* add up, a computed return broke no attestation on the K-1s it was       *)
(* computed with, and a refusal leaves forms behind in five cases only.    *)
(*                                                                         *)
(* The amounts play no part: each stage's figures and ledger stay opaque   *)
(* but for the entries the argument needs.  The inductive invariant says   *)
(* at which stages the 1040's figures exist and which forms may have been  *)
(* written, and carries each promise from the stage whose refusals make    *)
(* it to the last one.                                                     *)
(***************************************************************************)
EXTENDS FederalReturn, FiniteSetTheorems, TLAPS

Early == {"load", "effective", "guards", "income", "deduct", "spine", "workbook",
          "sheet", "answer"}
Late  == {"print", "corporate", "audit", "california", "print_ca", "file", "amend", "attach",
          "schedule_x"}

\* The scenario is one that was given, or its correction.
ScenarioInv ==
  \E s \in Scenarios :
    IF Correcting
    THEN filed.scenario = s /\ s.command = "amendment" /\ scenario = s.amended
    ELSE scenario = s

\* Each command has its own stages, and goes to an amendment's when the
\* original is filed.
StageInv ==
  /\ stage \in Stages \cup Ended
  /\ stage # "refused" => refusal = "none"
  /\ stage \in {"print", "corporate", "audit"} => scenario.command = "federal"
  /\ stage \in {"scorp", "ca_scorp", "f100s_k1s"} => scenario.command = "scorp"
  /\ stage \in Early \ {"load"} => scenario.command # "scorp"
  /\ stage = "file" => ~Correcting
  /\ stage \in {"amend", "attach", "schedule_x"} => Correcting
  /\ stage \in {"file", "amend", "attach", "schedule_x"}
       => scenario.command = "amendment"
  /\ stage \in {"california", "print_ca"}
       => scenario.command \in {"california", "amendment"}

\* When the lines of a Form 1040 exist; those of a Form 540 come after.
NoForms(f) == {"spine", "f540"} \cap DOMAIN f = {}
FiguresInv ==
  /\ "f540" \in DOMAIN figures => Computed
  /\ stage \in Early => NoForms(figures)
  /\ stage \in Late => {"spine", "eic", "path"} \subseteq DOMAIN figures

\* The attestations hold from the stage that asks them.
Unbroken(s) == ViolatedAttestations(WithShareholderK1s(s)) = <<>>
AttestInv ==
  /\ stage \in {"deduct", "spine"} => Unbroken(scenario)
  /\ stage \in Early \ {"load", "effective"} /\ scenario.corp # None
       => Unbroken(scenario)

\* What each stage finds written.
PrintedInv ==
  /\ stage \in Early \cup {"scorp", "print", "file", "amend"} => printed = {}
  /\ stage \in {"california", "print_ca"} /\ scenario.command = "california"
       => printed = {}
  /\ stage = "california" /\ ~Correcting => printed = {}
  /\ stage \in {"corporate", "audit"} => Printed("1040")
  /\ stage = "corporate" /\ scenario.corp # None
       => printed \cap CorporatePacket(scenario.corp) = {}
  /\ stage = "ca_scorp" => printed = CorporatePacket(scenario.corp)
  /\ stage = "f100s_k1s" =>
       printed = CorporatePacket(scenario.corp)
                   \cup FirstCAScorpForms(scenario.corp, scenario.year)
  /\ stage \in {"attach", "schedule_x"} => Printed("f1040x")
  /\ stage = "california" /\ scenario.command = "amendment" /\ Correcting
       => Printed("f1040x")
  /\ stage = "print_ca" /\ scenario.command = "amendment" => Printed("f1040x")

Control == ScenarioInv /\ StageInv /\ FiguresInv /\ AttestInv /\ PrintedInv
IInv == Control /\ AttestationsHoldOnEffective /\ PrintedPaymentsFoot /\ PartialPackets

----------------------------------------------------------------------------
(* Lists of refusals.                                                      *)

Listing(l) == \E S : l \in Seq(S)

LEMMA ShortListings ==
  /\ Listing(<<>>)
  /\ \A a : Listing(<<a>>)
  /\ \A a, b : Listing(<<a, b>>)
  /\ \A a, b, c : Listing(<<a, b, c>>)
  /\ \A a, b, c, d : Listing(<<a, b, c, d>>)
  /\ \A a, b, c, d, e : Listing(<<a, b, c, d, e>>)
<1>1. /\ Listing(<<>>) /\ \A a : Listing(<<a>>)
  <2>1. <<>> \in Seq({}) /\ \A a : <<a>> \in Seq({a})
    OBVIOUS
  <2>2. QED
    BY <2>1 DEF Listing
<1>2. \A a, b : Listing(<<a, b>>)
  <2>1. \A a, b : <<a, b>> \in Seq({a, b})
    OBVIOUS
  <2>2. QED
    BY <2>1 DEF Listing
<1>3. \A a, b, c : Listing(<<a, b, c>>)
  <2>1. \A a, b, c : <<a, b, c>> \in Seq({a, b, c})
    OBVIOUS
  <2>2. QED
    BY <2>1 DEF Listing
<1>4. \A a, b, c, d : Listing(<<a, b, c, d>>)
  <2>1. \A a, b, c, d : <<a, b, c, d>> \in Seq({a, b, c, d})
    OBVIOUS
  <2>2. QED
    BY <2>1 DEF Listing
<1>5. \A a, b, c, d, e : Listing(<<a, b, c, d, e>>)
  <2>1. \A a, b, c, d, e : <<a, b, c, d, e>> \in Seq({a, b, c, d, e})
    OBVIOUS
  <2>2. QED
    BY <2>1 DEF Listing
<1>6. QED
  BY <1>1, <1>2, <1>3, <1>4, <1>5

\* A list of refusals passes when its parts do.
LEMMA Joined ==
  ASSUME NEW a, NEW b, Listing(a), Listing(b)
  PROVE  /\ Listing(a \o b)
         /\ Passes(a \o b) => Passes(a) /\ Passes(b)
<1>1. PICK S : a \in Seq(S)
  BY DEF Listing
<1>2. PICK T : b \in Seq(T)
  BY DEF Listing
<1>3. a \in Seq(S \cup T) /\ b \in Seq(S \cup T)
  BY <1>1, <1>2
<1>4. a \o b \in Seq(S \cup T)
  BY <1>3
<1>5. \A i \in DOMAIN a : i \in DOMAIN (a \o b) /\ (a \o b)[i] = a[i]
  BY <1>3
<1>6. \A i \in DOMAIN b :
        i + Len(a) \in DOMAIN (a \o b) /\ (a \o b)[i + Len(a)] = b[i]
  BY <1>3
<1> DEFINE c == a \o b
<1>7. Passes(c) => Passes(a) /\ Passes(b)
  <2>1. \A i \in DOMAIN a : i \in DOMAIN c /\ c[i] = a[i]
    BY <1>5
  <2>2. \A i \in DOMAIN b : \E j \in DOMAIN c : c[j] = b[i]
    BY <1>6
  <2> HIDE DEF c
  <2>3. QED
    BY <2>1, <2>2 DEF Passes, AnyOf, Offends
<1>8. QED
  BY <1>4, <1>7 DEF Listing

LEMMA PassedEntries ==
  /\ \A n, b : Passes(<<<<n, b>>>>) => ~b
  /\ \A n, b, m, c : Passes(<<<<n, b>>, <<m, c>>>>) => ~b /\ ~c
<1>1. \A n, b : Passes(<<<<n, b>>>>) => ~b
  BY DEF Passes, AnyOf, Offends
<1>2. \A n, b, m, c : Passes(<<<<n, b>>, <<m, c>>>>) => ~b /\ ~c
  BY DEF Passes, AnyOf, Offends
<1>3. QED
  BY <1>1, <1>2

\* What was known before a stage is still known after it.
LEMMA UpdatedLooksUp ==
  ASSUME NEW old, NEW new
  PROVE  /\ DOMAIN Updated(old, new) = DOMAIN old \cup DOMAIN new
         /\ \A x \in DOMAIN new : Updated(old, new)[x] = new[x]
         /\ \A x \in DOMAIN old \ DOMAIN new : Updated(old, new)[x] = old[x]
BY DEF Updated

LEMMA NothingKnown == \A x : x \notin DOMAIN <<>>
OBVIOUS

----------------------------------------------------------------------------
(* Attestations.                                                           *)

\* A scenario in the pipeline has the fields of one.
LEMMA ScenarioFieldsThere ==
  ASSUME ScenarioInv
  PROVE  /\ ScenarioFields \subseteq DOMAIN scenario
         /\ scenario.command \in Commands
BY ScenarioAssumption DEF ScenarioInv

\* The registry reads no rental and no business, so the depreciation a
\* schedule uses does not change what a scenario must attest.
LEMMA DepreciationAsksNothing ==
  ASSUME NEW s, ScenarioFields \subseteq DOMAIN s
  PROVE  ViolatedAttestations(Effective(s))
           = ViolatedAttestations(WithShareholderK1s(s))
<1> DEFINE t == WithShareholderK1s(s)
           u == WithDepreciation(t)
           Read == {"k1s", "lots", "corp", "denied"}
<1>1. ScenarioFields \subseteq DOMAIN t
  BY DEF WithShareholderK1s
<1> HIDE DEF t
<1>2. \A x \in Read : x \in DOMAIN t /\ x # "rentals" /\ x # "businesses"
  BY <1>1 DEF ScenarioFields
<1>3. \A x \in Read : u[x] = t[x]
  BY <1>2 DEF WithDepreciation
<1>4. u.k1s = t.k1s /\ u.lots = t.lots /\ u.corp = t.corp /\ u.denied = t.denied
  BY <1>3
<1> HIDE DEF u
<1>5. Registry(u) = Registry(t)
  BY <1>4 DEF Registry
<1>6. ViolatedAttestations(u) = ViolatedAttestations(t)
  BY <1>4, <1>5 DEF ViolatedAttestations
<1>7. QED
  BY <1>6 DEF t, u, Effective

\* A scenario in effect has the corporation of the scenario given.
LEMMA CorporationKept ==
  ASSUME NEW s, ScenarioFields \subseteq DOMAIN s
  PROVE  Effective(s).corp = s.corp
<1> DEFINE t == WithShareholderK1s(s)
<1>1. "corp" \in DOMAIN t /\ t["corp"] = s["corp"]
  BY DEF WithShareholderK1s, ScenarioFields
<1> HIDE DEF t
<1>2. WithDepreciation(t)["corp"] = t["corp"]
  BY <1>1 DEF WithDepreciation
<1>3. QED
  BY <1>1, <1>2 DEF Effective, t

\* Schedule C's refusals, Part II's and Form 8949's are lists of refusals.
LEMMA SharedListings ==
  ASSUME NEW s
  PROVE  /\ Listing(PartIILedger(s)) /\ Listing(SecuritiesLedger(s))
         /\ Listing(BusinessLedger(s)) /\ Listing(SharedLedger(s))
BY ShortListings
DEF PartIILedger, SecuritiesLedger, BusinessLedger, SharedLedger

\* The income stage asks the attestations of the scenario it computes.
LEMMA IncomeAsks ==
  ASSUME NEW s, Passes(IncomeLedger(s))
  PROVE  ViolatedAttestations(s) = <<>>
<1> DEFINE front == PartIILedger(s) \o SecuritiesLedger(s)
                      \o <<<<"four_rentals", TooManyRentals(s.rentals)>>>>
                      \o BusinessLedger(s)
           health == HealthRefused(s.businesses, s.health, HalfOf(s))
           back  == <<<<"se_health_limit", health>>,
                      <<"attestation", AttestationRefused(s)>>>>
<1>1. Listing(PartIILedger(s) \o SecuritiesLedger(s))
  BY SharedListings, Joined
<1>2. Listing(<<<<"four_rentals", TooManyRentals(s.rentals)>>>>)
  BY ShortListings
<1>3. Listing(PartIILedger(s) \o SecuritiesLedger(s)
                \o <<<<"four_rentals", TooManyRentals(s.rentals)>>>>)
  BY <1>1, <1>2, Joined
<1>4. Listing(front)
  BY <1>3, SharedListings, Joined
<1>5. Listing(back)
  BY ShortListings
<1>6. IncomeLedger(s) = front \o back
  BY DEF IncomeLedger
<1> HIDE DEF front
<1>7. Passes(back)
  BY <1>4, <1>5, <1>6, Joined
<1>8. ~AttestationRefused(s)
  BY <1>7, PassedEntries
<1>9. QED
  BY <1>8 DEF AttestationRefused

\* The load stage's depreciation refusals and the deposit's are such a list.
LEMMA ShapeListing == ASSUME NEW s PROVE Listing(ShapeLedger(s))
<1>1. \A a, b, c, d, e, f, g, h, i, j, k, l, m, n, o :
        Listing(<<a, b, c, d, e, f, g, h, i, j, k, l, m, n, o>>)
  <2> TAKE a, b, c, d, e, f, g, h, i, j, k, l, m, n, o
  <2> DEFINE whole == <<a, b, c, d, e, f, g, h, i, j, k, l, m, n, o>>
             parts == {a, b, c, d, e, f, g, h, i, j, k, l, m, n, o}
  <2>1. whole \in Seq(parts)
    OBVIOUS
  <2> HIDE DEF whole, parts
  <2>2. Listing(whole)
    BY <2>1 DEF Listing
  <2>3. QED
    BY <2>2 DEF whole
<1>2. QED
  BY <1>1 DEF ShapeLedger, SomeAsset, SomeActivity, AnyOf

\* So are the entries of Form 3115.
LEMMA ApplicantListing ==
  ASSUME NEW s PROVE Listing(AppliedLedger(s) \o ApplicantLedger(s))
<1>1. \A a, b, c, d, e, f : Listing(<<a, b, c, d, e, f>>)
  <2>1. \A a, b, c, d, e, f : <<a, b, c, d, e, f>> \in Seq({a, b, c, d, e, f})
    OBVIOUS
  <2>2. QED
    BY <2>1 DEF Listing
<1>2. Listing(AppliedLedger(s))
  BY ShortListings DEF AppliedLedger
<1>3. Listing(ApplicantLedger(s))
  BY <1>1 DEF ApplicantLedger
<1>4. QED
  BY <1>2, <1>3, Joined

LEMMA UnsupportedListing == ASSUME NEW c PROVE Listing(UnsupportedLedger(c))
<1>1. DOMAIN Unsupported = 1 .. 18
  BY DEF Unsupported
<1> DEFINE entry(i) == <<Unsupported[i][1], c.answers[Unsupported[i][1]] = Unsupported[i][2]>>
           entries == {entry(i) : i \in 1 .. 18}
<1>2. UnsupportedLedger(c) = [i \in 1 .. 18 |-> entry(i)]
  BY <1>1 DEF UnsupportedLedger
<1>3. \A i \in 1 .. 18 : entry(i) \in entries
  OBVIOUS
<1> HIDE DEF entry, entries
<1>4. [i \in 1 .. 18 |-> entry(i)] \in Seq(entries)
  BY <1>3
<1>5. QED
  BY <1>2, <1>4 DEF Listing

LEMMA ChangeListing == ASSUME NEW s PROVE Listing(ChangeLedger(s))
<1>1. Listing(AmountLedger(s.change)) /\ Listing(PropertyLedger(s.change))
  BY ShortListings DEF AmountLedger, PropertyLedger, AnyOf
<1>2. Listing(AppliedLedger(s) \o ApplicantLedger(s) \o AmountLedger(s.change))
  BY <1>1, ApplicantListing, Joined
<1>3. Listing(AppliedLedger(s) \o ApplicantLedger(s) \o AmountLedger(s.change)
                \o PropertyLedger(s.change))
  BY <1>1, <1>2, Joined
<1>4. Listing(AppliedLedger(s) \o ApplicantLedger(s) \o AmountLedger(s.change)
                \o PropertyLedger(s.change) \o UnsupportedLedger(s.change))
  BY <1>3, UnsupportedListing, Joined
<1>5. QED
  BY <1>4, ShortListings DEF ChangeLedger

LEMMA ComputeListing == ASSUME NEW s PROVE Listing(ComputeLedger(s))
<1>1. Listing(ResolverLedger(s)) /\ Listing(WholeReturnLedger(s))
  BY ShortListings
  DEF ResolverLedger, WholeReturnLedger, SomeAsset, SomeActivity, AnyOf
<1>2. Listing(DepreciationLedger(s))
  BY <1>1, ShapeListing, Joined DEF DepreciationLedger
<1>3. Listing(<<<<"direct_deposit", DepositRefused(s.deposit)>>>>)
  BY ShortListings
<1>4. QED
  BY <1>2, <1>3, ChangeListing, Joined DEF ComputeLedger

\* The corporation's K-1s are attested to once they have joined the others.
LEMMA EffectiveAsks ==
  ASSUME NEW s, s.corp # None, Passes(EffectiveLedger(s))
  PROVE  Unbroken(s)
<1> DEFINE own   == <<<<"form_3115_in_amendment_packet", AmendmentChange(s)>>,
                        <<"direct_deposit_in_amendment_packet", AmendmentDeposit(s)>>>>
                      \o CorporateLedger(s)
           asked == <<<<"attestation", s.corp # None
                          /\ AttestationRefused(WithShareholderK1s(s))>>>>
           elected == <<<<"position_election", /\ s.corp # None
                            /\ ElectionRefused(s, Reached(WithShareholderK1s(s)))>>>>
<1>1. Listing(own)
  <2>1. Listing(CorporateLedger(s))
    BY ShortListings DEF CorporateLedger
  <2>2. Listing(<<<<"form_3115_in_amendment_packet", AmendmentChange(s)>>,
                  <<"direct_deposit_in_amendment_packet", AmendmentDeposit(s)>>>>)
    BY ShortListings
  <2>3. QED
    BY <2>1, <2>2, Joined
<1>2. Listing(asked) /\ Listing(elected)
  BY ShortListings
<1>3. EffectiveLedger(s) = ((own \o asked) \o ComputeLedger(s)) \o elected
  BY DEF EffectiveLedger
<1> HIDE DEF own, elected
<1>8. Passes((own \o asked) \o ComputeLedger(s))
  BY <1>1, <1>2, <1>3, ComputeListing, Joined
<1>4. Passes(own \o asked)
  BY <1>1, <1>2, <1>8, ComputeListing, Joined
<1>5. Passes(asked)
  BY <1>1, <1>2, <1>4, Joined
<1>6. ~AttestationRefused(WithShareholderK1s(s))
  BY <1>5, PassedEntries
<1>7. QED
  BY <1>6 DEF AttestationRefused, Unbroken

----------------------------------------------------------------------------
(* Printing.                                                               *)

LEMMA EmitListing == ASSUME NEW s, NEW f PROVE Listing(EmitLedger(s, f))
<1> DEFINE front ==
      SharedLedger(s)
      \o <<<<"schedule_c_year", s.businesses # <<>> /\ s.year \notin ScheduleCYears>>,
           <<"digital_assets", s.year >= 2022 /\ s.config.digital = None>>,
           <<"blank_spouse", BlankSpouse(s.config)>>,
           <<"schedule_e_line_27", Line27Refused(s.k1s)>>,
           <<"depreciation_audit_unbuildable", AuditUnbuildable(s)>>>>
      \o PartIILedger(s) \o BusinessLedger(s) \o SecuritiesLedger(s)
<1>1. Listing(front)
  BY SharedListings, ShortListings, Joined
<1>2. /\ Listing(QBILedger(s, f.taxable))
      /\ Listing(ScheduleALedger(s, s.itemized, f.spine.line11))
  BY ShortListings DEF QBILedger, ScheduleALedger
<1>3. QED
  BY <1>1, <1>2, ShortListings, Joined DEF EmitLedger, AnyOf, K1Amounts

Foots(f) == f.spine.line32 = f.eic /\ PaymentsFoot(f.spine)

\* A 1040 is rendered only when its payments add up, in either packet.
LEMMA RenderedFoots ==
  ASSUME NEW s, NEW f, Passes(RenderLedger(s, f))
  PROVE  Foots(f)
BY PassedEntries DEF RenderLedger, Foots

LEMMA PrintedFoots ==
  ASSUME NEW s, NEW f,
         Passes(ChangeLedger(s) \o EmitLedger(s, f) \o RenderLedger(s, f))
  PROVE  Foots(f)
<1>1. Listing(RenderLedger(s, f))
  BY ShortListings DEF RenderLedger
<1>2. Listing(ChangeLedger(s) \o EmitLedger(s, f))
  BY ChangeListing, EmitListing, Joined
<1>3. Passes(RenderLedger(s, f))
  BY <1>1, <1>2, Joined
<1>4. QED
  BY <1>3, RenderedFoots

LEMMA AttachedFoots ==
  ASSUME NEW s, NEW f, Passes(AttachLedger(s, f)), <<"1040", 0>> \in ChangedForms(s, f)
  PROVE  Foots(f)
<1> DEFINE both == EmitLedger(Effective(filed.scenario), filed.figures) \o EmitLedger(s, f)
           statement == <<<<"unattached_8z_statement",
                            <<"sch_1", 0>> \in ChangedForms(s, f) /\ SeeStatement(s.g)>>>>
<1>1. Listing(both)
  BY EmitListing, Joined
<1>2. Listing(statement)
  BY ShortListings
<1>3. Listing(RenderLedger(s, f))
  BY ShortListings DEF RenderLedger
<1>4. AttachLedger(s, f) = (both \o statement) \o RenderLedger(s, f)
  BY DEF AttachLedger
<1> HIDE DEF both, statement
<1>5. Passes(RenderLedger(s, f))
  BY <1>1, <1>2, <1>3, <1>4, Joined
<1>6. QED
  BY <1>5, RenderedFoots

FederalNames ==
  {"1040", "4868", "sch_b", "sch_d", "f8949", "sch_e", "sch_a", "sch_1", "sch_2",
   "sch_c", "sch_se", "f4562", "8959", "8962", "f8995", "f8582", "sch_1_8z_stmt",
   "f3115", "f3115_asset_stmt", "f3115_duplicate_copy", "f3115_manifest"}
CorporateNames ==
  {"1120s", "1120s_other_deductions_stmt", "1120s_k1", "1120s_k1_qbi_stmt"}

\* The owner's forms and the corporation's are different forms.
LEMMA FederalPacketNames ==
  ASSUME NEW s, NEW f
  PROVE  /\ \A form \in FederalPacket(s, f) \cup Statement8z(s, f) \cup ChangePacket(s) :
               form[1] \in FederalNames
         /\ <<"1040", 0>> \in FederalPacket(s, f)
<1> DEFINE copies == Copies("f4562", Activities4562(s),
                            LAMBDA act : CopyRequired(act, s.year))
           sheets == {"1040", "4868"}
                       \cup {form \in GatedForms : Emits(form, s, f)}
<1>1. \A form \in copies : form[1] = "f4562"
  BY DEF Copies
<1> HIDE DEF copies
<1>2. \A form \in CopiesOf("sch_c", s.businesses) : form[1] = "sch_c"
  BY DEF CopiesOf
<1>3. \A form \in Sheets(sheets) : form[1] \in sheets
  BY DEF Sheets
<1>4. sheets \subseteq FederalNames
  BY DEF GatedForms, FederalNames
<1> HIDE DEF sheets
<1>5. FederalPacket(s, f) = Sheets(sheets) \cup CopiesOf("sch_c", s.businesses) \cup copies
  BY DEF FederalPacket, sheets, copies
<1>6. \A form \in FederalPacket(s, f) : form[1] \in FederalNames
  <2>1. {"f4562", "sch_c"} \subseteq FederalNames
    BY DEF FederalNames
  <2>2. QED
    BY <1>1, <1>2, <1>3, <1>4, <1>5, <2>1
<1>7. \A form \in Statement8z(s, f) : form[1] \in FederalNames
  BY DEF Statement8z, Form, Sheets, FederalNames
<1>8. \A form \in ChangePacket(s) : form[1] \in FederalNames
  BY DEF ChangePacket, Sheets, FederalNames
<1>9. <<"1040", 0>> \in FederalPacket(s, f)
  <2>1. <<"1040", 0>> \in Sheets(sheets)
    BY DEF Sheets, sheets
  <2>2. QED
    BY <1>5, <2>1
<1>10. QED
  BY <1>6, <1>7, <1>8, <1>9

LEMMA CorporatePacketNames ==
  ASSUME NEW c
  PROVE  \A form \in CorporatePacket(c) : form[1] \in CorporateNames
<1>1. \A names : \A form \in Sheets(names) : form[1] \in names
  BY DEF Sheets
<1>2. \A name, items : \A form \in CopiesOf(name, items) : form[1] = name
  BY DEF CopiesOf
<1>3. QED
  BY <1>1, <1>2 DEF CorporatePacket, CorporateNames

CAScorpNames ==
  {"f100s", "f100s_other_deductions_stmt", "scorp_amendment_note", "f100s_k1"}

LEMMA CAScorpPacketNames ==
  ASSUME NEW c
  PROVE  \A form \in CAScorpPacket(c) : form[1] \in CAScorpNames
<1>1. \A names : \A form \in Sheets(names) : form[1] \in names
  BY DEF Sheets
<1>2. \A name, items : \A form \in CopiesOf(name, items) : form[1] = name
  BY DEF CopiesOf
<1>3. QED
  BY <1>1, <1>2 DEF CAScorpPacket, CAScorpNames

\* What is written before the refusal of a K-1 is of the whole set.
LEMMA FirstFormsOfPacket ==
  ASSUME NEW c, NEW year
  PROVE  FirstCAScorpForms(c, year) \subseteq CAScorpPacket(c)
BY DEF FirstCAScorpForms, CAScorpPacket, Sheets, CopiesOf

\* It is the 100S and the K-1s of the shareholders before the first that
\* would need both marks.
LEMMA UnmarkableLeaves ==
  ASSUME NEW c, NEW year, BothMarks(c, year) # {}
  PROVE  /\ year >= 2024 /\ c.amended /\ c.final # {}
         /\ FirstCAScorpForms(c, year) =
              {<<"f100s", 0>>} \cup
              {<<"f100s_k1", i>> :
                 i \in {n \in DOMAIN c.shares : \A m \in c.final : n < m}}
<1>1. year >= 2024 /\ c.amended /\ c.final # {} /\ BothMarks(c, year) = c.final
  BY DEF BothMarks
<1>2. QED
  BY <1>1 DEF FirstCAScorpForms, Sheets

----------------------------------------------------------------------------
(* The steps.                                                              *)

LEMMA ScenarioKept ==
  ASSUME ScenarioInv, UNCHANGED <<scenario, filed>>
  PROVE  ScenarioInv'
BY DEF ScenarioInv, Correcting

\* A refusal keeps every promise: what was written before it is what the
\* stage it ends may have found written.
LEMMA RefusalKeeps ==
  ASSUME IInv, stage \notin Ended, stage = "corporate" => scenario.corp # None,
         stage = "audit" => refusal' = "depreciation_audit_unwritable",
         stage = "f100s_k1s" => BothMarks(scenario.corp, scenario.year) # {},
         stage' = "refused", UNCHANGED <<scenario, figures, printed, filed>>
  PROVE  IInv'
<1> USE DEF IInv, Control
<1>1. ScenarioInv'
  BY ScenarioKept
<1>2. StageInv' /\ FiguresInv'
  BY DEF StageInv, FiguresInv, Ended, Early, Late, Correcting, Computed
<1>3. AttestInv' /\ AttestationsHoldOnEffective'
  BY DEF AttestInv, AttestationsHoldOnEffective, Early, Native, Computed
<1>4. PrintedInv' /\ PrintedPaymentsFoot'
  BY DEF PrintedInv, PrintedPaymentsFoot, Printed, Early
<1>5. PartialPackets'
  <2>1. CASE printed = {}
    BY <2>1 DEF PartialPackets
  <2>2. CASE printed # {}
    <3>1. stage \in {"corporate", "audit", "ca_scorp", "f100s_k1s", "california",
                     "print_ca", "attach", "schedule_x"}
      BY <2>2 DEF PrintedInv, StageInv, Stages, Ended, Early
    <3>2. CASE stage = "f100s_k1s"
      BY <3>2, UnmarkableLeaves DEF PrintedInv, StageInv, PartialPackets
    <3>3. CASE stage # "f100s_k1s"
      BY <2>2, <3>1, <3>3 DEF PrintedInv, StageInv, PartialPackets, Printed, Early
    <3>4. QED
      BY <3>2, <3>3
  <2>3. QED
    BY <2>1, <2>2
<1>6. QED
  BY <1>1, <1>2, <1>3, <1>4, <1>5

\* A stage that computes before any 1040 exists.
LEMMA EarlyKeeps ==
  ASSUME IInv, stage \in Early, UNCHANGED <<scenario, refusal, printed, filed>>,
         stage' \in Early \cup {"scorp"}, NoForms(figures)',
         stage' = "scorp" => scenario.command = "scorp",
         stage' # "scorp" => stage' # "load" /\ scenario.command # "scorp",
         AttestInv'
  PROVE  IInv'
<1> USE DEF IInv, Control
<1>1. ScenarioInv'
  BY ScenarioKept
<1>2. StageInv'
  BY DEF StageInv, Early, Stages, Ended
<1>3. FiguresInv' /\ ~Computed'
  BY DEF FiguresInv, NoForms, Computed, Early, Late
<1>4. PrintedInv' /\ printed' = {}
  BY DEF PrintedInv, Early
<1>5. AttestationsHoldOnEffective'
  BY <1>3 DEF AttestationsHoldOnEffective, Native
<1>6. PrintedPaymentsFoot' /\ PartialPackets'
  BY <1>4 DEF PrintedPaymentsFoot, PartialPackets, Printed
<1>7. QED
  BY <1>1, <1>2, <1>3, <1>4, <1>5, <1>6

LEMMA LoadKeeps == ASSUME IInv, Load PROVE IInv'
<1>1. CASE Refuse(LoadLedger(scenario))
  BY <1>1, RefusalKeeps DEF Refuse, Load, Step, Ended
<1>2. CASE Proceed(LoadLedger(scenario),
                   IF scenario.command = "scorp" THEN "scorp" ELSE "effective", <<>>)
  <2>1. NoForms(figures)'
    BY <1>2, NothingKnown, UpdatedLooksUp
    DEF Proceed, Load, Step, NoForms, IInv, Control, FiguresInv, Early
  <2>2. AttestInv'
    BY <1>2 DEF Proceed, AttestInv, Early
  <2>3. QED
    BY <1>2, <2>1, <2>2, EarlyKeeps DEF Proceed, Load, Step, Early
<1>3. QED
  BY <1>1, <1>2 DEF Load, Step

LEMMA BuildEffectiveKeeps == ASSUME IInv, BuildEffective PROVE IInv'
<1>1. CASE Refuse(EffectiveLedger(scenario))
  BY <1>1, RefusalKeeps DEF Refuse, BuildEffective, Step, Ended
<1>2. CASE Proceed(EffectiveLedger(scenario), "guards", <<>>)
  <2>1. NoForms(figures)'
    BY <1>2, NothingKnown, UpdatedLooksUp
    DEF Proceed, BuildEffective, Step, NoForms, IInv, Control, FiguresInv, Early
  <2>2. scenario.corp # None => Unbroken(scenario)
    BY <1>2, EffectiveAsks DEF Proceed
  <2>3. AttestInv'
    BY <1>2, <2>2 DEF Proceed, AttestInv, Early
  <2>4. QED
    BY <1>2, <2>1, <2>3, EarlyKeeps
    DEF Proceed, BuildEffective, Step, Early, IInv, Control, StageInv
<1>3. QED
  BY <1>1, <1>2 DEF BuildEffective, Step

LEMMA GuardsKeeps == ASSUME IInv, Guards PROVE IInv'
<1> DEFINE s == Effective(scenario)
           next == IF InSpineScope(s) THEN "income" ELSE "workbook"
<1>1. CASE Refuse(GuardLedger(s))
  BY <1>1, RefusalKeeps DEF Refuse, Guards, Step, Ended
<1>2. CASE Proceed(GuardLedger(s), next, <<>>)
  <2>1. NoForms(figures)'
    BY <1>2, NothingKnown, UpdatedLooksUp
    DEF Proceed, Guards, Step, NoForms, IInv, Control, FiguresInv, Early
  <2>2. AttestInv'
    BY <1>2 DEF Proceed, Guards, Step, IInv, Control, AttestInv, Early
  <2>3. QED
    BY <1>2, <2>1, <2>2, EarlyKeeps
    DEF Proceed, Guards, Step, Early, IInv, Control, StageInv
<1>3. QED
  BY <1>1, <1>2 DEF Guards, Step

LEMMA IncomeKeeps == ASSUME IInv, Income PROVE IInv'
<1> DEFINE s == Effective(scenario)
<1>1. CASE Refuse(IncomeLedger(s))
  BY <1>1, RefusalKeeps DEF Refuse, Income, Step, Ended
<1>2. CASE Proceed(IncomeLedger(s), "deduct", IncomeFigures(s))
  <2>1. NoForms(IncomeFigures(s))
    BY DEF IncomeFigures, NoForms
  <2>2. NoForms(figures)'
    BY <1>2, <2>1, UpdatedLooksUp
    DEF Proceed, Income, Step, NoForms, IInv, Control, FiguresInv, Early
  <2>3. ViolatedAttestations(s) = <<>>
    BY <1>2, IncomeAsks DEF Proceed
  <2>4. Unbroken(scenario)
    BY <2>3, ScenarioFieldsThere, DepreciationAsksNothing DEF IInv, Control, Unbroken
  <2>5. AttestInv'
    BY <1>2, <2>4 DEF Proceed, AttestInv
  <2>6. QED
    BY <1>2, <2>2, <2>5, EarlyKeeps
    DEF Proceed, Income, Step, Early, IInv, Control, StageInv
<1>3. QED
  BY <1>1, <1>2 DEF Income, Step

LEMMA DeductKeeps == ASSUME IInv, Deduct PROVE IInv'
<1> DEFINE s == Effective(scenario)
           new == DeductFigures(s, figures)
<1>1. CASE Refuse(DeductLedger(s, figures, new))
  BY <1>1, RefusalKeeps DEF Refuse, Deduct, Step, Ended
<1>2. CASE Proceed(DeductLedger(s, figures, new), "spine", new)
  <2>1. NoForms(new)
    BY DEF DeductFigures, NoForms
  <2>2. NoForms(figures)'
    BY <1>2, <2>1, UpdatedLooksUp
    DEF Proceed, Deduct, Step, NoForms, IInv, Control, FiguresInv, Early
  <2>3. AttestInv'
    BY <1>2 DEF Proceed, Deduct, Step, IInv, Control, AttestInv, Early
  <2>4. QED
    BY <1>2, <2>2, <2>3, EarlyKeeps
    DEF Proceed, Deduct, Step, Early, IInv, Control, StageInv
<1>3. QED
  BY <1>1, <1>2 DEF Deduct, Step

\* A stage that computes the 1040 itself: nothing is written yet, so all
\* that matters is that the attestations hold.
LEMMA ComputedKeeps ==
  ASSUME IInv, stage \in {"spine", "answer"},
         UNCHANGED <<scenario, refusal, printed, filed>>, stage' = AfterCompute,
         {"spine", "eic", "path"} \subseteq DOMAIN figures',
         AttestationsHoldOnEffective'
  PROVE  IInv'
<1> USE DEF IInv, Control
<1>1. ScenarioInv'
  BY ScenarioKept
<1>2. /\ scenario.command \in {"federal", "california", "amendment"}
      /\ refusal = "none" /\ printed = {}
  BY ScenarioFieldsThere DEF StageInv, PrintedInv, Early, Commands
<1>3. \/ scenario.command = "federal" /\ stage' = "print"
      \/ scenario.command = "california" /\ stage' = "california"
      \/ scenario.command = "amendment" /\ Correcting /\ stage' = "amend"
      \/ scenario.command = "amendment" /\ ~Correcting
           /\ stage' \in {"california", "file"}
  BY <1>2 DEF AfterCompute
<1>4. Correcting' = Correcting
  BY DEF Correcting
<1>5. StageInv'
  BY <1>2, <1>3, <1>4 DEF StageInv, Stages, Early
<1>6. FiguresInv' /\ AttestInv'
  BY <1>3 DEF FiguresInv, AttestInv, Early, Computed
<1>7. PrintedInv'
  BY <1>2, <1>3, <1>4 DEF PrintedInv, Early
<1>8. PrintedPaymentsFoot' /\ PartialPackets'
  BY <1>2 DEF PrintedPaymentsFoot, PartialPackets, Printed
<1>9. QED
  BY <1>1, <1>5, <1>6, <1>7, <1>8

LEMMA ComputeSpineKeeps == ASSUME IInv, ComputeSpine PROVE IInv'
<1> DEFINE s == Effective(scenario)
           new == SpineFigures(s, figures)
<1>1. CASE Refuse(SpineLedger(s, figures))
  BY <1>1, RefusalKeeps DEF Refuse, ComputeSpine, Step, Ended
<1>2. CASE Proceed(SpineLedger(s, figures), AfterCompute, new)
  <2>1. {"spine", "eic", "path"} \subseteq DOMAIN new
    BY DEF SpineFigures
  <2>2. {"spine", "eic", "path"} \subseteq DOMAIN figures'
    BY <1>2, <2>1, UpdatedLooksUp DEF Proceed
  <2>3. Unbroken(scenario)
    BY DEF ComputeSpine, Step, IInv, Control, AttestInv
  <2>4. AttestationsHoldOnEffective'
    BY <1>2, <2>3 DEF Proceed, AttestationsHoldOnEffective, Unbroken
  <2>5. QED
    BY <1>2, <2>2, <2>4, ComputedKeeps DEF Proceed, ComputeSpine, Step
<1>3. QED
  BY <1>1, <1>2 DEF ComputeSpine, Step

\* The sheet's lines are not those of a computed 1040 until its answer is read.
LEMMA EnterInputsKeeps == ASSUME IInv, EnterInputs PROVE IInv'
<1> DEFINE s == Effective(scenario)
           new == IncomeFigures(InWorkbook(s))
<1>1. CASE Refuse(InputLedger(s))
  BY <1>1, RefusalKeeps DEF Refuse, EnterInputs, Step, Ended
<1>2. CASE Proceed(InputLedger(s), "sheet", new)
  <2>1. NoForms(new)
    BY DEF IncomeFigures, NoForms
  <2>2. NoForms(figures)'
    BY <1>2, <2>1, UpdatedLooksUp
    DEF Proceed, EnterInputs, Step, NoForms, IInv, Control, FiguresInv, Early
  <2>3. AttestInv'
    BY <1>2 DEF Proceed, EnterInputs, Step, IInv, Control, AttestInv, Early
  <2>4. QED
    BY <1>2, <2>2, <2>3, EarlyKeeps
    DEF Proceed, EnterInputs, Step, Early, IInv, Control, StageInv
<1>3. QED
  BY <1>1, <1>2 DEF EnterInputs, Step

LEMMA RecalculateKeeps == ASSUME IInv, Recalculate PROVE IInv'
<1> DEFINE new == DeductFigures(InWorkbook(Effective(scenario)), figures)
<1>1. stage = "sheet" /\ Proceed(<<>>, "answer", new)
  BY DEF Recalculate
<1>2. NoForms(new)
  BY DEF DeductFigures, NoForms
<1>3. NoForms(figures)'
  BY <1>1, <1>2, UpdatedLooksUp
  DEF Proceed, NoForms, IInv, Control, FiguresInv, Early
<1>4. AttestInv'
  BY <1>1 DEF Proceed, IInv, Control, AttestInv, Early
<1>5. QED
  BY <1>1, <1>3, <1>4, EarlyKeeps DEF Proceed, Early, IInv, Control, StageInv

\* The workbook asks no attestation, so only the corporation's K-1s, which
\* were asked for as they joined, are vouched for.
LEMMA ReadAnswerKeeps == ASSUME IInv, ReadAnswer PROVE IInv'
<1>1. PICK answer \in WorkbookAnswers :
        Step("answer", AnswerLedger(Effective(scenario), figures, answer),
             AfterCompute, WorkbookFigures(Effective(scenario), figures, answer))
  BY DEF ReadAnswer
<1> DEFINE s == Effective(scenario)
           new == WorkbookFigures(s, figures, answer)
           ledger == AnswerLedger(s, figures, answer)
<1>2. CASE Refuse(ledger)
  BY <1>1, <1>2, RefusalKeeps DEF Refuse, Step, Ended
<1>3. CASE Proceed(ledger, AfterCompute, new)
  <2>1. {"spine", "eic", "path"} \subseteq DOMAIN new /\ new["path"] = "workbook"
    BY DEF WorkbookFigures
  <2> HIDE DEF new
  <2>4. /\ {"spine", "eic", "path"} \subseteq DOMAIN figures'
        /\ figures'["path"] = "workbook"
    <3>1. /\ DOMAIN Updated(figures, new) = DOMAIN figures \cup DOMAIN new
          /\ \A x \in DOMAIN new : Updated(figures, new)[x] = new[x]
      BY UpdatedLooksUp
    <3>2. figures' = Updated(figures, new)
      BY <1>3 DEF Proceed
    <3>3. QED
      BY <2>1, <3>1, <3>2
  <2>5. scenario.corp # None => Unbroken(scenario)
    BY <1>1 DEF Step, IInv, Control, AttestInv, Early
  <2>6. AttestationsHoldOnEffective'
    BY <1>3, <2>4, <2>5 DEF Proceed, AttestationsHoldOnEffective, Native, Unbroken
  <2>7. QED
    BY <1>1, <1>3, <2>4, <2>6, ComputedKeeps DEF Proceed, Step
<1>4. QED
  BY <1>1, <1>2, <1>3 DEF Step

\* A stage that writes: the figures stay as they are.
LEMMA WrittenKeeps ==
  ASSUME IInv, stage \in Late \cup {"scorp", "ca_scorp", "f100s_k1s"},
         UNCHANGED <<scenario, refusal, figures, filed>>,
         stage' \in Late \cup {"ca_scorp", "f100s_k1s", "done"},
         stage' \in Late => stage \in Late,
         StageInv', PrintedInv', PrintedPaymentsFoot'
  PROVE  IInv'
<1> USE DEF IInv, Control
<1>1. ScenarioInv'
  BY ScenarioKept
<1>2. FiguresInv'
  BY DEF FiguresInv, Early, Late, Computed
<1>3. AttestInv'
  BY DEF AttestInv, Early, Late
<1>4. AttestationsHoldOnEffective'
  BY DEF AttestationsHoldOnEffective, Native, Computed
<1>5. PartialPackets'
  BY DEF PartialPackets, StageInv, Late
<1>6. QED
  BY <1>1, <1>2, <1>3, <1>4, <1>5

LEMMA PrintFederalKeeps == ASSUME IInv, PrintFederal PROVE IInv'
<1> DEFINE s == Effective(scenario)
           ledger == ChangeLedger(s) \o EmitLedger(s, figures)
                       \o RenderLedger(s, figures)
           packet == FederalPacket(s, figures) \cup Statement8z(s, figures)
                       \cup ChangePacket(s)
<1>1. CASE Refuse(ledger)
  BY <1>1, RefusalKeeps DEF Refuse, PrintFederal, Write, Ended
<1>2. CASE /\ Passes(ledger)
           /\ stage' = "corporate" /\ printed' = printed \cup packet
           /\ UNCHANGED <<scenario, refusal, figures, filed>>
  <2>1. stage = "print"
    BY DEF PrintFederal, Write
  <2>2. Foots(figures)
    BY <1>2, PrintedFoots
  <2>3. printed' = packet
    BY <1>2, <2>1 DEF IInv, Control, PrintedInv, Early
  <2>4. Printed("1040")'
    BY <2>3, FederalPacketNames DEF Printed
  <2>5. printed' \cap CorporatePacket(scenario.corp) = {}
    <3>1. FederalNames \cap CorporateNames = {}
      BY DEF FederalNames, CorporateNames
    <3>2. QED
      BY <2>3, <3>1, FederalPacketNames, CorporatePacketNames
  <2>6. PrintedInv'
    BY <1>2, <2>4, <2>5 DEF PrintedInv, Early
  <2>7. PrintedPaymentsFoot'
    BY <1>2, <2>2 DEF PrintedPaymentsFoot, Foots
  <2>8. StageInv'
    BY <1>2, <2>1 DEF IInv, Control, StageInv, Stages, Early
  <2>9. QED
    BY <1>2, <2>1, <2>6, <2>7, <2>8, WrittenKeeps DEF Late
<1>3. QED
  BY <1>1, <1>2 DEF PrintFederal, Write

\* The corporation's forms follow the owner's; none of them is a 1040.
LEMMA PrintCorporateKeeps == ASSUME IInv, PrintCorporate PROVE IInv'
<1> DEFINE s == Effective(scenario)
<1>1. stage = "corporate"
  BY DEF PrintCorporate, Write
<1>2. CASE stage' = "refused" /\ s.corp # None
           /\ UNCHANGED <<scenario, figures, printed, filed>>
  <2>1. scenario.corp # None
    <3>1. ScenarioFields \subseteq DOMAIN scenario
      BY ScenarioFieldsThere DEF IInv, Control
    <3>2. s.corp = scenario.corp
      BY <3>1, CorporationKept
    <3>3. QED
      BY <1>2, <3>2
  <2>2. QED
    BY <1>1, <1>2, <2>1, RefusalKeeps DEF Ended
<1>3. CASE stage' = "audit" /\ UNCHANGED <<scenario, refusal, figures, filed>>
           /\ printed \subseteq printed'
  <2>1. Printed("1040") /\ PrintedPaymentsFoot
    BY <1>1 DEF IInv, Control, PrintedInv
  <2>2. PrintedPaymentsFoot'
    BY <1>3, <2>1 DEF PrintedPaymentsFoot, Printed
  <2>3. PrintedInv'
    BY <1>3, <2>1 DEF PrintedInv, Early, Printed
  <2>4. StageInv'
    BY <1>1, <1>3 DEF IInv, Control, StageInv, Stages, Ended, Early
  <2>5. QED
    BY <1>1, <1>3, <2>2, <2>3, <2>4, WrittenKeeps DEF Late
<1>4. QED
  <2>1. \A n, b : ~Passes(<<<<n, b>>>>) => b
    BY DEF Passes, AnyOf, Offends
  <2>2. QED
    BY <1>2, <1>3, <2>1 DEF PrintCorporate, Write, Refuse

\* The audit workbook comes last; no form is missing when it is refused.
LEMMA PrintAuditKeeps == ASSUME IInv, PrintAudit PROVE IInv'
<1> DEFINE s == Effective(scenario)
           ledger == <<<<"depreciation_audit_unwritable", AuditUnwritable(s)>>>>
<1>1. stage = "audit"
  BY DEF PrintAudit, Write
<1>2. CASE Refuse(ledger)
  <2>1. Raised(ledger) = "depreciation_audit_unwritable"
    BY <1>2 DEF Refuse, Passes, AnyOf, Raised, Offends
  <2>2. QED
    BY <1>1, <1>2, <2>1, RefusalKeeps DEF Refuse, Ended
<1>3. CASE /\ stage' = "done"
           /\ printed' = printed \cup Form("depreciation_audit", AssetMode(s))
           /\ UNCHANGED <<scenario, refusal, figures, filed>>
  <2>1. <<"1040", 0>> \notin Form("depreciation_audit", AssetMode(s))
    BY DEF Form, Sheets
  <2>2. PrintedPaymentsFoot'
    BY <1>3, <2>1 DEF IInv, PrintedPaymentsFoot, Printed
  <2>3. PrintedInv' /\ StageInv'
    BY <1>1, <1>3 DEF IInv, Control, PrintedInv, StageInv, Stages, Ended, Early
  <2>4. QED
    BY <1>1, <1>3, <2>2, <2>3, WrittenKeeps DEF Late
<1>4. QED
  BY <1>2, <1>3 DEF PrintAudit, Write

LEMMA ScorpReturnKeeps == ASSUME IInv, ScorpReturn PROVE IInv'
<1> DEFINE ledger == CorporateLedger(scenario)
              \o <<<<"f1120s_print",
                     CorporatePrintRefused(scenario.corp, scenario.year)>>>>
<1>1. CASE Refuse(ledger)
  BY <1>1, RefusalKeeps DEF Refuse, ScorpReturn, Write, Ended
<1>2. CASE /\ stage' \in {"done", "ca_scorp"}
           /\ printed' = printed \cup CorporatePacket(scenario.corp)
           /\ UNCHANGED <<scenario, refusal, figures, filed>>
  <2>1. stage = "scorp"
    BY DEF ScorpReturn, Write
  <2>2. printed' = CorporatePacket(scenario.corp)
    BY <1>2, <2>1 DEF IInv, Control, PrintedInv
  <2>3. PrintedInv'
    BY <1>2, <2>2 DEF PrintedInv, Early
  <2>4. ~Printed("1040")'
    BY <2>2, CorporatePacketNames DEF Printed, CorporateNames
  <2>5. PrintedPaymentsFoot'
    BY <2>4 DEF PrintedPaymentsFoot
  <2>6. StageInv'
    BY <1>2, <2>1 DEF IInv, Control, StageInv, Stages, Ended, Early
  <2>7. QED
    BY <1>2, <2>1, <2>3, <2>5, <2>6, WrittenKeeps DEF Late
<1>3. QED
  BY <1>1, <1>2 DEF ScorpReturn, Write

LEMMA CAScorpReturnKeeps == ASSUME IInv, CAScorpReturn PROVE IInv'
<1> DEFINE ledger == <<<<"f100s_print",
                         CAScorpPrintRefused(scenario.corp, scenario.year)>>>>
<1>1. CASE Refuse(ledger)
  BY <1>1, RefusalKeeps DEF Refuse, CAScorpReturn, Write, Ended
<1>2. CASE /\ stage' = "f100s_k1s"
           /\ printed' = printed \cup FirstCAScorpForms(scenario.corp, scenario.year)
           /\ UNCHANGED <<scenario, refusal, figures, filed>>
  <2>1. stage = "ca_scorp"
    BY DEF CAScorpReturn, Write
  <2>2. printed = CorporatePacket(scenario.corp) /\ PrintedInv'
    BY <1>2, <2>1 DEF IInv, Control, PrintedInv, Early
  <2>3. ~Printed("1040")
    BY <2>2, CorporatePacketNames DEF Printed, CorporateNames
  <2>4. <<"1040", 0>> \notin FirstCAScorpForms(scenario.corp, scenario.year)
    BY FirstFormsOfPacket, CAScorpPacketNames DEF CAScorpNames
  <2>5. PrintedPaymentsFoot'
    BY <1>2, <2>3, <2>4 DEF PrintedPaymentsFoot, Printed
  <2>6. StageInv'
    BY <1>2, <2>1 DEF IInv, Control, StageInv, Stages, Ended, Early
  <2>7. QED
    BY <1>2, <2>1, <2>2, <2>5, <2>6, WrittenKeeps DEF Late
<1>3. QED
  BY <1>1, <1>2 DEF CAScorpReturn, Write

LEMMA CAScorpK1sKeeps == ASSUME IInv, CAScorpK1s PROVE IInv'
<1> DEFINE ledger == <<<<"final_and_amended",
                         BothMarks(scenario.corp, scenario.year) # {}>>>>
<1>1. stage = "f100s_k1s"
  BY DEF CAScorpK1s, Write
<1>2. CASE Refuse(ledger)
  <2>1. \A n, b : ~Passes(<<<<n, b>>>>) => b
    BY DEF Passes, AnyOf, Offends
  <2>2. BothMarks(scenario.corp, scenario.year) # {}
    BY <1>2, <2>1 DEF Refuse
  <2>3. QED
    BY <1>1, <1>2, <2>2, RefusalKeeps DEF Refuse, Ended
<1>3. CASE /\ stage' = "done"
           /\ printed' = printed \cup CAScorpPacket(scenario.corp)
           /\ UNCHANGED <<scenario, refusal, figures, filed>>
  <2>1. PrintedInv'
    BY <1>3 DEF PrintedInv, Early
  <2>2. ~Printed("1040")
    BY <1>1, CorporatePacketNames, FirstFormsOfPacket, CAScorpPacketNames
    DEF IInv, Control, PrintedInv, Printed, CorporateNames, CAScorpNames
  <2>3. PrintedPaymentsFoot'
    BY <1>3, <2>2, CAScorpPacketNames DEF PrintedPaymentsFoot, Printed, CAScorpNames
  <2>4. StageInv'
    BY <1>1, <1>3 DEF IInv, Control, StageInv, Stages, Ended, Early
  <2>5. QED
    BY <1>1, <1>3, <2>1, <2>3, <2>4, WrittenKeeps DEF Late
<1>4. QED
  BY <1>2, <1>3 DEF CAScorpK1s, Write

\* California adds its figures and leaves the 1040's alone.
LEMMA ComputeCaliforniaKeeps == ASSUME IInv, ComputeCalifornia PROVE IInv'
<1> DEFINE s == WithDepreciation(scenario)
           new == CaliforniaFigures(s, figures)
           ledger == CaliforniaLedger(s, figures, new)
<1>1. stage = "california"
  BY DEF ComputeCalifornia, Step
<1>2. CASE Refuse(ledger)
  BY <1>1, <1>2, RefusalKeeps DEF Refuse, Ended
<1>3. CASE /\ figures' = Updated(figures, new)
           /\ stage' = IF s.command = "california" THEN "print_ca"
                       ELSE IF ~Correcting THEN "file" ELSE "schedule_x"
           /\ UNCHANGED <<scenario, refusal, printed, filed>>
  <2> USE DEF IInv, Control
  <2>1. ScenarioInv' /\ Correcting' = Correcting
    BY <1>3, ScenarioKept DEF Correcting
  <2>2. s.command = scenario.command
    <3>1. "command" \in DOMAIN scenario
      BY ScenarioFieldsThere DEF ScenarioFields
    <3>2. s["command"] = scenario["command"]
      BY <3>1 DEF WithDepreciation
    <3>3. QED
      BY <3>2
  <2>3. \/ scenario.command = "california" /\ stage' = "print_ca"
        \/ scenario.command = "amendment" /\ ~Correcting /\ stage' = "file"
        \/ scenario.command = "amendment" /\ Correcting /\ stage' = "schedule_x"
    BY <1>1, <1>3, <2>2 DEF StageInv
  <2>4. StageInv' /\ PrintedInv' /\ AttestInv'
    BY <1>1, <1>3, <2>1, <2>3
    DEF StageInv, PrintedInv, AttestInv, Stages, Ended, Early, Printed
  <2>5. /\ {"spine", "eic", "path"} \subseteq DOMAIN figures'
        /\ \A x \in {"spine", "eic", "path"} : figures'[x] = figures[x]
    <3>1. {"spine", "eic", "path"} \subseteq DOMAIN figures
      BY <1>1 DEF FiguresInv, Late
    <3>2. \A x \in {"spine", "eic", "path"} : x \notin DOMAIN new
      BY DEF CaliforniaFigures
    <3>3. /\ DOMAIN Updated(figures, new) = DOMAIN figures \cup DOMAIN new
          /\ \A x \in DOMAIN figures \ DOMAIN new : Updated(figures, new)[x] = figures[x]
      BY UpdatedLooksUp
    <3>4. QED
      BY <1>3, <3>1, <3>2, <3>3
  <2>6. figures'.spine = figures.spine /\ figures'.eic = figures.eic
        /\ figures'.path = figures.path /\ Computed /\ Computed'
    BY <1>1, <2>5 DEF FiguresInv, Late, Computed
  <2>7. FiguresInv'
    BY <2>3, <2>5, <2>6 DEF FiguresInv, Early
  <2>8. AttestationsHoldOnEffective'
    BY <1>3, <2>6 DEF AttestationsHoldOnEffective, Native
  <2>9. PrintedPaymentsFoot' /\ PartialPackets'
    BY <1>1, <1>3, <2>6
    DEF PrintedPaymentsFoot, PartialPackets, Printed, StageInv
  <2>10. QED
    BY <2>1, <2>4, <2>7, <2>8, <2>9
<1>4. QED
  BY <1>2, <1>3 DEF ComputeCalifornia, Step, Proceed

LEMMA PrintCaliforniaKeeps == ASSUME IInv, PrintCalifornia PROVE IInv'
<1>1. stage = "print_ca"
  BY DEF PrintCalifornia, Write
<1>2. CASE stage' = "refused" /\ UNCHANGED <<scenario, figures, printed, filed>>
  BY <1>1, <1>2, RefusalKeeps DEF Ended
<1>3. CASE /\ stage' = "done"
           /\ printed' = printed \cup CAPacket(scenario.config)
           /\ UNCHANGED <<scenario, refusal, figures, filed>>
  <2>1. <<"1040", 0>> \notin CAPacket(scenario.config)
    BY DEF CAPacket, Sheets
  <2>2. PrintedPaymentsFoot'
    BY <1>3, <2>1 DEF IInv, PrintedPaymentsFoot, Printed
  <2>3. PrintedInv' /\ StageInv'
    BY <1>1, <1>3 DEF IInv, Control, PrintedInv, StageInv, Stages, Ended, Early
  <2>4. QED
    BY <1>1, <1>3, <2>2, <2>3, WrittenKeeps DEF Late
<1>4. QED
  BY <1>2, <1>3 DEF PrintCalifornia, Write, Refuse

\* Filing the original begins again, on the corrected scenario.
LEMMA FileKeeps == ASSUME IInv, File PROVE IInv'
<1> USE DEF IInv, Control
<1>1. /\ stage = "file" /\ stage' = "load" /\ figures' = <<>>
      /\ scenario' = scenario.amended /\ UNCHANGED <<refusal, printed>>
      /\ Correcting' /\ filed'.scenario = scenario
  BY DEF File, Correcting
<1>2. PICK s \in Scenarios : scenario = s /\ s.command = "amendment"
  BY <1>1 DEF ScenarioInv, StageInv
<1>3. ScenarioInv'
  BY <1>1, <1>2 DEF ScenarioInv
<1>4. ~Computed' /\ NoForms(figures')
  BY <1>1, NothingKnown DEF Computed, NoForms
<1>5. StageInv'
  BY <1>1 DEF StageInv, Stages, Early
<1>6. FiguresInv' /\ AttestInv' /\ AttestationsHoldOnEffective'
  BY <1>1, <1>4
  DEF FiguresInv, AttestInv, AttestationsHoldOnEffective, Early, Late, Native,
      NoForms
<1>7. printed' = {}
  BY <1>1 DEF PrintedInv
<1>8. PrintedInv' /\ PrintedPaymentsFoot' /\ PartialPackets'
  BY <1>1, <1>7 DEF PrintedInv, PrintedPaymentsFoot, PartialPackets, Printed
<1>9. QED
  BY <1>3, <1>5, <1>6, <1>8

LEMMA AmendKeeps == ASSUME IInv, Amend PROVE IInv'
<1>1. stage = "amend"
  BY DEF Amend, Write
<1>2. CASE stage' = "refused" /\ UNCHANGED <<scenario, figures, printed, filed>>
  BY <1>1, <1>2, RefusalKeeps DEF Ended
<1>3. CASE /\ stage' = "attach" /\ printed' = printed \cup Sheets({"f1040x"})
           /\ UNCHANGED <<scenario, refusal, figures, filed>>
  <2>1. printed' = {<<"f1040x", 0>>}
    BY <1>1, <1>3 DEF IInv, Control, PrintedInv, Sheets
  <2>2. PrintedPaymentsFoot'
    BY <2>1 DEF PrintedPaymentsFoot, Printed
  <2>3. PrintedInv' /\ StageInv'
    BY <1>1, <1>3, <2>1
    DEF IInv, Control, PrintedInv, StageInv, Stages, Ended, Early, Printed,
        Correcting
  <2>4. QED
    BY <1>1, <1>3, <2>2, <2>3, WrittenKeeps DEF Late
<1>4. QED
  BY <1>2, <1>3 DEF Amend, Write, Refuse

LEMMA AttachKeeps == ASSUME IInv, Attach PROVE IInv'
<1> DEFINE s == Effective(scenario)
<1>1. stage = "attach"
  BY DEF Attach, Write
<1>2. CASE stage' = "refused" /\ UNCHANGED <<scenario, figures, printed, filed>>
  BY <1>1, <1>2, RefusalKeeps DEF Ended
<1>3. CASE /\ Passes(AttachLedger(s, figures))
           /\ stage' \in {"done", "california"}
           /\ printed' = printed \cup ChangedForms(s, figures)
           /\ UNCHANGED <<scenario, refusal, figures, filed>>
  <2>1. PrintedPaymentsFoot'
    <3>1. <<"1040", 0>> \in ChangedForms(s, figures) => Foots(figures)
      BY <1>3, AttachedFoots
    <3>2. QED
      BY <1>3, <3>1 DEF IInv, PrintedPaymentsFoot, Printed, Foots
  <2>2. PrintedInv' /\ StageInv'
    BY <1>1, <1>3
    DEF IInv, Control, PrintedInv, StageInv, Stages, Ended, Early, Printed,
        Correcting
  <2>3. QED
    BY <1>1, <1>3, <2>1, <2>2, WrittenKeeps DEF Late
<1>4. QED
  BY <1>2, <1>3 DEF Attach, Write, Refuse

LEMMA AmendCaliforniaKeeps == ASSUME IInv, AmendCalifornia PROVE IInv'
<1>1. stage = "schedule_x"
  BY DEF AmendCalifornia, Write
<1>2. CASE stage' = "refused" /\ UNCHANGED <<scenario, figures, printed, filed>>
  BY <1>1, <1>2, RefusalKeeps DEF Ended
<1>3. CASE /\ stage' = "print_ca" /\ printed' = printed \cup Sheets({"schedule_x"})
           /\ UNCHANGED <<scenario, refusal, figures, filed>>
  <2>1. PrintedPaymentsFoot'
    BY <1>3 DEF IInv, PrintedPaymentsFoot, Printed, Sheets
  <2>2. PrintedInv' /\ StageInv'
    BY <1>1, <1>3
    DEF IInv, Control, PrintedInv, StageInv, Stages, Ended, Early, Printed,
        Correcting
  <2>3. QED
    BY <1>1, <1>3, <2>1, <2>2, WrittenKeeps DEF Late
<1>4. QED
  BY <1>2, <1>3 DEF AmendCalifornia, Write, Refuse

----------------------------------------------------------------------------
(* The theorems.                                                           *)

LEMMA InitHolds == Init => IInv
<1> SUFFICES ASSUME Init PROVE IInv
  OBVIOUS
<1>1. /\ scenario \in Scenarios /\ stage = "load" /\ refusal = "none"
      /\ figures = <<>> /\ printed = {} /\ ~Correcting
  BY NothingKnown DEF Init, Correcting
<1>2. ~Computed /\ NoForms(figures)
  BY <1>1, NothingKnown DEF Computed, NoForms
<1>3. Control
  BY <1>1, <1>2
  DEF Control, ScenarioInv, StageInv, FiguresInv, AttestInv, PrintedInv,
      Stages, Early, Late, NoForms
<1>4. AttestationsHoldOnEffective /\ PrintedPaymentsFoot /\ PartialPackets
  BY <1>1, <1>2
  DEF AttestationsHoldOnEffective, PrintedPaymentsFoot, PartialPackets, Native, Printed
<1>5. QED
  BY <1>3, <1>4 DEF IInv

LEMMA StepKeeps == IInv /\ [Next]_vars => IInv'
<1> SUFFICES ASSUME IInv, [Next]_vars PROVE IInv'
  OBVIOUS
<1>1. CASE Next
  BY <1>1, LoadKeeps, BuildEffectiveKeeps, GuardsKeeps, IncomeKeeps, DeductKeeps,
     ComputeSpineKeeps, EnterInputsKeeps, RecalculateKeeps, ReadAnswerKeeps,
     PrintFederalKeeps, PrintCorporateKeeps, PrintAuditKeeps,
     ScorpReturnKeeps, CAScorpReturnKeeps, CAScorpK1sKeeps, ComputeCaliforniaKeeps,
     PrintCaliforniaKeeps, FileKeeps, AmendKeeps, AttachKeeps, AmendCaliforniaKeeps
  DEF Next
<1>2. CASE UNCHANGED vars
  BY <1>2
  DEF vars, IInv, Control, ScenarioInv, StageInv, FiguresInv, AttestInv, PrintedInv,
      AttestationsHoldOnEffective, PrintedPaymentsFoot, PartialPackets, Correcting,
      Computed, Native, Printed
<1>3. QED
  BY <1>1, <1>2

\* Every reachable state satisfies the invariant.
THEOREM Invariant == Spec => []IInv
<1>1. QED
  BY InitHolds, StepKeeps, PTL DEF Spec

\* Every return is at a stage of its command, an amendment corrects the
\* return that was filed, and no Form 540 precedes its 1040.
THEOREM TypeCorrect == Spec => []TypeOK
<1>1. IInv => TypeOK
  <2> SUFFICES ASSUME IInv PROVE TypeOK
    OBVIOUS
  <2>1. scenario.command \in Commands
    BY ScenarioFieldsThere DEF IInv, Control
  <2>2. /\ stage \in Stages \cup Ended
        /\ refusal # "none" => stage = "refused"
    BY DEF IInv, Control, StageInv
  <2>3. Correcting => filed.scenario.amended = scenario
    BY DEF IInv, Control, ScenarioInv
  <2>4. "f540" \in DOMAIN figures => Computed
    BY DEF IInv, Control, FiguresInv
  <2>5. QED
    BY <2>1, <2>2, <2>3, <2>4 DEF TypeOK
<1>2. QED
  BY <1>1, Invariant, PTL

\* A computed return breaks no attestation on the K-1s it was computed with,
\* whatever the registry's conditions and the corporation's amounts
\* (enforce_compute_time, _build_effective_scenario).
THEOREM AttestationsHold == Spec => []AttestationsHoldOnEffective
<1>1. IInv => AttestationsHoldOnEffective
  BY DEF IInv
<1>2. QED
  BY <1>1, Invariant, PTL

\* The payments of every 1040 that is printed, in a return or an amendment,
\* add up on the page, whatever the workbook answers (_line_32_unfooted).
THEOREM PaymentsAddUp == Spec => []PrintedPaymentsFoot
<1>1. IInv => PrintedPaymentsFoot
  BY DEF IInv
<1>2. QED
  BY <1>1, Invariant, PTL

\* A refusal leaves forms behind only in the packets that are written in
\* parts (_emit_pdfs_internal, run_full_return, run_amendment_packet), and of
\* a California corporate set the 100S and the K-1s before the refused one
\* (_emit_ca_scorp_pdfs_internal).
THEOREM OnlyTheseArePartial == Spec => []PartialPackets
<1>1. IInv => PartialPackets
  BY DEF IInv
<1>2. QED
  BY <1>1, Invariant, PTL

----------------------------------------------------------------------------
(* The head of household.                                                  *)

CAForms == {<<"f540", 0>>, <<"ftb3532", 0>>}

\* The facts of the scenario in hand were validated.
Validated == ~HouseholdRefused(scenario.config, scenario.year)
HouseholdInv ==
  /\ CountsDays(scenario.config)
  /\ Computed => Validated
  /\ stage # "done" => printed \cap CAForms = {}
  /\ printed \cap CAForms # {} =>
       /\ Validated /\ ~Form3532Incomplete(scenario.config, scenario.year)
       /\ Printed("ftb3532") <=> scenario.config.status = "hoh"

HInv == IInv /\ HouseholdInv

----------------------------------------------------------------------------
(* What a passed ledger says of the household.                             *)

\* The scenario in effect is that of the filer.
LEMMA FilerKept ==
  ASSUME NEW s, ScenarioFields \subseteq DOMAIN s
  PROVE  Effective(s).config = s.config /\ Effective(s).year = s.year
<1> DEFINE t == WithShareholderK1s(s)
           Read == {"config", "year"}
<1>1. \A x \in Read : x \in DOMAIN t /\ t[x] = s[x]
  BY DEF WithShareholderK1s, ScenarioFields
<1> HIDE DEF t
<1>2. \A x \in Read : WithDepreciation(t)[x] = t[x]
  BY <1>1 DEF WithDepreciation
<1>3. QED
  BY <1>1, <1>2 DEF Effective, t

\* A passed list has passed each of its entries.
LEMMA PassedEach ==
  ASSUME NEW ledger, Passes(ledger), NEW i \in DOMAIN ledger
  PROVE  ~ledger[i][2]
BY DEF Passes, AnyOf, Offends

\* Either route asks for the header of Form 1040 before it has its lines.
LEMMA HeaderAsked ==
  ASSUME NEW s, NEW f
  PROVE  /\ Passes(SpineLedger(s, f)) => ~HouseholdRefused(s.config, s.year)
         /\ \A answer : Passes(AnswerLedger(s, f, answer))
              => ~HouseholdRefused(s.config, s.year)
<1>1. ASSUME Passes(SpineLedger(s, f))
      PROVE  ~HeaderRefused(s.config, s.year)
  <2>1. /\ 3 \in DOMAIN SpineLedger(s, f)
        /\ SpineLedger(s, f)[3] = <<"head_of_household", HeaderRefused(s.config, s.year)>>
    BY DEF SpineLedger
  <2>2. QED
    BY <1>1, <2>1, PassedEach
<1>2. ASSUME NEW answer, Passes(AnswerLedger(s, f, answer))
      PROVE  ~HeaderRefused(s.config, s.year)
  <2>1. /\ 4 \in DOMAIN AnswerLedger(s, f, answer)
        /\ AnswerLedger(s, f, answer)[4]
             = <<"head_of_household", HeaderRefused(s.config, s.year)>>
    BY DEF AnswerLedger
  <2>2. QED
    BY <1>2, <2>1, PassedEach
<1>3. QED
  BY <1>1, <1>2 DEF HeaderRefused

----------------------------------------------------------------------------
(* The steps.                                                              *)

\* A step that leaves the scenario, writes no California form, and has a
\* 1040 computed only from validated facts.
LEMMA HouseholdKept ==
  ASSUME HInv, IInv', UNCHANGED scenario, stage # "done",
         printed' \cap CAForms \subseteq printed,
         Computed' => Computed \/ Validated
  PROVE  HInv'
<1>1. printed' \cap CAForms = {}
  BY DEF HInv, HouseholdInv
<1>2. CountsDays(scenario.config)' /\ (Computed' => Validated')
  BY DEF HInv, HouseholdInv, Validated
<1>3. QED
  BY <1>1, <1>2 DEF HInv, HouseholdInv

\* A stage that refuses, or goes on before a 1040 is computed.
LEMMA EarlyHouseholdKept ==
  ASSUME HInv, IInv', NEW at, at # "done", NEW ledger, NEW next, NEW new,
         Step(at, ledger, next, new), next \in Early
  PROVE  HInv'
<1>1. CASE Refuse(ledger)
  BY <1>1, HouseholdKept DEF Step, Refuse, Computed
<1>2. CASE Proceed(ledger, next, new)
  <2>1. ~Computed'
    BY <1>2 DEF Proceed, IInv, Control, FiguresInv, NoForms, Computed
  <2>2. QED
    BY <1>2, <2>1, HouseholdKept DEF Step, Proceed
<1>3. QED
  BY <1>1, <1>2 DEF Step

\* A stage that writes forms other than California's.
LEMMA WrittenHouseholdKept ==
  ASSUME HInv, IInv', NEW at, at # "done", NEW ledger, NEW next, NEW forms,
         Write(at, ledger, next, forms), forms \cap CAForms = {}
  PROVE  HInv'
<1>1. CASE Refuse(ledger)
  BY <1>1, HouseholdKept DEF Write, Refuse, Computed
<1>2. CASE printed' = printed \cup forms /\ UNCHANGED <<scenario, figures>>
  BY <1>2, HouseholdKept DEF Write, Computed
<1>3. QED
  BY <1>1, <1>2 DEF Write

\* The stages before the 1040 is computed.
LEMMA ComputingKeeps ==
  ASSUME HInv, IInv',
         Load \/ BuildEffective \/ Guards \/ Income \/ Deduct \/ EnterInputs \/ Recalculate
  PROVE  HInv'
<1>1. CASE Load
  <2>1. CASE stage' = "scorp" /\ UNCHANGED <<scenario, printed>>
    <3>1. stage = "load" /\ figures' = Updated(figures, <<>>)
      BY <1>1, <2>1 DEF Load, Step, Proceed, Refuse
    <3>2. "spine" \notin DOMAIN figures
      BY <3>1 DEF HInv, IInv, Control, FiguresInv, NoForms, Early
    <3>3. "spine" \notin DOMAIN Updated(figures, <<>>)
      BY <3>2, NothingKnown, UpdatedLooksUp
    <3>4. QED
      BY <2>1, <3>1, <3>3, HouseholdKept DEF Computed
  <2>2. CASE scenario.command # "scorp"
    BY <1>1, <2>2, EarlyHouseholdKept DEF Load, Early
  <2>3. CASE Refuse(LoadLedger(scenario))
    BY <1>1, <2>3, HouseholdKept DEF Load, Step, Refuse, Computed
  <2>4. QED
    BY <1>1, <2>1, <2>2, <2>3 DEF Load, Step, Proceed
<1>2. CASE BuildEffective
  BY <1>2, EarlyHouseholdKept DEF BuildEffective, Early
<1>3. CASE Guards
  BY <1>3, EarlyHouseholdKept DEF Guards, Early
<1>4. CASE Income
  BY <1>4, EarlyHouseholdKept DEF Income, Early
<1>5. CASE Deduct
  BY <1>5, EarlyHouseholdKept DEF Deduct, Early
<1>6. CASE EnterInputs
  BY <1>6, EarlyHouseholdKept DEF EnterInputs, Early
<1>7. CASE Recalculate
  <2>1. Step("sheet", <<>>, "answer", DeductFigures(InWorkbook(Effective(scenario)), figures))
    BY <1>7 DEF Recalculate, Step
  <2>2. QED
    BY <2>1, EarlyHouseholdKept DEF Early
<1>8. QED
  BY <1>1, <1>2, <1>3, <1>4, <1>5, <1>6, <1>7

\* The 1040 is computed, by the spine or the workbook: its header is asked.
LEMMA SpineKeeps ==
  ASSUME HInv, IInv', ComputeSpine \/ ReadAnswer
  PROVE  HInv'
<1> DEFINE s == Effective(scenario)
<1>1. s.config = scenario.config /\ s.year = scenario.year
  BY ScenarioFieldsThere, FilerKept DEF HInv, IInv, Control
<1> HIDE DEF s
<1>2. CASE ComputeSpine
  <2>1. CASE Refuse(SpineLedger(s, figures))
    BY <1>2, <2>1, HouseholdKept DEF ComputeSpine, Step, Refuse, Computed
  <2>2. CASE Proceed(SpineLedger(s, figures), AfterCompute, SpineFigures(s, figures))
    <3>1. Validated
      BY <1>1, <2>2, HeaderAsked DEF Proceed, Validated
    <3>2. QED
      BY <1>2, <2>2, <3>1, HouseholdKept DEF ComputeSpine, Step, Proceed
  <2>3. QED
    BY <1>2, <2>1, <2>2 DEF ComputeSpine, Step, s
<1>3. CASE ReadAnswer
  <2>1. PICK answer \in WorkbookAnswers :
          Step("answer", AnswerLedger(s, figures, answer), AfterCompute,
               WorkbookFigures(s, figures, answer))
    BY <1>3 DEF ReadAnswer, s
  <2>2. CASE Refuse(AnswerLedger(s, figures, answer))
    BY <2>1, <2>2, HouseholdKept DEF Step, Refuse, Computed
  <2>3. CASE Proceed(AnswerLedger(s, figures, answer), AfterCompute,
                     WorkbookFigures(s, figures, answer))
    <3>1. Validated
      BY <1>1, <2>3, HeaderAsked DEF Proceed, Validated
    <3>2. QED
      BY <2>1, <2>3, <3>1, HouseholdKept DEF Step, Proceed
  <2>4. QED
    BY <2>1, <2>2, <2>3 DEF Step
<1>4. QED
  BY <1>2, <1>3

\* No other stage writes a California form.
LEMMA OtherForms ==
  ASSUME NEW s, NEW f, NEW c
  PROVE  /\ (FederalPacket(s, f) \cup Statement8z(s, f) \cup ChangePacket(s)) \cap CAForms = {}
         /\ CorporatePacket(c) \cap CAForms = {} /\ CAScorpPacket(c) \cap CAForms = {}
         /\ \A year : FirstCAScorpForms(c, year) \cap CAForms = {}
         /\ ChangedForms(s, f) \cap CAForms = {}
         /\ Form("depreciation_audit", AssetMode(s)) \cap CAForms = {}
         /\ Sheets({"f1040x"}) \cap CAForms = {} /\ Sheets({"schedule_x"}) \cap CAForms = {}
<1>1. \A form \in CAForms : form[1] \notin FederalNames /\ form[1] \notin CorporateNames
  BY DEF CAForms, FederalNames, CorporateNames
<1>2. /\ (FederalPacket(s, f) \cup Statement8z(s, f) \cup ChangePacket(s)) \cap CAForms = {}
      /\ CorporatePacket(c) \cap CAForms = {}
  BY <1>1, FederalPacketNames, CorporatePacketNames
<1>3. /\ CAScorpPacket(c) \cap CAForms = {}
      /\ \A year : FirstCAScorpForms(c, year) \cap CAForms = {}
  BY CAScorpPacketNames, FirstFormsOfPacket DEF CAScorpNames, CAForms
<1>4. /\ ChangedForms(s, f) \cap CAForms = {}
      /\ Form("depreciation_audit", AssetMode(s)) \cap CAForms = {}
  BY DEF ChangedForms, Form, Sheets, CAForms
<1>5. Sheets({"f1040x"}) \cap CAForms = {} /\ Sheets({"schedule_x"}) \cap CAForms = {}
  BY DEF Sheets, CAForms
<1>6. QED
  BY <1>2, <1>3, <1>4, <1>5

LEMMA PrintingKeeps ==
  ASSUME HInv, IInv',
         \/ PrintFederal \/ PrintCorporate \/ PrintAudit
         \/ ScorpReturn \/ CAScorpReturn \/ CAScorpK1s
         \/ Amend \/ Attach \/ AmendCalifornia
  PROVE  HInv'
<1>1. CASE PrintFederal
  BY <1>1, OtherForms, WrittenHouseholdKept DEF PrintFederal
<1>2. CASE PrintCorporate
  BY <1>2, OtherForms, WrittenHouseholdKept DEF PrintCorporate
<1>3. CASE PrintAudit
  BY <1>3, OtherForms, WrittenHouseholdKept DEF PrintAudit
<1>4. CASE ScorpReturn
  BY <1>4, OtherForms, WrittenHouseholdKept DEF ScorpReturn
<1>5. CASE CAScorpReturn \/ CAScorpK1s
  BY <1>5, OtherForms, WrittenHouseholdKept DEF CAScorpReturn, CAScorpK1s
<1>6. CASE Amend
  BY <1>6, OtherForms, WrittenHouseholdKept DEF Amend
<1>7. CASE Attach
  BY <1>7, OtherForms, WrittenHouseholdKept DEF Attach
<1>8. CASE AmendCalifornia
  BY <1>8, OtherForms, WrittenHouseholdKept DEF AmendCalifornia
<1>9. QED
  BY <1>1, <1>2, <1>3, <1>4, <1>5, <1>6, <1>7, <1>8

\* California computes over a 1040 that is there; filing begins again.
LEMMA BetweenKeeps ==
  ASSUME HInv, IInv', ComputeCalifornia \/ File
  PROVE  HInv'
<1>1. CASE ComputeCalifornia
  <2>1. stage = "california" /\ UNCHANGED <<scenario, printed>>
    BY <1>1 DEF ComputeCalifornia, Step, Refuse, Proceed
  <2>2. Computed
    BY <2>1 DEF HInv, IInv, Control, FiguresInv, Late, Computed
  <2>3. QED
    BY <2>1, <2>2, HouseholdKept
<1>2. CASE File
  <2>1. /\ stage = "file" /\ scenario' = scenario.amended /\ ~Computed'
        /\ UNCHANGED printed /\ stage' = "load"
    BY <1>2, NothingKnown DEF File, Computed
  <2>2. CountsDays(scenario.amended.config)
    BY <2>1, HouseholdAssumption DEF HInv, IInv, Control, ScenarioInv, StageInv
  <2>3. printed' \cap CAForms = {}
    BY <2>1 DEF HInv, HouseholdInv
  <2>4. QED
    BY <2>1, <2>2, <2>3 DEF HInv, HouseholdInv
<1>3. QED
  BY <1>1, <1>2

\* The California forms are written once the facts are validated again and
\* the cells of FTB 3532 are complete.
LEMMA CaliforniaKeeps == ASSUME HInv, IInv', PrintCalifornia PROVE HInv'
<1> DEFINE ledger ==
      <<<<"coverage_unanswered", scenario.config.coverage = None>>,
        <<"blank_spouse", BlankSpouse(scenario.config)>>,
        <<"interest_unstated", InterestUnstated(figures.f540, figures.balance540)>>,
        <<"head_of_household", HouseholdRefused(scenario.config, scenario.year)>>,
        <<"ftb3532_incomplete", Form3532Incomplete(scenario.config, scenario.year)>>>>
<1>1. stage = "print_ca" /\ printed \cap CAForms = {}
  BY DEF PrintCalifornia, Write, HInv, HouseholdInv
<1>2. CASE Refuse(ledger)
  BY <1>1, <1>2, HouseholdKept DEF Refuse, Computed
<1>3. CASE /\ Passes(ledger) /\ stage' = "done"
           /\ printed' = printed \cup CAPacket(scenario.config)
           /\ UNCHANGED <<scenario, figures>>
  <2>1. /\ 4 \in DOMAIN ledger /\ 5 \in DOMAIN ledger
        /\ ledger[4] = <<"head_of_household",
                         HouseholdRefused(scenario.config, scenario.year)>>
        /\ ledger[5] = <<"ftb3532_incomplete",
                         Form3532Incomplete(scenario.config, scenario.year)>>
    OBVIOUS
  <2>2. Validated /\ ~Form3532Incomplete(scenario.config, scenario.year)
    <3> HIDE DEF ledger
    <3>1. ~ledger[4][2] /\ ~ledger[5][2]
      BY <1>3, <2>1, PassedEach
    <3>2. QED
      BY <2>1, <3>1 DEF Validated
  <2>3. <<"ftb3532", 0>> \in CAPacket(scenario.config) <=> scenario.config.status = "hoh"
    BY DEF CAPacket, Sheets
  <2>4. Printed("ftb3532")' <=> scenario.config.status = "hoh"
    BY <1>1, <1>3, <2>3 DEF Printed, CAForms
  <2>5. QED
    BY <1>3, <2>2, <2>4 DEF HInv, HouseholdInv, Validated, Computed, Printed
<1>4. QED
  BY <1>2, <1>3 DEF PrintCalifornia, Write

----------------------------------------------------------------------------
(* The theorem.                                                            *)

LEMMA HouseholdInit == Init => HInv
<1> SUFFICES ASSUME Init PROVE HInv
  OBVIOUS
<1>1. scenario \in Scenarios /\ figures = <<>> /\ printed = {}
  BY DEF Init
<1>2. CountsDays(scenario.config) /\ ~Computed
  BY <1>1, HouseholdAssumption, NothingKnown DEF Computed
<1>3. QED
  BY <1>1, <1>2, InitHolds DEF HInv, HouseholdInv

LEMMA HouseholdStep == HInv /\ [Next]_vars => HInv'
<1> SUFFICES ASSUME HInv, [Next]_vars PROVE HInv'
  OBVIOUS
<1>1. IInv'
  BY StepKeeps DEF HInv
<1>2. CASE Next
  BY <1>1, <1>2, ComputingKeeps, SpineKeeps, PrintingKeeps, BetweenKeeps, CaliforniaKeeps
  DEF Next
<1>3. CASE UNCHANGED vars
  BY <1>1, <1>3 DEF vars, HInv, HouseholdInv, Validated, Computed, Printed
<1>4. QED
  BY <1>2, <1>3

\* The household's facts that print were validated and are complete.
LEMMA ValidatedIsProven == HInv => HouseholdProven
<1> SUFFICES ASSUME HInv PROVE HouseholdProven
  OBVIOUS
<1> DEFINE config == scenario.config
           block == config.hoh
           year == scenario.year
           person == block.person
<1>1. Printed("f540") => (config.status = "hoh") = Printed("ftb3532")
  BY DEF HInv, HouseholdInv, Printed, CAForms
<1>2. ASSUME Printed("ftb3532")
      PROVE  LET form == FTB3532(block, year) IN
             /\ HouseholdLines(config, year).named
             /\ 2 * form.line5 > DaysIn(year)
             /\ form.part1 = LivedTogether => form.line1f # <<>>
             /\ Unanswered3(form.line3) = ~NineteenOrOlder(person, year)
  <2>1. /\ ~HouseholdRefused(config, year) /\ ~Form3532Incomplete(config, year)
        /\ config.status = "hoh" /\ CountsDays(config)
    BY <1>2 DEF HInv, HouseholdInv, Validated, Printed, CAForms
  <2>2. block # None /\ ~Contradicted(block, year)
    BY <2>1 DEF HouseholdRefused
  <2>3. /\ ~(person.days < DaysIn(year) \div 2 + 1) /\ OnChildPath(person, year)
        /\ person.days \in Int
    BY <2>1, <2>2 DEF Contradicted, CountsDays
  <2>4. 2 * person.days > DaysIn(year)
    BY <2>3 DEF DaysIn
  <2>5. /\ ~(block.marital = LivedTogether /\ block.periods = <<>>)
        /\ ~(NineteenOrOlder(person, year) /\ Unanswered3(FTB3532(block, year).line3))
    BY <2>1 DEF Form3532Incomplete, FTB3532
  <2>6. ~NineteenOrOlder(person, year) => Unanswered3(FTB3532(block, year).line3)
    <3>1. Unanswered3(<<None, None>>)
      BY DEF Unanswered3
    <3>2. QED
      BY <3>1 DEF FTB3532
  <2> DEFINE form == FTB3532(block, year)
  <2>7. Unanswered3(form.line3) = ~NineteenOrOlder(person, year)
    <3>1. Unanswered3(form.line3) <=> ~NineteenOrOlder(person, year)
      BY <2>5, <2>6
    <3> HIDE DEF form
    <3>2. QED
      BY <3>1, Zenon DEF Unanswered3, NineteenOrOlder
  <2>8. form.line5 = person.days /\ form.part1 = block.marital
        /\ form.line1f = block.periods
    BY DEF FTB3532
  <2>9. HouseholdLines(config, year).named
    BY <2>2, <2>3 DEF HouseholdLines
  <2> HIDE DEF form
  <2>10. QED
    BY <2>4, <2>5, <2>7, <2>8, <2>9 DEF form
<1>3. ASSUME Computed, HouseholdLines(config, year).livedApart
      PROVE  ~AnyOf(block.periods, LAMBDA p : p.to >= July1(year))
  <2>1. block # None
    BY <1>3 DEF HouseholdLines
  <2>2. ~Contradicted(block, year)
    BY <1>3, <2>1 DEF HInv, HouseholdInv, Validated, HouseholdRefused
  <2>3. QED
    BY <2>2 DEF Contradicted
<1>4. QED
  BY <1>1, <1>2, <1>3 DEF HouseholdProven

\* A head of household's FTB 3532 is there, complete, for a child at home
\* more than half the year, and a Form 1040 that says the spouses lived
\* apart has no period of the last six months, on either route, in a return
\* or an amendment, whoever built the scenario (header_values,
\* refuse_incomplete_ftb3532_payload).
THEOREM HouseholdAlwaysProven == Spec => []HouseholdProven
<1>1. Spec => []HInv
  BY HouseholdInit, HouseholdStep, PTL DEF Spec
<1>2. QED
  BY <1>1, ValidatedIsProven, PTL

----------------------------------------------------------------------------
(* The change of method.                                                   *)

ChangeInv ==
  /\ TypedChange(scenario.change)
  /\ Printed("f3115") =>
       /\ scenario.command = "federal" /\ scenario.change # None
       /\ Passes(ChangeLedger(Effective(scenario)))
CInv == IInv /\ ChangeInv

----------------------------------------------------------------------------
(* The steps.                                                              *)

\* The scenario in effect has the block and the filer of the scenario given.
LEMMA ApplicantKept ==
  ASSUME NEW s, ScenarioFields \subseteq DOMAIN s
  PROVE  Effective(s).change = s.change /\ Effective(s).config = s.config
<1> DEFINE t == WithShareholderK1s(s)
           Read == {"change", "config"}
<1>1. \A x \in Read : x \in DOMAIN t /\ t[x] = s[x]
  BY DEF WithShareholderK1s, ScenarioFields
<1> HIDE DEF t
<1>2. \A x \in Read : WithDepreciation(t)[x] = t[x]
  BY <1>1 DEF WithDepreciation
<1>3. QED
  BY <1>1, <1>2 DEF Effective, t

\* Only the federal packet has the form.
LEMMA OtherPackets ==
  ASSUME NEW s, NEW f, NEW c
  PROVE  /\ <<"f3115", 0>> \notin CorporatePacket(c)
         /\ <<"f3115", 0>> \notin CAScorpPacket(c)
         /\ \A year : <<"f3115", 0>> \notin FirstCAScorpForms(c, year)
         /\ <<"f3115", 0>> \notin ChangedForms(s, f)
         /\ <<"f3115", 0>> \notin CAPacket(s.config)
         /\ <<"f3115", 0>> \notin Form("depreciation_audit", AssetMode(s))
         /\ <<"f3115", 0>> \notin Sheets({"f1040x"})
         /\ <<"f3115", 0>> \notin Sheets({"schedule_x"})
<1>1. <<"f3115", 0>> \notin CorporatePacket(c)
  BY CorporatePacketNames DEF CorporateNames
<1>2. /\ <<"f3115", 0>> \notin CAScorpPacket(c)
      /\ \A year : <<"f3115", 0>> \notin FirstCAScorpForms(c, year)
  BY CAScorpPacketNames, FirstFormsOfPacket DEF CAScorpNames
<1>3. /\ <<"f3115", 0>> \notin ChangedForms(s, f)
      /\ <<"f3115", 0>> \notin Form("depreciation_audit", AssetMode(s))
  BY DEF ChangedForms, Form, Sheets
<1>4. /\ <<"f3115", 0>> \notin CAPacket(s.config)
      /\ <<"f3115", 0>> \notin Sheets({"f1040x"})
      /\ <<"f3115", 0>> \notin Sheets({"schedule_x"})
  BY DEF CAPacket, Sheets
<1>5. QED
  BY <1>1, <1>2, <1>3, <1>4

LEMMA ChangeKept ==
  ASSUME CInv, IInv', UNCHANGED scenario, Printed("f3115")' => Printed("f3115")
  PROVE  CInv'
BY DEF CInv, ChangeInv

LEMMA ComputingChangeKept ==
  ASSUME CInv, IInv', NEW at, NEW ledger, NEW next, NEW new, Step(at, ledger, next, new)
  PROVE  CInv'
BY ChangeKept DEF Step, Refuse, Proceed, Printed

LEMMA WrittenChangeKept ==
  ASSUME CInv, IInv', NEW at, NEW ledger, NEW next, NEW forms,
         Write(at, ledger, next, forms), <<"f3115", 0>> \notin forms
  PROVE  CInv'
BY ChangeKept DEF Write, Refuse, Printed

LEMMA PrintingChangeKept == ASSUME CInv, IInv', PrintFederal PROVE CInv'
<1> DEFINE s == Effective(scenario)
           before == ChangeLedger(s) \o EmitLedger(s, figures)
           ledger == before \o RenderLedger(s, figures)
           packet == FederalPacket(s, figures) \cup Statement8z(s, figures)
<1>1. CASE Refuse(ledger)
  BY <1>1, ChangeKept DEF Refuse, Printed
<1>2. CASE Passes(ledger) /\ printed' = printed \cup (packet \cup ChangePacket(s))
           /\ UNCHANGED scenario
  <2>1. Passes(ChangeLedger(s))
    <3>1. Listing(before) /\ Listing(RenderLedger(s, figures))
      BY ChangeListing, EmitListing, Joined, ShortListings DEF RenderLedger
    <3>2. Passes(before)
      <4> HIDE DEF before
      <4>1. QED
        BY <1>2, <3>1, Joined
    <3>3. QED
      BY <3>2, ChangeListing, EmitListing, Joined
  <2>2. scenario.command = "federal"
    BY DEF PrintFederal, Write, CInv, IInv, Control, StageInv
  <2>3. Printed("f3115")' => Printed("f3115") \/ scenario.change # None
    <3>1. <<"f3115", 0>> \notin packet
      <4> DEFINE copies == Copies("f4562", Activities4562(s),
                                  LAMBDA act : CopyRequired(act, s.year))
      <4>1. <<"f3115", 0>> \notin copies
        BY DEF Copies
      <4>2. /\ <<"f3115", 0>> \notin CopiesOf("sch_c", s.businesses)
            /\ <<"f3115", 0>> \notin Statement8z(s, figures)
        BY DEF CopiesOf, Statement8z, Form, Sheets
      <4>3. <<"f3115", 0>> \notin
              Sheets({"1040", "4868"} \cup {form \in GatedForms : Emits(form, s, figures)})
        BY DEF Sheets, GatedForms
      <4> HIDE DEF copies
      <4>4. QED
        BY <4>1, <4>2, <4>3 DEF FederalPacket, copies
    <3>2. <<"f3115", 0>> \in ChangePacket(s) => s.change # None
      BY DEF ChangePacket, Sheets
    <3>3. s.change = scenario.change
      BY ScenarioFieldsThere, ApplicantKept DEF CInv, IInv, Control
    <3> HIDE DEF s, packet
    <3>4. QED
      BY <1>2, <3>1, <3>2, <3>3 DEF Printed
  <2>4. QED
    BY <1>2, <2>1, <2>2, <2>3 DEF CInv, ChangeInv
<1>3. QED
  BY <1>1, <1>2 DEF PrintFederal, Write

\* Filing begins again, with nothing printed.
LEMMA FilingChangeKept == ASSUME CInv, IInv', File PROVE CInv'
<1>1. stage = "file" /\ scenario' = scenario.amended /\ UNCHANGED printed
  BY DEF File
<1>2. printed = {}
  BY <1>1 DEF CInv, IInv, Control, PrintedInv
<1>3. TypedChange(scenario.amended.change)
  BY <1>1, ChangeAssumption DEF CInv, IInv, Control, ScenarioInv, StageInv
<1>4. QED
  BY <1>1, <1>2, <1>3 DEF CInv, ChangeInv, Printed

LEMMA ChangeStep == CInv /\ [Next]_vars => CInv'
<1> SUFFICES ASSUME CInv, [Next]_vars PROVE CInv'
  OBVIOUS
<1>1. IInv'
  BY StepKeeps DEF CInv
<1>2. CASE Load \/ BuildEffective \/ Guards \/ Income \/ Deduct \/ ComputeSpine
  BY <1>1, <1>2, ComputingChangeKept
  DEF Load, BuildEffective, Guards, Income, Deduct, ComputeSpine
<1>3. CASE EnterInputs \/ Recalculate \/ ReadAnswer \/ ComputeCalifornia
  BY <1>1, <1>3, ComputingChangeKept, ChangeKept
  DEF EnterInputs, Recalculate, ReadAnswer, ComputeCalifornia, Proceed, Printed
<1>4. CASE PrintCorporate \/ PrintAudit \/ ScorpReturn \/ CAScorpReturn \/ CAScorpK1s
  BY <1>1, <1>4, WrittenChangeKept, OtherPackets
  DEF PrintCorporate, PrintAudit, ScorpReturn, CAScorpReturn, CAScorpK1s
<1>5. CASE PrintCalifornia \/ Amend \/ Attach \/ AmendCalifornia
  BY <1>1, <1>5, WrittenChangeKept, OtherPackets
  DEF PrintCalifornia, Amend, Attach, AmendCalifornia
<1>6. CASE UNCHANGED vars
  BY <1>1, <1>6, ChangeKept DEF vars, Printed
<1>7. QED
  BY <1>1, <1>2, <1>3, <1>4, <1>5, <1>6, PrintingChangeKept, FilingChangeKept DEF Next

LEMMA ChangeInit == Init => CInv
<1> SUFFICES ASSUME Init PROVE CInv
  OBVIOUS
<1>1. scenario \in Scenarios /\ printed = {}
  BY DEF Init
<1>2. QED
  BY <1>1, InitHolds, ChangeAssumption DEF CInv, ChangeInv, Printed

----------------------------------------------------------------------------
(* What a passed ledger leaves.                                            *)

\* An amount that is cent exact prints as stated.
LEMMA CentsPrinted ==
  ASSUME NEW amount \in Int, CentExact(amount)
  PROVE  Cents(amount) \in Int /\ 10 * Cents(amount) = amount
<1> DEFINE size == IF amount < 0 THEN -amount ELSE amount
<1>1. size \in Nat /\ size % 10 = 0 /\ 10 * (size \div 10) = size
  BY DEF CentExact
<1>2. Cents(amount) = IF amount < 0 THEN -(size \div 10) ELSE size \div 10
  BY <1>1 DEF Cents
<1>3. QED
  BY <1>1, <1>2

\* An amount below the limit of the election, in cents.
LEMMA CentsBelowLimit ==
  ASSUME NEW n \in Int, NEW amount \in Int,
         10 * n = amount, 0 < amount, amount < 50000000
  PROVE  BelowElectionLimit(n)
BY SMT DEF BelowElectionLimit

\* The parts of a passed ledger have passed.
LEMMA ChangeAsked ==
  ASSUME NEW s, s.change # None, Passes(ChangeLedger(s))
  PROVE  /\ Passes(AppliedLedger(s)) /\ Passes(ApplicantLedger(s))
         /\ Passes(AmountLedger(s.change)) /\ Passes(PropertyLedger(s.change))
         /\ Passes(UnsupportedLedger(s.change))
<1> DEFINE a == AppliedLedger(s)
           b == ApplicantLedger(s)
           c == AmountLedger(s.change)
           d == PropertyLedger(s.change)
           e == UnsupportedLedger(s.change)
<1>1. Listing(a) /\ Listing(c) /\ Listing(d)
  BY ShortListings DEF AppliedLedger, AmountLedger, PropertyLedger, AnyOf
<1>2. Listing(b)
  <2>1. \A u, v, w, x, y, z : <<u, v, w, x, y, z>> \in Seq({u, v, w, x, y, z})
    OBVIOUS
  <2>2. \A u, v, w, x, y, z : Listing(<<u, v, w, x, y, z>>)
    BY <2>1 DEF Listing
  <2>3. QED
    BY <2>2 DEF ApplicantLedger
<1>3. Listing(e)
  BY UnsupportedListing
<1>4. Passes(a \o b \o c \o d \o e)
  BY DEF ChangeLedger
<1> HIDE DEF a, b, c, d, e
<1>5. Listing(a \o b) /\ Listing(a \o b \o c) /\ Listing(a \o b \o c \o d)
  BY <1>1, <1>2, Joined
<1>6. Passes(a \o b \o c \o d) /\ Passes(e)
  BY <1>3, <1>4, <1>5, Joined
<1>7. Passes(a \o b \o c) /\ Passes(d)
  BY <1>1, <1>5, <1>6, Joined
<1>8. Passes(a \o b) /\ Passes(c)
  BY <1>1, <1>5, <1>7, Joined
<1>9. Passes(a) /\ Passes(b)
  BY <1>1, <1>2, <1>8, Joined
<1>10. QED
  BY <1>6, <1>7, <1>8, <1>9 DEF a, b, c, d, e

LEMMA PassedEntry ==
  ASSUME NEW ledger, Passes(ledger), NEW i \in DOMAIN ledger
  PROVE  ~ledger[i][2]
BY DEF Passes, AnyOf, Offends

\* The two questions of line 7b, and what is refused of each.
LEMMA ProtectionQuestions ==
  /\ 6 \in DOMAIN Unsupported /\ 7 \in DOMAIN Unsupported
  /\ Unsupported[6][1] = "under_examination" /\ Unsupported[6][2] = TRUE
  /\ Unsupported[7][1] = "audit_protection_applies" /\ Unsupported[7][2] = FALSE
<1>1. 6 \in DOMAIN Unsupported /\ 7 \in DOMAIN Unsupported
  BY SMT DEF Unsupported
<1>2. Unsupported[6][1] = "under_examination" /\ Unsupported[6][2] = TRUE
  BY SMT DEF Unsupported
<1>3. Unsupported[7][1] = "audit_protection_applies" /\ Unsupported[7][2] = FALSE
  BY SMT DEF Unsupported
<1>4. QED
  BY <1>1, <1>2, <1>3

\* What the entries leave of the block.
LEMMA ChangeLeft ==
  ASSUME NEW s, s.change # None, TypedChange(s.change), Passes(ChangeLedger(s))
  PROVE  LET c == s.change IN
         /\ \A q \in ChangeQuestions \ {Line4b} : c.answers[q] \in BOOLEAN
         /\ c.applicant = "individual" /\ c.type = "depreciation_or_amortization"
         /\ s.config.status # "mfj"
         /\ \A amount \in StatedAmounts(c) : CentExact(amount)
         /\ ~ElectionIneligible(c)
         /\ \A i \in DOMAIN c.assets : \A amount \in AssetAmounts(c.assets[i]) : ~(amount < 0)
         /\ c.answers["under_examination"] # TRUE
         /\ c.answers["audit_protection_applies"] # FALSE
<1> DEFINE c == s.change
<1>1. \A q \in ChangeQuestions \ {Line4b} : c.answers[q] \in BOOLEAN
  <2>1. AppliedLedger(s)[1] = <<"form_3115_answer_not_boolean", NotBoolean(c)>>
        /\ 1 \in DOMAIN AppliedLedger(s)
    BY DEF AppliedLedger
  <2>2. ~NotBoolean(c)
    BY <2>1, ChangeAsked, PassedEntry
  <2>3. QED
    BY <2>2 DEF NotBoolean, TypedChange
<1>2. /\ c.applicant = "individual" /\ c.type = "depreciation_or_amortization"
      /\ s.config.status # "mfj"
  <2>1. \A i \in 1 .. 3 : i \in DOMAIN ApplicantLedger(s) /\ ~ApplicantLedger(s)[i][2]
    <3>1. \A i \in 1 .. 3 : i \in DOMAIN ApplicantLedger(s)
      BY DEF ApplicantLedger
    <3>2. QED
      BY <3>1, ChangeAsked, PassedEntry
  <2>2. /\ ApplicantLedger(s)[1][2] = (c.applicant # "individual")
        /\ ApplicantLedger(s)[2][2] = (c.type # "depreciation_or_amortization")
        /\ ApplicantLedger(s)[3][2] = (s.config.status = "mfj")
    BY SMT DEF ApplicantLedger
  <2>3. ~(c.applicant # "individual") /\ ~(c.type # "depreciation_or_amortization")
        /\ ~(s.config.status = "mfj")
    <3>1. ~ApplicantLedger(s)[1][2] /\ ~ApplicantLedger(s)[2][2] /\ ~ApplicantLedger(s)[3][2]
      BY <2>1
    <3>2. QED
      BY <2>2, <3>1, Zenon
  <2>4. QED
    BY <2>3
<1>3. (\A amount \in StatedAmounts(c) : CentExact(amount)) /\ ~ElectionIneligible(c)
  BY ChangeAsked, PassedEntries DEF AmountLedger
<1>4. \A i \in DOMAIN c.assets : \A amount \in AssetAmounts(c.assets[i]) : ~(amount < 0)
  <2> DEFINE Negative3115(a) == \E amount \in AssetAmounts(a) : amount < 0
  <2>1. /\ 4 \in DOMAIN PropertyLedger(c)
        /\ PropertyLedger(c)[4] = <<"form_3115_asset_amount_negative",
                                    AnyOf(c.assets, Negative3115)>>
    BY DEF PropertyLedger
  <2>2. ~AnyOf(c.assets, Negative3115)
    BY <2>1, ChangeAsked, PassedEntry
  <2>3. QED
    BY <2>2 DEF AnyOf
<1>5. /\ c.answers["under_examination"] # TRUE
      /\ c.answers["audit_protection_applies"] # FALSE
  <2>1. \A i \in {6, 7} : i \in DOMAIN UnsupportedLedger(c)
    BY ProtectionQuestions DEF UnsupportedLedger
  <2>2. ~UnsupportedLedger(c)[6][2] /\ ~UnsupportedLedger(c)[7][2]
    BY <2>1, ChangeAsked, PassedEntry
  <2>3. \A i \in {6, 7} : UnsupportedLedger(c)[i][2]
                           = (c.answers[Unsupported[i][1]] = Unsupported[i][2])
    BY ProtectionQuestions, SMT DEF UnsupportedLedger
  <2>4. QED
    BY <2>2, <2>3, ProtectionQuestions
<1>6. QED
  BY <1>1, <1>2, <1>3, <1>4, <1>5

LEMMA LedgerTellsOneStory == CInv => Form3115Consistent
<1> SUFFICES ASSUME CInv, Printed("f3115")
             PROVE  LET c == scenario.change
                        p == F3115(c)
                    IN /\ scenario.command = "federal" /\ scenario.config.status # "mfj"
                       /\ 10 * p.line26 = c.adjustment
                       /\ p.line28 => BelowElectionLimit(p.line26)
                       /\ p.period = IF p.line26 = 0 THEN 0
                                     ELSE IF p.line26 > 0 /\ ~p.line28 THEN 4 ELSE 1
                       /\ \A q \in ChangeQuestions \ {Line4b} : Cardinality(p.boxes[q]) = 1
                       /\ p.individual /\ p.depreciation /\ p.line7b
                       /\ \A i \in DOMAIN c.assets : AssetStatement(c)[i] =
                            [basis |-> c.assets[i].basis \div 10,
                             claimed |-> c.assets[i].claimed \div 10]
  BY Zenon DEF Form3115Consistent
<1> DEFINE s == Effective(scenario)
           c == scenario.change
           elected == c.answers["elect_one_year_spread"]
<1>1. /\ scenario.command = "federal" /\ c # None /\ TypedChange(c)
      /\ Passes(ChangeLedger(s))
  BY DEF CInv, ChangeInv
<1>2. s.change = c /\ s.config = scenario.config
  BY ScenarioFieldsThere, ApplicantKept DEF CInv, IInv, Control
<1> HIDE DEF s
<1>3. /\ \A q \in ChangeQuestions \ {Line4b} : c.answers[q] \in BOOLEAN
      /\ c.applicant = "individual" /\ c.type = "depreciation_or_amortization"
      /\ scenario.config.status # "mfj"
      /\ \A amount \in StatedAmounts(c) : CentExact(amount)
      /\ ~ElectionIneligible(c)
      /\ \A i \in DOMAIN c.assets : \A amount \in AssetAmounts(c.assets[i]) : ~(amount < 0)
      /\ c.answers["under_examination"] # TRUE
      /\ c.answers["audit_protection_applies"] # FALSE
  BY <1>1, <1>2, ChangeLeft
<1>4. c.adjustment \in Int /\ Cents(c.adjustment) \in Int
      /\ 10 * Cents(c.adjustment) = c.adjustment
  BY <1>1, <1>3, CentsPrinted DEF TypedChange, StatedAmounts
<1>5. elected = TRUE => 0 < c.adjustment /\ c.adjustment < 50000000
  BY <1>3, SMT DEF ElectionIneligible, DeMinimis
<1>6. F3115(c).line26 = Cents(c.adjustment) /\ (F3115(c).line28 <=> elected = TRUE)
  <2>1. F3115(c).line26 = Cents(c.adjustment) /\ F3115(c).line28 = (elected = TRUE)
    BY DEF F3115
  <2>2. QED
    BY <2>1, Zenon
<1>7. F3115(c).line28 => BelowElectionLimit(F3115(c).line26)
  <2> DEFINE cents == Cents(c.adjustment)
             adjustment == c.adjustment
  <2>1. ASSUME elected = TRUE PROVE BelowElectionLimit(cents)
    <3>1. adjustment \in Int /\ cents \in Int /\ 10 * cents = adjustment
          /\ 0 < adjustment /\ adjustment < 50000000
      BY <1>4, <1>5, <2>1, SMT
    <3> HIDE DEF cents, adjustment
    <3>2. QED
      BY <3>1, CentsBelowLimit
  <2>2. QED
    BY <1>6, <2>1, Zenon
<1>8. F3115(c).period = IF F3115(c).line26 = 0 THEN 0
                        ELSE IF F3115(c).line26 > 0 /\ ~F3115(c).line28 THEN 4 ELSE 1
  <2>1. F3115(c).period = IF Cents(c.adjustment) = 0 THEN 0
                          ELSE IF c.adjustment < 0 \/ elected = TRUE THEN 1 ELSE 4
    BY DEF F3115, Period
  <2>2. QED
    BY <1>4, <1>6, <2>1
<1>9. ASSUME NEW q \in ChangeQuestions \ {Line4b}
      PROVE  Cardinality(F3115(c).boxes[q]) = 1
  <2>1. F3115(c).boxes[q] = {answer \in BOOLEAN : c.answers[q] = answer}
    BY DEF F3115, CheckedBoxes
  <2>2. {answer \in BOOLEAN : c.answers[q] = answer} = {c.answers[q]}
    BY <1>3
  <2>3. QED
    BY <2>1, <2>2, FS_Singleton
<1>10. F3115(c).individual /\ F3115(c).depreciation /\ F3115(c).line7b
  <2>1. {"under_examination", "audit_protection_applies"} \subseteq ChangeQuestions \ {Line4b}
    <3>1. {"under_examination", "audit_protection_applies"} \subseteq ChangeQuestions
      BY ProtectionQuestions DEF ChangeQuestions
    <3>2. QED
      BY <3>1 DEF Line4b
  <2>2. c.answers["under_examination"] = FALSE /\ c.answers["audit_protection_applies"] = TRUE
    BY <1>3, <2>1
  <2>3. QED
    BY <1>3, <2>2 DEF F3115
<1>11. ASSUME NEW i \in DOMAIN c.assets
       PROVE  AssetStatement(c)[i] = [basis |-> c.assets[i].basis \div 10,
                                      claimed |-> c.assets[i].claimed \div 10]
  <2>1. \A amount \in AssetAmounts(c.assets[i]) :
          amount \in Int /\ ~(amount < 0) /\ CentExact(amount)
    BY <1>1, <1>3 DEF TypedChange, StatedAmounts
  <2>2. \A amount \in AssetAmounts(c.assets[i]) : Cents(amount) = amount \div 10
    <3>1. ASSUME NEW amount \in Int, ~(amount < 0), CentExact(amount)
          PROVE  Cents(amount) = amount \div 10
      BY <3>1, CentsPrinted
    <3>2. QED
      BY <2>1, <3>1
  <2>3. QED
    BY <2>2 DEF AssetStatement, AssetAmounts
<1>12. QED
  <2>1. 10 * F3115(c).line26 = c.adjustment
    BY <1>4, <1>6
  <2>2. QED
    BY <1>1, <1>3, <1>7, <1>8, <1>9, <1>10, <1>11, <2>1, Zenon

\* A Form 3115 that prints tells one story, for any block and any return: the
\* adjustment to the cent, an election and a period its amount allows, one
\* box of each pair (enforce_form_3115_refusals, f3115.py).
THEOREM ChangeAlwaysConsistent == Spec => []Form3115Consistent
<1>1. Spec => []CInv
  BY ChangeInit, ChangeStep, PTL DEF Spec
<1>2. QED
  BY <1>1, LedgerTellsOneStory, PTL
============================================================================
