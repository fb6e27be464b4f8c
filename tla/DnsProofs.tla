------------------------------ MODULE DnsProofs ------------------------------
(***************************************************************************)
(* Proof that requests which apply a domain's records, however many overlap *)
(* and whichever of their calls fail, implement the abstract zone: they     *)
(* only add records and rewrite records of the kinds they are for.  And     *)
(* that requests which nothing overlaps never make a second record of a     *)
(* kind and report nothing but what is true, and that every request runs    *)
(* out of steps.                                                            *)
(***************************************************************************)
EXTENDS Dns, TLAPS

\* A request that runs is at a place of the plan until it is done.
PlacesOK ==
    \A a \in Applier : apply[a].at \in {"list", "write"} => apply[a].n \in 1 .. Len(Plan)

\* What a request is about to rewrite is of the kind it is for: it was when it was listed,
\* and nobody but such requests has written since.
TargetOK(a) ==
    apply[a].at = "write" =>
        /\ apply[a].target # {} => Place(a) \in Sole
        /\ \A r \in zone : r.slot = Place(a) /\ r.id \in apply[a].target => r.text # 0

TargetsOK == \A a \in Applier : TargetOK(a)

\* Cloudflare gives every record an id of its own.
IdsUnique == \A r, q \in zone : r.slot = q.slot /\ r.id = q.id => r = q

DnsInv == DnsTypeOK /\ IdsUnique /\ PlacesOK /\ TargetsOK

-----------------------------------------------------------------------------
LEMMA PlanFact == Len(Plan) \in Nat /\ Len(Plan) >= 1 /\ \A n \in 1 .. Len(Plan) : Plan[n] \in Slot
BY PlanAssumption

LEMMA PlaceInSlot ==
    ASSUME PlacesOK, NEW a \in Applier, apply[a].at \in {"list", "write"}
    PROVE  Place(a) \in Slot
BY PlanFact DEF PlacesOK, Place

LEMMA ValueInNat ==
    ASSUME DnsTypeOK, NEW a \in Applier
    PROVE  Value(a) \in Nat
<1>1. apply[a].dkim \in Nat
  BY DEF DnsTypeOK, Applying
<1> QED BY <1>1 DEF Value, Wants

\* Finish leaves the request running, at a place of the plan or done, and the others alone.
LEMMA FinishEffect ==
    ASSUME DnsInv, NEW a \in Applier, NEW r \in Result, apply[a].at \in {"list", "write"},
           Finish(a, r)
    PROVE  /\ apply' \in [Applier -> Applying]
           /\ \A b \in Applier : b # a => apply'[b] = apply[b]
           /\ apply'[a].at \in {"list", "done"} /\ apply'[a].alone = apply[a].alone
           /\ apply'[a].at = "list" => apply'[a].n \in 1 .. Len(Plan)
           /\ apply'[a].n = apply[a].n + 1
<1>1. apply \in [Applier -> Applying] /\ apply[a].n \in 1 .. Len(Plan)
  BY DEF DnsInv, DnsTypeOK, PlacesOK
<1>2. apply[a].results \in Seq(Result) /\ apply[a].n \in Nat /\ apply[a].dkim \in Nat
      /\ apply[a].alone \in BOOLEAN
  BY <1>1 DEF Applying
<1> DEFINE l == IF apply[a].n = Len(Plan) THEN "done" ELSE "list"
           q == [at |-> l, n |-> apply[a].n + 1, dkim |-> apply[a].dkim, target |-> {},
                 results |-> Append(apply[a].results, r), alone |-> apply[a].alone]
<1>3. apply' = [apply EXCEPT ![a] = q]
  BY DEF Finish
<1>4. Append(apply[a].results, r) \in Seq(Result)
  BY <1>2
<1>5. l \in {"list", "done"} /\ (l = "list" => apply[a].n + 1 \in 1 .. Len(Plan))
  BY <1>1, <1>2, PlanFact
<1>6. q \in Applying
  BY <1>2, <1>4, <1>5 DEF Applying
<1>7. q.at = l /\ q.n = apply[a].n + 1 /\ q.alone = apply[a].alone
  OBVIOUS
<1> HIDE DEF q
<1>8. /\ apply' \in [Applier -> Applying] /\ apply'[a] = q
      /\ \A b \in Applier : b # a => apply'[b] = apply[b]
  BY <1>1, <1>3, <1>6
<1> QED BY <1>5, <1>7, <1>8

\* A step of request a keeps the invariant if it leaves the others alone, has a place and a
\* good target afterwards, and writes nothing but records of the kinds that are applied.
LEMMA RequestStep ==
    ASSUME DnsInv, NEW a \in Applier, apply' \in [Applier -> Applying],
           \A b \in Applier : b # a => apply'[b] = apply[b],
           apply'[a].at \in {"list", "write"} => apply'[a].n \in 1 .. Len(Plan),
           TargetOK(a)',
           zone' \subseteq Record, IdsUnique', \A r \in zone' : r \in zone \/ r.text # 0,
           UNCHANGED << dkimKey, recordFile, edits >>
    PROVE  DnsInv'
<1>1. DnsTypeOK'
  BY DEF DnsInv, DnsTypeOK
<1>2. PlacesOK'
  BY DEF DnsInv, PlacesOK
<1>3. ASSUME NEW b \in Applier, b # a PROVE TargetOK(b)'
  <2>1. TargetOK(b) /\ apply'[b] = apply[b]
    BY <1>3 DEF DnsInv, TargetsOK
  <2>2. Place(b)' = Place(b)
    BY <2>1 DEF Place
  <2> QED BY <2>1, <2>2 DEF TargetOK
<1>4. TargetsOK'
  BY <1>3 DEF TargetsOK
<1> QED BY <1>1, <1>2, <1>4 DEF DnsInv

\* Nothing a request does with its result disturbs the invariant.
LEMMA FinishStep ==
    ASSUME DnsInv, NEW a \in Applier, NEW r \in Result, apply[a].at \in {"list", "write"},
           Finish(a, r), zone' \subseteq Record, IdsUnique',
           \A q \in zone' : q \in zone \/ q.text # 0,
           UNCHANGED << dkimKey, recordFile, edits >>
    PROVE  DnsInv' /\ Busy /\ Busy'
<1>1. /\ apply' \in [Applier -> Applying]
      /\ \A b \in Applier : b # a => apply'[b] = apply[b]
      /\ apply'[a].at \in {"list", "done"}
      /\ apply'[a].at = "list" => apply'[a].n \in 1 .. Len(Plan)
  BY FinishEffect
<1>2. TargetOK(a)'
  BY <1>1 DEF TargetOK
<1>3. DnsInv'
  BY <1>1, <1>2, RequestStep
<1> QED BY <1>1, <1>3 DEF Busy, Running

-----------------------------------------------------------------------------
LEMMA InitInv == DnsInit => DnsInv
<1> SUFFICES ASSUME DnsInit PROVE DnsInv
  OBVIOUS
<1>1. Quiet \in Applying
  BY DEF Quiet, Applying
<1>2. apply \in [Applier -> Applying] /\ \A a \in Applier : apply[a].at = "idle"
  BY <1>1 DEF DnsInit, Quiet
<1>3. DnsTypeOK
  BY <1>2 DEF DnsInit, DnsTypeOK
<1>4. IdsUnique
  BY DEF DnsInit, IdsUnique
<1> QED BY <1>2, <1>3, <1>4 DEF DnsInv, PlacesOK, TargetsOK, TargetOK

\* Every step keeps the invariant, and is a step of the abstract zone or none.
LEMMA ListStep ==
    ASSUME DnsInv, NEW a \in Applier, ListRecords(a)
    PROVE  DnsInv' /\ Busy /\ Busy' /\ UNCHANGED zone
<1>1. /\ apply[a].at = "list" /\ UNCHANGED << zone, dkimKey, recordFile, edits >>
  BY DEF ListRecords
<1>2. zone' \subseteq Record /\ IdsUnique' /\ \A r \in zone' : r \in zone \/ r.text # 0
  BY <1>1 DEF DnsInv, DnsTypeOK, IdsUnique
<1>3. CASE \E r \in {"error", "unchanged", "skipped"} : Finish(a, r)
  BY <1>1, <1>2, <1>3, FinishStep DEF Result
<1>4. ASSUME NEW t \in SUBSET Id, Write(a, t),
             t # {} => Place(a) \in Sole,
             \A r \in zone : r.slot = Place(a) /\ r.id \in t => r.text # 0
      PROVE  DnsInv' /\ Busy /\ Busy'
  <2>1. apply \in [Applier -> Applying] /\ apply[a].n \in 1 .. Len(Plan)
    BY <1>1 DEF DnsInv, DnsTypeOK, PlacesOK
  <2>2. /\ apply' \in [Applier -> Applying]
        /\ \A b \in Applier : b # a => apply'[b] = apply[b]
        /\ apply'[a].at = "write" /\ apply'[a].target = t /\ apply'[a].n = apply[a].n
    BY <1>4, <2>1 DEF Write, Applying
  <2>3. Place(a)' = Place(a)
    BY <2>2 DEF Place
  <2>4. TargetOK(a)'
    BY <1>1, <1>4, <2>2, <2>3 DEF TargetOK
  <2>5. DnsInv'
    BY <1>1, <1>2, <2>1, <2>2, <2>4, RequestStep
  <2> QED BY <1>1, <2>2, <2>5 DEF Busy, Running
<1>5. CASE Write(a, {})
  BY <1>1, <1>4, <1>5
<1>6. CASE Place(a) \in Sole /\ \E r \in OfKind(Place(a)) :
              OfKind(Place(a)) = {r} /\ Write(a, {r.id})
  <2>1. PICK r \in OfKind(Place(a)) : OfKind(Place(a)) = {r} /\ Write(a, {r.id})
    BY <1>6
  <2>2. {r.id} \in SUBSET Id
    BY DEF OfKind, DnsInv, DnsTypeOK, Record
  <2>3. \A q \in zone : q.slot = Place(a) /\ q.id \in {r.id} => q.text # 0
    BY <2>1 DEF OfKind, DnsInv, IdsUnique
  <2> QED BY <1>1, <1>4, <1>6, <2>1, <2>2, <2>3
<1>7. \/ \E r \in {"error", "unchanged", "skipped"} : Finish(a, r)
      \/ Write(a, {})
      \/ Place(a) \in Sole /\ \E r \in OfKind(Place(a)) :
              OfKind(Place(a)) = {r} /\ Write(a, {r.id})
  BY DEF ListRecords
<1> QED BY <1>1, <1>3, <1>5, <1>6, <1>7

LEMMA CreateStep ==
    ASSUME DnsInv, NEW a \in Applier, createRecord(a)
    PROVE  DnsInv' /\ Busy /\ Busy' /\ Z!Add
<1> DEFINE i == CHOOSE j \in FreeId(Place(a)) : TRUE
           by == IF apply[a].alone THEN "apply" ELSE "overlap"
           new == [slot |-> Place(a), id |-> i, text |-> Value(a), by |-> by]
<1>1. /\ apply[a].at = "write" /\ Accepted(a) /\ FreeId(Place(a)) # {}
      /\ zone' = zone \cup {new} /\ Answer(a, "created")
      /\ UNCHANGED << dkimKey, recordFile, edits >>
  BY DEF createRecord
<1>2. i \in FreeId(Place(a)) /\ by \in {"operator", "apply", "overlap"}
  BY <1>1
<1>3. Place(a) \in Slot /\ Value(a) \in Nat
  BY <1>1, PlaceInSlot, ValueInNat DEF DnsInv
<1> HIDE DEF i, by
<1>4. new \in Record /\ new.slot = Place(a) /\ new.id = i /\ new.text = Value(a)
  BY <1>2, <1>3 DEF Record, FreeId
<1>5. new \notin zone /\ new.text # 0
  BY <1>1, <1>4 DEF Accepted
<1> HIDE DEF new
<1>6. zone' \subseteq Record /\ \A q \in zone' : q \in zone \/ q.text # 0
  BY <1>1, <1>4, <1>5 DEF DnsInv, DnsTypeOK
<1>7. IdsUnique'
  BY <1>1, <1>2, <1>4 DEF IdsUnique, FreeId, DnsInv
<1>8. Finish(a, "created") \/ Finish(a, "error")
  BY <1>1 DEF Answer
<1>9. DnsInv' /\ Busy /\ Busy'
  BY <1>1, <1>6, <1>7, <1>8, FinishStep DEF Result
<1>10. Z!Record = Record
  BY DEF Z!Record, Record
<1>11. Z!Add
  BY <1>1, <1>4, <1>5, <1>10 DEF Z!Add
<1> QED BY <1>9, <1>11

LEMMA UpdateStep ==
    ASSUME DnsInv, NEW a \in Applier, updateRecord(a)
    PROVE  DnsInv' /\ Busy /\ Busy' /\ Z!Rewrite
<1>1. /\ apply[a].at = "write" /\ Accepted(a) /\ Answer(a, "updated")
      /\ UNCHANGED << dkimKey, recordFile, edits >>
  BY DEF updateRecord
<1>2. PICK r \in zone :
          /\ r.slot = Place(a) /\ r.id \in apply[a].target
          /\ zone' = (zone \ {r}) \cup {[r EXCEPT !.text = Value(a)]}
  BY DEF updateRecord
<1>3. r \in Record /\ Value(a) \in Nat /\ Value(a) # 0 /\ r.text # 0 /\ Place(a) \in Sole
  BY <1>1, <1>2, ValueInNat DEF DnsInv, DnsTypeOK, Accepted, TargetsOK, TargetOK
<1> DEFINE new == [r EXCEPT !.text = Value(a)]
<1>4. /\ new \in Record /\ new.text = Value(a) /\ new.slot = r.slot /\ new.id = r.id
      /\ new = [r EXCEPT !.text = new.text]
  BY <1>3 DEF Record
<1>5. zone' = (zone \ {r}) \cup {new}
  BY <1>2
<1> HIDE DEF new
<1>6. zone' \subseteq Record /\ \A q \in zone' : q \in zone \/ q.text # 0
  BY <1>3, <1>4, <1>5 DEF DnsInv, DnsTypeOK
<1>7. IdsUnique'
  BY <1>2, <1>4, <1>5 DEF IdsUnique, DnsInv
<1>8. Finish(a, "updated") \/ Finish(a, "error")
  BY <1>1 DEF Answer
<1>9. DnsInv' /\ Busy /\ Busy'
  BY <1>1, <1>6, <1>7, <1>8, FinishStep DEF Result
<1>10. Z!Rewrite
  BY <1>2, <1>3, <1>4, <1>5 DEF Z!Rewrite
<1> QED BY <1>9, <1>10

LEMMA FailStep ==
    ASSUME DnsInv, NEW a \in Applier, WriteFails(a)
    PROVE  DnsInv' /\ Busy /\ Busy' /\ UNCHANGED zone
<1>1. /\ apply[a].at = "write" /\ Finish(a, "error")
      /\ UNCHANGED << zone, dkimKey, recordFile, edits >>
  BY DEF WriteFails
<1>2. zone' \subseteq Record /\ IdsUnique' /\ \A r \in zone' : r \in zone \/ r.text # 0
  BY <1>1 DEF DnsInv, DnsTypeOK, IdsUnique
<1> QED BY <1>1, <1>2, FinishStep DEF Result

LEMMA ReportStep ==
    ASSUME DnsInv, NEW a \in Applier, Report(a)
    PROVE  DnsInv' /\ UNCHANGED zone
<1>1. /\ apply' = [apply EXCEPT ![a] = Quiet] /\ UNCHANGED << zone, dkimKey, recordFile, edits >>
  BY DEF Report
<1>2. Quiet \in Applying /\ Quiet.at = "idle"
  BY DEF Quiet, Applying
<1>3. /\ apply' \in [Applier -> Applying] /\ apply'[a].at = "idle"
      /\ \A b \in Applier : b # a => apply'[b] = apply[b]
  BY <1>1, <1>2 DEF DnsInv, DnsTypeOK
<1>4. TargetOK(a)'
  BY <1>3 DEF TargetOK
<1>5. zone' \subseteq Record /\ IdsUnique' /\ \A r \in zone' : r \in zone \/ r.text # 0
  BY <1>1 DEF DnsInv, DnsTypeOK, IdsUnique
<1> QED BY <1>1, <1>3, <1>4, <1>5, RequestStep

\* Requests that differ only in what history says of them satisfy the same.
LEMMA SameRequests ==
    ASSUME DnsInv, apply' \in [Applier -> Applying],
           \A a \in Applier : /\ apply'[a].at = apply[a].at /\ apply'[a].n = apply[a].n
                              /\ apply'[a].target = apply[a].target,
           dkimKey' \in Nat, recordFile' \in BOOLEAN, UNCHANGED << zone, edits >>
    PROVE  DnsInv'
<1>1. DnsTypeOK' /\ IdsUnique'
  BY DEF DnsInv, DnsTypeOK, IdsUnique
<1>2. PlacesOK'
  BY DEF DnsInv, PlacesOK
<1>3. \A a \in Applier : Place(a)' = Place(a)
  BY DEF Place
<1>4. TargetsOK'
  BY <1>3 DEF DnsInv, TargetsOK, TargetOK
<1> QED BY <1>1, <1>2, <1>4 DEF DnsInv

LEMMA DisturbedFact ==
    ASSUME DnsInv
    PROVE  /\ Disturbed \in [Applier -> Applying]
           /\ \A a \in Applier : /\ Disturbed[a].at = apply[a].at /\ Disturbed[a].n = apply[a].n
                                 /\ Disturbed[a].target = apply[a].target
BY DEF Disturbed, DnsInv, DnsTypeOK, Applying

LEMMA RotateStep ==
    ASSUME DnsInv, RotateRemoves \/ RotateWrites
    PROVE  DnsInv' /\ UNCHANGED zone /\ Busy' = Busy
<1>0. dkimKey \in Nat
  BY DEF DnsInv, DnsTypeOK
<1>1. apply' = Disturbed /\ zone' = zone /\ edits' = edits /\ recordFile' \in BOOLEAN
      /\ dkimKey' \in Nat
  <2>1. CASE RotateRemoves
    BY <1>0, <2>1 DEF RotateRemoves
  <2>2. CASE RotateWrites
    BY <1>0, <2>2 DEF RotateWrites
  <2> QED BY <2>1, <2>2
<1>2. DnsInv'
  BY <1>1, DisturbedFact, SameRequests
<1>3. Busy' = Busy
  BY <1>1, DisturbedFact DEF Busy, Running
<1> QED BY <1>1, <1>2, <1>3

LEMMA StartStep ==
    ASSUME DnsInv, NEW a \in Applier, handleCloudflareApply(a)
    PROVE  DnsInv' /\ UNCHANGED zone
<1> DEFINE base == IF Busy THEN Disturbed ELSE apply
           q == [at |-> "list", n |-> 1, dkim |-> IF recordFile THEN KeyText(dkimKey) ELSE 0,
                 target |-> {}, results |-> << >>, alone |-> ~Busy]
<1>1. /\ apply' = [base EXCEPT ![a] = q]
      /\ UNCHANGED << zone, dkimKey, recordFile, edits >>
  BY DEF handleCloudflareApply
<1>2. /\ base \in [Applier -> Applying]
      /\ \A b \in Applier : /\ base[b].at = apply[b].at /\ base[b].n = apply[b].n
                            /\ base[b].target = apply[b].target
  BY DisturbedFact DEF DnsInv, DnsTypeOK
<1>3. q \in Applying /\ q.at = "list" /\ q.n = 1
  <2>1. KeyText(dkimKey) \in Nat
    BY DEF DnsInv, DnsTypeOK, KeyText
  <2>2. << >> \in Seq(Result) /\ {} \in SUBSET Id /\ (~Busy) \in BOOLEAN
    OBVIOUS
  <2> QED BY <2>1, <2>2 DEF Applying
<1> HIDE DEF base, q
<1>4. /\ apply' \in [Applier -> Applying] /\ apply'[a] = q
      /\ \A b \in Applier : b # a => apply'[b] = base[b]
  BY <1>1, <1>2, <1>3
<1>5. DnsTypeOK' /\ IdsUnique'
  BY <1>1, <1>4 DEF DnsInv, DnsTypeOK, IdsUnique
<1>6. PlacesOK'
  BY <1>2, <1>3, <1>4, PlanFact DEF DnsInv, PlacesOK
<1>7. ASSUME NEW b \in Applier PROVE TargetOK(b)'
  <2>1. CASE b = a
    BY <1>3, <1>4, <2>1 DEF TargetOK
  <2>2. CASE b # a
    <3>1. /\ apply'[b].at = apply[b].at /\ apply'[b].target = apply[b].target
          /\ Place(b)' = Place(b) /\ zone' = zone
      BY <1>1, <1>2, <1>4, <2>2 DEF Place
    <3>2. TargetOK(b)
      BY DEF DnsInv, TargetsOK
    <3> QED BY <3>1, <3>2 DEF TargetOK
  <2> QED BY <2>1, <2>2
<1> QED BY <1>1, <1>5, <1>6, <1>7 DEF DnsInv, TargetsOK

LEMMA EditStep ==
    ASSUME DnsInv, EditZone
    PROVE  DnsInv' /\ ~Busy /\ Busy' = Busy /\ Z!Edit
<1>1. ~Busy /\ UNCHANGED << apply, dkimKey, recordFile >> /\ edits' = edits + 1
  BY DEF EditZone
<1>2. zone' \subseteq Record /\ IdsUnique'
  <2>1. ASSUME NEW s \in Slot, NEW t \in {0, 1}, FreeId(s) # {},
               zone' = zone \cup {[slot |-> s, id |-> CHOOSE i \in FreeId(s) : TRUE,
                                   text |-> t, by |-> "operator"]}
        PROVE  zone' \subseteq Record /\ IdsUnique'
    <3> DEFINE i == CHOOSE j \in FreeId(s) : TRUE
               new == [slot |-> s, id |-> i, text |-> t, by |-> "operator"]
    <3>1. i \in FreeId(s)
      BY <2>1
    <3> HIDE DEF i
    <3>2. new \in Record /\ new.slot = s /\ new.id = i
      BY <3>1 DEF Record, FreeId
    <3>3. zone' = zone \cup {new}
      BY <2>1 DEF i
    <3> HIDE DEF new
    <3> QED BY <3>1, <3>2, <3>3 DEF IdsUnique, FreeId, DnsInv, DnsTypeOK
  <2>2. ASSUME NEW r \in zone, zone' = zone \ {r}
        PROVE  zone' \subseteq Record /\ IdsUnique'
    BY <2>2 DEF IdsUnique, DnsInv, DnsTypeOK
  <2> QED BY <2>1, <2>2 DEF EditZone
<1>3. DnsTypeOK' /\ PlacesOK' /\ Busy' = Busy
  BY <1>1, <1>2 DEF DnsInv, DnsTypeOK, PlacesOK, Busy, Running
<1>4. TargetsOK'
  BY <1>1 DEF TargetsOK, TargetOK, Busy, Running
<1>5. Z!Edit
  BY <1>2 DEF Z!Edit, Z!Record, Record
<1> QED BY <1>1, <1>2, <1>3, <1>4, <1>5 DEF DnsInv

-----------------------------------------------------------------------------
\* Every step keeps the invariant and is a step of the abstract zone, or leaves it.
LEMMA Refines ==
    ASSUME DnsInv, [DnsNext]_dnsvars
    PROVE  DnsInv' /\ [Z!ZoneNext]_(<< zone, Busy >>)
<1> USE DEF Z!ZoneNext
<1>1. ASSUME NEW a \in Applier, handleCloudflareApply(a) \/ Report(a)
      PROVE  DnsInv' /\ [Z!ZoneNext]_(<< zone, Busy >>)
  <2>1. DnsInv' /\ UNCHANGED zone
    BY <1>1, StartStep, ReportStep
  <2>2. Busy' = Busy \/ Busy' = ~Busy
    BY DEF Busy
  <2> QED BY <2>1, <2>2
<1>2. ASSUME NEW a \in Applier, ListRecords(a) \/ WriteFails(a)
      PROVE  DnsInv' /\ [Z!ZoneNext]_(<< zone, Busy >>)
  <2>1. DnsInv' /\ Busy /\ Busy' /\ UNCHANGED zone
    BY <1>2, ListStep, FailStep
  <2>2. UNCHANGED << zone, Busy >>
    BY <2>1
  <2> QED BY <2>1, <2>2
<1>3. ASSUME NEW a \in Applier, createRecord(a) \/ updateRecord(a)
      PROVE  DnsInv' /\ [Z!ZoneNext]_(<< zone, Busy >>)
  <2>1. DnsInv' /\ Busy /\ Busy' /\ (Z!Add \/ Z!Rewrite)
    BY <1>3, CreateStep, UpdateStep
  <2> QED BY <2>1
<1>4. CASE RotateRemoves \/ RotateWrites
  BY <1>4, RotateStep
<1>5. CASE EditZone
  BY <1>5, EditStep
<1>6. CASE UNCHANGED dnsvars
  BY <1>6 DEF dnsvars, DnsInv, DnsTypeOK, IdsUnique, PlacesOK, TargetsOK, TargetOK, Place,
              Busy, Running
<1> QED BY <1>1, <1>2, <1>3, <1>4, <1>5, <1>6 DEF DnsNext, Proceed

\* The requests that apply records implement the abstract zone of module Zone, for any
\* number of them, any plan, and whatever fails: ApplyMailRecords never touches a record
\* that is not of a kind it is for.
THEOREM ZoneRefined == DnsSpec => Conservative
<1>1. DnsInit => Z!ZoneInit
  BY DEF DnsInit, Z!ZoneInit, Busy, Running, Quiet
<1> QED BY <1>1, InitInv, Refines, PTL DEF DnsSpec, Conservative, Z!ZoneSpec, Z!zonevars

-----------------------------------------------------------------------------
(* Requests that nothing overlaps.                                          *)

\* A request that nothing overlapped is the only one that runs.
AloneOK ==
    \A a \in Applier : apply[a].alone =>
        Running(a) /\ \A b \in Applier : Running(b) => b = a

\* When it is about to create a record, there still is none of the kind.
FreshFor(a) ==
    apply[a].alone /\ apply[a].at = "write" /\ apply[a].target = {} /\ Place(a) \in Sole
    => \A r \in zone : ~(r.slot = Place(a) /\ r.text # 0)

FreshOK == \A a \in Applier : FreshFor(a)

ByOK == \A r \in zone : r.by = "apply" => r.text # 0

SoleInv == DnsInv /\ AloneOK /\ FreshOK /\ ByOK /\ OneOfOurs

\* A step of a running request that goes on, or ends, as alone as it was.
LEMMA SoleStep ==
    ASSUME SoleInv, NEW a \in Applier, Running(a),
           \A b \in Applier : b # a => apply'[b] = apply[b],
           apply'[a].alone => apply[a].alone /\ apply'[a].at # "idle",
           FreshFor(a)'
    PROVE  AloneOK' /\ FreshOK'
<1>1. AloneOK'
  BY DEF SoleInv, AloneOK, Running
<1>2. ASSUME NEW b \in Applier, b # a, apply'[b].alone PROVE FALSE
  BY <1>2 DEF SoleInv, AloneOK
<1>3. ASSUME NEW b \in Applier PROVE FreshFor(b)'
  <2>1. CASE b = a
    BY <2>1
  <2>2. CASE b # a
    BY <1>2, <2>2 DEF FreshFor
  <2> QED BY <2>1, <2>2
<1>4. FreshOK'
  BY <1>3 DEF FreshOK
<1> QED BY <1>1, <1>4

LEMMA FinishSole ==
    ASSUME SoleInv, NEW a \in Applier, NEW r \in Result, apply[a].at \in {"list", "write"},
           Finish(a, r)
    PROVE  AloneOK' /\ FreshOK'
<1>1. /\ \A b \in Applier : b # a => apply'[b] = apply[b]
      /\ apply'[a].at \in {"list", "done"} /\ apply'[a].alone = apply[a].alone
  BY FinishEffect DEF SoleInv
<1>2. Running(a)
  BY DEF Running
<1>3. FreshFor(a)'
  BY <1>1 DEF FreshFor
<1> QED BY <1>1, <1>2, <1>3, SoleStep

LEMMA ListSole ==
    ASSUME SoleInv, NEW a \in Applier, ListRecords(a)
    PROVE  AloneOK' /\ FreshOK'
<1>1. apply[a].at = "list" /\ UNCHANGED zone
  BY DEF ListRecords
<1>2. CASE \E r \in {"error", "unchanged", "skipped"} : Finish(a, r)
  BY <1>1, <1>2, FinishSole DEF Result
<1>3. ASSUME NEW t \in SUBSET Id, Write(a, t),
             t = {} /\ Place(a) \in Sole => OfKind(Place(a)) = {}
      PROVE  AloneOK' /\ FreshOK'
  <2>1. apply \in [Applier -> Applying]
    BY DEF SoleInv, DnsInv, DnsTypeOK
  <2>2. /\ \A b \in Applier : b # a => apply'[b] = apply[b]
        /\ apply'[a].at = "write" /\ apply'[a].target = t /\ apply'[a].n = apply[a].n
        /\ apply'[a].alone = apply[a].alone
    BY <1>3, <2>1 DEF Write, Applying
  <2>3. FreshFor(a)'
    BY <1>1, <1>3, <2>2 DEF FreshFor, Place, OfKind
  <2>4. Running(a)
    BY <1>1 DEF Running
  <2> QED BY <2>2, <2>3, <2>4, <1>1, SoleStep
<1>4. CASE Write(a, {}) /\ (Place(a) \in MxSlot \/ OfKind(Place(a)) = {})
  BY <1>3, <1>4 DEF Sole
<1>5. CASE \E r \in OfKind(Place(a)) : Write(a, {r.id})
  <2>1. PICK r \in OfKind(Place(a)) : Write(a, {r.id})
    BY <1>5
  <2>2. {r.id} \in SUBSET Id /\ {r.id} # {}
    BY DEF OfKind, SoleInv, DnsInv, DnsTypeOK, Record
  <2> QED BY <1>3, <2>1, <2>2
<1>6. \/ \E r \in {"error", "unchanged", "skipped"} : Finish(a, r)
      \/ Write(a, {}) /\ (Place(a) \in MxSlot \/ OfKind(Place(a)) = {})
      \/ \E r \in OfKind(Place(a)) : Write(a, {r.id})
  BY DEF ListRecords
<1> QED BY <1>2, <1>4, <1>5, <1>6

LEMMA CreateSole ==
    ASSUME SoleInv, NEW a \in Applier, createRecord(a)
    PROVE  AloneOK' /\ FreshOK' /\ ByOK' /\ OneOfOurs'
<1> DEFINE i == CHOOSE j \in FreeId(Place(a)) : TRUE
           by == IF apply[a].alone THEN "apply" ELSE "overlap"
           new == [slot |-> Place(a), id |-> i, text |-> Value(a), by |-> by]
<1>1. /\ apply[a].at = "write" /\ apply[a].target = {} /\ Value(a) # 0
      /\ zone' = zone \cup {new} /\ Answer(a, "created")
  BY DEF createRecord, Accepted
<1>2. new.slot = Place(a) /\ new.text # 0 /\ (new.by = "apply" => apply[a].alone)
  BY <1>1
<1> HIDE DEF new
<1>3. AloneOK' /\ FreshOK'
  BY <1>1, FinishSole DEF Answer, Result
<1>4. ByOK'
  BY <1>1, <1>2 DEF SoleInv, ByOK
<1>5. ASSUME NEW q \in zone, q.slot = new.slot, q.slot \in Sole, q.by = "apply", new.by = "apply"
      PROVE  FALSE
  <2>1. OfKind(Place(a)) = {} /\ q.text # 0
    BY <1>1, <1>2, <1>5 DEF SoleInv, FreshOK, FreshFor, ByOK, OfKind
  <2> QED BY <1>2, <1>5, <2>1 DEF OfKind
<1>6. OneOfOurs'
  BY <1>1, <1>5 DEF SoleInv, OneOfOurs
<1> QED BY <1>3, <1>4, <1>6

LEMMA UpdateSole ==
    ASSUME SoleInv, NEW a \in Applier, updateRecord(a)
    PROVE  AloneOK' /\ FreshOK' /\ ByOK' /\ OneOfOurs'
<1>1. apply[a].at = "write" /\ Value(a) # 0 /\ Answer(a, "updated")
  BY DEF updateRecord, Accepted
<1>2. PICK r \in zone : zone' = (zone \ {r}) \cup {[r EXCEPT !.text = Value(a)]}
  BY DEF updateRecord
<1> DEFINE new == [r EXCEPT !.text = Value(a)]
<1>3. new.slot = r.slot /\ new.by = r.by /\ new.text # 0 /\ zone' = (zone \ {r}) \cup {new}
  BY <1>1, <1>2 DEF SoleInv, DnsInv, DnsTypeOK, Record
<1> HIDE DEF new
<1>4. AloneOK' /\ FreshOK'
  BY <1>1, FinishSole DEF Answer, Result
<1> QED BY <1>3, <1>4 DEF SoleInv, ByOK, OneOfOurs

\* Nothing but the requests makes records that count as theirs.
LEMMA SoleNext ==
    ASSUME SoleInv, [DnsNext]_dnsvars
    PROVE  SoleInv'
<1>0. DnsInv'
  BY Refines DEF SoleInv
<1>1. ASSUME UNCHANGED zone, AloneOK', FreshOK' PROVE SoleInv'
  BY <1>0, <1>1 DEF SoleInv, ByOK, OneOfOurs
<1>2. ASSUME NEW a \in Applier, handleCloudflareApply(a) PROVE SoleInv'
  <2>1. UNCHANGED zone /\ ~Running(a)
    BY <1>2 DEF handleCloudflareApply
  <2>2. CASE Busy
    <3>1. \A b \in Applier : apply'[b].alone = FALSE
      BY <1>2, <2>2 DEF handleCloudflareApply, Disturbed, SoleInv, DnsInv, DnsTypeOK, Applying
    <3>2. AloneOK' /\ FreshOK'
      BY <3>1 DEF AloneOK, FreshOK, FreshFor
    <3> QED BY <1>1, <2>1, <3>2
  <2>3. CASE ~Busy
    <3>1. /\ apply'[a].at = "list"
          /\ \A b \in Applier : b # a => apply'[b] = apply[b] /\ ~Running(b)
      BY <1>2, <2>3 DEF handleCloudflareApply, Busy, SoleInv, DnsInv, DnsTypeOK
    <3>2. AloneOK' /\ FreshOK'
      BY <3>1 DEF SoleInv, AloneOK, FreshOK, FreshFor, Running
    <3> QED BY <1>1, <2>1, <3>2
  <2> QED BY <2>2, <2>3
<1>3. ASSUME NEW a \in Applier, Report(a) PROVE SoleInv'
  <2>1. /\ UNCHANGED zone /\ Running(a) /\ apply'[a].alone = FALSE /\ apply'[a].at = "idle"
        /\ \A b \in Applier : b # a => apply'[b] = apply[b]
    BY <1>3 DEF Report, Running, Quiet, SoleInv, DnsInv, DnsTypeOK
  <2>2. FreshFor(a)'
    BY <2>1 DEF FreshFor
  <2> QED BY <1>1, <2>1, <2>2, SoleStep
<1>4. ASSUME NEW a \in Applier, ListRecords(a) PROVE SoleInv'
  BY <1>1, <1>4, ListSole DEF ListRecords
<1>5. ASSUME NEW a \in Applier, WriteFails(a) PROVE SoleInv'
  BY <1>1, <1>5, FinishSole DEF WriteFails, Result
<1>6. ASSUME NEW a \in Applier, createRecord(a) \/ updateRecord(a) PROVE SoleInv'
  BY <1>0, <1>6, CreateSole, UpdateSole DEF SoleInv
<1>7. CASE RotateRemoves \/ RotateWrites
  <2>1. UNCHANGED zone /\ apply' = Disturbed
    BY <1>7 DEF RotateRemoves, RotateWrites
  <2>2. \A b \in Applier : apply'[b].alone = FALSE
    BY <2>1 DEF Disturbed, SoleInv, DnsInv, DnsTypeOK, Applying
  <2>3. AloneOK' /\ FreshOK'
    BY <2>2 DEF AloneOK, FreshOK, FreshFor
  <2> QED BY <1>1, <2>1, <2>3
<1>8. CASE EditZone
  <2>1. UNCHANGED apply /\ \A b \in Applier : ~Running(b) /\ ~apply[b].alone
    BY <1>8 DEF EditZone, Busy, SoleInv, AloneOK
  <2>2. AloneOK' /\ FreshOK'
    BY <2>1 DEF AloneOK, FreshOK, FreshFor
  <2>3. \A r \in zone' : r \in zone \/ r.by = "operator"
    BY <1>8 DEF EditZone
  <2> QED BY <1>0, <2>2, <2>3 DEF SoleInv, ByOK, OneOfOurs
<1>9. CASE UNCHANGED dnsvars
  <2>1. UNCHANGED << zone, apply >>
    BY <1>9 DEF dnsvars
  <2> QED BY <1>1, <2>1 DEF SoleInv, AloneOK, FreshOK, FreshFor, Running, Place
<1> QED BY <1>2, <1>3, <1>4, <1>5, <1>6, <1>7, <1>8, <1>9 DEF DnsNext, Proceed

\* Requests that nothing overlaps make at most one record of a kind, for any plan and however
\* many calls of the API fail or are done without an answer.
THEOREM OneOfOursAlways == DnsSpec => []OneOfOurs
<1>1. DnsInit => SoleInv
  BY InitInv DEF DnsInit, SoleInv, AloneOK, FreshOK, FreshFor, ByOK, OneOfOurs, Quiet
<1>2. SoleInv => OneOfOurs
  BY DEF SoleInv
<1> QED BY <1>1, <1>2, SoleNext, PTL DEF DnsSpec

-----------------------------------------------------------------------------
(* What a request reports.                                                  *)

Good == {"created", "updated", "unchanged"}

\* There is one result for each place that was done.
TallyOK(a) ==
    /\ apply[a].at \in {"list", "write"} => Len(apply[a].results) = apply[a].n - 1
    /\ apply[a].at = "done" => Len(apply[a].results) = Len(Plan)

\* The key that the request publishes is that of the latest record file, or none.
KeyOK(a) == apply[a].alone => apply[a].dkim \in {0, KeyText(dkimKey)}

\* The zone has what this server wants at place s now.
HasWanted(s) == \E r \in zone : r.slot = s /\ r.text = Wants(s, KeyText(dkimKey))

\* What was reported so far is true.
ToldOK(a) ==
    apply[a].alone =>
        \A n \in DOMAIN apply[a].results : apply[a].results[n] \in Good => HasWanted(Plan[n])

TruthInv == SoleInv /\ \A a \in Applier : TallyOK(a) /\ KeyOK(a) /\ ToldOK(a)

\* One result more.
LEMMA FinishTells ==
    ASSUME DnsInv, NEW a \in Applier, NEW r \in Result, apply[a].at \in {"list", "write"},
           Finish(a, r)
    PROVE  /\ apply'[a].results = Append(apply[a].results, r)
           /\ apply'[a].dkim = apply[a].dkim /\ apply'[a].n = apply[a].n + 1
           /\ apply'[a].at = IF apply[a].n = Len(Plan) THEN "done" ELSE "list"
  BY DEF Finish, DnsInv, DnsTypeOK

\* A value that can be written is the one this server wants now.
LEMMA ValueWanted ==
    ASSUME TruthInv, NEW a \in Applier, apply[a].alone, Value(a) # 0
    PROVE  Value(a) = Wants(Place(a), KeyText(dkimKey))
  BY DEF TruthInv, KeyOK, Value, Wants

\* The invariant holds after a step of request a, alone or not, that reports r: where r is
\* good the record is there, and those reported before still are.
LEMMA TellStep ==
    ASSUME TruthInv, NEW a \in Applier, NEW r \in Result, apply[a].at \in {"list", "write"},
           Finish(a, r), UNCHANGED dkimKey, SoleInv', NEW p \in Slot, p = Place(a),
           apply[a].alone => /\ r \in Good => HasWanted(p)'
                             /\ \A s \in Slot : HasWanted(s) => HasWanted(s)'
    PROVE  TruthInv'
<1>1. DnsInv /\ apply \in [Applier -> Applying] /\ apply[a] \in Applying
  BY DEF TruthInv, SoleInv, DnsInv, DnsTypeOK
<1>2. /\ \A b \in Applier : b # a => apply'[b] = apply[b]
      /\ apply'[a].alone = apply[a].alone
      /\ apply'[a].results = Append(apply[a].results, r)
      /\ apply'[a].dkim = apply[a].dkim /\ apply'[a].n = apply[a].n + 1
      /\ apply'[a].at = IF apply[a].n = Len(Plan) THEN "done" ELSE "list"
  BY <1>1, FinishEffect, FinishTells
<1>3. apply[a].n \in 1 .. Len(Plan) /\ Len(apply[a].results) = apply[a].n - 1
      /\ apply[a].results \in Seq(Result)
  BY <1>1 DEF DnsInv, PlacesOK, TruthInv, TallyOK, Applying
<1>4. TallyOK(a)' /\ KeyOK(a)'
  BY <1>2, <1>3, PlanFact DEF TallyOK, TruthInv, KeyOK, KeyText
<1>5. ToldOK(a)'
  <2> SUFFICES ASSUME apply[a].alone, NEW n \in DOMAIN apply'[a].results,
                      apply'[a].results[n] \in Good
               PROVE  HasWanted(Plan[n])'
    BY <1>2 DEF ToldOK, HasWanted, KeyText
  <2>1. n \in 1 .. apply[a].n
    BY <1>2, <1>3
  <2>2. CASE n = apply[a].n
    <3>1. r \in Good
      BY <1>2, <1>3, <2>2
    <3> QED BY <2>2, <3>1 DEF Place
  <2>3. CASE n # apply[a].n
    <3>1. n \in DOMAIN apply[a].results /\ apply'[a].results[n] = apply[a].results[n]
      BY <1>2, <1>3, <2>1, <2>3
    <3>2. HasWanted(Plan[n]) /\ Plan[n] \in Slot
      BY <1>3, <2>1, <3>1, PlanFact DEF TruthInv, ToldOK
    <3> QED BY <3>2
  <2> QED BY <2>2, <2>3
<1>6. ASSUME NEW b \in Applier, b # a PROVE TallyOK(b)' /\ KeyOK(b)' /\ ToldOK(b)'
  <2>1. Running(a) /\ (apply[a].alone \/ ~apply[b].alone)
    BY <1>6 DEF Running, TruthInv, SoleInv, AloneOK
  <2>2. ~apply[b].alone
    BY <1>6, <2>1 DEF TruthInv, SoleInv, AloneOK
  <2> QED BY <1>2, <1>6, <2>2 DEF TallyOK, KeyOK, ToldOK, TruthInv
<1> QED BY <1>4, <1>5, <1>6 DEF TruthInv

\* The invariant holds after a step of request a that reports nothing and leaves the zone.
LEMMA TellNothing ==
    ASSUME TruthInv, NEW a \in Applier, SoleInv', UNCHANGED << zone, dkimKey >>,
           \A b \in Applier : b # a => apply'[b] = apply[b],
           TallyOK(a)', KeyOK(a)', ToldOK(a)'
    PROVE  TruthInv'
<1>1. \A s : HasWanted(s)' <=> HasWanted(s)
  BY DEF HasWanted
<1>2. ASSUME NEW b \in Applier, b # a PROVE TallyOK(b)' /\ KeyOK(b)' /\ ToldOK(b)'
  BY <1>1, <1>2 DEF TallyOK, KeyOK, ToldOK, TruthInv
<1> QED BY <1>2 DEF TruthInv

\* The invariant holds after a step that leaves no request alone.
LEMMA TellDisturbed ==
    ASSUME TruthInv, SoleInv',
           \A b \in Applier : ~apply'[b].alone /\ (TallyOK(b) => TallyOK(b)')
    PROVE  TruthInv'
  BY DEF TruthInv, KeyOK, ToldOK

\* What createRecord and updateRecord leave in the zone.
LEMMA WrittenWanted ==
    ASSUME TruthInv, NEW a \in Applier, apply[a].alone, createRecord(a) \/ updateRecord(a),
           NEW p, p = Place(a)
    PROVE  HasWanted(p)' /\ \A s \in Slot : HasWanted(s) => HasWanted(s)'
<1>0. UNCHANGED dkimKey /\ Accepted(a)
  BY DEF createRecord, updateRecord
<1>1. PICK v : v = Value(a) /\ v = Wants(p, KeyText(dkimKey))
  BY <1>0, ValueWanted DEF Accepted
<1>2. CASE createRecord(a)
  <2> DEFINE new == [slot |-> Place(a), id |-> CHOOSE i \in FreeId(Place(a)) : TRUE,
                     text |-> Value(a), by |-> IF apply[a].alone THEN "apply" ELSE "overlap"]
  <2>1. zone' = zone \cup {new} /\ new.slot = p /\ new.text = v
    BY <1>1, <1>2 DEF createRecord
  <2> HIDE DEF new
  <2> QED BY <1>0, <1>1, <2>1 DEF HasWanted, KeyText
<1>3. CASE updateRecord(a)
  <2>1. PICK r \in zone : /\ r.slot = p
                          /\ zone' = (zone \ {r}) \cup {[r EXCEPT !.text = v]}
    BY <1>1, <1>3 DEF updateRecord
  <2> DEFINE new == [r EXCEPT !.text = v]
  <2>2. new.slot = p /\ new.text = v /\ zone' = (zone \ {r}) \cup {new}
    BY <2>1 DEF TruthInv, SoleInv, DnsInv, DnsTypeOK, Record
  <2> HIDE DEF new
  <2> QED BY <1>0, <1>1, <2>1, <2>2 DEF HasWanted, KeyText
<1> QED BY <1>2, <1>3

\* Every step keeps what was reported true.
LEMMA TruthNext ==
    ASSUME TruthInv, [DnsNext]_dnsvars
    PROVE  TruthInv'
<1>0. SoleInv' /\ SoleInv /\ DnsInv /\ apply \in [Applier -> Applying]
  BY SoleNext DEF TruthInv, SoleInv, DnsInv, DnsTypeOK
<1>1. ASSUME NEW a \in Applier, handleCloudflareApply(a) PROVE TruthInv'
  <2>1. ~Running(a) /\ UNCHANGED << zone, dkimKey >>
    BY <1>1 DEF handleCloudflareApply
  <2>2. CASE Busy
    <3>1. \A b \in Applier : apply'[b].alone = FALSE
      <4>1. ASSUME NEW b \in Applier, b # a PROVE apply'[b].alone = FALSE
        <5>1. apply'[b] = [apply[b] EXCEPT !.alone = FALSE] /\ apply[b] \in Applying
          BY <1>0, <1>1, <2>2, <4>1 DEF handleCloudflareApply, Disturbed
        <5> QED BY <5>1 DEF Applying
      <4>2. apply'[a].alone = FALSE
        BY <1>0, <1>1, <2>2 DEF handleCloudflareApply, Disturbed
      <4> QED BY <4>1, <4>2
    <3>2. ASSUME NEW b \in Applier PROVE TallyOK(b) => TallyOK(b)'
      <4>1. CASE b = a
        <5>1. apply'[a].at = "list" /\ apply'[a].n = 1 /\ apply'[a].results = << >>
          BY <1>0, <1>1, <2>2 DEF handleCloudflareApply, Disturbed
        <5> QED BY <4>1, <5>1 DEF TallyOK
      <4>2. CASE b # a
        <5>1. apply'[b] = [apply[b] EXCEPT !.alone = FALSE] /\ apply[b] \in Applying
          BY <1>0, <1>1, <2>2, <4>2 DEF handleCloudflareApply, Disturbed
        <5>2. /\ apply'[b].at = apply[b].at /\ apply'[b].n = apply[b].n
              /\ apply'[b].results = apply[b].results
          BY <5>1 DEF Applying
        <5> QED BY <5>2 DEF TallyOK
      <4> QED BY <4>1, <4>2
    <3> QED BY <1>0, <3>1, <3>2, TellDisturbed
  <2>3. CASE ~Busy
    <3>1. /\ apply'[a].at = "list" /\ apply'[a].n = 1 /\ apply'[a].results = << >>
          /\ apply'[a].dkim \in {0, KeyText(dkimKey)}
          /\ \A b \in Applier : b # a => apply'[b] = apply[b]
      BY <1>0, <1>1, <2>3 DEF handleCloudflareApply
    <3>2. TallyOK(a)' /\ KeyOK(a)' /\ ToldOK(a)'
      BY <2>1, <3>1 DEF TallyOK, KeyOK, ToldOK, KeyText
    <3> QED BY <1>0, <2>1, <3>1, <3>2, TellNothing
  <2> QED BY <2>2, <2>3
<1>2. ASSUME NEW a \in Applier, ListRecords(a) PROVE TruthInv'
  <2>1. apply[a].at = "list" /\ UNCHANGED << zone, dkimKey >>
    BY <1>2 DEF ListRecords
  <2>2. \A s : HasWanted(s)' <=> HasWanted(s)
    BY <2>1 DEF HasWanted, KeyText
  <2>p. PICK p \in Slot : p = Place(a)
    BY <1>0, <2>1, PlaceInSlot DEF DnsInv
  <2>3. ASSUME NEW r \in {"error", "skipped"}, Finish(a, r) PROVE TruthInv'
    <3>1. r \in Result /\ r \notin Good
      BY DEF Result, Good
    <3> QED BY <1>0, <2>1, <2>2, <2>p, <2>3, <3>1, TellStep
  <2>4. CASE Finish(a, "unchanged") /\ \E r \in OfKind(Place(a)) : r.text = Value(a)
    <3>1. apply[a].alone => HasWanted(p)
      BY <2>p, <2>4, ValueWanted DEF OfKind, HasWanted
    <3>2. "unchanged" \in Result
      BY DEF Result
    <3> QED BY <1>0, <2>1, <2>2, <2>p, <2>4, <3>1, <3>2, TellStep
  <2>5. ASSUME NEW t, Write(a, t) PROVE TruthInv'
    <3>1. /\ apply'[a].at = "write" /\ apply'[a].n = apply[a].n
          /\ apply'[a].results = apply[a].results /\ apply'[a].alone = apply[a].alone
          /\ apply'[a].dkim = apply[a].dkim
          /\ \A b \in Applier : b # a => apply'[b] = apply[b]
      BY <1>0, <2>5 DEF Write, Applying
    <3>2. TallyOK(a)' /\ KeyOK(a)' /\ ToldOK(a)'
      BY <2>1, <2>2, <3>1 DEF TruthInv, TallyOK, KeyOK, ToldOK, KeyText
    <3> QED BY <1>0, <2>1, <3>1, <3>2, TellNothing
  <2> QED BY <1>2, <2>3, <2>4, <2>5 DEF ListRecords
<1>3. ASSUME NEW a \in Applier, createRecord(a) \/ updateRecord(a) PROVE TruthInv'
  <2>1. apply[a].at = "write" /\ UNCHANGED dkimKey
    BY <1>3 DEF createRecord, updateRecord
  <2>2. \E r \in {"created", "updated", "error"} : Finish(a, r)
    BY <1>3 DEF createRecord, updateRecord, Answer
  <2>p. PICK p \in Slot : p = Place(a)
    BY <1>0, <2>1, PlaceInSlot DEF DnsInv
  <2>3. apply[a].alone => HasWanted(p)' /\ \A s \in Slot : HasWanted(s) => HasWanted(s)'
    BY <1>3, <2>p, WrittenWanted
  <2>4. {"created", "updated", "error"} \subseteq Result
    BY DEF Result
  <2> QED BY <1>0, <2>1, <2>2, <2>p, <2>3, <2>4, TellStep
<1>4. ASSUME NEW a \in Applier, WriteFails(a) PROVE TruthInv'
  <2>1. apply[a].at = "write" /\ Finish(a, "error") /\ UNCHANGED << zone, dkimKey >>
    BY <1>4 DEF WriteFails
  <2>2. \A s : HasWanted(s)' <=> HasWanted(s)
    BY <2>1 DEF HasWanted, KeyText
  <2>p. PICK p \in Slot : p = Place(a)
    BY <1>0, <2>1, PlaceInSlot DEF DnsInv
  <2>3. "error" \in Result /\ "error" \notin Good
    BY DEF Result, Good
  <2> QED BY <1>0, <2>1, <2>2, <2>p, <2>3, TellStep
<1>5. ASSUME NEW a \in Applier, Report(a) PROVE TruthInv'
  <2>1. /\ UNCHANGED << zone, dkimKey >> /\ apply'[a].at = "idle" /\ apply'[a].alone = FALSE
        /\ \A b \in Applier : b # a => apply'[b] = apply[b]
    BY <1>0, <1>5 DEF Report, Quiet
  <2>2. TallyOK(a)' /\ KeyOK(a)' /\ ToldOK(a)'
    BY <2>1 DEF TallyOK, KeyOK, ToldOK
  <2> QED BY <1>0, <2>1, <2>2, TellNothing
<1>6. CASE RotateRemoves \/ RotateWrites
  <2>1. apply' = Disturbed
    BY <1>6 DEF RotateRemoves, RotateWrites
  <2>2. ASSUME NEW b \in Applier PROVE ~apply'[b].alone /\ (TallyOK(b) => TallyOK(b)')
    <3>1. apply'[b] = [apply[b] EXCEPT !.alone = FALSE] /\ apply[b] \in Applying
      BY <1>0, <2>1 DEF Disturbed
    <3>2. /\ apply'[b].at = apply[b].at /\ apply'[b].n = apply[b].n
          /\ apply'[b].results = apply[b].results /\ apply'[b].alone = FALSE
      BY <3>1 DEF Applying
    <3> QED BY <3>2 DEF TallyOK
  <2> QED BY <1>0, <2>2, TellDisturbed
<1>7. CASE EditZone
  <2>1. UNCHANGED << apply, dkimKey >> /\ \A b \in Applier : ~apply[b].alone
    BY <1>0, <1>7 DEF EditZone, Busy, SoleInv, AloneOK
  <2>2. \A b \in Applier : ~apply'[b].alone /\ (TallyOK(b) => TallyOK(b)')
    BY <2>1 DEF TallyOK
  <2> QED BY <1>0, <2>2, TellDisturbed
<1>8. CASE UNCHANGED dnsvars
  <2>1. UNCHANGED << zone, apply, dkimKey >>
    BY <1>8 DEF dnsvars
  <2>2. \A s : HasWanted(s)' <=> HasWanted(s)
    BY <2>1 DEF HasWanted
  <2> QED BY <1>0, <2>1, <2>2 DEF TruthInv, TallyOK, KeyOK, ToldOK, KeyText
<1> QED BY <1>1, <1>2, <1>3, <1>4, <1>5, <1>6, <1>7, <1>8 DEF DnsNext, Proceed

\* Nothing has been reported yet.
LEMMA TruthInit == DnsInit => TruthInv
<1> SUFFICES ASSUME DnsInit PROVE TruthInv
  OBVIOUS
<1>1. SoleInv
  BY InitInv DEF DnsInit, SoleInv, AloneOK, FreshOK, FreshFor, ByOK, OneOfOurs, Quiet
<1>2. \A a \in Applier : apply[a].at = "idle" /\ apply[a].alone = FALSE
  BY DEF DnsInit, Quiet
<1> QED BY <1>1, <1>2 DEF TruthInv, TallyOK, KeyOK, ToldOK

\* What a request that nothing overlapped reports is true of the zone, for any plan and
\* whatever calls fail: what it calls created, updated or unchanged is there, with the DKIM
\* key of the latest record file.
THEOREM ReportsTrue == DnsSpec => []ReportTruthful
<1>1. TruthInv => ReportTruthful
  <2> SUFFICES ASSUME TruthInv, NEW a \in Applier, apply[a].at = "done", apply[a].alone
               PROVE  /\ Len(apply[a].results) = Len(Plan)
                      /\ \A n \in 1 .. Len(Plan) :
                            apply[a].results[n] \in {"created", "updated", "unchanged"} =>
                                HasWanted(Plan[n])
    BY DEF ReportTruthful, HasWanted
  <2>1. apply[a].results \in Seq(Result)
    BY DEF TruthInv, SoleInv, DnsInv, DnsTypeOK, Applying
  <2> QED BY <2>1 DEF TruthInv, TallyOK, ToldOK, Good
<1> QED BY <1>1, TruthInit, TruthNext, PTL DEF DnsSpec

-----------------------------------------------------------------------------
(* A request comes to its end.                                              *)

\* The steps that request a can still take: two for each place that is not done, and the
\* showing of the results.
StepsLeft(a) ==
    CASE apply[a].at = "list"  -> 2 * (Len(Plan) + 1 - apply[a].n) + 1
      [] apply[a].at = "write" -> 2 * (Len(Plan) + 1 - apply[a].n)
      [] apply[a].at = "done"  -> 1
      [] OTHER                 -> 0

\* They are bounded by the plan, and there are some left as long as the request runs.
FewStepsLeft ==
    \A a \in Applier :
        StepsLeft(a) \in 0 .. 2 * Len(Plan) + 1 /\ (StepsLeft(a) = 0 <=> ~Running(a))

\* A request's step leaves it with fewer, and no step of another's gives it more.
StepsRunOut ==
    \A a \in Applier : Running(a) =>
        StepsLeft(a)' <= StepsLeft(a) /\ (Proceed(a) => StepsLeft(a)' < StepsLeft(a))

\* The arithmetic of the count, at place n of a plan of l places.
LEMMA PlanCount ==
    ASSUME NEW l \in Nat, NEW n \in 1 .. l
    PROVE  /\ 2 * (l + 1 - n) \in 1 .. 2 * l + 1 /\ 2 * (l + 1 - n) + 1 \in 1 .. 2 * l + 1
           /\ 1 < 2 * (l + 1 - n) /\ 2 * (l + 1 - (n + 1)) + 1 < 2 * (l + 1 - n)
  OBVIOUS

LEMMA StepsCounted ==
    ASSUME DnsInv, NEW a \in Applier
    PROVE  StepsLeft(a) \in 0 .. 2 * Len(Plan) + 1 /\ (StepsLeft(a) = 0 <=> ~Running(a))
<1>1. apply[a].at \in {"idle", "list", "write", "done"}
  BY DEF DnsInv, DnsTypeOK, Applying
<1>2. Len(Plan) \in Nat
  BY PlanFact
<1>3. apply[a].at \in {"list", "write"} => apply[a].n \in 1 .. Len(Plan)
  BY DEF DnsInv, PlacesOK
<1>4. CASE apply[a].at \in {"list", "write"}
  <2>1. PICK n \in 1 .. Len(Plan) : n = apply[a].n
    BY <1>3, <1>4
  <2>2. StepsLeft(a) \in {2 * (Len(Plan) + 1 - n), 2 * (Len(Plan) + 1 - n) + 1}
    BY <1>4, <2>1 DEF StepsLeft
  <2>3. StepsLeft(a) \in 1 .. 2 * Len(Plan) + 1
    BY <1>2, <2>1, <2>2, PlanCount
  <2> QED BY <1>2, <1>4, <2>3 DEF Running
<1>5. CASE apply[a].at \in {"idle", "done"}
  BY <1>2, <1>5 DEF StepsLeft, Running
<1> QED BY <1>1, <1>4, <1>5

\* Whatever became of the place, the next one or the results are nearer to the end.
LEMMA FinishNearer ==
    ASSUME DnsInv, NEW a \in Applier, NEW r \in Result, apply[a].at \in {"list", "write"},
           Finish(a, r)
    PROVE  StepsLeft(a)' < StepsLeft(a)
<1>1. /\ apply'[a].at \in {"list", "done"} /\ apply'[a].n = apply[a].n + 1
      /\ apply'[a].at = "list" => apply'[a].n \in 1 .. Len(Plan)
  BY FinishEffect
<1>2. apply[a].n \in 1 .. Len(Plan) /\ Len(Plan) \in Nat
  BY PlanFact DEF DnsInv, PlacesOK
<1>l. PICK l \in Nat : l = Len(Plan)
  BY <1>2
<1>3. PICK n \in 1 .. l : l = Len(Plan) /\ n = apply[a].n
  BY <1>2, <1>l
<1>4. StepsLeft(a)' \in {2 * (l + 1 - (n + 1)) + 1, 1}
  BY <1>1, <1>3 DEF StepsLeft
<1>5. StepsLeft(a) \in {2 * (l + 1 - n), 2 * (l + 1 - n) + 1}
  BY <1>3 DEF StepsLeft
<1> QED BY <1>4, <1>5, PlanCount

LEMMA ProceedNearer ==
    ASSUME DnsInv, NEW a \in Applier, Proceed(a)
    PROVE  StepsLeft(a)' < StepsLeft(a)
<1>1. apply \in [Applier -> Applying] /\ apply[a] \in Applying
  BY DEF DnsInv, DnsTypeOK
<1>2. CASE apply[a].at \in {"list", "write"} /\ \E r \in Result : Finish(a, r)
  BY <1>2, FinishNearer
<1>3. CASE \E t : apply[a].at = "list" /\ Write(a, t)
  <2>1. PICK t : apply[a].at = "list" /\ Write(a, t)
    BY <1>3
  <2>2. apply'[a].at = "write" /\ apply'[a].n = apply[a].n
    BY <1>1, <2>1 DEF Write, Applying
  <2>3. apply[a].n \in 1 .. Len(Plan) /\ Len(Plan) \in Nat
    BY <2>1, PlanFact DEF DnsInv, PlacesOK
  <2> QED BY <2>1, <2>2, <2>3 DEF StepsLeft
<1>4. CASE Report(a)
  <2>1. apply[a].at = "done" /\ apply'[a].at = "idle"
    BY <1>1, <1>4 DEF Report, Quiet
  <2> QED BY <2>1 DEF StepsLeft
<1>5. ListRecords(a) => \/ apply[a].at \in {"list", "write"} /\ \E r \in Result : Finish(a, r)
                       \/ \E t : apply[a].at = "list" /\ Write(a, t)
  BY DEF ListRecords, Result
<1>6. createRecord(a) \/ updateRecord(a) \/ WriteFails(a)
      => apply[a].at \in {"list", "write"} /\ \E r \in Result : Finish(a, r)
  BY DEF createRecord, updateRecord, WriteFails, Answer, Result
<1> QED BY <1>2, <1>3, <1>4, <1>5, <1>6 DEF Proceed

\* What else happens moves no request that runs.
LEMMA OthersMoveNothing ==
    ASSUME DnsInv, DnsInv', [DnsNext]_dnsvars, NEW a \in Applier, Running(a), ~Proceed(a)
    PROVE  StepsLeft(a)' = StepsLeft(a)
<1>1. apply \in [Applier -> Applying]
  BY DEF DnsInv, DnsTypeOK
<1> SUFFICES apply'[a].at = apply[a].at /\ apply'[a].n = apply[a].n
  BY DEF StepsLeft
<1>2. Disturbed[a].at = apply[a].at /\ Disturbed[a].n = apply[a].n
  BY <1>1 DEF Disturbed, Applying
<1>3. ASSUME NEW b \in Applier, handleCloudflareApply(b)
      PROVE  apply'[a].at = apply[a].at /\ apply'[a].n = apply[a].n
  <2>1. a # b
    BY <1>3 DEF handleCloudflareApply
  <2>2. Disturbed \in [Applier -> Applying]
    BY <1>1, DisturbedFact
  <2>3. apply'[a] \in {apply[a], Disturbed[a]}
    BY <1>1, <1>3, <2>1, <2>2 DEF handleCloudflareApply
  <2> QED BY <1>2, <2>3
<1>4. ASSUME NEW b \in Applier, Proceed(b)
      PROVE  apply'[a] = apply[a]
  <2>1. a # b
    BY <1>4
  <2>2. CASE apply[b].at \in {"list", "write"} /\ \E r \in Result : Finish(b, r)
    BY <2>1, <2>2, FinishEffect
  <2>3. CASE (\E t : Write(b, t)) \/ Report(b)
    BY <1>1, <2>1, <2>3 DEF Write, Report
  <2>4. ListRecords(b) => \/ apply[b].at \in {"list", "write"} /\ \E r \in Result : Finish(b, r)
                         \/ \E t : Write(b, t)
    BY DEF ListRecords, Result
  <2>5. createRecord(b) \/ updateRecord(b) \/ WriteFails(b)
        => apply[b].at \in {"list", "write"} /\ \E r \in Result : Finish(b, r)
    BY DEF createRecord, updateRecord, WriteFails, Answer, Result
  <2> QED BY <1>4, <2>2, <2>3, <2>4, <2>5 DEF Proceed
<1>5. CASE RotateRemoves \/ RotateWrites
  BY <1>2, <1>5 DEF RotateRemoves, RotateWrites
<1>6. CASE EditZone \/ UNCHANGED dnsvars
  BY <1>6 DEF EditZone, dnsvars
<1> QED BY <1>3, <1>4, <1>5, <1>6 DEF DnsNext

\* A request takes at most two steps for each place and one more, whatever fails and whoever
\* else applies, rotates or edits meanwhile: nothing in it waits or is tried again.  ApplyEnds follows
\* with the fairness of its next step.
THEOREM ApplyRunsOut == DnsSpec => []FewStepsLeft /\ [][StepsRunOut]_dnsvars
<1>1. DnsInv => FewStepsLeft
  BY StepsCounted DEF FewStepsLeft
<1>2. DnsInv' => FewStepsLeft'
  BY <1>1, PTL
<1>3. ASSUME DnsInv, DnsInv', [DnsNext]_dnsvars PROVE StepsRunOut
  <2> SUFFICES ASSUME NEW a \in Applier, Running(a)
               PROVE  StepsLeft(a)' <= StepsLeft(a) /\ (Proceed(a) => StepsLeft(a)' < StepsLeft(a))
    BY DEF StepsRunOut
  <2>1. StepsLeft(a) \in Nat /\ StepsLeft(a)' \in Nat
    <3>1. StepsLeft(a) \in Nat
      BY <1>3, StepsCounted, PlanFact
    <3>2. StepsLeft(a)' \in 0 .. 2 * Len(Plan) + 1
      BY <1>3, <1>2 DEF FewStepsLeft
    <3> QED BY <3>1, <3>2, PlanFact
  <2>2. Proceed(a) => StepsLeft(a)' < StepsLeft(a)
    BY <1>3, ProceedNearer
  <2>3. ~Proceed(a) => StepsLeft(a)' = StepsLeft(a)
    BY <1>3, OthersMoveNothing
  <2> QED BY <2>1, <2>2, <2>3
<1>4. DnsInv /\ [DnsNext]_dnsvars => DnsInv'
  BY Refines
<1> QED BY <1>1, <1>3, <1>4, InitInv, PTL DEF DnsSpec
=============================================================================
