--------------------------------- MODULE Dns ---------------------------------
(***************************************************************************)
(* Publishing a domain's mail records through the Cloudflare API:           *)
(* ApplyMailRecords with its three upsert functions and the API client      *)
(* (cli/internal/cloudflare), and the two pages of the web UI that call it. *)
(*                                                                          *)
(* Each call of the API is one step, and any of them may fail: the answer   *)
(* is an error, 15 seconds pass, or the 20 seconds of the whole request do. *)
(* A write whose answer is lost may have been done.  Nothing keeps two      *)
(* requests apart, or a request and a rotation of the DKIM key.             *)
(*                                                                          *)
(* The text of a record is a number: 0 is a TXT record of another kind at   *)
(* the same name, 1 a record of the right kind that the operator made, 2    *)
(* what this server wants there, and for DKIM 2 + n what it wants for its   *)
(* n-th key.                                                                *)
(***************************************************************************)
EXTENDS Naturals, Sequences

CONSTANTS
    Applier,  \* requests that apply records
    Plan,     \* the places, in the order they are written
    Id,       \* ids of the records at one place
    MaxEdits, \* bound on what the operator changes in the zone
    MaxKey,   \* bound on rotations of the DKIM key
    Lossy     \* whether a call of the API may fail

HostSlot == {"A", "STSA"}                        \* upsertSingleHost
MxSlot   == {"MX"}                               \* upsertMX
TxtSlot  == {"SPF", "DMARC", "DKIM", "STSTXT"}   \* upsertTXTByPrefix

Slot == HostSlot \cup MxSlot \cup TxtSlot
Sole == Slot \ MxSlot

ASSUME PlanAssumption == Plan \in Seq(Slot) /\ Plan # << >>
ASSUME DnsBoundAssumption == MaxEdits \in Nat /\ MaxKey \in Nat /\ Lossy \in BOOLEAN

VARIABLES
    zone,       \* the records Cloudflare has
    apply,      \* what each request is doing
    dkimKey,    \* the number of the domain's latest DKIM record
    recordFile, \* whether the record file of the domain is there
    edits       \* changes the operator has made

dnsvars == << zone, apply, dkimKey, recordFile, edits >>

Record == [slot : Slot, id : Id, text : Nat, by : {"operator", "apply", "overlap"}]

\* n counts the places; dkim is dkimValue (0 when the record file could not be read); target
\* holds rec.ID, or nothing to create; alone: nothing overlapped this request so far (history).
Quiet    == [at |-> "idle", n |-> 1, dkim |-> 0, target |-> {}, results |-> << >>,
             alone |-> FALSE]
Result   == {"created", "updated", "unchanged", "skipped", "error"}
Applying == [at : {"idle", "list", "write", "done"}, n : Nat, dkim : Nat, target : SUBSET Id,
             results : Seq(Result), alone : BOOLEAN]

DnsTypeOK ==
    /\ zone \subseteq Record
    /\ apply \in [Applier -> Applying]
    /\ dkimKey \in Nat /\ recordFile \in BOOLEAN /\ edits \in Nat

DnsInit ==
    /\ zone = {}
    /\ apply = [a \in Applier |-> Quiet]
    /\ dkimKey = 0 /\ recordFile = TRUE /\ edits = 0

Running(a) == apply[a].at # "idle"
Busy       == \E a \in Applier : Running(a)

KeyText(k)   == 2 + k
Wants(s, k)  == IF s = "DKIM" THEN k ELSE 2
Place(a)     == Plan[apply[a].n]
Value(a)     == Wants(Place(a), apply[a].dkim)
Disturbed    == [a \in Applier |-> [apply[a] EXCEPT !.alone = FALSE]]

-----------------------------------------------------------------------------
(* The request.                                                             *)

\* Mutant: an error is tried again.
FinishRetries(a, r) ==
    apply' = [apply EXCEPT
        ![a].results = IF r = "error" THEN @ ELSE Append(@, r),
        ![a].n = IF r = "error" THEN @ ELSE @ + 1,
        ![a].target = {},
        ![a].at = IF apply[a].n = Len(Plan) /\ r # "error" THEN "done" ELSE "list"]

\* Mutant: the Action of the result is left out.
FinishNoAction(a, r) ==
    apply' = [apply EXCEPT
        ![a].results = Append(@, ""),
        ![a].n = @ + 1,
        ![a].target = {},
        ![a].at = IF apply[a].n = Len(Plan) THEN "done" ELSE "list"]

\* One place is done, with an ApplyResult; an error does not stop the others.
Finish(a, r) ==
    apply' = [apply EXCEPT ![a] =
        [at |-> IF apply[a].n = Len(Plan) THEN "done" ELSE "list", n |-> apply[a].n + 1,
         dkim |-> apply[a].dkim, target |-> {}, results |-> Append(apply[a].results, r),
         alone |-> apply[a].alone]]

\* handleDKIMCloudflareApply and handleDomainsCloudflareApply: the token and the zone are
\* found, and the record file is read (a failure to read it is ignored).
handleCloudflareApply(a) ==
    /\ ~Running(a)
    /\ apply' = [(IF Busy THEN Disturbed ELSE apply) EXCEPT
          ![a] = [at |-> "list", n |-> 1, dkim |-> IF recordFile THEN KeyText(dkimKey) ELSE 0,
                  target |-> {}, results |-> << >>, alone |-> ~Busy]]
    /\ UNCHANGED << zone, dkimKey, recordFile, edits >>

\* Mutant: any TXT record at the name counts.
OfKindAny(s) == {r \in zone : r.slot = s}

\* The records an upsert looks at: those at the place, and of TXT records only those with the
\* prefix.
OfKind(s) == {r \in zone : r.slot = s /\ r.text # 0}

Write(a, target) == apply' = [apply EXCEPT ![a].at = "write", ![a].target = target]

\* Mutant: a list that could not be read counts as empty.
ListRecordsOrNone(a) ==
    /\ apply[a].at = "list"
    /\ \/ Lossy /\ Write(a, {})
       \/ \E r \in OfKind(Place(a)) : r.text = Value(a) /\ Finish(a, "unchanged")
       \/ OfKind(Place(a)) = {} /\ Write(a, {})
    /\ UNCHANGED << zone, dkimKey, recordFile, edits >>

\* listRecords, and what the three upsert functions make of it: a record that has the value
\* is left alone, the only one of its kind is updated (an MX record never), several are
\* skipped.
ListRecords(a) ==
    LET s == Place(a)
        found == OfKind(s)
        match == \E r \in found : r.text = Value(a)
    IN  /\ apply[a].at = "list"
        /\ \/ Lossy /\ Finish(a, "error")
           \/ match /\ Finish(a, "unchanged")
           \/ ~match /\ (s \in MxSlot \/ found = {}) /\ Write(a, {})
           \/ /\ ~match /\ s \in Sole
              /\ \E r \in found : found = {r} /\ Write(a, {r.id})
           \/ /\ ~match /\ s \in Sole
              /\ \E r, q \in found : r # q
              /\ Finish(a, "skipped")
        /\ UNCHANGED << zone, dkimKey, recordFile, edits >>

\* Cloudflare refuses a record without a value and a second one that is the same.
Accepted(a) ==
    /\ Value(a) # 0
    /\ \A r \in zone : r.slot = Place(a) => r.text # Value(a)

FreeId(s) == {i \in Id : \A r \in zone : r.slot = s => r.id # i}

\* The answer arrives, or is lost.
Answer(a, r) == Finish(a, r) \/ (Lossy /\ Finish(a, "error"))

createRecord(a) ==
    /\ apply[a].at = "write" /\ apply[a].target = {}
    /\ Accepted(a) /\ FreeId(Place(a)) # {}
    /\ zone' = zone \cup
          {[slot |-> Place(a), id |-> CHOOSE i \in FreeId(Place(a)) : TRUE, text |-> Value(a),
            by |-> IF apply[a].alone THEN "apply" ELSE "overlap"]}
    /\ Answer(a, "created")
    /\ UNCHANGED << dkimKey, recordFile, edits >>

updateRecord(a) ==
    /\ apply[a].at = "write"
    /\ Accepted(a)
    /\ \E r \in zone :
          /\ r.slot = Place(a) /\ r.id \in apply[a].target
          /\ zone' = (zone \ {r}) \cup {[r EXCEPT !.text = Value(a)]}
    /\ Answer(a, "updated")
    /\ UNCHANGED << dkimKey, recordFile, edits >>

\* Mutant: a failed write is not reported.
WriteFailsUnseen(a) ==
    /\ apply[a].at = "write"
    /\ Lossy \/ ~Accepted(a) \/ FreeId(Place(a)) = {}
    /\ Finish(a, "created")
    /\ UNCHANGED << zone, dkimKey, recordFile, edits >>

\* The write is refused, or never arrives.
WriteFails(a) ==
    /\ apply[a].at = "write"
    /\ Lossy \/ ~Accepted(a) \/ FreeId(Place(a)) = {}
    /\ Finish(a, "error")
    /\ UNCHANGED << zone, dkimKey, recordFile, edits >>

\* The handler ends: its results are shown, or lost when the request has taken longer than the
\* WriteTimeout of 15 seconds, which it does not extend.
Report(a) ==
    /\ apply[a].at = "done"
    /\ apply' = [apply EXCEPT ![a] = Quiet]
    /\ UNCHANGED << zone, dkimKey, recordFile, edits >>

Proceed(a) ==
    ListRecords(a) \/ createRecord(a) \/ updateRecord(a) \/ WriteFails(a) \/ Report(a)

-----------------------------------------------------------------------------
(* Around the request.                                                      *)

\* RotateDKIMKey removes the record file and writes that of the next key, or breaks off in
\* between.  Only then does it restart rspamd, which signs with the old key until it has, and for
\* good when the restart fails: that is a matter of module Dkim, nothing here reads it.
RotateRemoves ==
    /\ recordFile /\ dkimKey < MaxKey
    /\ recordFile' = FALSE
    /\ apply' = Disturbed
    /\ UNCHANGED << zone, dkimKey, edits >>

RotateWrites ==
    /\ ~recordFile
    /\ recordFile' = TRUE /\ dkimKey' = dkimKey + 1
    /\ apply' = Disturbed
    /\ UNCHANGED << zone, edits >>

\* The operator adds or deletes a record; not while a request writes.
EditZone ==
    /\ ~Busy /\ edits < MaxEdits
    /\ \/ \E s \in Slot, t \in {0, 1} :
             /\ t = 0 => s \in TxtSlot
             /\ \A r \in zone : r.slot = s => r.text # t
             /\ \E n \in 1 .. Len(Plan) : Plan[n] = s
             /\ FreeId(s) # {}
             /\ zone' = zone \cup {[slot |-> s, id |-> CHOOSE i \in FreeId(s) : TRUE,
                                    text |-> t, by |-> "operator"]}
       \/ \E r \in zone : zone' = zone \ {r}
    /\ edits' = edits + 1
    /\ UNCHANGED << apply, dkimKey, recordFile >>

DnsNext ==
    \/ \E a \in Applier : handleCloudflareApply(a) \/ Proceed(a)
    \/ RotateRemoves \/ RotateWrites \/ EditZone

\* A call of the API ends within 15 seconds, with an answer or without.
DnsFair == \A a \in Applier : WF_dnsvars(Proceed(a))

DnsSpec == DnsInit /\ [][DnsNext]_dnsvars /\ DnsFair

-----------------------------------------------------------------------------
(* Properties.                                                              *)

Z == INSTANCE Zone WITH zone <- zone, applying <- Busy

\* "A record that already matches is left alone, and nothing outside these specific records
\* is ever touched or deleted" (ApplyMailRecords): whatever overlaps and fails, the requests
\* implement the abstract zone.
Conservative == Z!ZoneSpec

\* "Idempotent": at most one record of a kind is ever made by requests that nothing
\* overlapped, also when a write was done but reported as an error and is repeated, and when
\* the key was rotated in between (only overlapping requests can leave two).
OneOfOurs ==
    \A r, q \in zone :
        r.slot = q.slot /\ r.slot \in Sole /\ r.by = "apply" /\ q.by = "apply" => r = q

\* What a request that nothing overlapped comes to report is true: where it says created, updated
\* or unchanged, the zone has the value that this server asks for now, for DKIM that of the
\* domain's latest record file, also when the file was removed or replaced since another request
\* wrote the old one.  Whether rspamd signs with that key is not among what it says.
ReportTruthful ==
    \A a \in Applier : apply[a].at = "done" /\ apply[a].alone =>
        /\ Len(apply[a].results) = Len(Plan)
        /\ \A n \in 1 .. Len(Plan) :
              apply[a].results[n] \in {"created", "updated", "unchanged"} =>
                  \E r \in zone : r.slot = Plan[n] /\ r.text = Wants(Plan[n], KeyText(dkimKey))

\* Every request comes to its end, also when every call of the API fails; whether its browser
\* still takes the answer is another matter (Report).
ApplyEnds == \A a \in Applier : Running(a) ~> ~Running(a)
=============================================================================
