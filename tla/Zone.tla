-------------------------------- MODULE Zone --------------------------------
(***************************************************************************)
(* What ApplyMailRecords (cli/internal/cloudflare/apply.go) promises about  *)
(* a DNS zone: "nothing outside these specific records is ever touched or   *)
(* deleted".  A record has a place, the type and name it stands at, and a   *)
(* text; the text 0 stands for a TXT record that is not of the kind kept at *)
(* its place.  While records are being applied the zone only gains records  *)
(* of the kinds that are applied, and has such records rewritten; otherwise *)
(* it is the operator's to edit.                                            *)
(***************************************************************************)
EXTENDS Naturals

CONSTANTS
    Slot,  \* the places of the records a domain needs
    Sole,  \* those where one record is kept (not MX)
    Id     \* record ids

VARIABLES
    zone,     \* the records at these places
    applying  \* whether records are being applied

zonevars == << zone, applying >>

Record == [slot : Slot, id : Id, text : Nat, by : {"operator", "apply", "overlap"}]

Add ==
    \E r \in zone' \ zone :
        /\ zone' = zone \cup {r}
        /\ r \in Record /\ r.text # 0

Rewrite ==
    \E r \in zone, q \in zone' :
        /\ zone' = (zone \ {r}) \cup {q}
        /\ r.text # 0 /\ q.text # 0
        /\ r.slot \in Sole /\ q = [r EXCEPT !.text = q.text]

Edit == zone' \subseteq Record

ZoneInit == zone = {} /\ applying = FALSE

ZoneNext ==
    \/ applying /\ UNCHANGED applying /\ (Add \/ Rewrite)
    \/ ~applying /\ UNCHANGED applying /\ Edit
    \/ applying' = ~applying /\ UNCHANGED zone

ZoneSpec == ZoneInit /\ [][ZoneNext]_zonevars
=============================================================================
