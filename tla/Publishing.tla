----------------------------- MODULE Publishing -----------------------------
(***************************************************************************)
(* A domain's way from its DNS records to MTA-STS hosting: the records that *)
(* module Dns applies reach the resolvers after a while, and the check of   *)
(* module Hosting looks there before it asks for a certificate.             *)
(***************************************************************************)
EXTENDS Dns, Hosting

pubvars == << dnsvars, hostvars >>

\* The type invariant of both components.
PubTypeOK == DnsTypeOK /\ HostTypeOK

PubInit == DnsInit /\ HostInit

\* What the zone says about the address of the mta-sts name.
ZoneAnswer ==
    IF \E r \in zone : r.slot = "STSA" /\ r.text = 2 THEN "us"
    ELSE IF \E r \in zone : r.slot = "STSA" THEN "other" ELSE "none"

\* A resolver's cached answer runs out.
Propagate ==
    /\ answer' = [n \in Policy |-> ZoneAnswer]
    /\ UNCHANGED << dnsvars, policies, files, certbot, enable, nginx, cache, hello >>

PubNext ==
    \/ DnsNext /\ UNCHANGED hostvars
    \/ HostNext /\ UNCHANGED dnsvars
    \/ Propagate

PubSpec == PubInit /\ [][PubNext]_pubvars /\ DnsFair /\ HostFair
=============================================================================
