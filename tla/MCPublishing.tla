---------------------------- MODULE MCPublishing ----------------------------
(***************************************************************************)
(* An instance of Publishing: one domain, two requests that apply records,  *)
(* one place for each of the three upsert functions.                        *)
(***************************************************************************)
EXTENDS Publishing

MCPlan == << "MX", "DKIM", "STSA" >>

Failures(a) == {n \in DOMAIN apply[a].results : apply[a].results[n] \in {"error", "skipped"}}

\* Two requests overlap in an unedited zone, and what fails for one is its last place.
FewOverlaps ==
    (\A a \in Applier : Running(a)) => edits = 0 /\ \A a \in Applier : Failures(a) = {}

HostingUsed ==
    \/ policies # {} \/ ~nginx \/ \E a \in Admin : enable[a] # NoEnable
    \/ \E n \in Name : due[n] \/ hello[n] # NoHello \/ cache[n].cert # 0
    \/ \E n \in Policy : answer[n] # "none"

\* Hosting is explored with a zone of mta-sts addresses, between two applications.
OneAfterTheOther ==
    HostingUsed => ~Busy /\ dkimKey = 0 /\ recordFile /\ \A r \in zone : r.slot = "STSA"

\* A behaviour is about the certificate of one name, that of the mail hostname with the
\* resolvers as they were.
OneName ==
    hello[Mail] # NoHello \/ cache[Mail].cert # 0 \/ due[Mail] =>
        /\ zone = {} /\ edits = 0 /\ policies = {}
        /\ \A n \in Policy : answer[n] = "none" /\ hello[n] = NoHello
        /\ \A a \in Admin : enable[a] = NoEnable

\* Handshakes go on beside calls of Enable whose lookups were quick, once the name has been
\* found to point here.
QuickLookups ==
    /\ policies # {} => edits = 0 /\ \A n \in Policy : answer[n] = "us"
    /\ \A n \in Policy : hello[n] # NoHello \/ cache[n].cert # 0 \/ due[n] =>
          \A a \in Admin : enable[a].spent \in {0, 90} /\ enable[a].attempt <= 1

Bounded == FewOverlaps /\ OneAfterTheOther /\ OneName /\ QuickLookups
=============================================================================
