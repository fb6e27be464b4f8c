----------------------------- MODULE MCRouting -----------------------------
(***************************************************************************)
(* An instance of Directory and Routing with one caller: ann, bob, cid and  *)
(* the tagged ann+t live at one domain, eve at another.  The run explores   *)
(* the directories that say who may be in a group and who may post to it    *)
(* (FewPolicies), and those that say where mail goes (FewRoutes).           *)
(***************************************************************************)
EXTENDS Routing

CONSTANTS ann, bob, cid, annTag, eve, home, away

MCDomainOf == [a \in Addr |-> IF a = eve THEN away ELSE home]
MCUntag    == [a \in Addr |-> IF a = annTag THEN ann ELSE a]

\* The addresses as are not stored in any table (they still send and receive).
Absent(as) ==
    /\ \A u \in virtual_users : u.email \notin as
    /\ \A g \in mail_groups : g.email \notin as
    /\ \A m \in mail_group_members : m.member \notin as
    /\ \A a \in virtual_aliases : a.source \notin as /\ a.destination \notin as
    /\ \A f \in mailbox_forwards : f.destination \notin as
    /\ \A c \in Client : req[c].key \notin as /\ req[c].arg \notin as

-----------------------------------------------------------------------------
(* Who may be in a group and who may post to it.                            *)

OtherPolicy == \E g \in mail_groups : g.post_policy # "members"
Owners      == \E m \in mail_group_members : m.role = "owner"

\* The domains change while there is a member: home is removed, or away is hosted too.
Moving == lastDomain > 1 \/ Hosted(away)

\* Nobody is suspended, forwards or catches all.  Owners, policies other than "members" and
\* domains that come and go are explored with one group (the last with one at ann), and without
\* aliases.  One alias is enough for every check of an address against the aliases.
FewPolicies ==
    /\ Absent({annTag, cid})
    /\ \A u \in virtual_users : u.enabled
    /\ mailbox_forwards = {}
    /\ \A c \in Client : req[c].op \notin {"ForwardSet", "CatchAllSet", "MailboxSetEnabled"}
    /\ \A a \in virtual_aliases : a.source \in Addr
    /\ Cardinality(virtual_aliases) <= 1
    /\ Owners => lastGroup = 1 /\ virtual_aliases = {}
    /\ virtual_aliases # {} => lastGroup <= 1
    /\ OtherPolicy => lastGroup = 1 /\ virtual_aliases = {}
    /\ Moving =>
          /\ lastGroup <= 1 /\ ~OtherPolicy /\ ~Owners /\ virtual_aliases = {}
          /\ \A g \in mail_groups : g.email = ann
          /\ \A c \in Client : req[c].role = "member" /\ req[c].policy # "anyone"

-----------------------------------------------------------------------------
(* Where mail goes.                                                         *)

Rows == Cardinality(virtual_users) + Cardinality(virtual_aliases) + Cardinality(mail_groups)
        + Cardinality(mail_group_members) + Cardinality(mailbox_forwards)

\* Only home is hosted, nothing is removed, groups are open to their members, and aliases,
\* catch-alls and forwards are combined with at most three rows.
FewRoutes ==
    /\ Absent({annTag, eve})
    /\ lastDomain <= 1 /\ ~Hosted(away)
    /\ \A g \in mail_groups : g.post_policy = "members"
    /\ \A g \in mail_groups : ~g.allow_external
    /\ \A m \in mail_group_members : m.role = "member"
    /\ \A c \in Client :
          /\ req[c].op \in {"idle", "MailboxCreate", "MailboxSetEnabled", "ForwardSet", "CatchAllSet",
                            "AliasAdd", "GroupCreate", "GroupAddMembers"}
          /\ req[c].op = "GroupCreate" => req[c].policy = "members" /\ ~req[c].flag
          /\ req[c].role = "member"
    /\ lastGroup = Cardinality(mail_groups)
    /\ lastDomain = Cardinality(virtual_domains)
    /\ \A e \in maildirs : IsUser(e) \/ \E c \in Client : req[c].key = e
    /\ Rows <= IF virtual_aliases \cup mailbox_forwards = {} THEN 5 ELSE 3

-----------------------------------------------------------------------------
RoutingOps == {"DomainAdd", "DomainRemove", "MailboxCreate", "MailboxAdd", "MailboxRemove",
               "MailboxSetEnabled", "ForwardSet", "CatchAllSet", "AliasAdd", "AliasRemove",
               "GroupCreate", "GroupUpdate", "GroupDelete", "GroupAddMembers",
               "GroupRemoveMember", "GroupSetMemberRole"}

FewCombined == FewPolicies \/ FewRoutes

RoutingNext ==
    \E c \in Client : (Begin(c) /\ FewCombined') \/ Continue(c) \/ Abandon(c)

RoutingSpec == Init /\ [][RoutingNext]_vars

SuspendOps == {"DomainAdd", "MailboxCreate", "MailboxSetEnabled", "CatchAllSet"}
=============================================================================
