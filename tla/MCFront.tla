------------------------------ MODULE MCFront ------------------------------
(***************************************************************************)
(* Instances of Front: one address at each of two domains.                  *)
(***************************************************************************)
EXTENDS Front, FiniteSets, TLC

CONSTANTS ann, eve, home, away

MCDomainOf == [a \in Addr |-> IF a = eve THEN away ELSE home]

ClientSymmetry == Permutations(Client)

MCScopeLists == {{}, {"mailbox", "alias"}, {"group"}}

-----------------------------------------------------------------------------
(* One behaviour explores the mailboxes, the groups or the aliases, with a  *)
(* key or a token.                                                          *)

Used == (IF virtual_users \cup maildirs # {} THEN {"users"} ELSE {})
        \cup (IF lastGroup > 0 THEN {"groups"} ELSE {})
        \cup (IF virtual_aliases # {} THEN {"aliases"} ELSE {})
       
FewRows ==
    /\ Cardinality(Used) <= 1
    /\ Used # {} => Cardinality(virtual_domains) <= 1
    /\ lastDomain = 2 => mailbox_forwards = {} /\ \A u \in virtual_users : u.enabled
    /\ Cardinality(virtual_users) + Cardinality(mailbox_forwards) <= 2
    /\ Cardinality(virtual_aliases) + Cardinality(mail_group_members) <= 1
    /\ \A e \in maildirs : IsUser(e) \/ \E c \in Client : req[c].key = e
    /\ \A r \in virtual_domains : r.id = 1 => r.name = home
    /\ \A u \in virtual_users : u.enabled \/ Cardinality(virtual_users) = 1
    /\ \A f \in mailbox_forwards : f.keep_copy
    /\ \A m \in mail_group_members : m.role = "member"
    /\ \A c \in Client : req[c].role = "member" /\ (req[c].op = "ForwardSet" => req[c].flag)
    /\ \A k \in ApiKey : issued[k] # away
    /\ api_tokens # {} => lastDomain < 2 /\ \A k \in ApiKey : issued[k] = None

\* Of two requests that are open at a time one is a command that removes something, or has
\* just done its work.
Meddles(c) ==
    /\ door[c].kind = "cli"
    /\ door[c].at = "record" \/ req[c].op \in {"GroupDelete", "MailboxRemove"}

Overlap ==
    \A c, d \in Client : c # d /\ door[c] # Closed /\ door[d] # Closed =>
        \/ Meddles(c) /\ door[d].kind # "cli" /\ door[d].at \notin {"record", "gone"}
        \/ Meddles(d) /\ door[c].kind # "cli" /\ door[c].at \notin {"record", "gone"}

GroupUpdateOps == {"DomainAdd", "GenerateKey", "MailboxCreate", "GroupCreate", "GroupUpdate"}

Bounded == FewRows /\ Overlap
=============================================================================
