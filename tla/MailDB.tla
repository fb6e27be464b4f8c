------------------------------- MODULE MailDB -------------------------------
(***************************************************************************)
(* The mail tables of the patrabahok database, as sql/schema declares them, *)
(* and the SQL statements the Go packages run on them.  A table is a set of *)
(* rows; a statement is one atomic step (every statement of                 *)
(* cli/internal/mailbox and cli/internal/domainkey is autocommitted, except *)
(* the two of CatchAllSet, which share a transaction).  Unique keys and     *)
(* foreign keys are guards of the statements that could break them, and     *)
(* ON DELETE CASCADE is part of the deleting statement.                     *)
(***************************************************************************)
EXTENDS Naturals

CONSTANTS
    Domain,       \* domain names
    Addr,         \* mail addresses, hosted here or not
    DomainOf,     \* the domain name of an address
    Password,     \* password hashes
    ApiKey,       \* hashes of per-domain API keys
    MaxDomainId,  \* bound on the AUTO_INCREMENT of virtual_domains
    MaxGroupId    \* bound on the AUTO_INCREMENT of mail_groups

ASSUME AddressAssumption ==
    /\ DomainOf \in [Addr -> Domain]
    /\ Domain \cap Addr = {}

ASSUME BoundAssumption ==
    /\ MaxDomainId \in Nat
    /\ MaxGroupId \in Nat

VARIABLES
    virtual_domains, virtual_users, virtual_aliases, mail_groups,
    mail_group_members, mailbox_forwards, domain_api_keys,
    lastDomain,   \* AUTO_INCREMENT of virtual_domains: ids are never reused
    lastGroup     \* AUTO_INCREMENT of mail_groups

dbvars == << virtual_domains, virtual_users, virtual_aliases, mail_groups,
             mail_group_members, mailbox_forwards, domain_api_keys,
             lastDomain, lastGroup >>

-----------------------------------------------------------------------------
(* Rows.  A source is an address, or a domain name d standing for "@d".     *)

Source == Addr \cup Domain

Policy == {"anyone", "organization", "members", "owners"}
Role   == {"member", "owner"}

DomainRow  == [id : Nat, name : Domain]
UserRow    == [email : Addr, domain_id : Nat, password : Password, enabled : BOOLEAN]
AliasRow   == [source : Source, destination : Addr, domain_id : Nat]
GroupRow   == [id : Nat, email : Addr, domain_id : Nat, post_policy : Policy,
               allow_external : BOOLEAN]
MemberRow  == [group_id : Nat, member : Addr, role : Role]
ForwardRow == [email : Addr, destination : Addr, keep_copy : BOOLEAN]
KeyRow     == [domain_id : Nat, key_hash : ApiKey]

DBTypeOK ==
    /\ virtual_domains \subseteq DomainRow
    /\ virtual_users \subseteq UserRow
    /\ virtual_aliases \subseteq AliasRow
    /\ mail_groups \subseteq GroupRow
    /\ mail_group_members \subseteq MemberRow
    /\ mailbox_forwards \subseteq ForwardRow
    /\ domain_api_keys \subseteq KeyRow
    /\ lastDomain \in Nat
    /\ lastGroup \in Nat

DBInit ==
    /\ virtual_domains = {} /\ virtual_users = {} /\ virtual_aliases = {}
    /\ mail_groups = {} /\ mail_group_members = {} /\ mailbox_forwards = {}
    /\ domain_api_keys = {}
    /\ lastDomain = 0 /\ lastGroup = 0

HomeDomain(s) == IF s \in Domain THEN s ELSE DomainOf[s]

Hosted(d)      == \E r \in virtual_domains : r.name = d
DomainId(i)    == \E r \in virtual_domains : r.id = i
IsUser(e)      == \E u \in virtual_users : u.email = e
IsGroup(e)     == \E g \in mail_groups : g.email = e
GroupId(i)     == \E g \in mail_groups : g.id = i
IsAlias(s)     == \E a \in virtual_aliases : a.source = s
Suspended(e)   == \E u \in virtual_users : u.email = e /\ ~u.enabled

-----------------------------------------------------------------------------
(* Statements on virtual_domains.                                           *)

\* Mutant: ids are reused, as by an AUTO_INCREMENT that restarts below a deleted row.
InsertDomainReusedId(d) ==
    /\ ~Hosted(d)
    /\ lastDomain' = lastDomain
    /\ \E i \in 1 .. MaxDomainId :
          ~DomainId(i) /\ virtual_domains' = virtual_domains \cup {[id |-> i, name |-> d]}
    /\ UNCHANGED << virtual_users, virtual_aliases, mail_groups, mail_group_members,
                    mailbox_forwards, domain_api_keys, lastGroup >>

\* INSERT IGNORE: a name that is already there leaves the table as it is.
InsertDomain(d) ==
    /\ \/ Hosted(d) /\ UNCHANGED << virtual_domains, lastDomain >>
       \/ /\ ~Hosted(d)
          /\ lastDomain < MaxDomainId
          /\ lastDomain' = lastDomain + 1
          /\ virtual_domains' = virtual_domains \cup {[id |-> lastDomain + 1, name |-> d]}
    /\ UNCHANGED << virtual_users, virtual_aliases, mail_groups, mail_group_members,
                    mailbox_forwards, domain_api_keys, lastGroup >>

\* DELETE, cascading to every table below virtual_domains.
DeleteDomain(d) ==
    LET gone(i) == \E r \in virtual_domains : r.id = i /\ r.name = d
    IN  /\ virtual_domains' = {r \in virtual_domains : r.name # d}
        /\ virtual_users' = {u \in virtual_users : ~gone(u.domain_id)}
        /\ virtual_aliases' = {a \in virtual_aliases : ~gone(a.domain_id)}
        /\ mail_groups' = {g \in mail_groups : ~gone(g.domain_id)}
        /\ mail_group_members' = {m \in mail_group_members :
              ~\E g \in mail_groups : g.id = m.group_id /\ gone(g.domain_id)}
        /\ mailbox_forwards' = {f \in mailbox_forwards :
              ~\E u \in virtual_users : u.email = f.email /\ gone(u.domain_id)}
        /\ domain_api_keys' = {k \in domain_api_keys : ~gone(k.domain_id)}
        /\ UNCHANGED << lastDomain, lastGroup >>

-----------------------------------------------------------------------------
(* Statements on virtual_users and mailbox_forwards.                        *)

UserTableOnly == UNCHANGED << virtual_domains, virtual_aliases, mail_groups,
                              mail_group_members, mailbox_forwards, domain_api_keys,
                              lastDomain, lastGroup >>

\* Mutant: virtual_users without its foreign key.
InsertUserNoFK(e, i, p) ==
    /\ ~IsUser(e)
    /\ virtual_users' = virtual_users \cup
          {[email |-> e, domain_id |-> i, password |-> p, enabled |-> TRUE]}
    /\ UserTableOnly

\* INSERT: refused on a duplicate email or an unknown domain_id.
InsertUser(e, i, p) ==
    /\ ~IsUser(e)
    /\ DomainId(i)
    /\ virtual_users' = virtual_users \cup
          {[email |-> e, domain_id |-> i, password |-> p, enabled |-> TRUE]}
    /\ UserTableOnly

\* UPDATE ... SET password (and the quota): everything else of the row is kept.
UpdatePassword(e, p) ==
    /\ IsUser(e)
    /\ virtual_users' = {IF u.email = e THEN [u EXCEPT !.password = p] ELSE u : u \in virtual_users}
    /\ UserTableOnly

\* INSERT ... ON DUPLICATE KEY UPDATE password.
UpsertUser(e, i, p) == InsertUser(e, i, p) \/ UpdatePassword(e, p)

UpdateEnabled(e, b) ==
    /\ virtual_users' = {IF u.email = e THEN [u EXCEPT !.enabled = b] ELSE u : u \in virtual_users}
    /\ UserTableOnly

\* DELETE, cascading to mailbox_forwards.
DeleteUser(e) ==
    /\ virtual_users' = {u \in virtual_users : u.email # e}
    /\ mailbox_forwards' = {f \in mailbox_forwards : f.email # e}
    /\ UNCHANGED << virtual_domains, virtual_aliases, mail_groups, mail_group_members,
                    domain_api_keys, lastDomain, lastGroup >>

ForwardTableOnly == UNCHANGED << virtual_domains, virtual_users, virtual_aliases, mail_groups,
                                 mail_group_members, domain_api_keys, lastDomain, lastGroup >>

\* INSERT ... ON DUPLICATE KEY UPDATE; the email must name a mailbox.
UpsertForward(e, d, keep) ==
    /\ IsUser(e)
    /\ mailbox_forwards' = {f \in mailbox_forwards : f.email # e}
          \cup {[email |-> e, destination |-> d, keep_copy |-> keep]}
    /\ ForwardTableOnly

DeleteForward(e) ==
    /\ mailbox_forwards' = {f \in mailbox_forwards : f.email # e}
    /\ ForwardTableOnly

-----------------------------------------------------------------------------
(* Statements on virtual_aliases.                                           *)

AliasTableOnly == UNCHANGED << virtual_domains, virtual_users, mail_groups,
                               mail_group_members, mailbox_forwards, domain_api_keys,
                               lastDomain, lastGroup >>

HasAlias(s, d) == \E a \in virtual_aliases : a.source = s /\ a.destination = d

\* INSERT IGNORE: a duplicate pair, and an unknown domain_id too, are skipped without an error.
InsertIgnoreAlias(s, d, i) ==
    /\ virtual_aliases' = IF HasAlias(s, d) \/ ~DomainId(i) THEN virtual_aliases
                          ELSE virtual_aliases \cup
                               {[source |-> s, destination |-> d, domain_id |-> i]}
    /\ AliasTableOnly

DeleteAlias(s, d) ==
    /\ virtual_aliases' = {a \in virtual_aliases : ~(a.source = s /\ a.destination = d)}
    /\ AliasTableOnly

DeleteSource(s) ==
    /\ virtual_aliases' = {a \in virtual_aliases : a.source # s}
    /\ AliasTableOnly

\* Mutant: the old row is not deleted first.
ReplaceCatchAllKeepsOld(dom, d, i) ==
    /\ DomainId(i)
    /\ virtual_aliases' = virtual_aliases \cup
          {[source |-> dom, destination |-> d, domain_id |-> i]}
    /\ AliasTableOnly

\* The transaction of CatchAllSet: DELETE of the old row, INSERT of the new one, COMMIT.
ReplaceCatchAll(dom, d, i) ==
    /\ DomainId(i)
    /\ virtual_aliases' = {a \in virtual_aliases : a.source # dom} \cup
          {[source |-> dom, destination |-> d, domain_id |-> i]}
    /\ AliasTableOnly

-----------------------------------------------------------------------------
(* Statements on mail_groups and mail_group_members.                        *)

InsertGroup(e, i, pol, ext) ==
    /\ ~IsGroup(e)
    /\ DomainId(i)
    /\ lastGroup < MaxGroupId
    /\ lastGroup' = lastGroup + 1
    /\ mail_groups' = mail_groups \cup
          {[id |-> lastGroup + 1, email |-> e, domain_id |-> i, post_policy |-> pol,
            allow_external |-> ext]}
    /\ UNCHANGED << virtual_domains, virtual_users, virtual_aliases, mail_group_members,
                    mailbox_forwards, domain_api_keys, lastDomain >>

\* UPDATE ... WHERE id = i: no row when the group is gone, and that is not an error.
UpdateGroup(i, pol, ext) ==
    /\ mail_groups' = {IF g.id = i THEN [g EXCEPT !.post_policy = pol, !.allow_external = ext]
                       ELSE g : g \in mail_groups}
    /\ UNCHANGED << virtual_domains, virtual_users, virtual_aliases, mail_group_members,
                    mailbox_forwards, domain_api_keys, lastDomain, lastGroup >>

\* DELETE, cascading to mail_group_members.
DeleteGroup(e) ==
    /\ mail_groups' = {g \in mail_groups : g.email # e}
    /\ mail_group_members' = {m \in mail_group_members :
          ~\E g \in mail_groups : g.id = m.group_id /\ g.email = e}
    /\ UNCHANGED << virtual_domains, virtual_users, virtual_aliases, mailbox_forwards,
                    domain_api_keys, lastDomain, lastGroup >>

MemberTableOnly == UNCHANGED << virtual_domains, virtual_users, virtual_aliases, mail_groups,
                                mailbox_forwards, domain_api_keys, lastDomain, lastGroup >>

\* INSERT ... ON DUPLICATE KEY UPDATE role; the group must exist.
UpsertMember(i, a, r) ==
    /\ GroupId(i)
    /\ mail_group_members' =
          {m \in mail_group_members : ~(m.group_id = i /\ m.member = a)} \cup
          {[group_id |-> i, member |-> a, role |-> r]}
    /\ MemberTableOnly

DeleteMember(i, a) ==
    /\ mail_group_members' = {m \in mail_group_members : ~(m.group_id = i /\ m.member = a)}
    /\ MemberTableOnly

UpdateRole(i, a, r) ==
    /\ mail_group_members' = {IF m.group_id = i /\ m.member = a THEN [m EXCEPT !.role = r]
                              ELSE m : m \in mail_group_members}
    /\ MemberTableOnly

\* DELETE ... WHERE member = a: the address leaves every group.
DeleteMemberships(a) ==
    /\ mail_group_members' = {m \in mail_group_members : m.member # a}
    /\ MemberTableOnly

-----------------------------------------------------------------------------
(* Statements on domain_api_keys.                                           *)

KeyTableOnly == UNCHANGED << virtual_domains, virtual_users, virtual_aliases, mail_groups,
                             mail_group_members, mailbox_forwards, lastDomain, lastGroup >>

\* Mutant: INSERT IGNORE, which leaves a domain the key it had.
InsertIgnoreKey(i, k) ==
    /\ DomainId(i)
    /\ domain_api_keys' = domain_api_keys \cup
          {r \in {[domain_id |-> i, key_hash |-> k]} :
              \A j \in domain_api_keys : j.domain_id # i}
    /\ KeyTableOnly

\* INSERT ... ON DUPLICATE KEY UPDATE key_hash: the old key of the domain is replaced.
UpsertKey(i, k) ==
    /\ DomainId(i)
    /\ domain_api_keys' = {r \in domain_api_keys : r.domain_id # i} \cup
          {[domain_id |-> i, key_hash |-> k]}
    /\ KeyTableOnly

\* DELETE joined with virtual_domains on the name.
DeleteKey(d) ==
    /\ domain_api_keys' = {r \in domain_api_keys :
          ~\E v \in virtual_domains : v.id = r.domain_id /\ v.name = d}
    /\ KeyTableOnly

=============================================================================
