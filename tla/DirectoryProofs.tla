-------------------------- MODULE DirectoryProofs --------------------------
(***************************************************************************)
(* Proofs that the tables of Directory stay consistent under any number of  *)
(* concurrent callers.  The statements of MailDB are treated first, one     *)
(* lemma each; then every step of a call preserves IndInv.  And that the    *)
(* keys of domains implement the abstract ledger of module KeyLedger.       *)
(***************************************************************************)
EXTENDS Directory, TLAPS

\* The part of IndInv that is about the tables.
TablesOK == DBTypeOK /\ KeysUnique /\ HomedRows /\ OneCatchAll

-----------------------------------------------------------------------------
(* Every statement keeps the tables consistent.                             *)

\* INSERT IGNORE INTO virtual_domains (DomainAdd): the new id is above every id in use.
LEMMA InsertDomainOK ==
    ASSUME TablesOK, NEW d \in Domain, InsertDomain(d), UNCHANGED issued
    PROVE  TablesOK'
<1> USE DEF TablesOK, InsertDomain, Hosted
<1>1. CASE Hosted(d)
  BY <1>1 DEF DBTypeOK, KeysUnique, HomedRows, OneCatchAll, GroupId, IsUser, HomeDomain
<1>2. CASE ~Hosted(d)
  <2>1. DBTypeOK'
    BY <1>2 DEF DBTypeOK, DomainRow
  <2>2. KeysUnique'
    BY <1>2 DEF KeysUnique, DBTypeOK, DomainRow
  <2>3. HomedRows'
    BY <1>2 DEF HomedRows, GroupId, IsUser, HomeDomain
  <2>4. OneCatchAll'
    BY <1>2 DEF OneCatchAll
  <2> QED BY <2>1, <2>2, <2>3, <2>4
<1> QED BY <1>1, <1>2

\* DELETE FROM virtual_domains (DomainRemove): the cascade leaves no orphan in any table.
LEMMA DeleteDomainOK ==
    ASSUME TablesOK, NEW d \in Domain, DeleteDomain(d), UNCHANGED issued
    PROVE  TablesOK'
<1> USE DEF TablesOK, DeleteDomain
<1>1. DBTypeOK'
  BY DEF DBTypeOK
<1>2. KeysUnique'
  BY DEF KeysUnique
<1>3. HomedRows'
  <2>1. \A u \in virtual_users' : \E r \in virtual_domains' :
           r.id = u.domain_id /\ r.name = DomainOf[u.email]
    BY DEF HomedRows
  <2>2. \A a \in virtual_aliases' : \E r \in virtual_domains' :
           r.id = a.domain_id /\ r.name = HomeDomain(a.source)
    BY DEF HomedRows
  <2>3. \A g \in mail_groups' : \E r \in virtual_domains' :
           r.id = g.domain_id /\ r.name = DomainOf[g.email]
    BY DEF HomedRows
  <2>4. \A m \in mail_group_members' : GroupId(m.group_id)'
    BY DEF HomedRows, GroupId
  <2>5. \A f \in mailbox_forwards' : IsUser(f.email)'
    BY DEF HomedRows, IsUser
  <2>6. \A k \in domain_api_keys' : \E r \in virtual_domains' :
           r.id = k.domain_id /\ r.name = issued'[k.key_hash]
    BY DEF HomedRows
  <2> QED BY <2>1, <2>2, <2>3, <2>4, <2>5, <2>6 DEF HomedRows, HomeDomain
<1>4. OneCatchAll'
  BY DEF OneCatchAll
<1> QED BY <1>1, <1>2, <1>3, <1>4

\* INSERT INTO virtual_users (MailboxAdd, MailboxCreate) with an id that is that of the
\* address's domain or of no domain.
LEMMA InsertUserOK ==
    ASSUME TablesOK, NEW e \in Addr, NEW i \in Nat, NEW p \in Password, InsertUser(e, i, p),
           \A r \in virtual_domains : r.id = i => r.name = DomainOf[e], UNCHANGED issued
    PROVE  TablesOK'
<1> DEFINE row == [email |-> e, domain_id |-> i, password |-> p, enabled |-> TRUE]
<1> USE DEF TablesOK
<1>a. /\ virtual_users' = virtual_users \cup {row}
      /\ ~IsUser(e) /\ DomainId(i)
      /\ UserTableOnly
  BY DEF InsertUser
<1>b. row \in UserRow /\ row.email = e /\ row.domain_id = i
  BY DEF UserRow
<1> HIDE DEF row
<1> USE DEF UserTableOnly
<1>1. DBTypeOK'
  BY <1>a, <1>b DEF DBTypeOK
<1>2. KeysUnique'
  <2>1. \A u \in virtual_users : u.email # row.email
    BY <1>a, <1>b DEF IsUser
  <2>2. \A u, v \in virtual_users' : u.email = v.email => u = v
    BY <1>a, <2>1 DEF KeysUnique
  <2> QED BY <1>a, <2>2 DEF KeysUnique
<1>3. HomedRows'
  BY <1>a, <1>b DEF HomedRows, DomainId, GroupId, IsUser, HomeDomain
<1>4. OneCatchAll'
  BY <1>a DEF OneCatchAll
<1> QED BY <1>1, <1>2, <1>3, <1>4

\* UPDATE virtual_users SET password (MailboxAdd, MailboxPasswd) keeps keys and homes.
LEMMA UpdatePasswordOK ==
    ASSUME TablesOK, NEW e \in Addr, NEW p \in Password, UpdatePassword(e, p), UNCHANGED issued
    PROVE  TablesOK'
<1> DEFINE new(u) == IF u.email = e THEN [u EXCEPT !.password = p] ELSE u
<1> USE DEF TablesOK, UserTableOnly
<1>a. virtual_users' = {new(u) : u \in virtual_users} /\ UserTableOnly
  BY DEF UpdatePassword
<1>b. \A u \in virtual_users : /\ new(u) \in UserRow
                               /\ new(u).email = u.email
                               /\ new(u).domain_id = u.domain_id
  BY DEF DBTypeOK, UserRow
<1> HIDE DEF new
<1>1. DBTypeOK'
  BY <1>a, <1>b DEF DBTypeOK
<1>2. KeysUnique'
  BY <1>a, <1>b DEF KeysUnique
<1>3. HomedRows'
  BY <1>a, <1>b DEF HomedRows, GroupId, IsUser, HomeDomain
<1>4. OneCatchAll'
  BY <1>a DEF OneCatchAll
<1> QED BY <1>1, <1>2, <1>3, <1>4

\* UPDATE virtual_users SET enabled (SetEnabled) keeps keys and homes.
LEMMA UpdateEnabledOK ==
    ASSUME TablesOK, NEW e \in Addr, NEW b \in BOOLEAN, UpdateEnabled(e, b), UNCHANGED issued
    PROVE  TablesOK'
<1> DEFINE new(u) == IF u.email = e THEN [u EXCEPT !.enabled = b] ELSE u
<1> USE DEF TablesOK, UserTableOnly
<1>a. virtual_users' = {new(u) : u \in virtual_users} /\ UserTableOnly
  BY DEF UpdateEnabled
<1>b. \A u \in virtual_users : /\ new(u) \in UserRow
                               /\ new(u).email = u.email
                               /\ new(u).domain_id = u.domain_id
  BY DEF DBTypeOK, UserRow
<1> HIDE DEF new
<1>1. DBTypeOK'
  BY <1>a, <1>b DEF DBTypeOK
<1>2. KeysUnique'
  BY <1>a, <1>b DEF KeysUnique
<1>3. HomedRows'
  BY <1>a, <1>b DEF HomedRows, GroupId, IsUser, HomeDomain
<1>4. OneCatchAll'
  BY <1>a DEF OneCatchAll
<1> QED BY <1>1, <1>2, <1>3, <1>4

\* DELETE FROM virtual_users (MailboxRemove): no forward survives its mailbox.
LEMMA DeleteUserOK ==
    ASSUME TablesOK, NEW e \in Addr, DeleteUser(e), UNCHANGED issued
    PROVE  TablesOK'
<1> USE DEF TablesOK, DeleteUser
<1>1. DBTypeOK'
  BY DEF DBTypeOK
<1>2. KeysUnique'
  BY DEF KeysUnique
<1>3. HomedRows'
  BY DEF HomedRows, GroupId, IsUser, HomeDomain
<1>4. OneCatchAll'
  BY DEF OneCatchAll
<1> QED BY <1>1, <1>2, <1>3, <1>4

\* The upsert of ForwardSet: a forward hangs under an existing mailbox.
LEMMA UpsertForwardOK ==
    ASSUME TablesOK, NEW e \in Addr, NEW d \in Addr, NEW keep \in BOOLEAN,
           UpsertForward(e, d, keep), UNCHANGED issued
    PROVE  TablesOK'
<1> DEFINE row == [email |-> e, destination |-> d, keep_copy |-> keep]
<1> USE DEF TablesOK, ForwardTableOnly
<1>a. /\ mailbox_forwards' = {f \in mailbox_forwards : f.email # e} \cup {row}
      /\ IsUser(e) /\ ForwardTableOnly
  BY DEF UpsertForward
<1>b. row \in ForwardRow /\ row.email = e
  BY DEF ForwardRow
<1> HIDE DEF row
<1>1. DBTypeOK'
  BY <1>a, <1>b DEF DBTypeOK
<1>2. KeysUnique'
  BY <1>a DEF KeysUnique
<1>3. HomedRows'
  BY <1>a, <1>b DEF HomedRows, GroupId, IsUser, HomeDomain
<1>4. OneCatchAll'
  BY <1>a DEF OneCatchAll
<1> QED BY <1>1, <1>2, <1>3, <1>4

\* DELETE FROM mailbox_forwards (ForwardClear).
LEMMA DeleteForwardOK ==
    ASSUME TablesOK, NEW e \in Addr, DeleteForward(e), UNCHANGED issued
    PROVE  TablesOK'
<1> USE DEF TablesOK, DeleteForward, ForwardTableOnly
<1>1. DBTypeOK'
  BY DEF DBTypeOK
<1>2. KeysUnique'
  BY DEF KeysUnique
<1>3. HomedRows'
  BY DEF HomedRows, GroupId, IsUser, HomeDomain
<1>4. OneCatchAll'
  BY DEF OneCatchAll
<1> QED BY <1>1, <1>2, <1>3, <1>4

\* INSERT IGNORE INTO virtual_aliases (AliasAdd): never a second catch-all, and never a row
\* under another domain, since an address is not a domain name.
LEMMA InsertIgnoreAliasOK ==
    ASSUME TablesOK, NEW s \in Addr, NEW d \in Addr, NEW i \in Nat, InsertIgnoreAlias(s, d, i),
           \A r \in virtual_domains : r.id = i => r.name = DomainOf[s], UNCHANGED issued
    PROVE  TablesOK'
<1> DEFINE row == [source |-> s, destination |-> d, domain_id |-> i]
<1> USE DEF TablesOK, AliasTableOnly
<1>a. \/ virtual_aliases' = virtual_aliases
      \/ DomainId(i) /\ virtual_aliases' = virtual_aliases \cup {row}
  BY DEF InsertIgnoreAlias
<1>b. AliasTableOnly
  BY DEF InsertIgnoreAlias
<1>c. row \in AliasRow /\ row.source = s /\ row.domain_id = i
  BY DEF AliasRow, Source
<1>d. s \notin Domain /\ HomeDomain(s) = DomainOf[s]
  BY AddressAssumption DEF HomeDomain
<1> HIDE DEF row
<1>1. DBTypeOK'
  BY <1>a, <1>b, <1>c DEF DBTypeOK
<1>2. KeysUnique'
  BY <1>b DEF KeysUnique
<1>3. HomedRows'
  <2>1. \A a \in virtual_aliases' : \E r \in virtual_domains :
           r.id = a.domain_id /\ r.name = HomeDomain(a.source)
    BY <1>a, <1>c, <1>d DEF HomedRows, DomainId
  <2> QED BY <1>b, <2>1 DEF HomedRows, GroupId, IsUser, HomeDomain
<1>4. OneCatchAll'
  BY <1>a, <1>c, <1>d DEF OneCatchAll
<1> QED BY <1>1, <1>2, <1>3, <1>4

\* Any DELETE FROM virtual_aliases (AliasRemove, clearing a catch-all).
LEMMA DeleteAliasOK ==
    ASSUME TablesOK, virtual_aliases' \subseteq virtual_aliases, AliasTableOnly,
           UNCHANGED issued
    PROVE  TablesOK'
<1> USE DEF TablesOK, AliasTableOnly
<1>1. DBTypeOK'
  BY DEF DBTypeOK
<1>2. KeysUnique'
  BY DEF KeysUnique
<1>3. HomedRows'
  BY DEF HomedRows, GroupId, IsUser, HomeDomain
<1>4. OneCatchAll'
  BY DEF OneCatchAll
<1> QED BY <1>1, <1>2, <1>3, <1>4

\* The transaction of CatchAllSet leaves exactly one catch-all of the domain.
LEMMA ReplaceCatchAllOK ==
    ASSUME TablesOK, NEW dom \in Domain, NEW d \in Addr, NEW i \in Nat,
           ReplaceCatchAll(dom, d, i),
           \A r \in virtual_domains : r.id = i => r.name = dom, UNCHANGED issued
    PROVE  TablesOK'
<1> DEFINE row == [source |-> dom, destination |-> d, domain_id |-> i]
<1> USE DEF TablesOK, AliasTableOnly
<1>a. /\ virtual_aliases' = {a \in virtual_aliases : a.source # dom} \cup {row}
      /\ DomainId(i) /\ AliasTableOnly
  BY DEF ReplaceCatchAll
<1>b. row \in AliasRow /\ row.source = dom /\ row.domain_id = i
  BY DEF AliasRow, Source
<1> HIDE DEF row
<1>1. DBTypeOK'
  BY <1>a, <1>b DEF DBTypeOK
<1>2. KeysUnique'
  BY <1>a DEF KeysUnique
<1>3. HomedRows'
  <2>1. \A a \in virtual_aliases' : \E r \in virtual_domains :
           r.id = a.domain_id /\ r.name = HomeDomain(a.source)
    BY <1>a, <1>b DEF HomedRows, DomainId, HomeDomain
  <2> QED BY <1>a, <2>1 DEF HomedRows, GroupId, IsUser, HomeDomain
<1>4. OneCatchAll'
  BY <1>a, <1>b DEF OneCatchAll
<1> QED BY <1>1, <1>2, <1>3, <1>4

\* INSERT INTO mail_groups (GroupCreate): unique address, fresh id, homed.
LEMMA InsertGroupOK ==
    ASSUME TablesOK, NEW e \in Addr, NEW i \in Nat, NEW pol \in Policy, NEW ext \in BOOLEAN,
           InsertGroup(e, i, pol, ext),
           \A r \in virtual_domains : r.id = i => r.name = DomainOf[e], UNCHANGED issued
    PROVE  TablesOK'
<1> DEFINE row == [id |-> lastGroup + 1, email |-> e, domain_id |-> i, post_policy |-> pol,
                   allow_external |-> ext]
<1> USE DEF TablesOK
<1>a. /\ mail_groups' = mail_groups \cup {row}
      /\ ~IsGroup(e) /\ DomainId(i) /\ lastGroup' = lastGroup + 1
      /\ UNCHANGED << virtual_domains, virtual_users, virtual_aliases, mail_group_members,
                      mailbox_forwards, domain_api_keys, lastDomain >>
  BY DEF InsertGroup
<1>b. row \in GroupRow /\ row.email = e /\ row.domain_id = i /\ row.id = lastGroup + 1
  BY DEF GroupRow, DBTypeOK
<1> HIDE DEF row
<1>1. DBTypeOK'
  BY <1>a, <1>b DEF DBTypeOK
<1>2. KeysUnique'
  <2>1. \A g \in mail_groups : g.email # row.email /\ g.id # row.id /\ g.id <= lastGroup + 1
    BY <1>a, <1>b DEF IsGroup, KeysUnique, DBTypeOK, GroupRow
  <2>2. \A g, h \in mail_groups' : g.id = h.id \/ g.email = h.email => g = h
    BY <1>a, <2>1 DEF KeysUnique
  <2>3. \A g \in mail_groups' : g.id <= lastGroup'
    BY <1>a, <1>b, <2>1 DEF DBTypeOK
  <2> QED BY <1>a, <2>2, <2>3 DEF KeysUnique
<1>3. HomedRows'
  BY <1>a, <1>b DEF HomedRows, DomainId, GroupId, IsUser, HomeDomain
<1>4. OneCatchAll'
  BY <1>a DEF OneCatchAll
<1> QED BY <1>1, <1>2, <1>3, <1>4

\* UPDATE mail_groups (GroupUpdate) keeps ids, addresses and homes.
LEMMA UpdateGroupOK ==
    ASSUME TablesOK, NEW i \in Nat, NEW pol \in Policy, NEW ext \in BOOLEAN,
           UpdateGroup(i, pol, ext), UNCHANGED issued
    PROVE  TablesOK'
<1> DEFINE new(g) == IF g.id = i THEN [g EXCEPT !.post_policy = pol, !.allow_external = ext]
                     ELSE g
<1> USE DEF TablesOK
<1>a. /\ mail_groups' = {new(g) : g \in mail_groups}
      /\ UNCHANGED << virtual_domains, virtual_users, virtual_aliases, mail_group_members,
                      mailbox_forwards, domain_api_keys, lastDomain, lastGroup >>
  BY DEF UpdateGroup
<1>b. \A g \in mail_groups : /\ new(g) \in GroupRow
                             /\ new(g).id = g.id
                             /\ new(g).email = g.email
                             /\ new(g).domain_id = g.domain_id
  BY DEF DBTypeOK, GroupRow
<1> HIDE DEF new
<1>1. DBTypeOK'
  BY <1>a, <1>b DEF DBTypeOK
<1>2. KeysUnique'
  BY <1>a, <1>b DEF KeysUnique
<1>3. HomedRows'
  BY <1>a, <1>b DEF HomedRows, GroupId, IsUser, HomeDomain
<1>4. OneCatchAll'
  BY <1>a DEF OneCatchAll
<1> QED BY <1>1, <1>2, <1>3, <1>4

\* DELETE FROM mail_groups (GroupDelete): no member row survives its group.
LEMMA DeleteGroupOK ==
    ASSUME TablesOK, NEW e \in Addr, DeleteGroup(e), UNCHANGED issued
    PROVE  TablesOK'
<1> USE DEF TablesOK, DeleteGroup
<1>1. DBTypeOK'
  BY DEF DBTypeOK
<1>2. KeysUnique'
  BY DEF KeysUnique
<1>3. HomedRows'
  BY DEF HomedRows, GroupId, IsUser, HomeDomain
<1>4. OneCatchAll'
  BY DEF OneCatchAll
<1> QED BY <1>1, <1>2, <1>3, <1>4

\* The upsert of GroupAddMembers: one row for a member of a group that exists.
LEMMA UpsertMemberOK ==
    ASSUME TablesOK, NEW i \in Nat, NEW a \in Addr, NEW r \in Role, UpsertMember(i, a, r),
           UNCHANGED issued
    PROVE  TablesOK'
<1> DEFINE row == [group_id |-> i, member |-> a, role |-> r]
<1> USE DEF TablesOK, MemberTableOnly
<1>a. /\ mail_group_members' =
            {m \in mail_group_members : ~(m.group_id = i /\ m.member = a)} \cup {row}
      /\ GroupId(i) /\ MemberTableOnly
  BY DEF UpsertMember
<1>b. row \in MemberRow /\ row.group_id = i /\ row.member = a
  BY DEF MemberRow
<1> HIDE DEF row
<1>1. DBTypeOK'
  BY <1>a, <1>b DEF DBTypeOK
<1>2. KeysUnique'
  BY <1>a, <1>b DEF KeysUnique
<1>3. HomedRows'
  BY <1>a, <1>b DEF HomedRows, GroupId, IsUser, HomeDomain
<1>4. OneCatchAll'
  BY <1>a DEF OneCatchAll
<1> QED BY <1>1, <1>2, <1>3, <1>4

\* Any DELETE FROM mail_group_members (MailboxRemove, GroupDelete, GroupRemoveMember).
LEMMA DropMembersOK ==
    ASSUME TablesOK, mail_group_members' \subseteq mail_group_members, MemberTableOnly,
           UNCHANGED issued
    PROVE  TablesOK'
<1> USE DEF TablesOK, MemberTableOnly
<1>1. DBTypeOK'
  BY DEF DBTypeOK
<1>2. KeysUnique'
  BY DEF KeysUnique
<1>3. HomedRows'
  BY DEF HomedRows, GroupId, IsUser, HomeDomain
<1>4. OneCatchAll'
  BY DEF OneCatchAll
<1> QED BY <1>1, <1>2, <1>3, <1>4

\* UPDATE mail_group_members SET role (GroupSetMemberRole) keeps the keys.
LEMMA UpdateRoleOK ==
    ASSUME TablesOK, NEW i \in Nat, NEW a, NEW r \in Role, UpdateRole(i, a, r), UNCHANGED issued
    PROVE  TablesOK'
<1> DEFINE new(m) == IF m.group_id = i /\ m.member = a THEN [m EXCEPT !.role = r] ELSE m
<1> USE DEF TablesOK, MemberTableOnly
<1>a. mail_group_members' = {new(m) : m \in mail_group_members} /\ MemberTableOnly
  BY DEF UpdateRole
<1>b. \A m \in mail_group_members : /\ new(m) \in MemberRow
                                    /\ new(m).group_id = m.group_id
                                    /\ new(m).member = m.member
  BY DEF DBTypeOK, MemberRow
<1> HIDE DEF new
<1>1. DBTypeOK'
  BY <1>a, <1>b DEF DBTypeOK
<1>2. KeysUnique'
  BY <1>a, <1>b DEF KeysUnique
<1>3. HomedRows'
  BY <1>a, <1>b DEF HomedRows, GroupId, IsUser, HomeDomain
<1>4. OneCatchAll'
  BY <1>a DEF OneCatchAll
<1> QED BY <1>1, <1>2, <1>3, <1>4

\* The upsert of Generate, the only statement that goes with a change of issued: key k is
\* new, and it replaces the one key of its domain.
LEMMA UpsertKeyOK ==
    ASSUME TablesOK, NEW i \in Nat, NEW k \in ApiKey, NEW d \in Domain, UpsertKey(i, k),
           issued \in [ApiKey -> Domain \cup {None}], issued[k] = None,
           issued' = [issued EXCEPT ![k] = d],
           \A r \in virtual_domains : r.id = i => r.name = d
    PROVE  TablesOK'
<1> DEFINE row == [domain_id |-> i, key_hash |-> k]
<1> USE DEF TablesOK, KeyTableOnly
<1>a. /\ domain_api_keys' = {r \in domain_api_keys : r.domain_id # i} \cup {row}
      /\ DomainId(i) /\ KeyTableOnly
  BY DEF UpsertKey
<1>b. row \in KeyRow /\ row.domain_id = i /\ row.key_hash = k
  BY DEF KeyRow
<1>c. \A r \in domain_api_keys : r.key_hash # k
  <2>1. \A r \in domain_api_keys : issued[r.key_hash] \in Domain
    BY DEF HomedRows, DBTypeOK, DomainRow
  <2> QED BY <2>1, NoneAssumption DEF Source
<1>d. \A r \in domain_api_keys : issued'[r.key_hash] = issued[r.key_hash]
  BY <1>c DEF DBTypeOK, KeyRow
<1>e. issued'[k] = d
  OBVIOUS
<1> HIDE DEF row
<1>1. DBTypeOK'
  BY <1>a, <1>b DEF DBTypeOK
<1>2. KeysUnique'
  BY <1>a, <1>b, <1>c DEF KeysUnique
<1>3. HomedRows'
  <2>1. \A r \in domain_api_keys' : \E v \in virtual_domains :
           v.id = r.domain_id /\ v.name = issued'[r.key_hash]
    BY <1>a, <1>b, <1>d, <1>e DEF HomedRows, DomainId
  <2> QED BY <1>a, <2>1 DEF HomedRows, GroupId, IsUser, HomeDomain
<1>4. OneCatchAll'
  BY <1>a DEF OneCatchAll
<1> QED BY <1>1, <1>2, <1>3, <1>4

\* DELETE FROM domain_api_keys (Revoke).
LEMMA DeleteKeyOK ==
    ASSUME TablesOK, NEW d \in Domain, DeleteKey(d), UNCHANGED issued
    PROVE  TablesOK'
<1> USE DEF TablesOK, DeleteKey, KeyTableOnly
<1>1. DBTypeOK'
  BY DEF DBTypeOK
<1>2. KeysUnique'
  BY DEF KeysUnique
<1>3. HomedRows'
  BY DEF HomedRows, GroupId, IsUser, HomeDomain
<1>4. OneCatchAll'
  BY DEF OneCatchAll
<1> QED BY <1>1, <1>2, <1>3, <1>4

\* A step that leaves the tables alone.
LEMMA NoStatementOK ==
    ASSUME TablesOK, UNCHANGED << dbvars, issued >>
    PROVE  TablesOK'
  BY DEF TablesOK, dbvars, DBTypeOK, KeysUnique, HomedRows, OneCatchAll, GroupId, IsUser,
         HomeDomain

-----------------------------------------------------------------------------
(* Every step of a call keeps the invariant.                                *)

\* What IndInv says about one call.
CallOK(q) == q \in Request /\ InputsOK(q) /\ ReadIdOK(q)

\* IndInv split into the part about the tables and the part about the calls.
LEMMA IndInvParts ==
    IndInv <=> /\ TablesOK
               /\ req \in [Client -> Request]
               /\ maildirs \subseteq Addr
               /\ issued \in [ApiKey -> Domain \cup {None}]
               /\ CallsOK
  BY DEF IndInv, TablesOK, TypeOK

\* A call that has returned holds nothing.
LEMMA IdleOK == CallOK(Idle)
<1>1. Idle \in Request
  BY DEF Idle, Request, AllOps, Label, Role, Policy
<1>2. InputsOK(Idle) /\ ReadIdOK(Idle)
  BY DEF Idle, InputsOK, ReadIdOK, ByDomain
<1> QED BY <1>1, <1>2 DEF CallOK

\* A step of client c that keeps the tables consistent and registers no domain keeps the
\* invariant if it leaves c with a good request: the other calls' ids stay good.
LEMMA CallStep ==
    ASSUME IndInv, NEW c \in Client, NEW q, CallOK(q),
           req' = [req EXCEPT ![c] = q],
           TablesOK', maildirs' \subseteq Addr, issued' \in [ApiKey -> Domain \cup {None}],
           virtual_domains' \subseteq virtual_domains, lastDomain' = lastDomain
    PROVE  IndInv'
<1>1. req \in [Client -> Request] /\ CallsOK
  BY IndInvParts
<1>2. req' \in [Client -> Request]
  BY <1>1 DEF CallOK
<1>3. \A d \in Client : req'[d] = IF d = c THEN q ELSE req[d]
  BY <1>1
<1>4. ASSUME NEW d \in Client PROVE InputsOK(req[d])' /\ ReadIdOK(req[d])'
  <2>1. PICK p : p = req'[d]
    OBVIOUS
  <2>2. InputsOK(p) /\ ReadIdOK(p)
    BY <1>1, <1>3, <2>1 DEF CallsOK, CallOK
  <2>3. ReadIdOK(req[d])'
    BY <2>1, <2>2 DEF ReadIdOK, HomeDomain
  <2> QED BY <2>1, <2>2, <2>3 DEF InputsOK
<1>5. CallsOK'
  BY <1>4 DEF CallsOK
<1> QED BY <1>2, <1>5 DEF IndInv, TablesOK, TypeOK

\* The tables keep their domains, and the ids of domains are not handed out.
SameDomains == virtual_domains' \subseteq virtual_domains /\ lastDomain' = lastDomain

\* CallStep for a call that returns.
LEMMA ReturnStep ==
    ASSUME IndInv, NEW c \in Client, Return(c), TablesOK', SameDomains,
           maildirs' \subseteq Addr, issued' \in [ApiKey -> Domain \cup {None}]
    PROVE  IndInv'
  BY CallStep, IdleOK DEF Return, SameDomains

\* CallStep for a call that goes on to its next statement.
LEMMA GotoStep ==
    ASSUME IndInv, NEW c \in Client, NEW l \in Label, Goto(c, l), TablesOK', SameDomains,
           l = "createMaildir" => req[c].op \in {"MailboxAdd", "MailboxCreate"},
           maildirs' \subseteq Addr, issued' \in [ApiKey -> Domain \cup {None}]
    PROVE  IndInv'
<1>1. PICK q : q = req[c]
  OBVIOUS
<1>2. CallOK(q)
  BY <1>1, IndInvParts DEF CallsOK, CallOK
<1>3. PICK n : n = [q EXCEPT !.at = l]
  OBVIOUS
<1>4. /\ n \in Request
      /\ n.at = l /\ n.op = q.op /\ n.key = q.key /\ n.arg = q.arg /\ n.pw = q.pw
      /\ n.todo = q.todo /\ n.id = q.id
  BY <1>2, <1>3 DEF CallOK, Request
<1>5. InputsOK(n)
  BY <1>1, <1>2, <1>4 DEF CallOK, InputsOK
<1>6. ReadIdOK(n)
  BY <1>2, <1>4 DEF CallOK, ReadIdOK
<1>7. req' = [req EXCEPT ![c] = n]
  BY <1>1, <1>3, IndInvParts DEF Goto
<1> QED BY <1>4, <1>5, <1>6, <1>7, CallStep DEF CallOK, SameDomains

\* A step of a call that leaves every request as it is.
LEMMA SameCallsStep ==
    ASSUME IndInv, UNCHANGED req, TablesOK', SameDomains,
           maildirs' \subseteq Addr, issued' \in [ApiKey -> Domain \cup {None}]
    PROVE  IndInv'
<1>1. req \in [Client -> Request] /\ CallsOK
  BY IndInvParts
<1>2. CallsOK'
  BY <1>1 DEF CallsOK, InputsOK, ReadIdOK, SameDomains, HomeDomain
<1> QED BY <1>1, <1>2 DEF IndInv, TablesOK, TypeOK

\* The SELECT id FROM virtual_domains that MailboxAdd, MailboxCreate, AliasAdd, GroupCreate,
\* CatchAllSet and Generate start with leaves the call with the id of its own domain.
LEMMA domainIDStep ==
    ASSUME IndInv, NEW c \in Client, NEW q \in Request, InputsOK(q), domainID(c, q)
    PROVE  IndInv'
<1>1. PICK r \in virtual_domains : /\ r.name = HomeDomain(q.key)
                                   /\ req' = [req EXCEPT ![c] = [q EXCEPT !.id = r.id]]
  BY DEF domainID
<1>2. /\ UNCHANGED << dbvars, issued >> /\ maildirs' = maildirs
      /\ SameDomains
  BY DEF domainID, dbvars, Spool, SameDomains
<1>3. /\ TablesOK /\ maildirs \subseteq Addr
      /\ issued \in [ApiKey -> Domain \cup {None}]
  BY IndInvParts
<1>4. TablesOK'
  BY <1>2, <1>3, NoStatementOK
<1>5. r.id \in Nat /\ r.id <= lastDomain /\ \A v \in virtual_domains : v.id = r.id => v = r
  BY <1>3 DEF TablesOK, DBTypeOK, DomainRow, KeysUnique
<1>6. PICK n : n = [q EXCEPT !.id = r.id]
  OBVIOUS
<1>7. /\ n \in Request
      /\ n.at = q.at /\ n.op = q.op /\ n.key = q.key /\ n.arg = q.arg /\ n.pw = q.pw
      /\ n.todo = q.todo /\ n.id = r.id
  BY <1>5, <1>6 DEF Request
<1>8. InputsOK(n) /\ ReadIdOK(n)
  BY <1>1, <1>5, <1>7 DEF InputsOK, ReadIdOK
<1> QED BY <1>1, <1>2, <1>3, <1>4, <1>6, <1>7, <1>8, CallStep DEF CallOK, SameDomains

\* GroupGet leaves the call with the id of a group.
LEMMA GroupGetStep ==
    ASSUME IndInv, NEW c \in Client, NEW q \in Request, InputsOK(q), q.op \notin ByDomain,
           q.op # "ForwardSet", NEW g \in mail_groups, GroupGet(c, g, q)
    PROVE  IndInv'
<1>2. UNCHANGED << dbvars, issued >> /\ maildirs' = maildirs /\ SameDomains
  BY DEF GroupGet, dbvars, Spool, SameDomains
<1>3. /\ TablesOK /\ maildirs \subseteq Addr
      /\ issued \in [ApiKey -> Domain \cup {None}]
  BY IndInvParts
<1>4. TablesOK'
  BY <1>2, <1>3, NoStatementOK
<1>5. g.id \in Nat /\ g.allow_external \in BOOLEAN /\ g.email \in Source
  BY <1>3 DEF TablesOK, DBTypeOK, GroupRow, Source
<1>6. PICK n : n = [q EXCEPT !.key = g.email, !.id = g.id, !.ext = g.allow_external]
  OBVIOUS
<1>7. n \in Request /\ n.at = q.at /\ n.op = q.op /\ n.todo = q.todo
  BY <1>5, <1>6 DEF Request
<1>8. InputsOK(n) /\ ReadIdOK(n)
  BY <1>7 DEF InputsOK, ReadIdOK, ByDomain
<1> QED BY <1>2, <1>3, <1>4, <1>6, <1>7, <1>8, CallStep DEF CallOK, SameDomains, GroupGet

-----------------------------------------------------------------------------
(* The operations, one lemma for each.                                      *)

\* What a step may use about the state and about the request of its client.
LEMMA StateOK ==
    ASSUME IndInv, NEW c \in Client
    PROVE  /\ TablesOK /\ CallOK(req[c])
           /\ maildirs \subseteq Addr /\ issued \in [ApiKey -> Domain \cup {None}]
  BY IndInvParts DEF CallsOK, CallOK

\* A step that runs no statement and leaves the spool alone.
LEMMA ReadStep ==
    ASSUME IndInv, UNCHANGED << dbvars, Spool >>
    PROVE  /\ TablesOK' /\ SameDomains
           /\ maildirs' \subseteq Addr /\ issued' \in [ApiKey -> Domain \cup {None}]
<1>1. TablesOK'
  BY IndInvParts, NoStatementOK DEF dbvars, Spool
<1> QED BY <1>1, IndInvParts DEF dbvars, Spool, SameDomains

\* DomainAdd: the id of a new domain is larger than any id a running call has read.
LEMMA DomainAddStep ==
    ASSUME IndInv, NEW c \in Client, DomainAdd(c)
    PROVE  IndInv'
<1>1. PICK n \in Hostable : InsertDomain(n)
  BY DEF DomainAdd
<1>2. UNCHANGED << req, maildirs, issued >>
  BY DEF DomainAdd, Spool
<1>3. /\ TablesOK /\ req \in [Client -> Request] /\ maildirs \subseteq Addr
      /\ issued \in [ApiKey -> Domain \cup {None}] /\ CallsOK
  BY IndInvParts
<1>4. TablesOK'
  BY <1>1, <1>2, <1>3, InputAssumption, InsertDomainOK
<1>5. /\ lastDomain \in Nat /\ lastDomain' \in Nat /\ lastDomain <= lastDomain'
      /\ \A r \in virtual_domains' : r \in virtual_domains \/ r.id = lastDomain + 1
  BY <1>1, <1>3 DEF InsertDomain, TablesOK, DBTypeOK
<1>6. ASSUME NEW d \in Client PROVE InputsOK(req[d])' /\ ReadIdOK(req[d])'
  <2>1. PICK q : q = req[d]
    OBVIOUS
  <2>2. InputsOK(q) /\ ReadIdOK(q) /\ q.id \in Nat /\ req'[d] = q
    BY <1>2, <1>3, <2>1 DEF CallsOK, Request
  <2>3. ReadIdOK(req[d])'
    BY <1>5, <2>1, <2>2 DEF ReadIdOK, HomeDomain
  <2> QED BY <2>1, <2>2, <2>3 DEF InputsOK
<1>7. CallsOK'
  BY <1>6 DEF CallsOK
<1> QED BY <1>2, <1>3, <1>4, <1>7 DEF IndInv, TablesOK, TypeOK

\* DomainRemove: the cascade leaves no row of the domain behind.
LEMMA DomainRemoveStep ==
    ASSUME IndInv, NEW c \in Client, DomainRemove(c)
    PROVE  IndInv'
<1>1. PICK d \in Domain : DeleteDomain(d)
  BY DEF DomainRemove
<1>2. UNCHANGED << req, maildirs, issued >> /\ SameDomains
  BY <1>1 DEF DomainRemove, Spool, DeleteDomain, SameDomains
<1>3. TablesOK'
  BY <1>1, <1>2, StateOK, DeleteDomainOK
<1> QED BY <1>2, <1>3, StateOK, SameCallsStep

\* The check of MailboxAdd and AliasAdd.
LEMMA notAGroupStep ==
    ASSUME IndInv, NEW c \in Client, notAGroup(c)
    PROVE  IndInv'
<1>1. UNCHANGED << dbvars, Spool >> /\ (Return(c) \/ Goto(c, "insert"))
  BY DEF notAGroup
<1> QED BY <1>1, ReadStep, ReturnStep, GotoStep DEF Label

\* The check of MailboxCreate and GroupCreate.
LEMMA CheckAddressKindStep ==
    ASSUME IndInv, NEW c \in Client, CheckAddressKind(c)
    PROVE  IndInv'
<1>1. UNCHANGED << dbvars, Spool >> /\ (Return(c) \/ Goto(c, "insert"))
  BY DEF CheckAddressKind
<1> QED BY <1>1, ReadStep, ReturnStep, GotoStep DEF Label

\* The first statement of MailboxAdd.
LEMMA MailboxAddStep ==
    ASSUME IndInv, NEW c \in Client, MailboxAdd(c)
    PROVE  IndInv'
<1>1. PICK e \in Addr, p \in Password :
         domainID(c, [Idle EXCEPT !.op = "MailboxAdd", !.at = "notAGroup", !.key = e, !.pw = p])
  BY DEF MailboxAdd
<1>2. PICK q : q = [Idle EXCEPT !.op = "MailboxAdd", !.at = "notAGroup", !.key = e, !.pw = p]
  OBVIOUS
<1>3. q \in Request /\ q.op = "MailboxAdd" /\ q.at = "notAGroup" /\ q.key = e /\ q.pw = p
  BY <1>2, IdleOK DEF CallOK, Request, AllOps, Label, Source
<1>4. InputsOK(q)
  BY <1>3 DEF InputsOK
<1> QED BY <1>1, <1>2, <1>3, <1>4, domainIDStep

\* The upsert of MailboxAdd, with a domID that may be stale.
LEMMA MailboxAddUpsertStep ==
    ASSUME IndInv, NEW c \in Client, MailboxAddUpsert(c)
    PROVE  IndInv'
<1>1. PICK q : q = req[c]
  OBVIOUS
<1>2. CallOK(q) /\ q.op = "MailboxAdd" /\ UNCHANGED << maildirs, issued >>
  BY <1>1, StateOK DEF MailboxAddUpsert, At, Spool
<1>3. PICK e \in Addr, i \in Nat, p \in Password :
         /\ e = q.key /\ i = q.id /\ p = q.pw
         /\ \A r \in virtual_domains : r.id = i => r.name = DomainOf[e]
  BY <1>2, AddressAssumption
     DEF CallOK, Request, InputsOK, ReadIdOK, ByDomain, HomeDomain
<1>4. CASE InsertUser(e, i, p) /\ Goto(c, "createMaildir")
  <2>1. TablesOK'
    BY <1>2, <1>3, <1>4, StateOK, InsertUserOK
  <2> QED BY <1>1, <1>2, <1>4, <2>1, StateOK, GotoStep
          DEF InsertUser, UserTableOnly, SameDomains, Label
<1>5. CASE UpdatePassword(e, p) /\ Goto(c, "createMaildir")
  <2>1. TablesOK'
    BY <1>2, <1>5, StateOK, UpdatePasswordOK
  <2> QED BY <1>1, <1>2, <1>5, <2>1, StateOK, GotoStep
          DEF UpdatePassword, UserTableOnly, SameDomains, Label
<1>6. CASE Return(c) /\ UNCHANGED dbvars
  BY <1>2, <1>6, ReadStep, ReturnStep DEF Spool
<1> QED BY <1>1, <1>3, <1>4, <1>5, <1>6 DEF MailboxAddUpsert, UpsertUser

\* The first statement of MailboxCreate.
LEMMA MailboxCreateStep ==
    ASSUME IndInv, NEW c \in Client, MailboxCreate(c)
    PROVE  IndInv'
<1>1. PICK e \in Addr, p \in Password :
         domainID(c, [Idle EXCEPT !.op = "MailboxCreate", !.at = "addressKind", !.key = e,
                                  !.pw = p])
  BY DEF MailboxCreate
<1>2. PICK q : q = [Idle EXCEPT !.op = "MailboxCreate", !.at = "addressKind", !.key = e,
                                !.pw = p]
  OBVIOUS
<1>3. q \in Request /\ q.op = "MailboxCreate" /\ q.at = "addressKind" /\ q.key = e /\ q.pw = p
  BY <1>2, IdleOK DEF CallOK, Request, AllOps, Label, Source
<1>4. InputsOK(q)
  BY <1>3 DEF InputsOK
<1> QED BY <1>1, <1>2, <1>3, <1>4, domainIDStep

\* The insert of MailboxCreate, with a domID that may be stale.
LEMMA MailboxCreateInsertStep ==
    ASSUME IndInv, NEW c \in Client, MailboxCreateInsert(c)
    PROVE  IndInv'
<1>1. PICK q : q = req[c]
  OBVIOUS
<1>2. CallOK(q) /\ q.op = "MailboxCreate" /\ UNCHANGED << maildirs, issued >>
  BY <1>1, StateOK DEF MailboxCreateInsert, At, Spool
<1>3. PICK e \in Addr, i \in Nat, p \in Password :
         /\ e = q.key /\ i = q.id /\ p = q.pw
         /\ \A r \in virtual_domains : r.id = i => r.name = DomainOf[e]
  BY <1>2, AddressAssumption
     DEF CallOK, Request, InputsOK, ReadIdOK, ByDomain, HomeDomain
<1>4. CASE InsertUser(e, i, p) /\ Goto(c, "createMaildir")
  <2>1. TablesOK'
    BY <1>2, <1>3, <1>4, StateOK, InsertUserOK
  <2> QED BY <1>1, <1>2, <1>4, <2>1, StateOK, GotoStep
          DEF InsertUser, UserTableOnly, SameDomains, Label
<1>5. CASE Return(c) /\ UNCHANGED dbvars
  BY <1>2, <1>5, ReadStep, ReturnStep DEF Spool
<1> QED BY <1>1, <1>3, <1>4, <1>5 DEF MailboxCreateInsert

\* createMaildir: the request still names an address.
LEMMA createMaildirStep ==
    ASSUME IndInv, NEW c \in Client, createMaildir(c)
    PROVE  IndInv'
<1>1. req[c].key \in Addr
  BY StateOK DEF createMaildir, CallOK, InputsOK
<1>2. UNCHANGED << dbvars, issued >> /\ SameDomains
  BY DEF createMaildir, dbvars, SameDomains
<1>3. TablesOK'
  BY <1>2, StateOK, NoStatementOK
<1> QED BY <1>1, <1>2, <1>3, StateOK, ReturnStep DEF createMaildir

\* The DELETE of MailboxRemove, with its cascade.
LEMMA MailboxRemoveStep ==
    ASSUME IndInv, NEW c \in Client, MailboxRemove(c)
    PROVE  IndInv'
<1>1. PICK e \in Addr :
         /\ DeleteUser(e)
         /\ req' = [req EXCEPT ![c] = [Idle EXCEPT !.op = "MailboxRemove", !.at = "leaveGroups",
                                                   !.key = e]]
  BY DEF MailboxRemove
<1>2. UNCHANGED << maildirs, issued >> /\ SameDomains
  BY <1>1 DEF MailboxRemove, Spool, DeleteUser, SameDomains
<1>3. TablesOK'
  BY <1>1, <1>2, StateOK, DeleteUserOK
<1>4. PICK q : q = [Idle EXCEPT !.op = "MailboxRemove", !.at = "leaveGroups", !.key = e]
  OBVIOUS
<1>5. q \in Request /\ q.op = "MailboxRemove" /\ q.at = "leaveGroups"
  BY <1>4, IdleOK DEF CallOK, Request, AllOps, Label, Source
<1>6. CallOK(q)
  BY <1>5 DEF CallOK, InputsOK, ReadIdOK, ByDomain
<1> QED BY <1>1, <1>2, <1>3, <1>4, <1>6, StateOK, CallStep DEF SameDomains

\* The second DELETE of MailboxRemove.
LEMMA MailboxRemoveLeaveGroupsStep ==
    ASSUME IndInv, NEW c \in Client, MailboxRemoveLeaveGroups(c)
    PROVE  IndInv'
<1>1. UNCHANGED << maildirs, issued >> /\ Goto(c, "removeAll") /\ MemberTableOnly
      /\ mail_group_members' \subseteq mail_group_members
  BY DEF MailboxRemoveLeaveGroups, Spool, DeleteMemberships
<1>2. TablesOK'
  BY <1>1, StateOK, DropMembersOK
<1> QED BY <1>1, <1>2, StateOK, GotoStep DEF MemberTableOnly, SameDomains, Label

\* The os.RemoveAll of MailboxRemove.
LEMMA MailboxRemoveSpoolStep ==
    ASSUME IndInv, NEW c \in Client, MailboxRemoveSpool(c)
    PROVE  IndInv'
<1>1. UNCHANGED << dbvars, issued >> /\ SameDomains /\ Return(c) /\ maildirs' \subseteq Addr
  BY StateOK DEF MailboxRemoveSpool, dbvars, SameDomains
<1>2. TablesOK'
  BY <1>1, StateOK, NoStatementOK
<1> QED BY <1>1, <1>2, StateOK, ReturnStep

\* MailboxPasswd.
LEMMA MailboxPasswdStep ==
    ASSUME IndInv, NEW c \in Client, NEW e \in Addr, NEW p \in Password, MailboxPasswd(c, e, p)
    PROVE  IndInv'
<1>1. UpdatePassword(e, p)
  BY DEF MailboxPasswd
<1>2. UNCHANGED << req, maildirs, issued >> /\ SameDomains
  BY <1>1 DEF MailboxPasswd, Spool, UpdatePassword, UserTableOnly, SameDomains
<1>3. TablesOK'
  BY <1>1, <1>2, StateOK, UpdatePasswordOK
<1> QED BY <1>2, <1>3, StateOK, SameCallsStep

\* MailboxSetEnabled.
LEMMA MailboxSetEnabledStep ==
    ASSUME IndInv, NEW c \in Client, NEW e \in Addr, NEW b \in BOOLEAN,
           MailboxSetEnabled(c, e, b)
    PROVE  IndInv'
<1>1. UpdateEnabled(e, b)
  BY DEF MailboxSetEnabled
<1>2. UNCHANGED << req, maildirs, issued >> /\ SameDomains
  BY <1>1 DEF MailboxSetEnabled, Spool, UpdateEnabled, UserTableOnly, SameDomains
<1>3. TablesOK'
  BY <1>1, <1>2, StateOK, UpdateEnabledOK
<1> QED BY <1>2, <1>3, StateOK, SameCallsStep

\* The check of ForwardSet.
LEMMA ForwardSetStep ==
    ASSUME IndInv, NEW c \in Client, ForwardSet(c)
    PROVE  IndInv'
<1>1. PICK e \in Addr, d \in Addr, keep \in BOOLEAN :
         req' = [req EXCEPT ![c] = [Idle EXCEPT !.op = "ForwardSet", !.at = "apply", !.key = e,
                                                !.arg = d, !.flag = keep]]
  BY DEF ForwardSet
<1>2. PICK q : q = [Idle EXCEPT !.op = "ForwardSet", !.at = "apply", !.key = e, !.arg = d,
                                !.flag = keep]
  OBVIOUS
<1>3. q \in Request /\ q.op = "ForwardSet" /\ q.at = "apply" /\ q.key = e /\ q.arg = d
  BY <1>2, IdleOK DEF CallOK, Request, AllOps, Label, Source
<1>4. CallOK(q)
  BY <1>3 DEF CallOK, InputsOK, ReadIdOK, ByDomain
<1>5. UNCHANGED << dbvars, Spool >>
  BY DEF ForwardSet
<1> QED BY <1>1, <1>2, <1>4, <1>5, ReadStep, CallStep DEF SameDomains

\* The upsert of ForwardSet.
LEMMA ForwardSetUpsertStep ==
    ASSUME IndInv, NEW c \in Client, ForwardSetUpsert(c)
    PROVE  IndInv'
<1>1. PICK q : q = req[c]
  OBVIOUS
<1>2. CallOK(q) /\ q.op = "ForwardSet" /\ UNCHANGED << maildirs, issued >> /\ Return(c)
  BY <1>1, StateOK DEF ForwardSetUpsert, At, Spool
<1>3. PICK e \in Addr, d \in Addr, keep \in BOOLEAN : e = q.key /\ d = q.arg /\ keep = q.flag
  BY <1>2 DEF CallOK, Request, InputsOK
<1>4. CASE UpsertForward(e, d, keep)
  <2>1. TablesOK'
    BY <1>2, <1>4, StateOK, UpsertForwardOK
  <2> QED BY <1>2, <1>4, <2>1, StateOK, ReturnStep
          DEF UpsertForward, ForwardTableOnly, SameDomains
<1>5. CASE UNCHANGED dbvars
  BY <1>2, <1>5, ReadStep, ReturnStep DEF Spool
<1> QED BY <1>1, <1>3, <1>4, <1>5 DEF ForwardSetUpsert

\* ForwardClear.
LEMMA ForwardClearStep ==
    ASSUME IndInv, NEW c \in Client, NEW e \in Addr, ForwardClear(c, e)
    PROVE  IndInv'
<1>1. DeleteForward(e)
  BY DEF ForwardClear
<1>2. UNCHANGED << req, maildirs, issued >> /\ SameDomains
  BY <1>1 DEF ForwardClear, Spool, DeleteForward, ForwardTableOnly, SameDomains
<1>3. TablesOK'
  BY <1>1, <1>2, StateOK, DeleteForwardOK
<1> QED BY <1>2, <1>3, StateOK, SameCallsStep

\* The first statement of AliasAdd.
LEMMA AliasAddStep ==
    ASSUME IndInv, NEW c \in Client, AliasAdd(c)
    PROVE  IndInv'
<1>1. PICK s \in Addr, d \in Addr :
         domainID(c, [Idle EXCEPT !.op = "AliasAdd", !.at = "notAGroup", !.key = s, !.arg = d])
  BY DEF AliasAdd
<1>2. PICK q : q = [Idle EXCEPT !.op = "AliasAdd", !.at = "notAGroup", !.key = s, !.arg = d]
  OBVIOUS
<1>3. q \in Request /\ q.op = "AliasAdd" /\ q.at = "notAGroup" /\ q.key = s /\ q.arg = d
  BY <1>2, IdleOK DEF CallOK, Request, AllOps, Label, Source
<1>4. InputsOK(q)
  BY <1>3 DEF InputsOK
<1> QED BY <1>1, <1>2, <1>3, <1>4, domainIDStep

\* The INSERT IGNORE of AliasAdd, with a domID that may be stale.
LEMMA AliasAddInsertStep ==
    ASSUME IndInv, NEW c \in Client, AliasAddInsert(c)
    PROVE  IndInv'
<1>1. PICK q : q = req[c]
  OBVIOUS
<1>2. CallOK(q) /\ q.op = "AliasAdd" /\ UNCHANGED << maildirs, issued >> /\ Return(c)
  BY <1>1, StateOK DEF AliasAddInsert, At, Spool
<1>3. PICK s \in Addr, d \in Addr, i \in Nat :
         /\ s = q.key /\ d = q.arg /\ i = q.id
         /\ \A r \in virtual_domains : r.id = i => r.name = DomainOf[s]
  BY <1>2, AddressAssumption
     DEF CallOK, Request, InputsOK, ReadIdOK, ByDomain, HomeDomain
<1>4. InsertIgnoreAlias(s, d, i)
  BY <1>1, <1>3 DEF AliasAddInsert
<1>5. TablesOK'
  BY <1>2, <1>3, <1>4, StateOK, InsertIgnoreAliasOK
<1> QED BY <1>2, <1>4, <1>5, StateOK, ReturnStep
        DEF InsertIgnoreAlias, AliasTableOnly, SameDomains

\* AliasRemove.
LEMMA AliasRemoveStep ==
    ASSUME IndInv, NEW c \in Client, NEW s \in Source, NEW d \in Addr, AliasRemove(c, s, d)
    PROVE  IndInv'
<1>1. virtual_aliases' \subseteq virtual_aliases /\ AliasTableOnly
  BY DEF AliasRemove, DeleteAlias
<1>2. UNCHANGED << req, maildirs, issued >> /\ SameDomains
  BY <1>1 DEF AliasRemove, Spool, AliasTableOnly, SameDomains
<1>3. TablesOK'
  BY <1>1, <1>2, StateOK, DeleteAliasOK
<1> QED BY <1>2, <1>3, StateOK, SameCallsStep

\* The first statement of CatchAllSet.
LEMMA CatchAllSetStep ==
    ASSUME IndInv, NEW c \in Client, CatchAllSet(c)
    PROVE  IndInv'
<1>1. PICK dom \in Domain, d \in Addr \cup {None} :
         domainID(c, [Idle EXCEPT !.op = "CatchAllSet", !.at = "replace", !.key = dom, !.arg = d])
  BY DEF CatchAllSet
<1>2. PICK q : q = [Idle EXCEPT !.op = "CatchAllSet", !.at = "replace", !.key = dom, !.arg = d]
  OBVIOUS
<1>3. q \in Request /\ q.op = "CatchAllSet" /\ q.at = "replace" /\ q.key = dom
  BY <1>2, IdleOK DEF CallOK, Request, AllOps, Label, Source
<1>4. InputsOK(q)
  BY <1>3 DEF InputsOK
<1> QED BY <1>1, <1>2, <1>3, <1>4, domainIDStep

\* The transaction of CatchAllSet, with a domID that may be stale.
LEMMA CatchAllReplaceStep ==
    ASSUME IndInv, NEW c \in Client, CatchAllReplace(c)
    PROVE  IndInv'
<1>1. PICK q : q = req[c]
  OBVIOUS
<1>2. CallOK(q) /\ q.op = "CatchAllSet" /\ UNCHANGED << maildirs, issued >> /\ Return(c)
  BY <1>1, StateOK DEF CatchAllReplace, At, Spool
<1>3. PICK dom \in Domain, i \in Nat :
         /\ dom = q.key /\ i = q.id
         /\ \A r \in virtual_domains : r.id = i => r.name = dom
  BY <1>2 DEF CallOK, Request, InputsOK, ReadIdOK, ByDomain, HomeDomain
<1>4. CASE DeleteSource(dom)
  <2>1. virtual_aliases' \subseteq virtual_aliases /\ AliasTableOnly
    BY <1>4 DEF DeleteSource
  <2>2. TablesOK'
    BY <1>2, <2>1, StateOK, DeleteAliasOK
  <2> QED BY <1>2, <2>1, <2>2, StateOK, ReturnStep DEF AliasTableOnly, SameDomains
<1>5. CASE q.arg # None /\ ReplaceCatchAll(dom, q.arg, i)
  <2>1. PICK d \in Addr : d = q.arg
    BY <1>2, <1>5 DEF CallOK, Request
  <2>2. TablesOK'
    BY <1>2, <1>3, <1>5, <2>1, StateOK, ReplaceCatchAllOK
  <2> QED BY <1>2, <1>5, <2>2, StateOK, ReturnStep
          DEF ReplaceCatchAll, AliasTableOnly, SameDomains
<1>6. CASE UNCHANGED dbvars
  BY <1>2, <1>6, ReadStep, ReturnStep DEF Spool
<1> QED BY <1>1, <1>3, <1>4, <1>5, <1>6 DEF CatchAllReplace

\* The first statement of GroupCreate.
LEMMA GroupCreateStep ==
    ASSUME IndInv, NEW c \in Client, GroupCreate(c)
    PROVE  IndInv'
<1>1. PICK e \in Addr, p \in Policies, ext \in BOOLEAN :
         domainID(c, [Idle EXCEPT !.op = "GroupCreate", !.at = "addressKind", !.key = e,
                                  !.policy = p, !.flag = ext])
  BY DEF GroupCreate
<1>2. PICK q : q = [Idle EXCEPT !.op = "GroupCreate", !.at = "addressKind", !.key = e,
                                !.policy = p, !.flag = ext]
  OBVIOUS
<1>3. q \in Request /\ q.op = "GroupCreate" /\ q.at = "addressKind" /\ q.key = e
  BY <1>2, IdleOK, InputAssumption DEF CallOK, Request, AllOps, Label, Source
<1>4. InputsOK(q)
  BY <1>3 DEF InputsOK
<1> QED BY <1>1, <1>2, <1>3, <1>4, domainIDStep

\* The insert of GroupCreate, with a domID that may be stale.
LEMMA GroupCreateInsertStep ==
    ASSUME IndInv, NEW c \in Client, GroupCreateInsert(c)
    PROVE  IndInv'
<1>1. PICK q : q = req[c]
  OBVIOUS
<1>2. CallOK(q) /\ q.op = "GroupCreate" /\ UNCHANGED << maildirs, issued >> /\ Return(c)
  BY <1>1, StateOK DEF GroupCreateInsert, At, Spool
<1>3. PICK e \in Addr, i \in Nat, pol \in Policy, ext \in BOOLEAN :
         /\ e = q.key /\ i = q.id /\ pol = q.policy /\ ext = q.flag
         /\ \A r \in virtual_domains : r.id = i => r.name = DomainOf[e]
  BY <1>2, AddressAssumption
     DEF CallOK, Request, InputsOK, ReadIdOK, ByDomain, HomeDomain
<1>4. CASE InsertGroup(e, i, pol, ext)
  <2>1. TablesOK'
    BY <1>2, <1>3, <1>4, StateOK, InsertGroupOK
  <2> QED BY <1>2, <1>4, <2>1, StateOK, ReturnStep DEF InsertGroup, SameDomains
<1>5. CASE UNCHANGED dbvars
  BY <1>2, <1>5, ReadStep, ReturnStep DEF Spool
<1> QED BY <1>1, <1>3, <1>4, <1>5 DEF GroupCreateInsert

\* The GroupGet of GroupUpdate.
LEMMA GroupUpdateStep ==
    ASSUME IndInv, NEW c \in Client, GroupUpdate(c)
    PROVE  IndInv'
<1>1. PICK g \in mail_groups, p \in Policies, ext \in BOOLEAN :
         GroupGet(c, g, [Idle EXCEPT !.op = "GroupUpdate", !.policy = p, !.flag = ext,
            !.at = IF ~ext /\ g.allow_external THEN "members" ELSE "update"])
  BY DEF GroupUpdate
<1>l. PICK l \in {"members", "update"} :
         l = IF ~ext /\ g.allow_external THEN "members" ELSE "update"
  OBVIOUS
<1>2. PICK q : q = [Idle EXCEPT !.op = "GroupUpdate", !.policy = p, !.flag = ext, !.at = l]
  OBVIOUS
<1>m. l \in Label /\ p \in Policy /\ Idle \in Request
  BY IdleOK, InputAssumption DEF Label, CallOK
<1>3. q \in Request /\ q.op = "GroupUpdate" /\ q.at = l
  BY <1>2, <1>m DEF Request, AllOps
<1>4. InputsOK(q) /\ q.op \notin ByDomain
  BY <1>3, <1>l DEF InputsOK, ByDomain
<1> QED BY <1>1, <1>l, <1>2, <1>3, <1>4, GroupGetStep

\* The GroupMembers check of GroupUpdate.
LEMMA GroupUpdateMembersStep ==
    ASSUME IndInv, NEW c \in Client, GroupUpdateMembers(c)
    PROVE  IndInv'
<1>1. UNCHANGED << dbvars, Spool >> /\ (Return(c) \/ Goto(c, "update"))
  BY DEF GroupUpdateMembers
<1> QED BY <1>1, ReadStep, ReturnStep, GotoStep DEF Label

\* The UPDATE of GroupUpdate.
LEMMA GroupUpdateApplyStep ==
    ASSUME IndInv, NEW c \in Client, GroupUpdateApply(c)
    PROVE  IndInv'
<1>1. PICK q : q = req[c]
  OBVIOUS
<1>2. CallOK(q) /\ UNCHANGED << maildirs, issued >> /\ Return(c)
  BY <1>1, StateOK DEF GroupUpdateApply, Spool
<1>3. PICK i \in Nat, pol \in Policy, ext \in BOOLEAN :
         i = q.id /\ pol = q.policy /\ ext = q.flag
  BY <1>2 DEF CallOK, Request
<1>4. UpdateGroup(i, pol, ext)
  BY <1>1, <1>3 DEF GroupUpdateApply
<1>5. TablesOK'
  BY <1>2, <1>4, StateOK, UpdateGroupOK
<1> QED BY <1>2, <1>4, <1>5, StateOK, ReturnStep DEF UpdateGroup, SameDomains

\* The first DELETE of GroupDelete, with its cascade.
LEMMA GroupDeleteStep ==
    ASSUME IndInv, NEW c \in Client, GroupDelete(c)
    PROVE  IndInv'
<1>1. PICK e \in Addr :
         /\ DeleteGroup(e)
         /\ req' = [req EXCEPT ![c] = [Idle EXCEPT !.op = "GroupDelete", !.at = "leaveGroups",
                                                   !.key = e]]
  BY DEF GroupDelete
<1>2. UNCHANGED << maildirs, issued >> /\ SameDomains
  BY <1>1 DEF GroupDelete, Spool, DeleteGroup, SameDomains
<1>3. TablesOK'
  BY <1>1, <1>2, StateOK, DeleteGroupOK
<1>4. PICK q : q = [Idle EXCEPT !.op = "GroupDelete", !.at = "leaveGroups", !.key = e]
  OBVIOUS
<1>5. q \in Request /\ q.op = "GroupDelete" /\ q.at = "leaveGroups"
  BY <1>4, IdleOK DEF CallOK, Request, AllOps, Label, Source
<1>6. CallOK(q)
  BY <1>5 DEF CallOK, InputsOK, ReadIdOK, ByDomain
<1> QED BY <1>1, <1>2, <1>3, <1>4, <1>6, StateOK, CallStep DEF SameDomains

\* The second DELETE of GroupDelete.
LEMMA GroupDeleteLeaveGroupsStep ==
    ASSUME IndInv, NEW c \in Client, GroupDeleteLeaveGroups(c)
    PROVE  IndInv'
<1>1. UNCHANGED << maildirs, issued >> /\ Return(c) /\ MemberTableOnly
      /\ mail_group_members' \subseteq mail_group_members
  BY DEF GroupDeleteLeaveGroups, Spool, DeleteMemberships
<1>2. TablesOK'
  BY <1>1, StateOK, DropMembersOK
<1> QED BY <1>1, <1>2, StateOK, ReturnStep DEF MemberTableOnly, SameDomains

\* The GroupGet of GroupAddMembers.
LEMMA GroupAddMembersStep ==
    ASSUME IndInv, NEW c \in Client, GroupAddMembers(c)
    PROVE  IndInv'
<1>1. PICK g \in mail_groups, b \in Batch, r \in Role :
         GroupGet(c, g, [Idle EXCEPT !.op = "GroupAddMembers", !.at = "hosted", !.todo = b,
                                     !.role = r])
  BY DEF GroupAddMembers
<1>2. b \in Seq(Addr) /\ b # << >>
  <2>1. PICK n \in 1 .. MaxBatch : b \in [1 .. n -> Addr]
    BY DEF Batch
  <2>2. n \in Nat /\ n > 0
    BY <2>1, BatchAssumption
  <2> QED BY <2>1, <2>2
<1>3. PICK q : q = [Idle EXCEPT !.op = "GroupAddMembers", !.at = "hosted", !.todo = b, !.role = r]
  OBVIOUS
<1>4. q \in Request /\ q.op = "GroupAddMembers" /\ q.at = "hosted" /\ q.todo # << >>
  BY <1>2, <1>3, IdleOK DEF CallOK, Request, AllOps, Label
<1>5. InputsOK(q) /\ q.op \notin ByDomain
  BY <1>4 DEF InputsOK, ByDomain
<1> QED BY <1>1, <1>3, <1>4, <1>5, GroupGetStep

\* hostedDomains.
LEMMA hostedDomainsStep ==
    ASSUME IndInv, NEW c \in Client, hostedDomains(c)
    PROVE  IndInv'
<1>1. PICK q, h : q = req[c] /\ h = {r.name : r \in virtual_domains}
  OBVIOUS
<1>2. CallOK(q) /\ q.op = "GroupAddMembers" /\ h \subseteq Domain
  BY <1>1, StateOK DEF hostedDomains, At, TablesOK, DBTypeOK, DomainRow
<1>3. PICK n : n = [q EXCEPT !.hosted = h, !.at = "check"]
  OBVIOUS
<1>4. n \in Request /\ n.op = q.op /\ n.at = "check" /\ n.todo = q.todo
  BY <1>2, <1>3 DEF CallOK, Request, Label
<1>5. CallOK(n)
  BY <1>2, <1>4 DEF CallOK, InputsOK, ReadIdOK, ByDomain
<1>6. req' = [req EXCEPT ![c] = n]
  BY <1>1, <1>3, IndInvParts DEF hostedDomains
<1>7. UNCHANGED << dbvars, Spool >>
  BY DEF hostedDomains
<1> QED BY <1>5, <1>6, <1>7, ReadStep, CallStep DEF SameDomains

\* Going on to the next address of the batch.
LEMMA NextAddressStep ==
    ASSUME IndInv, NEW c \in Client, NextAddress(c), req[c].op = "GroupAddMembers",
           TablesOK', SameDomains, UNCHANGED << maildirs, issued >>
    PROVE  IndInv'
<1>1. PICK q : q = req[c]
  OBVIOUS
<1>2. CallOK(q) /\ q.todo \in Seq(Addr)
  BY <1>1, StateOK DEF CallOK, Request
<1>3. CASE Len(q.todo) > 1
  <2>1. PICK t : t = Tail(q.todo)
    OBVIOUS
  <2>a. t \in Seq(Addr) /\ Len(t) = Len(q.todo) - 1
    BY <1>2, <1>3, <2>1
  <2>b. t # << >>
    BY <1>3, <2>a
  <2>2. PICK n : n = [q EXCEPT !.todo = t, !.at = "check"]
    OBVIOUS
  <2>3. n \in Request /\ n.op = q.op /\ n.at = "check" /\ n.todo = t
    BY <1>2, <2>2, <2>a DEF CallOK, Request, Label
  <2>4. CallOK(n)
    BY <1>1, <2>b, <2>3 DEF CallOK, InputsOK, ReadIdOK, ByDomain
  <2>5. req' = [req EXCEPT ![c] = n]
    BY <1>1, <1>3, <2>1, <2>2 DEF NextAddress
  <2> QED BY <2>4, <2>5, StateOK, CallStep DEF SameDomains
<1>4. CASE ~(Len(q.todo) > 1)
  <2>1. Return(c)
    BY <1>1, <1>4 DEF NextAddress, Return
  <2> QED BY <2>1, StateOK, ReturnStep
<1> QED BY <1>3, <1>4

\* The checks of GroupAddMembers on one address.
LEMMA GroupAddMembersCheckStep ==
    ASSUME IndInv, NEW c \in Client, GroupAddMembersCheck(c)
    PROVE  IndInv'
<1>1. /\ UNCHANGED << dbvars, Spool >> /\ req[c].op = "GroupAddMembers"
      /\ NextAddress(c) \/ Goto(c, "insert")
  BY DEF GroupAddMembersCheck, At
<1> QED BY <1>1, ReadStep, NextAddressStep, GotoStep DEF Label, Spool

\* The upsert of GroupAddMembers, with a group id that may be stale.
LEMMA GroupAddMembersInsertStep ==
    ASSUME IndInv, NEW c \in Client, GroupAddMembersInsert(c)
    PROVE  IndInv'
<1>1. PICK q : q = req[c]
  OBVIOUS
<1>2. CallOK(q) /\ q.op = "GroupAddMembers" /\ UNCHANGED << maildirs, issued >>
  BY <1>1, StateOK DEF GroupAddMembersInsert, At, Spool
<1>3. PICK i \in Nat, a \in Addr, r \in Role : i = q.id /\ a = Head(q.todo) /\ r = q.role
  BY <1>2 DEF CallOK, Request, InputsOK
<1>4. CASE UpsertMember(i, a, r) /\ NextAddress(c)
  <2>1. TablesOK'
    BY <1>2, <1>4, StateOK, UpsertMemberOK
  <2> QED BY <1>1, <1>2, <1>4, <2>1, NextAddressStep
          DEF UpsertMember, MemberTableOnly, SameDomains
<1>5. CASE Return(c) /\ UNCHANGED dbvars
  BY <1>2, <1>5, ReadStep, ReturnStep DEF Spool
<1> QED BY <1>1, <1>3, <1>4, <1>5 DEF GroupAddMembersInsert

\* The GroupGet of GroupRemoveMember.
LEMMA GroupRemoveMemberStep ==
    ASSUME IndInv, NEW c \in Client, GroupRemoveMember(c)
    PROVE  IndInv'
<1>1. PICK g \in mail_groups, a \in Addr :
         GroupGet(c, g, [Idle EXCEPT !.op = "GroupRemoveMember", !.at = "apply", !.arg = a])
  BY DEF GroupRemoveMember
<1>2. PICK q : q = [Idle EXCEPT !.op = "GroupRemoveMember", !.at = "apply", !.arg = a]
  OBVIOUS
<1>3. q \in Request /\ q.op = "GroupRemoveMember" /\ q.at = "apply"
  BY <1>2, IdleOK DEF CallOK, Request, AllOps, Label
<1>4. InputsOK(q) /\ q.op \notin ByDomain
  BY <1>3 DEF InputsOK, ByDomain
<1> QED BY <1>1, <1>2, <1>3, <1>4, GroupGetStep

\* The DELETE of GroupRemoveMember.
LEMMA GroupRemoveMemberApplyStep ==
    ASSUME IndInv, NEW c \in Client, GroupRemoveMemberApply(c)
    PROVE  IndInv'
<1>1. UNCHANGED << maildirs, issued >> /\ Return(c) /\ MemberTableOnly
      /\ mail_group_members' \subseteq mail_group_members
  BY DEF GroupRemoveMemberApply, Spool, DeleteMember
<1>2. TablesOK'
  BY <1>1, StateOK, DropMembersOK
<1> QED BY <1>1, <1>2, StateOK, ReturnStep DEF MemberTableOnly, SameDomains

\* The GroupGet of GroupSetMemberRole.
LEMMA GroupSetMemberRoleStep ==
    ASSUME IndInv, NEW c \in Client, GroupSetMemberRole(c)
    PROVE  IndInv'
<1>1. PICK g \in mail_groups, a \in Addr, r \in Role :
         GroupGet(c, g, [Idle EXCEPT !.op = "GroupSetMemberRole", !.at = "apply", !.arg = a,
                                     !.role = r])
  BY DEF GroupSetMemberRole
<1>2. PICK q : q = [Idle EXCEPT !.op = "GroupSetMemberRole", !.at = "apply", !.arg = a, !.role = r]
  OBVIOUS
<1>3. q \in Request /\ q.op = "GroupSetMemberRole" /\ q.at = "apply"
  BY <1>2, IdleOK DEF CallOK, Request, AllOps, Label
<1>4. InputsOK(q) /\ q.op \notin ByDomain
  BY <1>3 DEF InputsOK, ByDomain
<1> QED BY <1>1, <1>2, <1>3, <1>4, GroupGetStep

\* The UPDATE of GroupSetMemberRole.
LEMMA GroupSetMemberRoleApplyStep ==
    ASSUME IndInv, NEW c \in Client, GroupSetMemberRoleApply(c)
    PROVE  IndInv'
<1>1. PICK q : q = req[c]
  OBVIOUS
<1>2. CallOK(q) /\ UNCHANGED << maildirs, issued >> /\ Return(c)
  BY <1>1, StateOK DEF GroupSetMemberRoleApply, Spool
<1>3. PICK i \in Nat, a \in Addr \cup {None}, r \in Role : i = q.id /\ a = q.arg /\ r = q.role
  BY <1>2 DEF CallOK, Request
<1>4. UpdateRole(i, a, r)
  BY <1>1, <1>3 DEF GroupSetMemberRoleApply
<1>5. TablesOK'
  BY <1>2, <1>4, StateOK, UpdateRoleOK
<1> QED BY <1>2, <1>4, <1>5, StateOK, ReturnStep DEF UpdateRole, MemberTableOnly, SameDomains

\* The first statement of Generate.
LEMMA GenerateKeyStep ==
    ASSUME IndInv, NEW c \in Client, GenerateKey(c)
    PROVE  IndInv'
<1>1. PICK d \in Domain :
         domainID(c, [Idle EXCEPT !.op = "GenerateKey", !.at = "apply", !.key = d])
  BY DEF GenerateKey
<1>2. PICK q : q = [Idle EXCEPT !.op = "GenerateKey", !.at = "apply", !.key = d]
  OBVIOUS
<1>3. q \in Request /\ q.op = "GenerateKey" /\ q.at = "apply" /\ q.key = d
  BY <1>2, IdleOK DEF CallOK, Request, AllOps, Label, Source
<1>4. InputsOK(q)
  BY <1>3 DEF InputsOK
<1> QED BY <1>1, <1>2, <1>3, <1>4, domainIDStep

\* The upsert of Generate, with a domain id that may be stale.
LEMMA GenerateKeyUpsertStep ==
    ASSUME IndInv, NEW c \in Client, GenerateKeyUpsert(c)
    PROVE  IndInv'
<1>1. PICK q : q = req[c]
  OBVIOUS
<1>2. CallOK(q) /\ q.op = "GenerateKey" /\ UNCHANGED maildirs /\ Return(c)
  BY <1>1, StateOK DEF GenerateKeyUpsert, At
<1>3. PICK d \in Domain, i \in Nat :
         /\ d = q.key /\ i = q.id
         /\ \A r \in virtual_domains : r.id = i => r.name = d
  BY <1>2 DEF CallOK, Request, InputsOK, ReadIdOK, ByDomain, HomeDomain
<1>4. ASSUME NEW k \in ApiKey, issued[k] = None, UpsertKey(i, k),
             issued' = [issued EXCEPT ![k] = d]
      PROVE  IndInv'
  <2>0. /\ TablesOK /\ issued \in [ApiKey -> Domain \cup {None}]
        /\ \A r \in virtual_domains : r.id = i => r.name = d
    BY <1>3, IndInvParts
  <2>1. TablesOK'
    BY <1>4, <2>0, UpsertKeyOK
  <2>2. SameDomains
    BY <1>4 DEF UpsertKey, KeyTableOnly, SameDomains
  <2>3. issued' \in [ApiKey -> Domain \cup {None}]
    BY <1>4, StateOK
  <2> QED BY <1>2, <2>1, <2>2, <2>3, StateOK, ReturnStep
<1>5. CASE UNCHANGED << dbvars, issued >>
  BY <1>2, <1>5, ReadStep, ReturnStep DEF Spool
<1> QED BY <1>1, <1>3, <1>4, <1>5 DEF GenerateKeyUpsert

\* Revoke.
LEMMA RevokeKeyStep ==
    ASSUME IndInv, NEW c \in Client, RevokeKey(c)
    PROVE  IndInv'
<1>1. PICK d \in Domain : DeleteKey(d)
  BY DEF RevokeKey
<1>2. UNCHANGED << req, maildirs, issued >> /\ SameDomains
  BY <1>1 DEF RevokeKey, Spool, DeleteKey, KeyTableOnly, SameDomains
<1>3. TablesOK'
  BY <1>1, <1>2, StateOK, DeleteKeyOK
<1> QED BY <1>2, <1>3, StateOK, SameCallsStep

\* A call that ends between two of its statements.
LEMMA AbandonStep ==
    ASSUME IndInv, NEW c \in Client, Abandon(c)
    PROVE  IndInv'
<1>1. UNCHANGED << dbvars, Spool >> /\ Return(c)
  BY DEF Abandon
<1> QED BY <1>1, ReadStep, ReturnStep

-----------------------------------------------------------------------------
(* The theorems.                                                            *)

\* A fresh database, with no call running, satisfies the invariant.
LEMMA InitOK == Init => IndInv
<1> SUFFICES ASSUME Init PROVE IndInv
  OBVIOUS
<1>1. TypeOK
  <2>1. DBTypeOK
    BY DEF Init, DBInit, DBTypeOK
  <2> QED BY <2>1, IdleOK DEF Init, TypeOK, CallOK
<1>2. KeysUnique /\ HomedRows /\ OneCatchAll
  BY DEF Init, DBInit, KeysUnique, HomedRows, OneCatchAll
<1>3. CallsOK
  BY IdleOK DEF Init, CallsOK, CallOK
<1> QED BY <1>1, <1>2, <1>3 DEF IndInv

\* The calls of one statement, for any arguments.
SomePasswd(c)       == \E e \in Addr, p \in Password : MailboxPasswd(c, e, p)
SomeSetEnabled(c)   == \E e \in Addr, b \in BOOLEAN : MailboxSetEnabled(c, e, b)
SomeForwardClear(c) == \E e \in Addr : ForwardClear(c, e)
SomeAliasRemove(c)  == \E s \in Source, d \in Addr : AliasRemove(c, s, d)

\* Every statement of every operation, run by any caller at any time, keeps the invariant.
LEMMA NextOK == IndInv /\ [Next]_vars => IndInv'
<1> SUFFICES ASSUME IndInv, [Next]_vars PROVE IndInv'
  OBVIOUS
<1>1. ASSUME NEW c \in Client, Step(c) PROVE IndInv'
  <2>1. CASE DomainAdd(c) \/ DomainRemove(c) \/ notAGroup(c) \/ CheckAddressKind(c)
    BY <2>1, DomainAddStep, DomainRemoveStep, notAGroupStep, CheckAddressKindStep
  <2>2. CASE MailboxAdd(c) \/ MailboxAddUpsert(c) \/ MailboxCreate(c) \/ MailboxCreateInsert(c)
             \/ createMaildir(c)
    BY <2>2, MailboxAddStep, MailboxAddUpsertStep, MailboxCreateStep, MailboxCreateInsertStep,
       createMaildirStep
  <2>3. CASE MailboxRemove(c) \/ MailboxRemoveLeaveGroups(c) \/ MailboxRemoveSpool(c)
             \/ SomePasswd(c) \/ SomeSetEnabled(c)
    BY <2>3, MailboxRemoveStep, MailboxRemoveLeaveGroupsStep, MailboxRemoveSpoolStep,
       MailboxPasswdStep, MailboxSetEnabledStep DEF SomePasswd, SomeSetEnabled
  <2>4. CASE ForwardSet(c) \/ ForwardSetUpsert(c) \/ SomeForwardClear(c) \/ AliasAdd(c)
             \/ AliasAddInsert(c) \/ SomeAliasRemove(c) \/ CatchAllSet(c) \/ CatchAllReplace(c)
    BY <2>4, ForwardSetStep, ForwardSetUpsertStep, ForwardClearStep, AliasAddStep,
       AliasAddInsertStep, AliasRemoveStep, CatchAllSetStep, CatchAllReplaceStep
       DEF SomeForwardClear, SomeAliasRemove
  <2>5. CASE GroupCreate(c) \/ GroupCreateInsert(c) \/ GroupUpdate(c) \/ GroupUpdateMembers(c)
             \/ GroupUpdateApply(c) \/ GroupDelete(c) \/ GroupDeleteLeaveGroups(c)
    BY <2>5, GroupCreateStep, GroupCreateInsertStep, GroupUpdateStep, GroupUpdateMembersStep,
       GroupUpdateApplyStep, GroupDeleteStep, GroupDeleteLeaveGroupsStep
  <2>6. CASE GroupAddMembers(c) \/ hostedDomains(c) \/ GroupAddMembersCheck(c)
             \/ GroupAddMembersInsert(c) \/ GroupRemoveMember(c) \/ GroupRemoveMemberApply(c)
             \/ GroupSetMemberRole(c) \/ GroupSetMemberRoleApply(c)
    BY <2>6, GroupAddMembersStep, hostedDomainsStep, GroupAddMembersCheckStep,
       GroupAddMembersInsertStep, GroupRemoveMemberStep, GroupRemoveMemberApplyStep,
       GroupSetMemberRoleStep, GroupSetMemberRoleApplyStep
  <2>7. CASE GenerateKey(c) \/ GenerateKeyUpsert(c) \/ RevokeKey(c) \/ Abandon(c)
    BY <2>7, GenerateKeyStep, GenerateKeyUpsertStep, RevokeKeyStep, AbandonStep
  <2> QED BY <1>1, <2>1, <2>2, <2>3, <2>4, <2>5, <2>6, <2>7
     DEF Step, Begin, Continue, SomePasswd, SomeSetEnabled, SomeForwardClear, SomeAliasRemove
<1>2. CASE UNCHANGED vars
  <2>1. UNCHANGED << dbvars, Spool >> /\ UNCHANGED req
    BY <1>2 DEF vars, Spool
  <2> QED BY <2>1, ReadStep, SameCallsStep
<1> QED BY <1>1, <1>2 DEF Next

\* The directory stays consistent under any number of callers, interleaved statement by
\* statement and cut off anywhere: the foreign keys, the cascades and the order of the
\* statements of mailbox.Store and domainkey.Store are enough for IndInv.
THEOREM Consistent == Spec => []IndInv
  BY InitOK, NextOK, PTL DEF Spec

\* Type correctness of Directory.
THEOREM TypeCorrect == Spec => []TypeOK
<1>1. IndInv => TypeOK
  BY DEF IndInv
<1> QED BY <1>1, Consistent, PTL

\* CatchAllSet keeps at most one catch-all for every domain.
THEOREM CatchAllUnique == Spec => []OneCatchAll
<1>1. IndInv => OneCatchAll
  BY DEF IndInv
<1> QED BY <1>1, Consistent, PTL

\* Verify only ever returns the domain that a key was generated for, and only for the last
\* key generated for it.
THEOREM KeysOpenTheirDomain == Spec => []KeyAuthority
<1>1. IndInv => KeyAuthority
  <2> SUFFICES ASSUME IndInv, NEW k \in ApiKey, NEW d \in Domain, Verifies(k, d)
               PROVE  /\ issued[k] = d
                      /\ \A j \in ApiKey : Verifies(j, d) => j = k
    BY DEF KeyAuthority
  <2>1. KeysUnique /\ HomedRows
    BY DEF IndInv
  <2>2. PICK r \in domain_api_keys, v \in virtual_domains :
           r.key_hash = k /\ v.id = r.domain_id /\ v.name = d
    BY DEF Verifies
  <2>3. issued[k] = d
    BY <2>1, <2>2 DEF KeysUnique, HomedRows
  <2>4. ASSUME NEW j \in ApiKey, Verifies(j, d) PROVE j = k
    <3>1. PICK s \in domain_api_keys, w \in virtual_domains :
             s.key_hash = j /\ w.id = s.domain_id /\ w.name = d
      BY <2>4 DEF Verifies
    <3>2. w = v
      BY <2>1, <2>2, <3>1 DEF KeysUnique
    <3> QED BY <2>1, <2>2, <3>1, <3>2 DEF KeysUnique
  <2> QED BY <2>3, <2>4
<1> QED BY <1>1, Consistent, PTL

\* A step of one call leaves the requests of the others alone.
LEMMA OwnCallOnly ==
    ASSUME TypeOK, NEW c \in Client, NEW d \in Client, c # d, Step(d)
    PROVE  req'[c] = req[c]
<1>1. req \in [Client -> Request]
  BY DEF TypeOK
<1>2. \/ req' = req
      \/ \E q : req' = [req EXCEPT ![d] = q]
      \/ \E l : req' = [req EXCEPT ![d].at = l]
      \/ \E h, l : req' = [req EXCEPT ![d].hosted = h, ![d].at = l]
  <2> USE DEF Goto, Return
  <2>1. CASE DomainAdd(d) \/ DomainRemove(d) \/ notAGroup(d) \/ CheckAddressKind(d)
             \/ MailboxAdd(d) \/ MailboxAddUpsert(d) \/ MailboxCreate(d) \/ createMaildir(d)
             \/ MailboxCreateInsert(d)
    BY <2>1, Zenon
       DEF DomainAdd, DomainRemove, notAGroup, CheckAddressKind, MailboxAdd, MailboxAddUpsert,
           MailboxCreate, MailboxCreateInsert, createMaildir, domainID
  <2>2. CASE MailboxRemove(d) \/ MailboxRemoveLeaveGroups(d) \/ MailboxRemoveSpool(d)
             \/ SomePasswd(d) \/ SomeSetEnabled(d) \/ ForwardSet(d) \/ ForwardSetUpsert(d)
             \/ SomeForwardClear(d)
    BY <2>2, Zenon
       DEF MailboxRemove, MailboxRemoveLeaveGroups, MailboxRemoveSpool, MailboxPasswd,
           MailboxSetEnabled, ForwardSet, ForwardSetUpsert, ForwardClear, SomePasswd,
           SomeSetEnabled, SomeForwardClear
  <2>3. CASE AliasAdd(d) \/ AliasAddInsert(d) \/ SomeAliasRemove(d) \/ CatchAllSet(d)
             \/ CatchAllReplace(d) \/ GroupCreate(d) \/ GroupCreateInsert(d) \/ GroupUpdate(d)
    BY <2>3, Zenon
       DEF SomeAliasRemove, AliasAdd, AliasAddInsert, AliasRemove, CatchAllSet, CatchAllReplace,
           GroupCreate, GroupCreateInsert, GroupUpdate, GroupGet, domainID
  <2>4. CASE GroupUpdateMembers(d) \/ GroupUpdateApply(d) \/ GroupDelete(d)
             \/ GroupDeleteLeaveGroups(d) \/ GroupAddMembers(d) \/ hostedDomains(d)
    BY <2>4, Zenon
       DEF GroupUpdateMembers, GroupUpdateApply, GroupDelete, GroupDeleteLeaveGroups,
           GroupAddMembers, hostedDomains, GroupGet
  <2>5. CASE GroupAddMembersCheck(d) \/ GroupAddMembersInsert(d) \/ GroupRemoveMember(d)
             \/ GroupRemoveMemberApply(d) \/ GroupSetMemberRole(d) \/ GroupSetMemberRoleApply(d)
    BY <2>5, Zenon
       DEF GroupAddMembersCheck, GroupAddMembersInsert, NextAddress, GroupRemoveMember,
           GroupRemoveMemberApply, GroupSetMemberRole, GroupSetMemberRoleApply, GroupGet
  <2>6. CASE GenerateKey(d) \/ GenerateKeyUpsert(d) \/ RevokeKey(d) \/ Abandon(d)
    BY <2>6, Zenon DEF GenerateKey, GenerateKeyUpsert, RevokeKey, Abandon, domainID
  <2> QED BY <2>1, <2>2, <2>3, <2>4, <2>5, <2>6
     DEF Step, Begin, Continue, SomePasswd, SomeSetEnabled, SomeForwardClear, SomeAliasRemove
<1> QED BY <1>1, <1>2

\* The steps of a MailboxCreate call read, insert one row or make the spool directory.
LEMMA CreateStep ==
    ASSUME NEW c \in Client, req[c].op = "MailboxCreate", Step(c)
    PROVE  virtual_users \subseteq virtual_users'
<1>1. (\A op : ~Free(c, op)) /\ (\A op, l : At(c, op, l) => op = "MailboxCreate")
  BY DEF Free, At
<1>2. \/ notAGroup(c) \/ CheckAddressKind(c) \/ createMaildir(c) \/ Abandon(c)
      \/ MailboxCreateInsert(c)
  <2>1. ~(DomainAdd(c) \/ DomainRemove(c) \/ MailboxAdd(c) \/ MailboxAddUpsert(c)
          \/ MailboxCreate(c))
    BY <1>1 DEF DomainAdd, DomainRemove, MailboxAdd, MailboxAddUpsert, MailboxCreate
  <2>2. ~(MailboxRemove(c) \/ MailboxRemoveLeaveGroups(c) \/ MailboxRemoveSpool(c)
          \/ SomePasswd(c) \/ SomeSetEnabled(c) \/ ForwardSet(c) \/ ForwardSetUpsert(c)
          \/ SomeForwardClear(c))
    BY <1>1
       DEF MailboxRemove, MailboxRemoveLeaveGroups, MailboxRemoveSpool, MailboxPasswd,
           MailboxSetEnabled, ForwardSet, ForwardSetUpsert, ForwardClear, SomePasswd,
           SomeSetEnabled, SomeForwardClear
  <2>3. ~(AliasAdd(c) \/ AliasAddInsert(c) \/ SomeAliasRemove(c) \/ CatchAllSet(c)
          \/ CatchAllReplace(c) \/ GroupCreate(c) \/ GroupCreateInsert(c) \/ GroupUpdate(c))
    BY <1>1
       DEF SomeAliasRemove, AliasAdd, AliasAddInsert, AliasRemove, CatchAllSet, CatchAllReplace,
           GroupCreate, GroupCreateInsert, GroupUpdate
  <2>4. ~(GroupUpdateMembers(c) \/ GroupUpdateApply(c) \/ GroupDelete(c)
          \/ GroupDeleteLeaveGroups(c) \/ GroupAddMembers(c) \/ hostedDomains(c))
    BY <1>1
       DEF GroupUpdateMembers, GroupUpdateApply, GroupDelete, GroupDeleteLeaveGroups,
           GroupAddMembers, hostedDomains
  <2>5. ~(GroupAddMembersCheck(c) \/ GroupAddMembersInsert(c) \/ GroupRemoveMember(c)
          \/ GroupRemoveMemberApply(c) \/ GroupSetMemberRole(c) \/ GroupSetMemberRoleApply(c))
    BY <1>1
       DEF GroupAddMembersCheck, GroupAddMembersInsert, GroupRemoveMember,
           GroupRemoveMemberApply, GroupSetMemberRole, GroupSetMemberRoleApply
  <2>6. ~(GenerateKey(c) \/ GenerateKeyUpsert(c) \/ RevokeKey(c))
    BY <1>1 DEF GenerateKey, GenerateKeyUpsert, RevokeKey
  <2> QED BY <2>1, <2>2, <2>3, <2>4, <2>5, <2>6
     DEF Step, Begin, Continue, SomePasswd, SomeSetEnabled, SomeForwardClear, SomeAliasRemove
<1>3. CASE notAGroup(c) \/ CheckAddressKind(c) \/ createMaildir(c) \/ Abandon(c)
  BY <1>3 DEF notAGroup, CheckAddressKind, createMaildir, Abandon, dbvars
<1>4. CASE MailboxCreateInsert(c)
  BY <1>4 DEF MailboxCreateInsert, InsertUser, dbvars
<1> QED BY <1>2, <1>3, <1>4

\* MailboxCreate never resets or removes a mailbox, whatever runs beside it: the check of
\* AddressKind may be stale, but the INSERT without ON DUPLICATE KEY UPDATE refuses.
THEOREM CreateNeverOverwrites == Spec => CreateOnlyAdds
<1> DEFINE A == \A c \in Client : req[c].op = "MailboxCreate" /\ req'[c] # req[c]
                                  => virtual_users \subseteq virtual_users'
<1>1. IndInv /\ [Next]_vars => [A]_vars
  <2> SUFFICES ASSUME IndInv, Next, NEW c \in Client, req[c].op = "MailboxCreate",
                      req'[c] # req[c]
               PROVE  virtual_users \subseteq virtual_users'
    OBVIOUS
  <2>1. PICK d \in Client : Step(d)
    BY DEF Next
  <2>2. d = c
    BY <2>1, OwnCallOnly DEF IndInv
  <2> QED BY <2>1, <2>2, CreateStep
<1> QED BY <1>1, Consistent, PTL DEF Spec, CreateOnlyAdds

-----------------------------------------------------------------------------
(* The key table implements the ledger of module KeyLedger.                 *)

\* The ledger is read off two tables and the keys that were made.
LEMMA SameLedger ==
    ASSUME UNCHANGED << virtual_domains, domain_api_keys, issued >>
    PROVE  (\A d : KeysOf(d)' = KeysOf(d)) /\ GeneratedKeys' = GeneratedKeys
  BY DEF KeysOf, Verifies, GeneratedKeys

\* Every statement but four leaves these tables alone.
LEMMA NoKeyStatement ==
    ASSUME NEW c \in Client, Step(c),
           ~DomainAdd(c), ~DomainRemove(c), ~GenerateKeyUpsert(c), ~RevokeKey(c)
    PROVE  UNCHANGED << virtual_domains, domain_api_keys, issued >>
<1> USE DEF Spool
<1>1. CASE notAGroup(c) \/ CheckAddressKind(c) \/ createMaildir(c) \/ MailboxRemoveSpool(c)
           \/ MailboxAdd(c) \/ MailboxCreate(c) \/ AliasAdd(c) \/ GroupCreate(c)
           \/ CatchAllSet(c) \/ GenerateKey(c) \/ ForwardSet(c) \/ Abandon(c)
  BY <1>1 DEF dbvars, notAGroup, CheckAddressKind, createMaildir, MailboxRemoveSpool, MailboxAdd,
     MailboxCreate, AliasAdd, GroupCreate, CatchAllSet, GenerateKey, ForwardSet, Abandon, domainID
<1>2. CASE GroupUpdate(c) \/ GroupUpdateMembers(c) \/ GroupAddMembers(c) \/ hostedDomains(c)
           \/ GroupAddMembersCheck(c) \/ GroupRemoveMember(c) \/ GroupSetMemberRole(c)
  BY <1>2 DEF dbvars, GroupUpdate, GroupUpdateMembers, GroupAddMembers, hostedDomains,
     GroupAddMembersCheck, GroupRemoveMember, GroupSetMemberRole, GroupGet
<1>3. CASE MailboxAddUpsert(c) \/ MailboxCreateInsert(c) \/ MailboxRemove(c) \/ SomePasswd(c)
           \/ SomeSetEnabled(c) \/ ForwardSetUpsert(c) \/ SomeForwardClear(c)
  BY <1>3 DEF dbvars, MailboxAddUpsert, MailboxCreateInsert, MailboxRemove, SomePasswd,
     MailboxPasswd, SomeSetEnabled, MailboxSetEnabled, ForwardSetUpsert, SomeForwardClear,
     ForwardClear, UpsertUser, InsertUser, UpdatePassword, UpdateEnabled, DeleteUser,
     UpsertForward, DeleteForward, UserTableOnly, ForwardTableOnly
<1>4. CASE AliasAddInsert(c) \/ SomeAliasRemove(c) \/ CatchAllReplace(c)
  BY <1>4 DEF dbvars, AliasAddInsert, SomeAliasRemove, AliasRemove, CatchAllReplace,
     InsertIgnoreAlias, DeleteAlias, DeleteSource, ReplaceCatchAll, AliasTableOnly
<1>5. CASE GroupCreateInsert(c) \/ GroupUpdateApply(c) \/ GroupDelete(c)
           \/ GroupDeleteLeaveGroups(c) \/ MailboxRemoveLeaveGroups(c)
           \/ GroupAddMembersInsert(c) \/ GroupRemoveMemberApply(c)
           \/ GroupSetMemberRoleApply(c)
  BY <1>5 DEF dbvars, GroupCreateInsert, GroupUpdateApply, GroupDelete, GroupDeleteLeaveGroups,
     MailboxRemoveLeaveGroups, GroupAddMembersInsert, GroupRemoveMemberApply,
     GroupSetMemberRoleApply, InsertGroup, UpdateGroup, DeleteGroup, UpsertMember, DeleteMember,
     UpdateRole, DeleteMemberships, MemberTableOnly
<1> QED BY <1>1, <1>2, <1>3, <1>4, <1>5
   DEF Step, Begin, Continue, SomePasswd, SomeSetEnabled, SomeForwardClear, SomeAliasRemove

\* A new domain has an id that no key row refers to.
LEMMA InsertDomainLedger ==
    ASSUME TablesOK, NEW d \in Domain, InsertDomain(d), UNCHANGED issued
    PROVE  (\A e : KeysOf(e)' = KeysOf(e)) /\ GeneratedKeys' = GeneratedKeys
<1>1. UNCHANGED << domain_api_keys, issued >>
  BY DEF InsertDomain
<1>2. CASE UNCHANGED virtual_domains
  BY <1>1, <1>2, SameLedger
<1>3. CASE virtual_domains' = virtual_domains \cup {[id |-> lastDomain + 1, name |-> d]}
  <2>1. \A r \in domain_api_keys : r.domain_id # lastDomain + 1
    BY DEF TablesOK, HomedRows, KeysUnique, DBTypeOK, DomainRow, KeyRow
  <2>2. PICK row : row = [id |-> lastDomain + 1, name |-> d]
    OBVIOUS
  <2>3. row.id = lastDomain + 1 /\ virtual_domains' = virtual_domains \cup {row}
    BY <1>3, <2>2
  <2>4. \A k, e : Verifies(k, e)' <=> Verifies(k, e)
    BY <1>1, <2>1, <2>3 DEF Verifies
  <2> QED BY <1>1, <2>4 DEF KeysOf, GeneratedKeys
<1> QED BY <1>2, <1>3 DEF InsertDomain

\* The cascade takes the key of the domain that goes, and no other.
LEMMA DeleteDomainLedger ==
    ASSUME TablesOK, NEW d \in Domain, DeleteDomain(d), UNCHANGED issued
    PROVE  /\ \A e : KeysOf(e)' = IF e = d THEN {} ELSE KeysOf(e)
           /\ GeneratedKeys' = GeneratedKeys
<1>1. \A e : e # d => \A k : Verifies(k, e)' <=> Verifies(k, e)
  <2>0. virtual_domains' \subseteq virtual_domains /\ domain_api_keys' \subseteq domain_api_keys
    BY DEF DeleteDomain
  <2> SUFFICES ASSUME NEW e, e # d, NEW k, Verifies(k, e) PROVE Verifies(k, e)'
    BY <2>0 DEF Verifies
  <2>1. PICK r \in domain_api_keys, v \in virtual_domains :
           r.key_hash = k /\ v.id = r.domain_id /\ v.name = e
    BY DEF Verifies
  <2>2. v \in virtual_domains' /\ r \in domain_api_keys'
    BY <2>1 DEF DeleteDomain, TablesOK, KeysUnique
  <2> QED BY <2>1, <2>2 DEF Verifies
<1>2. \A k : ~Verifies(k, d)'
  BY DEF DeleteDomain, Verifies
<1> QED BY <1>1, <1>2 DEF KeysOf, GeneratedKeys

\* Revoke deletes the key of its domain, and no other.
LEMMA DeleteKeyLedger ==
    ASSUME TablesOK, NEW d \in Domain, DeleteKey(d), UNCHANGED issued
    PROVE  /\ \A e : KeysOf(e)' = IF e = d THEN {} ELSE KeysOf(e)
           /\ GeneratedKeys' = GeneratedKeys
<1>0. UNCHANGED virtual_domains
  BY DEF DeleteKey, KeyTableOnly
<1>1. \A e : e # d => \A k : Verifies(k, e)' <=> Verifies(k, e)
  <2> SUFFICES ASSUME NEW e, e # d, NEW k, Verifies(k, e) PROVE Verifies(k, e)'
    BY <1>0 DEF DeleteKey, Verifies
  <2>1. PICK r \in domain_api_keys, v \in virtual_domains :
           r.key_hash = k /\ v.id = r.domain_id /\ v.name = e
    BY DEF Verifies
  <2>2. r \in domain_api_keys'
    BY <2>1 DEF DeleteKey, TablesOK, KeysUnique
  <2> QED BY <1>0, <2>1, <2>2 DEF Verifies
<1>2. \A k : ~Verifies(k, d)'
  BY <1>0 DEF DeleteKey, Verifies
<1> QED BY <1>1, <1>2 DEF KeysOf, GeneratedKeys

\* The upsert of Generate replaces the key of the domain that its id still names.
LEMMA UpsertKeyLedger ==
    ASSUME TablesOK, NEW d \in Domain, NEW i, NEW k \in ApiKey, UpsertKey(i, k),
           \A r \in virtual_domains : r.id = i => r.name = d
    PROVE  \A e : KeysOf(e)' = IF e = d THEN {k} ELSE KeysOf(e)
<1>0. UNCHANGED virtual_domains
  BY DEF UpsertKey, KeyTableOnly
<1>1. PICK row : row = [domain_id |-> i, key_hash |-> k]
  OBVIOUS
<1>2. /\ row.domain_id = i /\ row.key_hash = k
      /\ domain_api_keys' = {r \in domain_api_keys : r.domain_id # i} \cup {row}
  BY <1>1 DEF UpsertKey
<1>3. PICK w \in virtual_domains : w.id = i /\ w.name = d
  BY DEF UpsertKey, DomainId
<1>4. \A v \in virtual_domains : v.id = i \/ v.name = d => v = w
  BY <1>3 DEF TablesOK, KeysUnique
<1>5. \A e : e # d => \A j : Verifies(j, e)' <=> Verifies(j, e)
  BY <1>0, <1>2, <1>3, <1>4 DEF Verifies
<1>6. \A j : Verifies(j, d)' <=> j = k
  BY <1>0, <1>2, <1>3, <1>4 DEF Verifies
<1> QED BY <1>5, <1>6 DEF KeysOf

\* Every step of a call hands out a key, revokes one or leaves the ledger alone.
LEMMA LedgerStep ==
    ASSUME IndInv, NEW c \in Client, Step(c)
    PROVE  Ledger!LedgerNext \/ UNCHANGED Ledger!ledgervars
<1>0. TablesOK
  BY IndInvParts
<1>1. ASSUME \A e : KeysOf(e)' = KeysOf(e), GeneratedKeys' = GeneratedKeys
      PROVE  UNCHANGED Ledger!ledgervars
  BY <1>1 DEF Ledger!ledgervars
<1>2. ASSUME NEW d \in Domain, GeneratedKeys' = GeneratedKeys,
             \A e : KeysOf(e)' = IF e = d THEN {} ELSE KeysOf(e)
      PROVE  Ledger!LedgerNext
  <2>1. Ledger!Revoke(d)
    BY <1>2 DEF Ledger!Revoke
  <2> QED BY <2>1 DEF Ledger!LedgerNext
<1>3. CASE DomainAdd(c)
  BY <1>0, <1>1, <1>3, InsertDomainLedger, InputAssumption DEF DomainAdd, Spool
<1>4. CASE DomainRemove(c)
  BY <1>0, <1>2, <1>4, DeleteDomainLedger DEF DomainRemove, Spool
<1>5. CASE RevokeKey(c)
  BY <1>0, <1>2, <1>5, DeleteKeyLedger DEF RevokeKey, Spool
<1>6. CASE GenerateKeyUpsert(c)
  <2>1. PICK d, i : d = req[c].key /\ i = req[c].id
    OBVIOUS
  <2>2. d \in Domain /\ \A r \in virtual_domains : r.id = i => r.name = d
    BY <1>6, <2>1, StateOK, AddressAssumption
       DEF CallOK, InputsOK, ReadIdOK, ByDomain, HomeDomain, GenerateKeyUpsert, At
  <2>3. CASE UNCHANGED << dbvars, issued >>
    BY <1>1, <2>3, SameLedger DEF dbvars
  <2>4. CASE \E k \in ApiKey : issued[k] = None /\ UpsertKey(i, k)
                               /\ issued' = [issued EXCEPT ![k] = d]
    <3>1. PICK k \in ApiKey : /\ issued[k] = None /\ UpsertKey(i, k)
                              /\ issued' = [issued EXCEPT ![k] = d]
      BY <2>4
    <3>2. \A e : KeysOf(e)' = IF e = d THEN {k} ELSE KeysOf(e)
      BY <1>0, <2>2, <3>1, UpsertKeyLedger
    <3>3. k \notin GeneratedKeys /\ GeneratedKeys' = GeneratedKeys \cup {k}
      <4>1. issued \in [ApiKey -> Domain \cup {None}] /\ d # None
        BY <2>2, IndInvParts, NoneAssumption DEF Source
      <4> QED BY <3>1, <4>1 DEF GeneratedKeys
    <3>4. Ledger!HandOut(d, k)
      BY <2>2, <3>2, <3>3 DEF Ledger!HandOut
    <3> QED BY <2>2, <3>4 DEF Ledger!LedgerNext
  <2> QED BY <1>6, <2>1, <2>3, <2>4 DEF GenerateKeyUpsert
<1>7. CASE ~DomainAdd(c) /\ ~DomainRemove(c) /\ ~GenerateKeyUpsert(c) /\ ~RevokeKey(c)
  BY <1>1, <1>7, NoKeyStatement, SameLedger
<1> QED BY <1>3, <1>4, <1>5, <1>6, <1>7

\* The key table implements the ledger of module KeyLedger under any number of callers: ids
\* that are never given twice, the foreign key and the cascade are what keeps a call of
\* Generate, with an id it has read before, from handing out a key that opens nothing or opens
\* a domain that was added again.
THEOREM LedgerRefined == Spec => LedgerKept
<1>1. Init => Ledger!LedgerInit
  BY DEF Init, DBInit, Ledger!LedgerInit, KeysOf, Verifies, GeneratedKeys
<1>2. IndInv /\ [Next]_vars => [Ledger!LedgerNext]_(Ledger!ledgervars)
  <2> SUFFICES ASSUME IndInv, [Next]_vars
               PROVE  Ledger!LedgerNext \/ UNCHANGED Ledger!ledgervars
    OBVIOUS
  <2>1. CASE UNCHANGED vars
    BY <2>1, SameLedger DEF vars, dbvars, Ledger!ledgervars
  <2>2. CASE Next
    BY <2>2, LedgerStep DEF Next
  <2> QED BY <2>1, <2>2
<1> QED BY <1>1, <1>2, Consistent, PTL DEF Spec, LedgerKept, Ledger!LedgerSpec
=============================================================================
