---------------------------- MODULE FrontProofs ----------------------------
(***************************************************************************)
(* The four ways in implement Directory: whatever a request of any of them  *)
(* does to the database is a statement of a call of mailbox.Store or        *)
(* domainkey.Store.  What DirectoryProofs shows of such calls therefore     *)
(* holds of the whole server.                                               *)
(*                                                                          *)
(* The second half shows what each way in may reach: FrontInv ties every    *)
(* open request to how it was opened and to the call it has under way, every *)
(* step keeps it, and the three action properties follow step by step.      *)
(***************************************************************************)
EXTENDS Front, DirectoryProofs

\* A request's step on the database.
OnStore(c) == Step(c) \/ UNCHANGED vars

LEMMA AroundIsStep ==
    ASSUME NEW c \in Client, Around(c)
    PROVE  OnStore(c)
<1>1. CASE Proceed(c)
  BY <1>1 DEF Proceed, OnStore, Step
<1>2. CASE Overlay(c)
  BY <1>2 DEF Overlay, OnStore, Step, Begin
<1>3. CASE Record(c) \/ Refuse(c) \/ ensureDKIMAndDNSRecords(c) \/ ProvisionFails(c)
  BY <1>3 DEF Record, Refuse, ensureDKIMAndDNSRecords, ProvisionFails, OnStore
<1>4. CASE CallFails(c) \/ HangUp(c)
  BY <1>4 DEF CallFails, HangUp, OnStore, Step
<1> QED BY <1>1, <1>2, <1>3, <1>4 DEF Around

\* The address that a forward is cleared for was read from its row, so it is one: were it not,
\* there would be nothing to delete.
LEMMA ClearIsStep ==
    ASSUME TypeOK, NEW c \in Client, NEW e, ForwardClear(c, e)
    PROVE  OnStore(c)
<1>1. CASE e \in Addr
  BY <1>1 DEF OnStore, Step, Begin
<1>2. CASE e \notin Addr
  <2>1. mailbox_forwards' = mailbox_forwards
    BY <1>2 DEF ForwardClear, DeleteForward, TypeOK, DBTypeOK, ForwardRow
  <2> QED BY <2>1 DEF ForwardClear, DeleteForward, ForwardTableOnly, Spool, OnStore,
                       vars, dbvars
<1> QED BY <1>1, <1>2

LEMMA PublicIsStep ==
    ASSUME TypeOK, NEW c \in Client, Public(c)
    PROVE  OnStore(c)
<1> USE DEF OnStore, Step, Begin, Call, Do, OwnCall
<1>1. CASE auth(c)
  BY <1>1 DEF auth
<1>2. CASE public_handleMailboxCreate(c) \/ public_handleMailboxDelete(c)
  BY <1>2 DEF public_handleMailboxCreate, public_handleMailboxDelete, Find, Look
<1>3. CASE public_handleMailboxPassword(c)
  BY <1>3 DEF public_handleMailboxPassword, OwnAddr
<1>4. CASE public_handleMailboxName(c) \/ public_handleMailboxQuota(c)
  BY <1>4 DEF public_handleMailboxName, public_handleMailboxQuota, updateMailbox
<1>5. CASE public_handleMailboxStatus(c)
  BY <1>5 DEF public_handleMailboxStatus, OwnAddr
<1>6. CASE public_handleAliasCreate(c) \/ public_handleAliasDelete(c)
  BY <1>6 DEF public_handleAliasCreate, public_handleAliasDelete, OwnAddr, Source
<1>7. CASE public_handleGroupCreate(c) \/ public_handleGroupDelete(c)
           \/ public_handleGroupAddMembers(c) \/ public_handleGroupRemoveMember(c)
  BY <1>7 DEF public_handleGroupCreate, public_handleGroupDelete,
              public_handleGroupAddMembers, public_handleGroupRemoveMember
<1>8. CASE public_handleGroupUpdate(c)
  BY <1>8 DEF public_handleGroupUpdate, Look
<1>9. CASE public_handleForwardSet(c)
  BY <1>9 DEF public_handleForwardSet
<1>10. CASE public_handleForwardClear(c)
  <2>1. CASE Find(c, "clear")
    BY <2>1 DEF Find, Look
  <2>2. CASE ForwardClear(c, Head(door[c].args))
    BY <2>2, ClearIsStep
  <2> QED BY <1>10, <2>1, <2>2 DEF public_handleForwardClear
<1> QED BY <1>1, <1>2, <1>3, <1>4, <1>5, <1>6, <1>7, <1>8, <1>9, <1>10 DEF Public

LEMMA LocalIsStep ==
    ASSUME NEW c \in Client, Local(c)
    PROVE  OnStore(c)
<1> USE DEF OnStore, Step, Begin, Call, Do, AddDomain, Scoped, ScopedDo
<1>1. CASE requireScope(c)
  BY <1>1 DEF requireScope
<1>2. CASE api_handleDomainAdd(c) \/ api_handleDomainRemove(c)
  BY <1>2 DEF api_handleDomainAdd, api_handleDomainRemove
<1>3. CASE api_handleMailboxAdd(c) \/ api_handleMailboxRemove(c)
  BY <1>3 DEF api_handleMailboxAdd, api_handleMailboxRemove
<1>4. CASE api_handleMailboxPasswd(c) \/ api_handleMailboxQuota(c)
  BY <1>4 DEF api_handleMailboxPasswd, api_handleMailboxQuota, updateMailbox
<1>5. CASE api_handleAliasAdd(c) \/ api_handleAliasRemove(c)
  BY <1>5 DEF api_handleAliasAdd, api_handleAliasRemove
<1>6. CASE api_handleGroupCreate(c) \/ api_handleGroupDelete(c)
           \/ api_handleGroupAddMembers(c) \/ api_handleGroupRemoveMember(c)
  BY <1>6 DEF api_handleGroupCreate, api_handleGroupDelete, api_handleGroupAddMembers,
              api_handleGroupRemoveMember
<1> QED BY <1>1, <1>2, <1>3, <1>4, <1>5, <1>6 DEF Local

LEMMA WebIsStep ==
    ASSUME NEW c \in Client, Web(c)
    PROVE  OnStore(c)
<1> USE DEF OnStore, Step, Begin, Call, Do, AddDomain, Look
<1>1. CASE web_handleDomainAdd(c) \/ web_handleDomainDelete(c) \/ web_handleDomainCatchAll(c)
           \/ web_handleDomainAPIKeyGenerate(c) \/ web_handleDomainAPIKeyRevoke(c)
  BY <1>1 DEF web_handleDomainAdd, web_handleDomainDelete, web_handleDomainCatchAll,
              web_handleDomainAPIKeyGenerate, web_handleDomainAPIKeyRevoke
<1>2. CASE web_handleUserCreate(c) \/ web_handleUserProfile(c) \/ web_handleUserPassword(c)
           \/ web_handleUserQuota(c) \/ web_handleUserStatus(c)
  BY <1>2 DEF web_handleUserCreate, web_handleUserProfile, web_handleUserPassword,
              web_handleUserQuota, web_handleUserStatus, updateMailbox
<1>3. CASE web_handleUserForward(c) \/ web_handleUserForwardClear(c)
  BY <1>3 DEF web_handleUserForward, web_handleUserForwardClear
<1>4. CASE web_handleUserAliasAdd(c) \/ web_handleUserAliasRemove(c)
  BY <1>4 DEF web_handleUserAliasAdd, web_handleUserAliasRemove
<1>5. CASE web_handleUserGroupAdd(c) \/ web_handleUserGroupRemove(c)
  BY <1>5 DEF web_handleUserGroupAdd, web_handleUserGroupRemove
<1>6. CASE web_handleUserDelete(c) \/ web_handleUsersImport(c)
  BY <1>6 DEF web_handleUserDelete, web_handleUsersImport
<1>7. CASE web_handleGroupCreate(c) \/ web_handleGroupUpdate(c) \/ web_handleGroupDelete(c)
           \/ web_handleGroupMembersAdd(c) \/ web_handleGroupMemberRole(c)
           \/ web_handleGroupMemberRemove(c)
  BY <1>7 DEF web_handleGroupCreate, web_handleGroupUpdate, web_handleGroupDelete,
              web_handleGroupMembersAdd, web_handleGroupMemberRole,
              web_handleGroupMemberRemove
<1>8. CASE web_handleAliasAdd(c) \/ web_handleAliasDelete(c)
  BY <1>8 DEF web_handleAliasAdd, web_handleAliasDelete
<1>9. CASE web_handleTokenAdd(c) \/ web_handleTokenDelete(c)
  BY <1>9 DEF web_handleTokenAdd, web_handleTokenDelete
<1> QED BY <1>1, <1>2, <1>3, <1>4, <1>5, <1>6, <1>7, <1>8, <1>9 DEF Web

LEMMA CliIsStep ==
    ASSUME NEW c \in Client, Cli(c)
    PROVE  OnStore(c)
<1> USE DEF OnStore, Step, Begin, Call, Do, AddDomain
<1>1. CASE cmdDomain(c) \/ cmdDomainCatchAll(c)
  BY <1>1 DEF cmdDomain, cmdDomainCatchAll
<1>2. CASE cmdMailbox(c)
  BY <1>2 DEF cmdMailbox, updateMailbox
<1>3. CASE cmdMailboxForward(c) \/ cmdAlias(c)
  BY <1>3 DEF cmdMailboxForward, cmdAlias
<1>4. CASE cmdGroup(c)
  BY <1>4 DEF cmdGroup, cmdGroupUpdate, Look
<1>5. CASE cmdAPI(c) \/ cmdAPIKey(c)
  BY <1>5 DEF cmdAPI, TokenChange, cmdAPIKey
<1> QED BY <1>1, <1>2, <1>3, <1>4, <1>5 DEF Cli

LEMMA FrontNextOK ==
    ASSUME IndInv, [FrontNext]_frontvars
    PROVE  [Next]_vars /\ IndInv'
<1>1. TypeOK
  BY DEF IndInv
<1>2. [Next]_vars
  <2>1. ASSUME NEW c \in Client, FrontStep(c) PROVE OnStore(c)
    BY <1>1, <2>1, PublicIsStep, LocalIsStep, WebIsStep, CliIsStep, AroundIsStep DEF FrontStep
  <2> QED BY <2>1 DEF FrontNext, OnStore, Next, frontvars
<1> QED BY <1>2, NextOK

-----------------------------------------------------------------------------

\* The public API, the server-wide API, the web UI and the command line, any number of their
\* requests at a time, keep the tables consistent: every row under the domain its address
\* names, one catch-all for a domain, and every id that a running call has read naming the
\* domain it was read for.
THEOREM FrontConsistent == FrontSpec => []IndInv
<1>1. FrontInit => IndInv
  BY InitOK DEF FrontInit
<1> QED BY <1>1, FrontNextOK, PTL DEF FrontSpec

\* The four ways in implement the Store: module Directory, whose callers are unconstrained.
THEOREM FrontImplements == FrontSpec => Spec
<1>1. FrontInit => Init
  BY DEF FrontInit
<1> QED BY <1>1, FrontConsistent, FrontNextOK, PTL DEF FrontSpec, Spec

\* Whichever way in generates, revokes or loses a domain's key, and whatever domains come and
\* go under its request, the keys that the public API accepts are those of the ledger.
THEOREM FrontKeepsLedger == FrontSpec => LedgerKept
BY FrontImplements, LedgerRefined, PTL

-----------------------------------------------------------------------------
(* What the statements leave alone.                                         *)

\* A key that has been generated stays that of its domain, and a group that has been created
\* keeps its address, for as long as it is there; its id is not given to another.
Stable ==
    /\ \A k \in ApiKey : issued[k] # None => issued'[k] = issued[k]
    /\ lastGroup <= lastGroup'
    /\ \A h \in mail_groups' :
          h.id <= lastGroup => \E g \in mail_groups : g.id = h.id /\ g.email = h.email

\* Every statement other than those of GroupCreate and GenerateKey that makes a row.
LEMMA StepStable ==
    ASSUME IndInv, NEW c \in Client, OnStore(c)
    PROVE  Stable
<1>0. /\ mail_groups \subseteq GroupRow /\ lastGroup \in Nat
      /\ issued \in [ApiKey -> Domain \cup {None}]
  BY DEF IndInv, TypeOK, DBTypeOK
<1>1. ASSUME UNCHANGED issued, UNCHANGED lastGroup, mail_groups' \subseteq mail_groups PROVE Stable
  BY <1>0, <1>1 DEF Stable, GroupRow
<1>2. CASE UNCHANGED << issued, lastGroup, mail_groups >>
  BY <1>1, <1>2
<1> USE DEF Spool, dbvars
<1>3. CASE DomainAdd(c) \/ DomainRemove(c) \/ notAGroup(c) \/ CheckAddressKind(c)
           \/ MailboxAdd(c) \/ MailboxAddUpsert(c) \/ MailboxCreate(c) \/ createMaildir(c)
           \/ MailboxCreateInsert(c)
  BY <1>3, <1>1
     DEF DomainAdd, DomainRemove, notAGroup, CheckAddressKind, MailboxAdd, MailboxAddUpsert,
         MailboxCreate, MailboxCreateInsert, createMaildir, domainID, InsertDomain, DeleteDomain,
         UpsertUser, InsertUser, UpdatePassword, UserTableOnly
<1>4. CASE MailboxRemove(c) \/ MailboxRemoveLeaveGroups(c) \/ MailboxRemoveSpool(c)
           \/ SomePasswd(c) \/ SomeSetEnabled(c) \/ ForwardSet(c) \/ ForwardSetUpsert(c)
           \/ SomeForwardClear(c)
  BY <1>4, <1>2
     DEF MailboxRemove, MailboxRemoveLeaveGroups, MailboxRemoveSpool, MailboxPasswd,
         MailboxSetEnabled, ForwardSet, ForwardSetUpsert, ForwardClear, SomePasswd,
         SomeSetEnabled, SomeForwardClear, DeleteUser, DeleteMemberships, MemberTableOnly,
         UpdatePassword, UpdateEnabled, UserTableOnly, UpsertForward, DeleteForward,
         ForwardTableOnly
<1>5. CASE AliasAdd(c) \/ AliasAddInsert(c) \/ SomeAliasRemove(c) \/ CatchAllSet(c)
           \/ CatchAllReplace(c) \/ GroupCreate(c) \/ GroupUpdate(c)
  BY <1>5, <1>2
     DEF SomeAliasRemove, AliasAdd, AliasAddInsert, AliasRemove, CatchAllSet, CatchAllReplace,
         GroupCreate, GroupUpdate, GroupGet, domainID, InsertIgnoreAlias, DeleteAlias,
         DeleteSource, ReplaceCatchAll, AliasTableOnly
<1>6. CASE GroupCreateInsert(c)
  BY <1>6, <1>0 DEF GroupCreateInsert, InsertGroup, Stable, GroupRow
<1>7. CASE GroupUpdateApply(c)
  <2> DEFINE new(g) == IF g.id = req[c].id
                       THEN [g EXCEPT !.post_policy = req[c].policy, !.allow_external = req[c].flag]
                       ELSE g
  <2>1. mail_groups' = {new(g) : g \in mail_groups} /\ UNCHANGED << issued, lastGroup >>
    BY <1>7 DEF GroupUpdateApply, UpdateGroup
  <2>2. \A g \in mail_groups : new(g).id = g.id /\ new(g).email = g.email
    BY <1>0 DEF GroupRow
  <2> HIDE DEF new
  <2>3. \A h \in mail_groups' : \E g \in mail_groups : g.id = h.id /\ g.email = h.email
    BY <2>1, <2>2
  <2> QED BY <1>0, <2>1, <2>3 DEF Stable
<1>8. CASE GroupUpdateMembers(c) \/ GroupDelete(c) \/ GroupDeleteLeaveGroups(c)
           \/ GroupAddMembers(c) \/ hostedDomains(c)
  BY <1>8, <1>1
     DEF GroupUpdateMembers, GroupDelete, GroupDeleteLeaveGroups, DeleteGroup,
         DeleteMemberships, MemberTableOnly, GroupAddMembers, hostedDomains, GroupGet
<1>9. CASE GroupAddMembersCheck(c) \/ GroupAddMembersInsert(c) \/ GroupRemoveMember(c)
           \/ GroupRemoveMemberApply(c) \/ GroupSetMemberRole(c) \/ GroupSetMemberRoleApply(c)
  BY <1>9, <1>2
     DEF GroupAddMembersCheck, GroupAddMembersInsert, GroupRemoveMember,
         GroupRemoveMemberApply, GroupSetMemberRole, GroupSetMemberRoleApply, GroupGet,
         UpsertMember, DeleteMember, UpdateRole, MemberTableOnly
<1>10. CASE GenerateKeyUpsert(c)
  <2>1. UNCHANGED << lastGroup, mail_groups >>
    BY <1>10 DEF GenerateKeyUpsert, UpsertKey, KeyTableOnly
  <2>2. \A k \in ApiKey : issued[k] # None => issued'[k] = issued[k]
    BY <1>10, <1>0 DEF GenerateKeyUpsert
  <2> QED BY <1>0, <2>1, <2>2 DEF Stable, GroupRow
<1>11. CASE GenerateKey(c) \/ RevokeKey(c) \/ Abandon(c) \/ UNCHANGED vars
  BY <1>11, <1>2 DEF GenerateKey, RevokeKey, DeleteKey, KeyTableOnly, Abandon, domainID, vars
<1> QED BY <1>3, <1>4, <1>5, <1>6, <1>7, <1>8, <1>9, <1>10, <1>11
   DEF OnStore, Step, Begin, Continue, SomePasswd, SomeSetEnabled, SomeForwardClear,
       SomeAliasRemove

\* What an open request may do stays within its bounds whatever the others do.
LEMMA DoorStable ==
    ASSUME IndInv, NEW c \in Client, OnStore(c), NEW d \in Door, NEW q \in Request, DoorOK(d, q)
    PROVE  DoorOK(d, q)'
<1>1. Stable
  BY StepStable
<1>2. mail_groups \subseteq GroupRow /\ lastGroup \in Nat /\ lastGroup' \in Nat
  <2>1. IndInv'
    BY NextOK DEF OnStore, Next
  <2> QED BY <2>1 DEF IndInv, TypeOK, DBTypeOK
<1>3. ASSUME NEW dom, OwnRequest(q, dom) PROVE OwnRequest(q, dom)'
  BY <1>1, <1>2, <1>3 DEF OwnRequest, Stable, Request
<1>4. PublicOK(d, q)'
  BY <1>1, <1>3 DEF DoorOK, PublicOK, Stable, Door
<1> QED BY <1>4 DEF DoorOK, StageOK, WayOK, LocalOK, WebOK

-----------------------------------------------------------------------------
(* What a call has after its first statement, and what it keeps.            *)

\* After the first statement of op, which has only read unless it deletes.
Begun(c, op) ==
    /\ req'[c] \in Request
    /\ req'[c].op = op
    /\ StageOK(req'[c])
    /\ op \in {"GroupUpdate", "GroupAddMembers", "GroupRemoveMember", "GroupSetMemberRole"} =>
          \E g \in mail_groups : req'[c].key = g.email /\ req'[c].id = g.id
    /\ op \notin {"MailboxRemove", "GroupDelete"} => UNCHANGED << dbvars, Spool >>

\* A call that starts with the SELECT of its domain's id.
LEMMA domainIDBegun ==
    ASSUME IndInv, NEW c \in Client, NEW q \in Request, domainID(c, q), StageOK(q),
           q.op \in ByDomain
    PROVE  Begun(c, q.op)
<1>1. PICK r \in virtual_domains : req' = [req EXCEPT ![c] = [q EXCEPT !.id = r.id]]
  BY DEF domainID
<1>2. r.id \in Nat /\ req \in [Client -> Request]
  BY DEF IndInv, TypeOK, DBTypeOK, DomainRow
<1>3. PICK n : n = [q EXCEPT !.id = r.id]
  OBVIOUS
<1>4. n \in Request /\ n.op = q.op /\ n.at = q.at
  BY <1>2, <1>3 DEF Request
<1>5. req'[c] = n
  BY <1>1, <1>2, <1>3
<1>6. UNCHANGED << dbvars, Spool >>
  BY DEF domainID
<1>7. StageOK(n)
  BY <1>4 DEF StageOK
<1> QED BY <1>4, <1>5, <1>6, <1>7 DEF Begun, ByDomain

\* A call that starts with the SELECT of its group.
LEMMA GroupGetBegun ==
    ASSUME IndInv, NEW c \in Client, NEW q \in Request, NEW g \in mail_groups,
           GroupGet(c, g, q), StageOK(q)
    PROVE  Begun(c, q.op)
<1>1. req' = [req EXCEPT ![c] = [q EXCEPT !.key = g.email, !.id = g.id,
                                           !.ext = g.allow_external]]
  BY DEF GroupGet
<1>2. /\ g.id \in Nat /\ g.email \in Source /\ g.allow_external \in BOOLEAN
      /\ req \in [Client -> Request]
  BY DEF IndInv, TypeOK, DBTypeOK, GroupRow, Source
<1>3. PICK n : n = [q EXCEPT !.key = g.email, !.id = g.id, !.ext = g.allow_external]
  OBVIOUS
<1>4. n \in Request /\ n.op = q.op /\ n.at = q.at /\ n.key = g.email /\ n.id = g.id
  BY <1>2, <1>3 DEF Request
<1>5. req'[c] = n
  BY <1>1, <1>2, <1>3
<1>6. UNCHANGED << dbvars, Spool >>
  BY DEF GroupGet
<1>7. StageOK(n)
  BY <1>4 DEF StageOK
<1> QED BY <1>4, <1>5, <1>6, <1>7 DEF Begun

\* A call that starts by reading or deleting a row of its address.
LEMMA StartsBegun ==
    ASSUME IndInv, NEW c \in Client, NEW q \in Request, req' = [req EXCEPT ![c] = q], StageOK(q),
           q.op \in {"ForwardSet", "MailboxRemove", "GroupDelete"},
           q.op = "ForwardSet" => UNCHANGED << dbvars, Spool >>
    PROVE  Begun(c, q.op)
<1>1. req'[c] = q
  BY DEF IndInv, TypeOK
<1> QED BY <1>1 DEF Begun

\* Every call of more than one statement.
LEMMA FirstStatement ==
    ASSUME IndInv, NEW c \in Client
    PROVE  /\ MailboxAdd(c) => Begun(c, "MailboxAdd")
           /\ MailboxCreate(c) => Begun(c, "MailboxCreate")
           /\ MailboxRemove(c) => Begun(c, "MailboxRemove")
           /\ ForwardSet(c) => Begun(c, "ForwardSet")
           /\ AliasAdd(c) => Begun(c, "AliasAdd")
           /\ CatchAllSet(c) => Begun(c, "CatchAllSet")
           /\ GroupCreate(c) => Begun(c, "GroupCreate")
           /\ GroupUpdate(c) => Begun(c, "GroupUpdate")
           /\ GroupDelete(c) => Begun(c, "GroupDelete")
           /\ GroupAddMembers(c) => Begun(c, "GroupAddMembers")
           /\ GroupRemoveMember(c) => Begun(c, "GroupRemoveMember")
           /\ GroupSetMemberRole(c) => Begun(c, "GroupSetMemberRole")
           /\ GenerateKey(c) => Begun(c, "GenerateKey")
<1>0. Idle \in Request /\ Policies \subseteq Policy
  BY IdleOK, InputAssumption DEF CallOK
<1>1. ASSUME MailboxAdd(c) PROVE Begun(c, "MailboxAdd")
  <2>1. PICK e \in Addr, p \in Password :
           domainID(c, [Idle EXCEPT !.op = "MailboxAdd", !.at = "notAGroup", !.key = e, !.pw = p])
    BY <1>1 DEF MailboxAdd
  <2>2. PICK q : q = [Idle EXCEPT !.op = "MailboxAdd", !.at = "notAGroup", !.key = e, !.pw = p]
    OBVIOUS
  <2>3. q \in Request /\ q.op = "MailboxAdd" /\ StageOK(q)
    BY <1>0, <2>2 DEF Request, AllOps, Label, Source, StageOK
  <2> QED BY <2>1, <2>2, <2>3, domainIDBegun DEF ByDomain
<1>2. ASSUME MailboxCreate(c) PROVE Begun(c, "MailboxCreate")
  <2>1. PICK e \in Addr, p \in Password :
           domainID(c, [Idle EXCEPT !.op = "MailboxCreate", !.at = "addressKind",
                                    !.key = e, !.pw = p])
    BY <1>2 DEF MailboxCreate
  <2>2. PICK q : q = [Idle EXCEPT !.op = "MailboxCreate", !.at = "addressKind",
                                  !.key = e, !.pw = p]
    OBVIOUS
  <2>3. q \in Request /\ q.op = "MailboxCreate" /\ StageOK(q)
    BY <1>0, <2>2 DEF Request, AllOps, Label, Source, StageOK
  <2> QED BY <2>1, <2>2, <2>3, domainIDBegun DEF ByDomain
<1>3. ASSUME MailboxRemove(c) PROVE Begun(c, "MailboxRemove")
  <2>1. PICK e \in Addr : req' = [req EXCEPT ![c] = [Idle EXCEPT !.op = "MailboxRemove",
                                                        !.at = "leaveGroups", !.key = e]]
    BY <1>3 DEF MailboxRemove
  <2>2. PICK q : q = [Idle EXCEPT !.op = "MailboxRemove", !.at = "leaveGroups", !.key = e]
    OBVIOUS
  <2>3. q \in Request /\ q.op = "MailboxRemove" /\ StageOK(q)
    BY <1>0, <2>2 DEF Request, AllOps, Label, Source, StageOK
  <2> QED BY <2>1, <2>2, <2>3, StartsBegun
<1>4. ASSUME ForwardSet(c) PROVE Begun(c, "ForwardSet")
  <2>1. PICK e \in Addr, d \in Addr, keep \in BOOLEAN :
           req' = [req EXCEPT ![c] = [Idle EXCEPT !.op = "ForwardSet", !.at = "apply",
                                                  !.key = e, !.arg = d, !.flag = keep]]
    BY <1>4 DEF ForwardSet
  <2>2. PICK q : q = [Idle EXCEPT !.op = "ForwardSet", !.at = "apply", !.key = e, !.arg = d,
                                  !.flag = keep]
    OBVIOUS
  <2>3. q \in Request /\ q.op = "ForwardSet" /\ StageOK(q)
    BY <1>0, <2>2 DEF Request, AllOps, Label, Source, StageOK
  <2>4. UNCHANGED << dbvars, Spool >>
    BY <1>4 DEF ForwardSet
  <2> QED BY <2>1, <2>2, <2>3, <2>4, StartsBegun
<1>5. ASSUME AliasAdd(c) PROVE Begun(c, "AliasAdd")
  <2>1. PICK s \in Addr, d \in Addr :
           domainID(c, [Idle EXCEPT !.op = "AliasAdd", !.at = "notAGroup", !.key = s, !.arg = d])
    BY <1>5 DEF AliasAdd
  <2>2. PICK q : q = [Idle EXCEPT !.op = "AliasAdd", !.at = "notAGroup", !.key = s, !.arg = d]
    OBVIOUS
  <2>3. q \in Request /\ q.op = "AliasAdd" /\ StageOK(q)
    BY <1>0, <2>2 DEF Request, AllOps, Label, Source, StageOK
  <2> QED BY <2>1, <2>2, <2>3, domainIDBegun DEF ByDomain
<1>6. ASSUME CatchAllSet(c) PROVE Begun(c, "CatchAllSet")
  <2>1. PICK dom \in Domain, d \in Addr \cup {None} :
           domainID(c, [Idle EXCEPT !.op = "CatchAllSet", !.at = "replace",
                                    !.key = dom, !.arg = d])
    BY <1>6 DEF CatchAllSet
  <2>2. PICK q : q = [Idle EXCEPT !.op = "CatchAllSet", !.at = "replace", !.key = dom, !.arg = d]
    OBVIOUS
  <2>3. q \in Request /\ q.op = "CatchAllSet" /\ StageOK(q)
    BY <1>0, <2>2 DEF Request, AllOps, Label, Source, StageOK
  <2> QED BY <2>1, <2>2, <2>3, domainIDBegun DEF ByDomain
<1>7. ASSUME GroupCreate(c) PROVE Begun(c, "GroupCreate")
  <2>1. PICK e \in Addr, p \in Policies, ext \in BOOLEAN :
           domainID(c, [Idle EXCEPT !.op = "GroupCreate", !.at = "addressKind",
                                    !.key = e, !.policy = p, !.flag = ext])
    BY <1>7 DEF GroupCreate
  <2>2. PICK q : q = [Idle EXCEPT !.op = "GroupCreate", !.at = "addressKind",
                                  !.key = e, !.policy = p, !.flag = ext]
    OBVIOUS
  <2>3. q \in Request /\ q.op = "GroupCreate" /\ StageOK(q)
    BY <1>0, <2>2 DEF Request, AllOps, Label, Source, StageOK
  <2> QED BY <2>1, <2>2, <2>3, domainIDBegun DEF ByDomain
<1>8. ASSUME GroupUpdate(c) PROVE Begun(c, "GroupUpdate")
  <2>1. PICK g \in mail_groups, p \in Policies, ext \in BOOLEAN :
           GroupGet(c, g, [Idle EXCEPT !.op = "GroupUpdate", !.policy = p, !.flag = ext,
              !.at = IF ~ext /\ g.allow_external THEN "members" ELSE "update"])
    BY <1>8 DEF GroupUpdate
  <2>2. PICK l : l = IF ~ext /\ g.allow_external THEN "members" ELSE "update"
    OBVIOUS
  <2>3. PICK q : q = [Idle EXCEPT !.op = "GroupUpdate", !.policy = p, !.flag = ext, !.at = l]
    OBVIOUS
  <2>4. l \in Label
    BY <2>2 DEF Label
  <2>5. q \in Request /\ q.op = "GroupUpdate" /\ StageOK(q)
    BY <1>0, <2>3, <2>4 DEF Request, AllOps, Source, StageOK
  <2> QED BY <2>1, <2>2, <2>3, <2>5, GroupGetBegun
<1>9. ASSUME GroupDelete(c) PROVE Begun(c, "GroupDelete")
  <2>1. PICK e \in Addr : req' = [req EXCEPT ![c] = [Idle EXCEPT !.op = "GroupDelete",
                                                        !.at = "leaveGroups", !.key = e]]
    BY <1>9 DEF GroupDelete
  <2>2. PICK q : q = [Idle EXCEPT !.op = "GroupDelete", !.at = "leaveGroups", !.key = e]
    OBVIOUS
  <2>3. q \in Request /\ q.op = "GroupDelete" /\ StageOK(q)
    BY <1>0, <2>2 DEF Request, AllOps, Label, Source, StageOK
  <2> QED BY <2>1, <2>2, <2>3, StartsBegun
<1>10. ASSUME GroupAddMembers(c) PROVE Begun(c, "GroupAddMembers")
  <2>1. PICK g \in mail_groups, b \in Batch, r \in Role :
           GroupGet(c, g, [Idle EXCEPT !.op = "GroupAddMembers", !.at = "hosted", !.todo = b,
                                       !.role = r])
    BY <1>10 DEF GroupAddMembers
  <2>2. PICK q : q = [Idle EXCEPT !.op = "GroupAddMembers", !.at = "hosted", !.todo = b,
                                  !.role = r]
    OBVIOUS
  <2>3. b \in Seq(Addr)
    BY BatchAssumption DEF Batch
  <2>4. q \in Request /\ q.op = "GroupAddMembers" /\ StageOK(q)
    BY <1>0, <2>2, <2>3 DEF Request, AllOps, Label, Source, StageOK
  <2> QED BY <2>1, <2>2, <2>4, GroupGetBegun
<1>11. ASSUME GroupRemoveMember(c) PROVE Begun(c, "GroupRemoveMember")
  <2>1. PICK g \in mail_groups, a \in Addr :
           GroupGet(c, g, [Idle EXCEPT !.op = "GroupRemoveMember", !.at = "apply", !.arg = a])
    BY <1>11 DEF GroupRemoveMember
  <2>2. PICK q : q = [Idle EXCEPT !.op = "GroupRemoveMember", !.at = "apply", !.arg = a]
    OBVIOUS
  <2>3. q \in Request /\ q.op = "GroupRemoveMember" /\ StageOK(q)
    BY <1>0, <2>2 DEF Request, AllOps, Label, Source, StageOK
  <2> QED BY <2>1, <2>2, <2>3, GroupGetBegun
<1>12. ASSUME GroupSetMemberRole(c) PROVE Begun(c, "GroupSetMemberRole")
  <2>1. PICK g \in mail_groups, a \in Addr, r \in Role :
           GroupGet(c, g, [Idle EXCEPT !.op = "GroupSetMemberRole", !.at = "apply", !.arg = a,
                                       !.role = r])
    BY <1>12 DEF GroupSetMemberRole
  <2>2. PICK q : q = [Idle EXCEPT !.op = "GroupSetMemberRole", !.at = "apply", !.arg = a,
                                  !.role = r]
    OBVIOUS
  <2>3. q \in Request /\ q.op = "GroupSetMemberRole" /\ StageOK(q)
    BY <1>0, <2>2 DEF Request, AllOps, Label, Source, StageOK
  <2> QED BY <2>1, <2>2, <2>3, GroupGetBegun
<1>13. ASSUME GenerateKey(c) PROVE Begun(c, "GenerateKey")
  <2>1. PICK d \in Domain :
           domainID(c, [Idle EXCEPT !.op = "GenerateKey", !.at = "apply", !.key = d])
    BY <1>13 DEF GenerateKey
  <2>2. PICK q : q = [Idle EXCEPT !.op = "GenerateKey", !.at = "apply", !.key = d]
    OBVIOUS
  <2>3. q \in Request /\ q.op = "GenerateKey" /\ StageOK(q)
    BY <1>0, <2>2 DEF Request, AllOps, Label, Source, StageOK
  <2> QED BY <2>1, <2>2, <2>3, domainIDBegun DEF ByDomain
<1> QED BY <1>1, <1>2, <1>3, <1>4, <1>5, <1>6, <1>7, <1>8, <1>9, <1>10, <1>11, <1>12, <1>13

\* The statements after the first one: the call ends, or keeps what it is about.
LEMMA ContinueKeeps ==
    ASSUME IndInv, NEW c \in Client, StageOK(req[c]), Continue(c)
    PROVE  /\ req[c].op # "idle"
           /\ \/ req'[c] = Idle
              \/ /\ req'[c] \in Request /\ StageOK(req'[c])
                 /\ req'[c].op = req[c].op /\ req'[c].key = req[c].key
                 /\ req'[c].id = req[c].id
<1>1. PICK q \in Request : q = req[c]
  BY DEF IndInv, TypeOK
<1>2. req \in [Client -> Request]
  BY DEF IndInv, TypeOK
<1> DEFINE Kept(n) == /\ n \in Request /\ StageOK(n)
                      /\ n.op = q.op /\ n.key = q.key /\ n.id = q.id
<1>3. ASSUME NEW l \in Label, req' = [req EXCEPT ![c].at = l], q.op # "idle",
             q.op = "MailboxCreate" => l \in {"addressKind", "insert", "createMaildir"},
             q.op = "MailboxRemove" => l \in {"leaveGroups", "removeAll"},
             q.op = "GroupDelete" => l = "leaveGroups",
             q.op = "GroupAddMembers" => l \in {"hosted", "check", "insert"}
      PROVE  q.op # "idle" /\ Kept(req'[c])
  <2>1. PICK n : n = [q EXCEPT !.at = l]
    OBVIOUS
  <2>2. n \in Request /\ n.op = q.op /\ n.key = q.key /\ n.id = q.id /\ n.at = l
    BY <2>1 DEF Request
  <2>3. req'[c] = n
    BY <1>1, <1>2, <1>3, <2>1
  <2>4. StageOK(n)
    BY <1>3, <2>2 DEF StageOK
  <2> QED BY <1>3, <2>2, <2>3, <2>4
<1>4. ASSUME req' = [req EXCEPT ![c] = Idle] PROVE req'[c] = Idle
  BY <1>2, <1>4
<1> HIDE DEF Kept
<1> USE DEF Goto, Return, At
<1>5. CASE notAGroup(c)
  <2>1. q.at = "notAGroup"
    BY <1>1, <1>5 DEF notAGroup
  <2>2. "insert" \in Label
    BY DEF Label
  <2> QED BY <1>1, <1>3, <1>4, <1>5, <2>1, <2>2 DEF notAGroup, StageOK, Kept
<1>6. CASE CheckAddressKind(c)
  <2>1. q.at = "addressKind"
    BY <1>1, <1>6 DEF CheckAddressKind
  <2>2. "insert" \in Label
    BY DEF Label
  <2> QED BY <1>1, <1>3, <1>4, <1>6, <2>1, <2>2 DEF CheckAddressKind, StageOK, Kept
<1>7. CASE MailboxAddUpsert(c) \/ MailboxCreateInsert(c) \/ createMaildir(c)
  <2>1. "createMaildir" \in Label
    BY DEF Label
  <2>2. q.op # "idle"
    BY <1>1, <1>7 DEF MailboxAddUpsert, MailboxCreateInsert, createMaildir, StageOK
  <2> QED BY <1>1, <1>3, <1>4, <1>7, <2>1, <2>2
          DEF MailboxAddUpsert, MailboxCreateInsert, createMaildir, StageOK, Kept
<1>8. CASE MailboxRemoveLeaveGroups(c) \/ MailboxRemoveSpool(c) \/ GroupDeleteLeaveGroups(c)
  <2>1. "removeAll" \in Label
    BY DEF Label
  <2> QED BY <1>1, <1>3, <1>4, <1>8, <2>1
          DEF MailboxRemoveLeaveGroups, MailboxRemoveSpool, GroupDeleteLeaveGroups, Kept
<1>9. CASE \/ ForwardSetUpsert(c) \/ AliasAddInsert(c) \/ CatchAllReplace(c)
           \/ GroupCreateInsert(c) \/ GroupUpdateApply(c) \/ GroupRemoveMemberApply(c)
           \/ GroupSetMemberRoleApply(c) \/ GenerateKeyUpsert(c)
  BY <1>1, <1>4, <1>9
     DEF ForwardSetUpsert, AliasAddInsert, CatchAllReplace, GroupCreateInsert,
         GroupUpdateApply, GroupRemoveMemberApply, GroupSetMemberRoleApply, GenerateKeyUpsert
<1>10. CASE GroupUpdateMembers(c)
  <2>1. "update" \in Label
    BY DEF Label
  <2> QED BY <1>1, <1>3, <1>4, <1>10, <2>1 DEF GroupUpdateMembers, Kept
<1>11. CASE hostedDomains(c)
  <2>1. PICK n : n = [q EXCEPT !.hosted = {r.name : r \in virtual_domains}, !.at = "check"]
    OBVIOUS
  <2>2. {r.name : r \in virtual_domains} \subseteq Domain
    BY DEF IndInv, TypeOK, DBTypeOK, DomainRow
  <2>3. n \in Request /\ n.op = q.op /\ n.key = q.key /\ n.id = q.id /\ n.at = "check"
    BY <2>1, <2>2 DEF Request, Label
  <2>4. q.op = "GroupAddMembers"
    BY <1>1, <1>11 DEF hostedDomains
  <2>5. req'[c] = n
    BY <1>1, <1>2, <1>11, <2>1 DEF hostedDomains
  <2> QED BY <1>1, <2>3, <2>4, <2>5 DEF StageOK
<1>12. ASSUME q.op = "GroupAddMembers", NextAddress(c)
       PROVE  q.op # "idle" /\ (req'[c] = Idle \/ Kept(req'[c]))
  <2>1. CASE Len(q.todo) > 1
    <3>1. PICK n : n = [q EXCEPT !.todo = Tail(q.todo), !.at = "check"]
      OBVIOUS
    <3>2. q.todo \in Seq(Addr)
      BY DEF Request
    <3>3. Tail(q.todo) \in Seq(Addr)
      BY <2>1, <3>2
    <3>4. n \in Request /\ n.op = q.op /\ n.key = q.key /\ n.id = q.id /\ n.at = "check"
      BY <3>1, <3>3 DEF Request, Label
    <3>5. req'[c] = n
      BY <1>1, <1>2, <1>12, <2>1, <3>1 DEF NextAddress
    <3> QED BY <1>12, <3>4, <3>5 DEF StageOK, Kept
  <2>2. CASE ~(Len(q.todo) > 1)
    BY <1>1, <1>2, <1>12, <2>2 DEF NextAddress
  <2> QED BY <2>1, <2>2
<1>13. CASE GroupAddMembersCheck(c) \/ GroupAddMembersInsert(c)
  <2>1. "insert" \in Label
    BY DEF Label
  <2>2. q.op = "GroupAddMembers"
    BY <1>1, <1>13 DEF GroupAddMembersCheck, GroupAddMembersInsert
  <2> QED BY <1>1, <1>3, <1>4, <1>12, <1>13, <2>1, <2>2
          DEF GroupAddMembersCheck, GroupAddMembersInsert, Kept
<1> QED BY <1>5, <1>6, <1>7, <1>8, <1>9, <1>10, <1>11, <1>13 DEF Continue

-----------------------------------------------------------------------------
(* Every step of a request keeps FrontInv.                                  *)

Way  == {"public", "local", "web", "cli"}
Then == {"reply", "record", "ifAdded", "ifAllAdded"}

\* What a step may use.
LEMMA FrontStateOK ==
    ASSUME FrontInv, NEW c \in Client
    PROVE  /\ IndInv /\ door \in [Client -> Door] /\ api_tokens \subseteq TokenRow
           /\ door[c] \in Door /\ req[c] \in Request /\ DoorOK(door[c], req[c])
  BY DEF FrontInv, FrontTypeOK, IndInv, TypeOK

\* A step of one request leaves the others as they are.
LEMMA OtherCalls ==
    ASSUME IndInv, NEW c \in Client, OnStore(c), NEW d \in Client, c # d
    PROVE  req'[d] = req[d]
  BY OwnCallOnly DEF OnStore, IndInv, vars

\* The invariant holds after a step of request c if it holds of that request.
LEMMA DoorStep ==
    ASSUME FrontInv, NEW c \in Client, OnStore(c), NEW x \in Door, door' = [door EXCEPT ![c] = x],
           api_tokens' \subseteq TokenRow, DoorOK(x, req'[c])
    PROVE  FrontInv'
<1>1. IndInv /\ door \in [Client -> Door]
  BY FrontStateOK
<1>2. IndInv'
  BY <1>1, NextOK DEF OnStore, Next
<1>3. FrontTypeOK'
  BY <1>1, <1>2 DEF FrontTypeOK, IndInv
<1>4. ASSUME NEW d \in Client PROVE DoorOK(door[d], req[d])'
  <2>1. PICK y \in Door, p \in Request : y = door'[d] /\ p = req'[d]
    BY <1>2, <1>3 DEF FrontTypeOK, IndInv, TypeOK
  <2>2. DoorOK(y, p)
    <3>1. CASE d = c
      BY <1>1, <2>1, <3>1
    <3>2. CASE d # c
      BY <1>1, <2>1, <3>2, OtherCalls, FrontStateOK
    <3> QED BY <3>1, <3>2
  <2>3. DoorOK(y, p)'
    BY <1>1, <2>2, DoorStable
  <2> QED BY <2>1, <2>3 DEF DoorOK, StageOK, WayOK, PublicOK, OwnRequest, LocalOK, ScopesAllow,
                            WebOK
<1> QED BY <1>2, <1>3, <1>4 DEF FrontInv

\* The request of way k that is about to run its call.
LEMMA OpenedOK ==
    ASSUME FrontInv, NEW c \in Client, NEW k \in Way, AtHandler(c, k)
    PROVE  /\ Opened(c, k) \in Door /\ Opened(c, k).kind = k
           /\ DoorOK(Opened(c, k), req[c])
           /\ k \in {"public", "local"} => Opened(c, k) = door[c]
<1>1. door[c] \in Door /\ DoorOK(door[c], req[c])
  BY FrontStateOK
<1>2. CASE k \in {"public", "local"}
  <2>1. k \notin {"web", "cli"}
    BY <1>2
  <2>2. Opened(c, k) = door[c] /\ door[c].kind = k
    BY <2>1 DEF AtHandler, Opened
  <2> QED BY <1>1, <2>1, <2>2
<1>3. CASE k \in {"web", "cli"}
  <2>1. PICK d : d = [Closed EXCEPT !.kind = k] /\ d = Opened(c, k)
    BY <1>3 DEF Opened
  <2>2. Closed \in Door
    BY DEF Closed, Door
  <2>3. d \in Door /\ d.kind = k
    BY <1>3, <2>1, <2>2 DEF Door
  <2>4. d.at = "closed" /\ d.then = "reply" /\ d.key = {} /\ d.seen = {}
    BY <2>1 DEF Closed
  <2>5. DoorOK(d, req[c])
    BY <1>1, <1>3, <2>3, <2>4 DEF DoorOK, WayOK, PublicOK, LocalOK, WebOK
  <2> QED BY <1>3, <2>1, <2>3, <2>5
<1> QED BY <1>2, <1>3 DEF Way

\* No request is open.
LEMMA ClosedOK ==
    ASSUME NEW q, StageOK(q)
    PROVE  Closed \in Door /\ DoorOK(Closed, q)
<1>1. Closed \in Door
  BY DEF Closed, Door
<1>2. Closed.at = "closed" /\ Closed.then = "reply" /\ Closed.kind = "none"
  BY DEF Closed
<1> QED BY <1>1, <1>2 DEF DoorOK, WayOK, PublicOK, LocalOK, WebOK

\* Record x is that of the same request as d.
SameRequest(d, x) ==
    /\ x \in Door
    /\ x.kind = d.kind /\ x.then = d.then /\ x.key = d.key /\ x.dom = d.dom
    /\ x.scopes = d.scopes
    /\ x.seen = d.seen \/ x.seen = {}

\* A request that is left with its audit entry or its answer, or has been cut short.
LEMMA AnsweringOK ==
    ASSUME NEW d, NEW p, DoorOK(d, p), NEW x, SameRequest(d, x), x.at \in {"record", "gone"},
           NEW q, StageOK(q)
    PROVE  DoorOK(x, q)
  BY DEF SameRequest, DoorOK, WayOK, PublicOK, LocalOK, WebOK

\* A call of one statement.
LEMMA FinishOK ==
    ASSUME FrontInv, NEW c \in Client, OnStore(c), UNCHANGED req, NEW d, DoorOK(d, req[c]),
           NEW e, SameRequest(d, e), NEW t, Finish(c, e, t)
    PROVE  FrontInv'
<1>1. PICK x : x = IF t = "record" THEN [e EXCEPT !.at = "record", !.changed = Changes] ELSE Closed
  OBVIOUS
<1>2. StageOK(req'[c]) /\ req'[c] = req[c]
  BY DEF DoorOK
<1>3. door' = [door EXCEPT ![c] = x] /\ api_tokens' \subseteq TokenRow
  BY <1>1, FrontStateOK DEF Finish, To
<1>4. x \in Door /\ DoorOK(x, req'[c])
  <2>1. CASE t = "record"
    <3>1. PICK b \in BOOLEAN : b = Changes
      BY DEF Changes
    <3>2. SameRequest(d, x) /\ x.at = "record"
      BY <1>1, <2>1, <3>1 DEF SameRequest, Door
    <3> QED BY <1>2, <3>2, AnsweringOK DEF SameRequest
  <2>2. CASE t # "record"
    BY <1>1, <1>2, <2>2, ClosedOK
  <2> QED BY <2>1, <2>2
<1> QED BY <1>3, <1>4, DoorStep

\* A handler that calls with one statement.
LEMMA DoOK ==
    ASSUME FrontInv, NEW c \in Client, OnStore(c), UNCHANGED req, NEW k \in Way, NEW t,
           AtHandler(c, k), Finish(c, Opened(c, k), t)
    PROVE  FrontInv'
<1>1. DoorOK(Opened(c, k), req[c]) /\ SameRequest(Opened(c, k), Opened(c, k))
  BY OpenedOK DEF SameRequest
<1> QED BY <1>1, FinishOK

\* A handler that has added a domain, and goes on with its DKIM key.
LEMMA AddDomainOK ==
    ASSUME FrontInv, NEW c \in Client, OnStore(c), NEW k \in {"local", "web", "cli"},
           NEW t \in {"reply", "record"}, k = "web" => t = "record", AddDomain(c, k, t)
    PROVE  FrontInv'
<1>1. PICK o \in Door : /\ o = Opened(c, k) /\ o.kind = k /\ DoorOK(o, req[c])
  BY OpenedOK DEF AddDomain, Way
<1>2. PICK b \in BOOLEAN : b = Changes
  BY DEF Changes
<1>3. PICK x : x = [o EXCEPT !.at = "dkim", !.then = t, !.changed = b]
  OBVIOUS
<1>4. x \in Door /\ x.kind = o.kind /\ x.at = "dkim" /\ x.then = t
  BY <1>3 DEF Door
<1>5. req'[c] = req[c] /\ StageOK(req[c])
  BY <1>1 DEF AddDomain, DomainAdd, DoorOK
<1>6. DoorOK(x, req[c])
  BY <1>1, <1>4, <1>5 DEF DoorOK, WayOK, PublicOK, LocalOK, WebOK
<1>7. door' = [door EXCEPT ![c] = x] /\ api_tokens' \subseteq TokenRow
  BY <1>1, <1>2, <1>3, FrontStateOK DEF AddDomain, To
<1> QED BY <1>4, <1>5, <1>6, <1>7, DoorStep

\* What an open request of web may be in.
WebCall(q, t) ==
    /\ t \in {"record", "ifAdded"}
    /\ t = "ifAdded" => q.op = "GroupAddMembers"
    /\ q.op # "MailboxAdd"

\* The first statement of a call of more than one.
LEMMA CallingOK ==
    ASSUME FrontInv, NEW c \in Client, OnStore(c), NEW d, DoorOK(d, req[c]),
           NEW e, SameRequest(d, e), NEW t \in Then, Calling(c, e, t), NEW op, Begun(c, op),
           d.kind = "public" => OwnRequest(req'[c], d.dom),
           d.kind = "local" => ScopesAllow(d.scopes, req'[c]),
           d.kind = "web" => WebCall(req'[c], t)
    PROVE  FrontInv'
<1>0. PICK b \in BOOLEAN : b = Changes
  BY DEF Changes
<1>1. PICK x : x = [e EXCEPT !.at = "calling", !.then = t, !.changed = b]
  OBVIOUS
<1>2. door' = [door EXCEPT ![c] = x] /\ api_tokens' \subseteq TokenRow
  BY <1>0, <1>1, FrontStateOK DEF Calling, To
<1>3. /\ x \in Door /\ x.kind = e.kind /\ x.key = e.key /\ x.dom = e.dom /\ x.seen = e.seen
      /\ x.scopes = e.scopes /\ x.at = "calling" /\ x.then = t /\ x.changed = b
  BY <1>1 DEF SameRequest, Door, Then
<1>4. PICK q : q = req'[c]
  OBVIOUS
<1>5. StageOK(q) /\ q.op = op
  BY <1>4 DEF Begun
<1>6. b => op \in {"MailboxRemove", "GroupDelete"}
  BY <1>0 DEF Begun, Changes, dbvars
<1>7. WayOK(x)
  BY <1>3 DEF DoorOK, WayOK, Then
<1>8. PublicOK(x, q) /\ LocalOK(x, q)
  BY <1>3, <1>4 DEF DoorOK, PublicOK, LocalOK, SameRequest
<1>9. WebOK(x, q)
  BY <1>3, <1>4, <1>5, <1>6 DEF WebOK, WebCall, SameRequest
<1> QED BY <1>2, <1>3, <1>4, <1>5, <1>7, <1>8, <1>9, DoorStep DEF DoorOK

\* A handler that calls with more than one statement.
LEMMA CallOpenedOK ==
    ASSUME FrontInv, NEW c \in Client, OnStore(c), NEW k \in Way, AtHandler(c, k),
           NEW t \in Then, Calling(c, Opened(c, k), t), NEW op, Begun(c, op),
           k = "public" => OwnRequest(req'[c], door[c].dom),
           k = "local" => ScopesAllow(door[c].scopes, req'[c]),
           k = "web" => WebCall(req'[c], t)
    PROVE  FrontInv'
<1>1. /\ DoorOK(Opened(c, k), req[c]) /\ SameRequest(Opened(c, k), Opened(c, k))
      /\ Opened(c, k).kind = k
      /\ k \in {"public", "local"} => Opened(c, k) = door[c]
  BY OpenedOK DEF SameRequest
<1> QED BY <1>1, CallingOK

\* A handler that goes on at l with record d.
LEMMA LookOK ==
    ASSUME FrontInv, NEW c \in Client, NEW d, NEW l, Look(c, l, d), NEW x,
           x = [d EXCEPT !.at = l], x \in Door, DoorOK(x, req[c])
    PROVE  FrontInv'
<1>1. OnStore(c) /\ req'[c] = req[c]
  BY DEF Look, OnStore, vars
<1>2. door' = [door EXCEPT ![c] = x] /\ api_tokens' \subseteq TokenRow
  BY FrontStateOK DEF Look, To
<1> QED BY <1>1, <1>2, DoorStep

\* The address of the call is one of the request's domain.
LEMMA BegunOwn ==
    ASSUME IndInv, NEW c \in Client, NEW op \in PublicOps, Begun(c, op),
           NEW dom, req'[c].key \in Addr, DomainOf[req'[c].key] = dom
    PROVE  OwnRequest(req'[c], dom)
<1>1. PICK q : q = req'[c]
  OBVIOUS
<1>2. q.op = op /\ q.key \in Addr /\ DomainOf[q.key] = dom
  BY <1>1 DEF Begun
<1>3. ASSUME op \in ByGroup
      PROVE  q.id <= lastGroup /\ \A g \in mail_groups : g.id = q.id => DomainOf[g.email] = dom
  <2>1. PICK g \in mail_groups : q.key = g.email /\ q.id = g.id
    BY <1>1, <1>3 DEF Begun, ByGroup
  <2> QED BY <1>2, <2>1 DEF IndInv, KeysUnique
<1> QED BY <1>1, <1>2, <1>3 DEF OwnRequest

\* auth: the key that Verify accepted was generated for the domain of the request.
LEMMA authOK ==
    ASSUME FrontInv, NEW c \in Client, auth(c)
    PROVE  FrontInv'
<1>1. OnStore(c) /\ req'[c] = req[c]
  BY DEF auth, OnStore, vars
<1>2. PICK k \in ApiKey, d \in Domain :
         /\ Verifies(k, d)
         /\ To(c, [Closed EXCEPT !.kind = "public", !.at = "handler", !.key = {k}, !.dom = d])
  BY DEF auth
<1>3. PICK x : x = [Closed EXCEPT !.kind = "public", !.at = "handler", !.key = {k}, !.dom = d]
  OBVIOUS
<1>4. Closed \in Door
  BY DEF Closed, Door
<1>5. x \in Door /\ x.kind = "public" /\ x.at = "handler" /\ x.key = {k} /\ x.dom = d
  BY <1>3, <1>4 DEF Door
<1>6. x.then = "reply" /\ x.seen = {}
  BY <1>3 DEF Closed
<1>7. issued[k] = d
  BY <1>2, FrontStateOK DEF Verifies, IndInv, KeysUnique, HomedRows
<1>8. d # None
  BY NoneAssumption DEF Source
<1>9. DoorOK(x, req[c])
  BY <1>5, <1>6, <1>7, <1>8, FrontStateOK DEF DoorOK, WayOK, PublicOK, LocalOK, WebOK
<1> QED BY <1>1, <1>2, <1>3, <1>5, <1>9, DoorStep, FrontStateOK DEF To

\* address(): a call of the public API that is for an address of its own domain.
LEMMA OwnCallOK ==
    ASSUME FrontInv, NEW c \in Client, OnStore(c), AtHandler(c, "public"), NEW t \in Then,
           Calling(c, Opened(c, "public"), t), NEW op \in PublicOps, Begun(c, op),
           req'[c].key \in OwnAddr(c)
    PROVE  FrontInv'
<1>1. OwnRequest(req'[c], door[c].dom)
  BY BegunOwn, FrontStateOK DEF OwnAddr
<1> QED BY <1>1, CallOpenedOK DEF Way

\* The handlers of the public API that only call.
LEMMA PublicCallsOK ==
    ASSUME FrontInv, NEW c \in Client, OnStore(c),
           \/ public_handleMailboxCreate(c) \/ public_handleAliasCreate(c)
           \/ public_handleGroupCreate(c) \/ public_handleGroupDelete(c)
           \/ public_handleGroupAddMembers(c) \/ public_handleGroupRemoveMember(c)
           \/ public_handleForwardSet(c)
    PROVE  FrontInv'
<1>1. IndInv
  BY FrontStateOK
<1>2. PICK op \in PublicOps, t \in Then :
         /\ AtHandler(c, "public") /\ Begun(c, op) /\ req'[c].key \in OwnAddr(c)
         /\ Calling(c, Opened(c, "public"), t)
  BY <1>1, FirstStatement
     DEF public_handleMailboxCreate, public_handleAliasCreate, public_handleGroupCreate,
         public_handleGroupDelete, public_handleGroupAddMembers,
         public_handleGroupRemoveMember, public_handleForwardSet, OwnCall, Call, PublicOps, Then
<1> QED BY <1>2, OwnCallOK

\* The handlers of the public API that call with one statement.
LEMMA PublicDoOK ==
    ASSUME FrontInv, NEW c \in Client, OnStore(c),
           \/ public_handleMailboxPassword(c) \/ public_handleMailboxName(c)
           \/ public_handleMailboxQuota(c) \/ public_handleMailboxStatus(c)
           \/ public_handleAliasDelete(c)
    PROVE  FrontInv'
<1>1. PICK t : AtHandler(c, "public") /\ Finish(c, Opened(c, "public"), t) /\ UNCHANGED req
  BY DEF public_handleMailboxPassword, public_handleMailboxName, public_handleMailboxQuota,
         public_handleMailboxStatus, public_handleAliasDelete, Do, MailboxPasswd, updateMailbox,
         MailboxSetEnabled, AliasRemove, vars
<1> QED BY <1>1, DoOK DEF Way

\* MailboxGet leaves the request with an address of its own domain.
LEMMA FindOK ==
    ASSUME FrontInv, NEW c \in Client, NEW l \in {"delete", "clear"}, Find(c, l)
    PROVE  FrontInv'
<1>1. PICK e \in OwnAddr(c) : IsUser(e) /\ Look(c, l, [door[c] EXCEPT !.args = << e >>])
  BY DEF Find
<1>2. PICK s : s = << e >>
  OBVIOUS
<1>3. PICK d, x : d = [door[c] EXCEPT !.args = s] /\ x = [d EXCEPT !.at = l]
  OBVIOUS
<1>4. /\ door[c] \in Door /\ door[c].kind = "public" /\ DoorOK(door[c], req[c])
      /\ e \in Addr /\ DomainOf[e] = door[c].dom
  BY FrontStateOK DEF Find, AtHandler, OwnAddr
<1>5. s \in Seq(Addr) /\ s # << >> /\ Head(s) = e
  BY <1>2, <1>4
<1>6. /\ x \in Door /\ x.kind = "public" /\ x.at = l /\ x.args = s
      /\ x.then = door[c].then /\ x.key = door[c].key /\ x.dom = door[c].dom
      /\ x.seen = door[c].seen
  BY <1>3, <1>4, <1>5 DEF Door
<1>7. DoorOK(x, req[c])
  BY <1>4, <1>5, <1>6 DEF DoorOK, WayOK, PublicOK, LocalOK, WebOK
<1> QED BY <1>1, <1>2, <1>3, <1>6, <1>7, LookOK

\* The address that the handler has read is used up by the call.
LEMMA ArgsUsed ==
    ASSUME FrontInv, NEW c \in Client
    PROVE  SameRequest(door[c], [door[c] EXCEPT !.args = << >>])
<1>1. door[c] \in Door
  BY FrontStateOK
<1>2. PICK s : s = << >>
  OBVIOUS
<1>3. PICK x : x = [door[c] EXCEPT !.args = s]
  OBVIOUS
<1>4. x \in Door
  <2>1. s \in Seq(Addr)
    BY <1>2
  <2> QED BY <1>1, <1>3, <2>1 DEF Door
<1>5. SameRequest(door[c], x)
  BY <1>1, <1>3, <1>4 DEF Door, SameRequest
<1> QED BY <1>2, <1>3, <1>5

\* handleMailboxDelete, handleForwardClear: the address that is used is the one that was found.
LEMMA PublicFoundOK ==
    ASSUME FrontInv, NEW c \in Client, OnStore(c),
           public_handleMailboxDelete(c) \/ public_handleForwardClear(c)
    PROVE  FrontInv'
<1>1. CASE Find(c, "delete") \/ Find(c, "clear")
  BY <1>1, FindOK
<1>2. ASSUME door[c].at = "delete", door[c].kind = "public", MailboxRemove(c),
             req'[c].key = Head(door[c].args),
             Calling(c, [door[c] EXCEPT !.args = << >>], "reply")
      PROVE  FrontInv'
  <2>1. DoorOK(door[c], req[c]) /\ door[c] \in Door /\ IndInv
    BY FrontStateOK
  <2>2. Begun(c, "MailboxRemove")
    BY <1>2, <2>1, FirstStatement
  <2>3. door[c].args # << >> /\ DomainOf[Head(door[c].args)] = door[c].dom
    BY <1>2, <2>1 DEF DoorOK, PublicOK
  <2>4. door[c].args \in Seq(Addr)
    BY <2>1 DEF Door
  <2>5. Head(door[c].args) \in Addr
    BY <2>3, <2>4
  <2>6. OwnRequest(req'[c], door[c].dom)
    BY <1>2, <2>1, <2>2, <2>3, <2>5, BegunOwn DEF PublicOps
  <2> QED BY <1>2, <2>1, <2>2, <2>6, ArgsUsed, CallingOK DEF Then
<1>3. ASSUME door[c].at = "clear", ForwardClear(c, Head(door[c].args)),
             Finish(c, [door[c] EXCEPT !.args = << >>], "record")
      PROVE  FrontInv'
  <2>1. UNCHANGED req
    BY <1>3 DEF ForwardClear
  <2> QED BY <1>3, <2>1, ArgsUsed, FinishOK, FrontStateOK
<1> QED BY <1>1, <1>2, <1>3 DEF public_handleMailboxDelete, public_handleForwardClear

\* handleGroupUpdate: the group that is read is one of the request's domain.
LEMMA public_handleGroupUpdateOK ==
    ASSUME FrontInv, NEW c \in Client, public_handleGroupUpdate(c)
    PROVE  FrontInv'
<1>1. PICK g \in mail_groups : g.email \in OwnAddr(c)
                               /\ Look(c, "overlay", [door[c] EXCEPT !.seen = {g}])
  BY DEF public_handleGroupUpdate
<1>2. PICK d : d = [door[c] EXCEPT !.seen = {g}]
  OBVIOUS
<1>3. PICK x : x = [d EXCEPT !.at = "overlay"]
  OBVIOUS
<1>4. /\ door[c] \in Door /\ door[c].kind = "public" /\ DoorOK(door[c], req[c])
      /\ g \in GroupRow /\ DomainOf[g.email] = door[c].dom
  BY <1>1, FrontStateOK
     DEF public_handleGroupUpdate, AtHandler, OwnAddr, IndInv, TypeOK, DBTypeOK
<1>5. /\ x \in Door /\ x.kind = "public" /\ x.at = "overlay" /\ x.seen = {g}
      /\ x.then = door[c].then /\ x.key = door[c].key /\ x.dom = door[c].dom
  BY <1>2, <1>3, <1>4 DEF Door
<1>6. DoorOK(x, req[c])
  BY <1>4, <1>5 DEF DoorOK, WayOK, PublicOK, LocalOK, WebOK
<1> QED BY <1>1, <1>2, <1>3, <1>5, <1>6, LookOK

\* Every step of the domain API keeps what an open request is held to.
LEMMA PublicKeeps ==
    ASSUME FrontInv, NEW c \in Client, Public(c)
    PROVE  FrontInv'
<1>1. OnStore(c)
  BY PublicIsStep, FrontStateOK DEF IndInv
<1> QED BY <1>1, authOK, PublicCallsOK, PublicDoOK, PublicFoundOK, public_handleGroupUpdateOK
        DEF Public

-----------------------------------------------------------------------------

\* requireScope, and the handlers of the server-wide API: the scope that a handler asks for is
\* the one its call is in.
LEMMA LocalKeeps ==
    ASSUME FrontInv, NEW c \in Client, Local(c)
    PROVE  FrontInv'
<1>1. OnStore(c) /\ IndInv
  BY LocalIsStep, FrontStateOK
<1>2. CASE requireScope(c)
  <2>1. PICK r \in api_tokens :
           To(c, [Closed EXCEPT !.kind = "local", !.at = "handler", !.scopes = r.scopes])
    BY <1>2 DEF requireScope
  <2>2. PICK x : x = [Closed EXCEPT !.kind = "local", !.at = "handler", !.scopes = r.scopes]
    OBVIOUS
  <2>3. Closed \in Door
    BY DEF Closed, Door
  <2>4. r.scopes \subseteq Scope
    BY FrontStateOK DEF TokenRow
  <2>5. x \in Door /\ x.kind = "local" /\ x.at = "handler"
    BY <2>2, <2>3, <2>4 DEF Door
  <2>6. x.then = "reply"
    BY <2>2 DEF Closed
  <2>7. DoorOK(x, req[c])
    BY <2>5, <2>6, FrontStateOK DEF DoorOK, WayOK, PublicOK, LocalOK, WebOK
  <2>8. req'[c] = req[c]
    BY <1>2 DEF requireScope, vars
  <2> QED BY <1>1, <2>1, <2>2, <2>5, <2>7, <2>8, DoorStep, FrontStateOK DEF To
<1>3. CASE \/ api_handleDomainRemove(c)
           \/ api_handleMailboxPasswd(c) \/ api_handleMailboxQuota(c)
           \/ api_handleAliasRemove(c)
  <2>1. AtHandler(c, "local") /\ Finish(c, Opened(c, "local"), "reply") /\ UNCHANGED req
    BY <1>3
       DEF api_handleDomainRemove, api_handleMailboxPasswd,
           api_handleMailboxQuota, api_handleAliasRemove, ScopedDo, Do, DomainRemove, MailboxPasswd, updateMailbox, AliasRemove, vars
  <2> QED BY <1>1, <2>1, DoOK DEF Way
<1>4. CASE \/ api_handleMailboxAdd(c) \/ api_handleMailboxRemove(c) \/ api_handleAliasAdd(c)
           \/ api_handleGroupCreate(c) \/ api_handleGroupDelete(c)
           \/ api_handleGroupAddMembers(c) \/ api_handleGroupRemoveMember(c)
  <2>1. PICK op : /\ Begun(c, op) /\ ScopesAllow(door[c].scopes, req'[c])
                  /\ AtHandler(c, "local") /\ Calling(c, Opened(c, "local"), "reply")
    BY <1>1, <1>4, FirstStatement
       DEF api_handleMailboxAdd, api_handleMailboxRemove, api_handleAliasAdd,
           api_handleGroupCreate, api_handleGroupDelete, api_handleGroupAddMembers,
           api_handleGroupRemoveMember, Scoped, Call, HasScope, Begun, ScopesAllow
  <2> QED BY <1>1, <2>1, CallOpenedOK DEF Way, Then
<1>5. CASE api_handleDomainAdd(c)
  BY <1>1, <1>5, AddDomainOK DEF api_handleDomainAdd
<1> QED BY <1>2, <1>3, <1>4, <1>5 DEF Local

-----------------------------------------------------------------------------

\* The handlers of the dashboard that call with one statement.
LEMMA WebDoOK ==
    ASSUME FrontInv, NEW c \in Client, OnStore(c),
           \/ web_handleDomainDelete(c) \/ web_handleDomainAPIKeyRevoke(c)
           \/ web_handleUserProfile(c) \/ web_handleUserPassword(c) \/ web_handleUserQuota(c)
           \/ web_handleUserStatus(c) \/ web_handleUserForwardClear(c)
           \/ web_handleUserAliasRemove(c) \/ web_handleAliasDelete(c)
    PROVE  FrontInv'
<1>1. AtHandler(c, "web") /\ Finish(c, Opened(c, "web"), "record") /\ UNCHANGED req
  BY DEF web_handleDomainDelete, web_handleDomainAPIKeyRevoke,
         web_handleUserProfile, web_handleUserPassword, web_handleUserQuota,
         web_handleUserStatus, web_handleUserForwardClear, web_handleUserAliasRemove,
         web_handleAliasDelete, Do, DomainRemove, RevokeKey, updateMailbox,
         MailboxPasswd, MailboxSetEnabled, ForwardClear, AliasRemove, vars
<1> QED BY <1>1, DoOK DEF Way

\* The handlers of the dashboard that only call.
LEMMA WebCallsOK ==
    ASSUME FrontInv, NEW c \in Client, OnStore(c),
           \/ web_handleDomainCatchAll(c) \/ web_handleDomainAPIKeyGenerate(c)
           \/ web_handleUserCreate(c) \/ web_handleUserForward(c)
           \/ web_handleUserGroupAdd(c) \/ web_handleUserGroupRemove(c)
           \/ web_handleGroupCreate(c) \/ web_handleGroupUpdate(c) \/ web_handleGroupDelete(c)
           \/ web_handleGroupMembersAdd(c) \/ web_handleGroupMemberRole(c)
           \/ web_handleGroupMemberRemove(c) \/ web_handleAliasAdd(c)
    PROVE  FrontInv'
<1>1. IndInv
  BY FrontStateOK
<1>2. PICK op, t : /\ Begun(c, op) /\ op # "MailboxAdd" /\ t \in {"record", "ifAdded"}
                   /\ t = "ifAdded" => op = "GroupAddMembers"
                   /\ AtHandler(c, "web") /\ Calling(c, Opened(c, "web"), t)
  BY <1>1, FirstStatement
     DEF web_handleDomainCatchAll, web_handleDomainAPIKeyGenerate, web_handleUserCreate,
         web_handleUserForward, web_handleUserGroupAdd, web_handleUserGroupRemove,
         web_handleGroupCreate, web_handleGroupUpdate, web_handleGroupDelete,
         web_handleGroupMembersAdd, web_handleGroupMemberRole, web_handleGroupMemberRemove,
         web_handleAliasAdd, Call
<1>3. WebCall(req'[c], t)
  BY <1>2 DEF WebCall, Begun
<1> QED BY <1>2, <1>3, CallOpenedOK DEF Way, Then

\* A dashboard handler has read the addresses it goes on with.
LEMMA WebReadOK ==
    ASSUME FrontInv, NEW c \in Client, AtHandler(c, "web"), NEW s \in Seq(Addr),
           NEW l \in {"delete", "alias", "import"},
           Look(c, l, [Opened(c, "web") EXCEPT !.args = s])
    PROVE  FrontInv'
<1>1. PICK d, x : d = [Opened(c, "web") EXCEPT !.args = s] /\ x = [d EXCEPT !.at = l]
  OBVIOUS
<1>2. PICK o \in Door : o = Opened(c, "web") /\ o.kind = "web"
  BY OpenedOK DEF Way
<1>3. o = [Closed EXCEPT !.kind = "web"]
  BY <1>2 DEF Opened
<1>4. o.changed = FALSE /\ o.then = "reply"
  BY <1>3 DEF Closed
<1>5. /\ x \in Door /\ x.kind = "web" /\ x.at = l /\ x.then = o.then /\ x.changed = o.changed
  BY <1>1, <1>2 DEF Door
<1>6. DoorOK(x, req[c])
  BY <1>4, <1>5, FrontStateOK DEF DoorOK, WayOK, PublicOK, LocalOK, WebOK
<1> QED BY <1>1, <1>5, <1>6, LookOK

\* handleUserAliasAdd and handleUserDelete.
LEMMA WebFoundOK ==
    ASSUME FrontInv, NEW c \in Client, OnStore(c),
           web_handleUserAliasAdd(c) \/ web_handleUserDelete(c)
    PROVE  FrontInv'
<1>1. DoorOK(door[c], req[c]) /\ IndInv
  BY FrontStateOK
<1>2. ASSUME NEW s \in Addr, NEW d \in Addr, AtHandler(c, "web"),
             Look(c, "alias", [Opened(c, "web") EXCEPT !.args = << s, d >>])
      PROVE  FrontInv'
  <2>1. PICK p : p = << s, d >>
    OBVIOUS
  <2>2. p \in Seq(Addr)
    BY <2>1
  <2> QED BY <1>2, <2>1, <2>2, WebReadOK
<1>3. ASSUME NEW e \in Addr, AtHandler(c, "web"),
             Look(c, "delete", [Opened(c, "web") EXCEPT !.args = << e >>])
      PROVE  FrontInv'
  <2>1. PICK p : p = << e >>
    OBVIOUS
  <2>2. p \in Seq(Addr)
    BY <2>1
  <2> QED BY <1>3, <2>1, <2>2, WebReadOK
<1>4. ASSUME NEW op \in {"AliasAdd", "MailboxRemove"}, Begun(c, op), door[c].kind = "web",
             Calling(c, [door[c] EXCEPT !.args = << >>], "record")
      PROVE  FrontInv'
  <2>1. WebCall(req'[c], "record")
    BY <1>4 DEF WebCall, Begun
  <2> QED BY <1>1, <1>4, <2>1, ArgsUsed, CallingOK DEF Then
<1>5. CASE web_handleUserAliasAdd(c)
  <2>1. door[c].at = "alias" => door[c].kind = "web"
    BY <1>1 DEF DoorOK, WayOK
  <2> QED BY <1>1, <1>2, <1>4, <1>5, <2>1, FirstStatement DEF web_handleUserAliasAdd
<1>6. CASE web_handleUserDelete(c)
  BY <1>1, <1>3, <1>4, <1>6, FirstStatement DEF web_handleUserDelete
<1> QED BY <1>5, <1>6

\* handleUsersImport.
LEMMA web_handleUsersImportOK ==
    ASSUME FrontInv, NEW c \in Client, OnStore(c), web_handleUsersImport(c)
    PROVE  FrontInv'
<1>1. DoorOK(door[c], req[c]) /\ IndInv /\ door[c] \in Door
  BY FrontStateOK
<1>2. CASE AtHandler(c, "web") /\ \E b \in Batch :
              Look(c, "import", [Opened(c, "web") EXCEPT !.args = b])
  <2>1. PICK b \in Batch : Look(c, "import", [Opened(c, "web") EXCEPT !.args = b])
    BY <1>2
  <2>2. b \in Seq(Addr)
    BY BatchAssumption DEF Batch
  <2> QED BY <1>2, <2>1, <2>2, WebReadOK
<1>3. ASSUME door[c].at = "import", door[c].args # << >> PROVE door[c].kind = "web"
             /\ [door[c] EXCEPT !.args = Tail(@)] \in Door
  <2>1. PICK s : s = door[c].args
    OBVIOUS
  <2>2. s \in Seq(Addr) /\ s # << >>
    BY <1>1, <1>3, <2>1 DEF Door
  <2>3. Tail(s) \in Seq(Addr)
    BY <2>2
  <2> QED BY <1>1, <1>3, <2>1, <2>3 DEF DoorOK, WayOK, Door
<1>4. ASSUME door[c].at = "import", door[c].args # << >>, MailboxCreate(c),
             To(c, [[door[c] EXCEPT !.args = Tail(@)] EXCEPT !.at = "calling", !.then = "import"])
      PROVE  FrontInv'
  <2>1. PICK r, x : /\ r = [door[c] EXCEPT !.args = Tail(@)]
                    /\ x = [r EXCEPT !.at = "calling", !.then = "import"]
    OBVIOUS
  <2>2. r \in Door /\ r.kind = "web"
    BY ZenonT(60), <1>1, <1>3, <1>4, <2>1 DEF Door
  <2>3. x \in Door /\ x.kind = "web" /\ x.at = "calling" /\ x.then = "import"
    BY <2>1, <2>2 DEF Door
  <2>4. StageOK(req'[c]) /\ req'[c].op = "MailboxCreate"
    BY <1>1, <1>4, FirstStatement DEF Begun
  <2>5. DoorOK(x, req'[c])
    BY <2>3, <2>4 DEF DoorOK, WayOK, PublicOK, LocalOK, WebOK
  <2> QED BY <1>4, <2>1, <2>3, <2>5, DoorStep, FrontStateOK DEF To
<1>5. ASSUME door[c].at = "import", door[c].args # << >>,
             Look(c, "import", [door[c] EXCEPT !.args = Tail(@)])
      PROVE  FrontInv'
  <2>1. PICK r, x : /\ r = [door[c] EXCEPT !.args = Tail(@)]
                    /\ x = [r EXCEPT !.at = "import"]
    OBVIOUS
  <2>2. r \in Door /\ r.kind = "web"
    BY ZenonT(60), <1>1, <1>3, <1>5, <2>1 DEF Door
  <2>3. x \in Door /\ x.kind = "web" /\ x.at = "import"
    BY <2>1, <2>2 DEF Door
  <2>4. DoorOK(x, req[c])
    BY <1>1, <2>3 DEF DoorOK, WayOK, PublicOK, LocalOK, WebOK
  <2> QED BY <1>5, <2>1, <2>3, <2>4, LookOK
<1>6. ASSUME door[c].at = "import", Look(c, "record", door[c]) PROVE FrontInv'
  <2>1. PICK x : x = [door[c] EXCEPT !.at = "record"]
    OBVIOUS
  <2>2. x \in Door /\ SameRequest(door[c], x) /\ x.at = "record"
    BY <1>1, <2>1 DEF Door, SameRequest
  <2>3. DoorOK(x, req[c])
    BY <1>1, <2>2, AnsweringOK DEF DoorOK
  <2> QED BY <1>6, <2>1, <2>2, <2>3, LookOK
<1> QED BY <1>2, <1>4, <1>5, <1>6 DEF web_handleUsersImport

\* The token of the server-wide API that is created has scopes of its list.
LEMMA TokenOK ==
    ASSUME FrontInv, NEW c \in Client, NEW k \in Way, AtHandler(c, k),
           CreateToken \/ RevokeToken, Recording(c, k), UNCHANGED vars
    PROVE  FrontInv'
<1>1. OnStore(c) /\ req'[c] = req[c]
  BY DEF OnStore, vars
<1>2. api_tokens' \subseteq TokenRow
  <2>1. CASE RevokeToken
    BY <2>1, FrontStateOK DEF RevokeToken
  <2>2. CASE CreateToken
    <3>1. PICK t \in Token, n \in TokenName, s \in ScopeLists : api_tokens' = api_tokens \cup
              {[token_hash |-> t, name |-> n, scopes |-> IF s = {} THEN {"*"} ELSE s]}
      BY <2>2 DEF CreateToken
    <3>2. PICK l : l = IF s = {} THEN {"*"} ELSE s
      OBVIOUS
    <3>3. l \subseteq Scope
      BY <3>2, ScopeAssumption DEF Scope
    <3>4. [token_hash |-> t, name |-> n, scopes |-> l] \in TokenRow
      BY <3>3 DEF TokenRow
    <3> QED BY <3>1, <3>2, <3>4, FrontStateOK
  <2> QED BY <2>1, <2>2
<1>3. PICK x : x = [Opened(c, k) EXCEPT !.at = "record"]
  OBVIOUS
<1>4. Opened(c, k) \in Door /\ DoorOK(Opened(c, k), req[c])
  BY OpenedOK
<1>5. x \in Door /\ SameRequest(Opened(c, k), x) /\ x.at = "record"
  BY <1>3, <1>4 DEF Door, SameRequest
<1>6. DoorOK(x, req'[c])
  BY <1>1, <1>4, <1>5, AnsweringOK DEF DoorOK
<1> QED BY <1>1, <1>2, <1>3, <1>5, <1>6, DoorStep DEF Recording

\* Every step of a page keeps it.
LEMMA WebKeeps ==
    ASSUME FrontInv, NEW c \in Client, Web(c)
    PROVE  FrontInv'
<1>1. OnStore(c)
  BY WebIsStep
<1>2. CASE web_handleTokenAdd(c) \/ web_handleTokenDelete(c)
  BY <1>2, TokenOK DEF web_handleTokenAdd, web_handleTokenDelete, Way
<1>3. CASE web_handleDomainAdd(c)
  BY <1>1, <1>3, AddDomainOK DEF web_handleDomainAdd
<1> QED BY <1>1, <1>2, <1>3, WebDoOK, WebCallsOK, WebFoundOK, web_handleUsersImportOK DEF Web

-----------------------------------------------------------------------------

\* Every step of a command keeps it.
LEMMA CliKeeps ==
    ASSUME FrontInv, NEW c \in Client, Cli(c)
    PROVE  FrontInv'
<1>1. OnStore(c) /\ IndInv
  BY CliIsStep, FrontStateOK
<1>2. ASSUME AtHandler(c, "cli"), Finish(c, Opened(c, "cli"), "record"), UNCHANGED req
      PROVE  FrontInv'
  BY <1>1, <1>2, DoOK DEF Way
<1>3. ASSUME AtHandler(c, "cli"), NEW op, Begun(c, op), NEW t \in Then,
             Calling(c, Opened(c, "cli"), t)
      PROVE  FrontInv'
  BY <1>1, <1>3, CallOpenedOK DEF Way
<1> USE DEF Do, Call
<1>4. CASE cmdDomain(c) \/ cmdDomainCatchAll(c)
  BY <1>1, <1>2, <1>3, <1>4, FirstStatement, AddDomainOK
     DEF cmdDomain, cmdDomainCatchAll, DomainRemove, Then
<1>5. CASE cmdMailbox(c)
  BY <1>1, <1>2, <1>3, <1>5, FirstStatement
     DEF cmdMailbox, updateMailbox, MailboxPasswd, MailboxSetEnabled, Then, vars
<1>6. CASE cmdMailboxForward(c) \/ cmdAlias(c)
  BY <1>1, <1>2, <1>3, <1>6, FirstStatement
     DEF cmdMailboxForward, cmdAlias, ForwardClear, AliasRemove, Then
<1>7. CASE cmdGroupUpdate(c)
  <2>1. PICK g \in mail_groups : Look(c, "overlay", [Opened(c, "cli") EXCEPT !.seen = {g}])
    BY <1>7 DEF cmdGroupUpdate
  <2>2. PICK d, x : d = [Opened(c, "cli") EXCEPT !.seen = {g}] /\ x = [d EXCEPT !.at = "overlay"]
    OBVIOUS
  <2>3. PICK o : o = Opened(c, "cli") /\ o = [Closed EXCEPT !.kind = "cli"]
    BY DEF Opened
  <2>4. o \in Door /\ o.kind = "cli" /\ o.then = "reply" /\ g \in GroupRow
    <3>1. o \in Door /\ o.kind = "cli"
      BY <1>7, <2>3, OpenedOK DEF cmdGroupUpdate, Way
    <3>2. o.then = "reply"
      BY <2>3 DEF Closed
    <3> QED BY <1>1, <3>1, <3>2 DEF IndInv, TypeOK, DBTypeOK
  <2>5. x \in Door /\ x.kind = "cli" /\ x.at = "overlay" /\ x.then = "reply"
    BY <2>2, <2>3, <2>4 DEF Door
  <2>6. DoorOK(x, req[c])
    BY <2>5, FrontStateOK DEF DoorOK, WayOK, PublicOK, LocalOK, WebOK
  <2> QED BY <2>1, <2>2, <2>5, <2>6, LookOK
<1>8. CASE cmdGroup(c)
  BY <1>1, <1>3, <1>7, <1>8, FirstStatement DEF cmdGroup, Then
<1>9. CASE cmdAPI(c)
  BY <1>9, TokenOK DEF cmdAPI, TokenChange, Way
<1>10. CASE cmdAPIKey(c)
  BY <1>1, <1>2, <1>3, <1>10, FirstStatement DEF cmdAPIKey, RevokeKey, Then
<1> QED BY <1>4, <1>5, <1>6, <1>8, <1>9, <1>10 DEF Cli

-----------------------------------------------------------------------------

\* A call that ends.
LEMMA Ends ==
    ASSUME IndInv, NEW c \in Client, Return(c)
    PROVE  req'[c] = Idle /\ req'[c].op = "idle"
<1>1. req \in [Client -> Request]
  BY DEF IndInv, TypeOK
<1>2. Idle.op = "idle"
  BY DEF Idle
<1> QED BY <1>1, <1>2 DEF Return

\* A call that goes on.
LEMMA GoesOn ==
    ASSUME IndInv, NEW c \in Client, NEW l, Goto(c, l)
    PROVE  req'[c].op = req[c].op /\ req'[c].at = l
<1>1. req \in [Client -> Request] /\ req[c] \in Request
  BY DEF IndInv, TypeOK
<1> QED BY <1>1 DEF Goto, Request

\* The statement of a call that changes a row ends the call without an error, or is one that
\* the call does not fail after any more.
Settled(c) ==
    \/ req[c].op # "GroupAddMembers" /\ req'[c].op = "idle" /\ ~Fails(c)
    \/ req[c].op \in {"MailboxAdd", "MailboxRemove"}
    \/ req[c].op = "MailboxCreate" /\ req'[c].op # "idle" /\ req'[c].at = "createMaildir"
    \/ req[c].op = "GroupAddMembers" /\ req[c].at = "insert" /\ GroupId(req[c].id)

\* A statement that changed rows was the last one of its call, but for the four calls of Settled.
LEMMA ContinueSettles ==
    ASSUME IndInv, NEW c \in Client, StageOK(req[c]), Continue(c), Changes
    PROVE  Settled(c)
<1> USE DEF At
<1>1. ~(UNCHANGED dbvars)
  BY DEF Changes, dbvars
<1>2. ~(notAGroup(c) \/ CheckAddressKind(c) \/ createMaildir(c) \/ MailboxRemoveSpool(c)
        \/ GroupUpdateMembers(c) \/ hostedDomains(c) \/ GroupAddMembersCheck(c))
  BY <1>1 DEF notAGroup, CheckAddressKind, createMaildir, MailboxRemoveSpool,
              GroupUpdateMembers, hostedDomains, GroupAddMembersCheck
<1>3. CASE MailboxAddUpsert(c) \/ MailboxRemoveLeaveGroups(c)
  BY <1>3 DEF MailboxAddUpsert, MailboxRemoveLeaveGroups, Settled
<1>4. CASE MailboxCreateInsert(c)
  BY <1>1, <1>4, GoesOn DEF MailboxCreateInsert, Settled
<1>5. CASE GroupAddMembersInsert(c)
  BY <1>1, <1>5 DEF GroupAddMembersInsert, UpsertMember, Settled
<1>6. ASSUME Return(c), req[c].at \notin {"notAGroup", "addressKind", "members"},
             req[c].op \in {"AliasAdd", "GroupUpdate", "GroupDelete"}
      PROVE  Settled(c)
  BY <1>6, Ends DEF Fails, Settled
<1>7. CASE AliasAddInsert(c) \/ GroupUpdateApply(c) \/ GroupDeleteLeaveGroups(c)
  BY <1>6, <1>7 DEF AliasAddInsert, GroupUpdateApply, GroupDeleteLeaveGroups
<1>8. CASE ForwardSetUpsert(c)
  <2>1. Return(c) /\ IsUser(req[c].key)
    BY <1>1, <1>8 DEF ForwardSetUpsert, UpsertForward
  <2> QED BY <1>8, <2>1, Ends DEF ForwardSetUpsert, Fails, Settled
<1>9. CASE CatchAllReplace(c)
  <2>1. Return(c) /\ (req[c].arg = None \/ DomainId(req[c].id))
    BY <1>1, <1>9 DEF CatchAllReplace, ReplaceCatchAll
  <2> QED BY <1>9, <2>1, Ends DEF CatchAllReplace, Fails, Settled
<1>10. CASE GroupCreateInsert(c)
  <2>1. Return(c) /\ InsertGroup(req[c].key, req[c].id, req[c].policy, req[c].flag)
    BY <1>1, <1>10 DEF GroupCreateInsert
  <2>2. ~(UNCHANGED mail_groups)
    BY <2>1 DEF InsertGroup, Changes
  <2> QED BY <1>10, <2>1, <2>2, Ends DEF GroupCreateInsert, Fails, Settled
<1>11. CASE GroupRemoveMemberApply(c)
  <2>1. Return(c) /\ DeleteMember(req[c].id, req[c].arg)
    BY <1>11 DEF GroupRemoveMemberApply
  <2>2. \E m \in mail_group_members : m.group_id = req[c].id /\ m.member = req[c].arg
    BY <2>1 DEF DeleteMember, MemberTableOnly, Changes
  <2> QED BY <1>11, <2>1, <2>2, Ends DEF GroupRemoveMemberApply, Fails, Settled
<1>12. CASE GroupSetMemberRoleApply(c)
  <2>1. Return(c) /\ UpdateRole(req[c].id, req[c].arg, req[c].role)
    BY <1>12 DEF GroupSetMemberRoleApply
  <2>2. \E m \in mail_group_members : m.group_id = req[c].id /\ m.member = req[c].arg
    BY <2>1 DEF UpdateRole, MemberTableOnly, Changes
  <2> QED BY <1>12, <2>1, <2>2, Ends DEF GroupSetMemberRoleApply, Fails, Settled
<1>13. CASE GenerateKeyUpsert(c)
  <2>1. Return(c) /\ DomainId(req[c].id)
    <3>1. DomainId(req[c].id) \/ UNCHANGED << dbvars, issued >>
      BY <1>13 DEF GenerateKeyUpsert, UpsertKey
    <3> QED BY <1>1, <1>13, <3>1 DEF GenerateKeyUpsert
  <2> QED BY <1>13, <2>1, Ends DEF GenerateKeyUpsert, Fails, Settled
<1> QED BY <1>2, <1>3, <1>4, <1>5, <1>7, <1>8, <1>9, <1>10, <1>11, <1>12, <1>13 DEF Continue

\* The record of a request after a statement of its call.
Advanced(c) ==
    LET adding == req[c].op = "GroupAddMembers"
        added  == adding /\ req[c].at = "insert" /\ GroupId(req[c].id)
        failed == adding /\ req[c].at = "check" /\ req'[c].at # "insert"
    IN  [door[c] EXCEPT !.changed = @ \/ Changes, !.added = @ \/ added, !.failed = @ \/ failed]

\* What Advanced notes, field by field.
LEMMA AdvancedOK ==
    ASSUME FrontInv, NEW c \in Client
    PROVE  /\ SameRequest(door[c], Advanced(c))
           /\ Advanced(c).at = door[c].at /\ Advanced(c).seen = door[c].seen
           /\ Advanced(c).changed = (door[c].changed \/ Changes)
           /\ Advanced(c).added = (door[c].added \/ (/\ req[c].op = "GroupAddMembers"
                                                     /\ req[c].at = "insert"
                                                     /\ GroupId(req[c].id)))
<1>1. door[c] \in Door
  BY FrontStateOK
<1>2. PICK b \in BOOLEAN : b = (door[c].changed \/ Changes)
  OBVIOUS
<1>3. PICK a \in BOOLEAN : a = (door[c].added \/ (/\ req[c].op = "GroupAddMembers"
                                                 /\ req[c].at = "insert"
                                                 /\ GroupId(req[c].id)))
  OBVIOUS
<1>4. PICK f \in BOOLEAN : f = (door[c].failed \/ (/\ req[c].op = "GroupAddMembers"
                                                  /\ req[c].at = "check"
                                                  /\ req'[c].at # "insert"))
  OBVIOUS
<1>5. PICK x : x = [door[c] EXCEPT !.changed = b, !.added = a, !.failed = f]
  OBVIOUS
<1>6. x = Advanced(c)
  BY <1>1, <1>2, <1>3, <1>4, <1>5 DEF Advanced, Door
<1>7. /\ x \in Door /\ x.kind = door[c].kind /\ x.then = door[c].then /\ x.key = door[c].key
      /\ x.dom = door[c].dom /\ x.scopes = door[c].scopes /\ x.seen = door[c].seen
      /\ x.at = door[c].at /\ x.changed = b /\ x.added = a
  BY <1>1, <1>5 DEF Door
<1> QED BY <1>2, <1>3, <1>6, <1>7 DEF SameRequest

\* The next statement of a call: what the request may do follows from what it could do before.
LEMMA ProceedKeeps ==
    ASSUME FrontInv, NEW c \in Client, Proceed(c)
    PROVE  FrontInv'
<1>1. /\ IndInv /\ door[c] \in Door /\ DoorOK(door[c], req[c])
      /\ StageOK(req[c]) /\ door[c].at = "calling" /\ Continue(c)
  BY FrontStateOK DEF Proceed, DoorOK
<1>2. OnStore(c)
  BY <1>1 DEF OnStore, Step
<1>3. PICK d : d = Advanced(c)
  OBVIOUS
<1>4. PICK x : x = IF req'[c].op = "idle" THEN Returned(c, d) ELSE d
  OBVIOUS
<1>5. door' = [door EXCEPT ![c] = x] /\ api_tokens' \subseteq TokenRow
  BY <1>3, <1>4, FrontStateOK DEF Proceed, Advanced, To
<1>6. SameRequest(door[c], d) /\ d.at = "calling" /\ d.seen = door[c].seen
  BY <1>1, <1>3, AdvancedOK
<1>7. /\ req[c].op # "idle"
      /\ \/ req'[c] = Idle
         \/ /\ StageOK(req'[c]) /\ req'[c].op = req[c].op /\ req'[c].key = req[c].key
            /\ req'[c].id = req[c].id
  BY <1>1, ContinueKeeps
<1>8. Idle.op = "idle" /\ StageOK(Idle)
  BY DEF Idle, StageOK
<1>9. CASE req'[c].op = "idle"
  <2>1. StageOK(req'[c])
    BY <1>7, <1>8, <1>9
  <2>2. CASE x = Closed
    BY <1>2, <1>5, <2>1, <2>2, ClosedOK, DoorStep
  <2>3. CASE x = [d EXCEPT !.at = "record"]
    <3>1. SameRequest(door[c], x) /\ x.at = "record"
      BY <1>6, <2>3 DEF SameRequest, Door
    <3> QED BY <1>1, <1>2, <1>5, <2>1, <3>1, AnsweringOK, DoorStep DEF SameRequest
  <2>4. CASE d.then = "import" /\ x = [d EXCEPT !.at = "import"]
    <3>1. SameRequest(door[c], x) /\ x.at = "import" /\ x.then = "import"
      BY <1>6, <2>4 DEF SameRequest, Door
    <3>2. x \in Door /\ x.kind = "web"
      BY <1>1, <3>1 DEF SameRequest, DoorOK, WayOK
    <3>3. DoorOK(x, req'[c])
      BY <2>1, <3>1, <3>2 DEF DoorOK, WayOK, PublicOK, LocalOK, WebOK
    <3> QED BY <1>2, <1>5, <3>2, <3>3, DoorStep
  <2> QED BY <1>4, <1>9, <2>2, <2>3, <2>4 DEF Returned
<1>10. CASE req'[c].op # "idle"
  <2>1. PICK p, q : p = req[c] /\ q = req'[c]
    OBVIOUS
  <2>2. /\ x = d /\ StageOK(q) /\ q.op = p.op /\ q.key = p.key /\ q.id = p.id
        /\ DoorOK(door[c], p)
    BY <1>1, <1>4, <1>7, <1>8, <1>10, <2>1
  <2>3. WayOK(d)
    BY <1>1, <1>6 DEF DoorOK, WayOK, SameRequest
  <2>4. PublicOK(d, q)
    BY <1>1, <1>6, <2>2 DEF DoorOK, PublicOK, OwnRequest, SameRequest
  <2>5. LocalOK(d, q)
    BY <1>1, <1>6, <2>2 DEF DoorOK, LocalOK, ScopesAllow, SameRequest
  <2>6. WebOK(d, q)
    <3>1. SUFFICES ASSUME d.kind = "web" PROVE WebOK(d, q)
      BY DEF WebOK
    <3>2. /\ d.then \in {"record", "ifAdded", "import"}
          /\ d.then = "ifAdded" => q.op = "GroupAddMembers"
          /\ q.op # "MailboxAdd"
      BY <1>1, <1>6, <2>2, <3>1 DEF DoorOK, WebOK, SameRequest
    <3>3. ASSUME Changes, d.then # "import"
          PROVE  \/ q.op = "MailboxCreate" /\ q.at = "createMaildir"
                 \/ q.op \in {"MailboxRemove", "GroupDelete"}
                 \/ q.op = "GroupAddMembers" /\ d.added
      <4>1. Settled(c)
        BY <1>1, <3>3, ContinueSettles
      <4> QED BY <1>3, <1>10, <2>1, <2>2, <3>2, <4>1, AdvancedOK DEF Settled
    <3>4. ASSUME door[c].changed, d.then # "import"
          PROVE  \/ q.op = "MailboxCreate" /\ q.at = "createMaildir"
                 \/ q.op \in {"MailboxRemove", "GroupDelete"}
                 \/ q.op = "GroupAddMembers" /\ d.added
      <4>1. \/ p.op = "MailboxCreate" /\ p.at = "createMaildir"
            \/ p.op \in {"MailboxRemove", "GroupDelete"}
            \/ p.op = "GroupAddMembers" /\ door[c].added
        BY <1>1, <1>6, <2>2, <3>1, <3>4 DEF DoorOK, WebOK, SameRequest
      <4>2. ASSUME p.op = "MailboxCreate", p.at = "createMaildir" PROVE createMaildir(c)
        BY <1>1, <2>1, <4>2
           DEF Continue, notAGroup, CheckAddressKind, MailboxAddUpsert, MailboxCreateInsert,
               MailboxRemoveLeaveGroups, MailboxRemoveSpool, ForwardSetUpsert, AliasAddInsert,
               CatchAllReplace, GroupCreateInsert, GroupUpdateMembers, GroupUpdateApply,
               GroupDeleteLeaveGroups, hostedDomains, GroupAddMembersCheck,
               GroupAddMembersInsert, GroupRemoveMemberApply, GroupSetMemberRoleApply,
               GenerateKeyUpsert, At
      <4>3. ~createMaildir(c)
        BY <1>1, <1>10, Ends DEF createMaildir
      <4>4. door[c].added => d.added
        BY <1>3, AdvancedOK
      <4> QED BY <2>2, <4>1, <4>2, <4>3, <4>4
    <3>5. d.changed => door[c].changed \/ Changes
      BY <1>3, AdvancedOK
    <3> QED BY <1>6, <3>2, <3>3, <3>4, <3>5 DEF WebOK
  <2> QED BY <1>2, <1>5, <1>6, <2>1, <2>2, <2>3, <2>4, <2>5, <2>6, DoorStep DEF DoorOK, SameRequest
<1> QED BY <1>9, <1>10

\* Overlay: the group that is read again is at the address of the group that was read before.
LEMMA OverlayKeeps ==
    ASSUME FrontInv, NEW c \in Client, Overlay(c)
    PROVE  FrontInv'
<1>1. /\ IndInv /\ door[c] \in Door /\ DoorOK(door[c], req[c]) /\ door[c].at = "overlay"
      /\ OnStore(c)
  BY FrontStateOK, AroundIsStep DEF Overlay, Around
<1>2. PICK g \in door[c].seen, om \in SUBSET Setting :
         /\ GroupUpdate(c) /\ req'[c].key = g.email
         /\ Calling(c, [door[c] EXCEPT !.seen = {}, !.omits = om], "record")
  BY DEF Overlay
<1>3. PICK d : d = [door[c] EXCEPT !.seen = {}, !.omits = om]
  OBVIOUS
<1>4. SameRequest(door[c], d)
  BY <1>1, <1>3 DEF SameRequest, Door
<1>5. Begun(c, "GroupUpdate")
  BY <1>1, <1>2, FirstStatement
<1>6. ASSUME door[c].kind = "public" PROVE OwnRequest(req'[c], door[c].dom)
  <2>1. g.email \in Addr
    BY <1>1 DEF Door, GroupRow
  <2>2. DomainOf[g.email] = door[c].dom
    BY <1>1, <1>6 DEF DoorOK, PublicOK
  <2> QED BY <1>1, <1>2, <1>5, <2>1, <2>2, BegunOwn DEF PublicOps
<1>7. door[c].kind \notin {"local", "web"}
  BY <1>1 DEF DoorOK, WayOK
<1> QED BY <1>1, <1>2, <1>3, <1>4, <1>5, <1>6, <1>7, CallingOK DEF Then

\* The steps around the calls keep it: the statements, the overlays, the audit entry, the hang-up.
LEMMA AroundKeeps ==
    ASSUME FrontInv, NEW c \in Client, Around(c)
    PROVE  FrontInv'
<1>1. OnStore(c) /\ IndInv /\ door[c] \in Door /\ DoorOK(door[c], req[c])
  BY AroundIsStep, FrontStateOK
<1>2. CASE Record(c) \/ Refuse(c) \/ ProvisionFails(c)
  <2>1. req'[c] = req[c] /\ To(c, Closed)
    BY <1>2 DEF Record, Refuse, ProvisionFails, vars
  <2> QED BY <1>1, <2>1, ClosedOK, DoorStep, FrontStateOK DEF To, DoorOK
<1>3. CASE HangUp(c)
  <2>1. req'[c] = Idle
    BY <1>1, <1>3, Ends DEF HangUp, Abandon
  <2>2. StageOK(Idle)
    BY DEF Idle, StageOK
  <2>3. CASE To(c, [Closed EXCEPT !.kind = door[c].kind, !.at = "gone"])
    <3>1. PICK x : x = [Closed EXCEPT !.kind = door[c].kind, !.at = "gone"]
      OBVIOUS
    <3>2. Closed \in Door
      BY DEF Closed, Door
    <3>3. x \in Door /\ x.at = "gone"
      BY <1>1, <3>1, <3>2 DEF Door
    <3>4. x.then = "reply" /\ x.key = {} /\ x.seen = {}
      BY <3>1 DEF Closed
    <3>5. DoorOK(x, Idle)
      BY <2>2, <3>3, <3>4 DEF DoorOK, WayOK, PublicOK, LocalOK, WebOK
    <3> QED BY <1>1, <2>1, <2>3, <3>1, <3>3, <3>5, DoorStep, FrontStateOK DEF To
  <2>4. CASE To(c, [door[c] EXCEPT !.at = "record", !.args = << >>])
    <3>1. PICK s : s = << >>
      OBVIOUS
    <3>2. PICK x : x = [door[c] EXCEPT !.at = "record", !.args = s]
      OBVIOUS
    <3>3. s \in Seq(Addr)
      BY <3>1
    <3>4. SameRequest(door[c], x) /\ x.at = "record"
      BY <1>1, <3>2, <3>3 DEF SameRequest, Door
    <3>5. DoorOK(x, Idle)
      BY <1>1, <2>2, <3>4, AnsweringOK
    <3> QED BY <1>1, <2>1, <2>4, <3>1, <3>2, <3>4, <3>5, DoorStep, FrontStateOK
            DEF To, SameRequest
  <2> QED BY <1>3, <2>3, <2>4 DEF HangUp
<1>4. CASE ensureDKIMAndDNSRecords(c)
  <2>1. PICK x : x = [door[c] EXCEPT !.at = "record"]
    OBVIOUS
  <2>2. SameRequest(door[c], x) /\ x.at = "record"
    BY <1>1, <2>1 DEF SameRequest, Door
  <2>3. PICK y \in {x, Closed} : To(c, y)
    BY <1>4, <2>1 DEF ensureDKIMAndDNSRecords
  <2>4. req'[c] = req[c] /\ StageOK(req[c])
    BY <1>1, <1>4 DEF ensureDKIMAndDNSRecords, vars, DoorOK
  <2>5. y \in Door /\ DoorOK(y, req[c])
    BY <1>1, <2>2, <2>4, AnsweringOK, ClosedOK DEF SameRequest
  <2> QED BY <1>1, <2>3, <2>4, <2>5, DoorStep, FrontStateOK DEF To
<1>5. CASE CallFails(c)
  <2>1. req'[c] = Idle
    BY <1>1, <1>5, Ends DEF CallFails, Abandon
  <2>2. StageOK(Idle)
    BY DEF Idle, StageOK
  <2>3. CASE To(c, Closed)
    BY <1>1, <2>1, <2>2, <2>3, ClosedOK, DoorStep, FrontStateOK DEF To
  <2>4. CASE door[c].then = "import" /\ To(c, [door[c] EXCEPT !.at = "import"])
    <3>1. PICK x : x = [door[c] EXCEPT !.at = "import"]
      OBVIOUS
    <3>2. x \in Door /\ x.at = "import" /\ x.then = "import" /\ x.kind = door[c].kind
      BY <1>1, <2>4, <3>1 DEF Door
    <3>3. DoorOK(x, Idle)
      BY <1>1, <2>2, <2>4, <3>2 DEF DoorOK, WayOK, PublicOK, LocalOK, WebOK
    <3> QED BY <1>1, <2>1, <2>4, <3>1, <3>2, <3>3, DoorStep, FrontStateOK DEF To
  <2> QED BY <1>5, <2>3, <2>4 DEF CallFails
<1> QED BY <1>2, <1>3, <1>4, <1>5, ProceedKeeps, OverlayKeeps DEF Around

\* It holds when the server starts.
LEMMA FrontInvInit == FrontInit => FrontInv
<1> SUFFICES ASSUME FrontInit PROVE FrontInv
  OBVIOUS
<1>1. IndInv
  BY InitOK DEF FrontInit
<1>2. Closed \in Door
  BY ClosedOK DEF Door, Closed
<1>3. \A c \in Client : req[c] = Idle /\ door[c] = Closed
  BY DEF FrontInit, Init
<1>4. DoorOK(Closed, Idle)
  BY ClosedOK DEF Idle, StageOK
<1>5. FrontTypeOK
  BY <1>1, <1>2 DEF FrontTypeOK, FrontInit, IndInv
<1> QED BY <1>1, <1>3, <1>4, <1>5 DEF FrontInv

\* Every step of every request keeps it.
LEMMA FrontInvNext == FrontInv /\ [FrontNext]_frontvars => FrontInv'
<1>1. ASSUME FrontInv, NEW c \in Client, FrontStep(c) PROVE FrontInv'
  BY <1>1, PublicKeeps, LocalKeeps, WebKeeps, CliKeeps, AroundKeeps DEF FrontStep
<1>2. ASSUME FrontInv, UNCHANGED frontvars PROVE FrontInv'
  <2>1. IndInv'
    BY <1>2, FrontNextOK DEF FrontInv
  <2>2. UNCHANGED << door, api_tokens, req, issued, mail_groups, lastGroup >>
    BY <1>2 DEF frontvars, vars, dbvars
  <2>3. FrontTypeOK'
    BY <1>2, <2>1, <2>2 DEF FrontInv, FrontTypeOK, IndInv
  <2> QED BY <1>2, <2>1, <2>2, <2>3
          DEF FrontInv, DoorOK, StageOK, WayOK, PublicOK, OwnRequest, LocalOK, ScopesAllow, WebOK
<1> QED BY <1>1, <1>2 DEF FrontNext

-----------------------------------------------------------------------------
(* What the steps of a request do.                                          *)

\* The request goes on with some record.
Moved(c) == \E x : door' = [door EXCEPT ![c] = x]

\* A step of the domain API writes the record of its own request and no token.
LEMMA PublicMoves == ASSUME NEW c \in Client, Public(c) PROVE Moved(c) /\ UNCHANGED api_tokens
<1> USE DEF To, Look, Calling, Finish, Call, Do, OwnCall, Find, Moved
<1>1. CASE \/ auth(c) \/ public_handleMailboxCreate(c) \/ public_handleMailboxDelete(c)
           \/ public_handleMailboxPassword(c) \/ public_handleMailboxName(c)
           \/ public_handleMailboxQuota(c) \/ public_handleMailboxStatus(c)
  BY <1>1 DEF auth, public_handleMailboxCreate, public_handleMailboxDelete,
              public_handleMailboxPassword, public_handleMailboxName,
              public_handleMailboxQuota, public_handleMailboxStatus
<1>2. CASE \/ public_handleAliasCreate(c) \/ public_handleAliasDelete(c)
           \/ public_handleGroupCreate(c) \/ public_handleGroupUpdate(c)
           \/ public_handleGroupDelete(c) \/ public_handleGroupAddMembers(c)
           \/ public_handleGroupRemoveMember(c) \/ public_handleForwardSet(c)
           \/ public_handleForwardClear(c)
  BY <1>2 DEF public_handleAliasCreate, public_handleAliasDelete, public_handleGroupCreate,
              public_handleGroupUpdate, public_handleGroupDelete,
              public_handleGroupAddMembers, public_handleGroupRemoveMember,
              public_handleForwardSet, public_handleForwardClear
<1> QED BY <1>1, <1>2 DEF Public

\* A step of the server-wide API writes the record of its own request and no token.
LEMMA LocalMoves == ASSUME NEW c \in Client, Local(c) PROVE Moved(c) /\ UNCHANGED api_tokens
  BY DEF Local, requireScope, api_handleDomainAdd, api_handleDomainRemove, api_handleMailboxAdd,
         api_handleMailboxRemove, api_handleMailboxPasswd, api_handleMailboxQuota,
         api_handleAliasAdd, api_handleAliasRemove, api_handleGroupCreate,
         api_handleGroupDelete, api_handleGroupAddMembers, api_handleGroupRemoveMember,
         Scoped, ScopedDo, To, Calling, Finish, Call, Do, AddDomain, Moved

\* A step of a page writes the record of its own request.
LEMMA WebMoves == ASSUME NEW c \in Client, Web(c) PROVE Moved(c)
<1> USE DEF To, Look, Calling, Finish, Call, Do, AddDomain, Recording, Moved
<1>1. CASE \/ web_handleDomainAdd(c) \/ web_handleDomainDelete(c) \/ web_handleDomainCatchAll(c)
           \/ web_handleDomainAPIKeyGenerate(c) \/ web_handleDomainAPIKeyRevoke(c)
           \/ web_handleUserCreate(c) \/ web_handleUserProfile(c) \/ web_handleUserPassword(c)
           \/ web_handleUserQuota(c) \/ web_handleUserStatus(c)
  BY <1>1 DEF web_handleDomainAdd, web_handleDomainDelete, web_handleDomainCatchAll,
              web_handleDomainAPIKeyGenerate, web_handleDomainAPIKeyRevoke,
              web_handleUserCreate, web_handleUserProfile, web_handleUserPassword,
              web_handleUserQuota, web_handleUserStatus
<1>2. CASE \/ web_handleUserForward(c) \/ web_handleUserForwardClear(c)
           \/ web_handleUserAliasAdd(c) \/ web_handleUserAliasRemove(c)
           \/ web_handleUserGroupAdd(c) \/ web_handleUserGroupRemove(c)
           \/ web_handleUserDelete(c) \/ web_handleUsersImport(c)
  BY <1>2 DEF web_handleUserForward, web_handleUserForwardClear, web_handleUserAliasAdd,
              web_handleUserAliasRemove, web_handleUserGroupAdd, web_handleUserGroupRemove,
              web_handleUserDelete, web_handleUsersImport
<1>3. CASE \/ web_handleGroupCreate(c) \/ web_handleGroupUpdate(c) \/ web_handleGroupDelete(c)
           \/ web_handleGroupMembersAdd(c) \/ web_handleGroupMemberRole(c)
           \/ web_handleGroupMemberRemove(c) \/ web_handleAliasAdd(c)
           \/ web_handleAliasDelete(c) \/ web_handleTokenAdd(c) \/ web_handleTokenDelete(c)
  BY <1>3 DEF web_handleGroupCreate, web_handleGroupUpdate, web_handleGroupDelete,
              web_handleGroupMembersAdd, web_handleGroupMemberRole,
              web_handleGroupMemberRemove, web_handleAliasAdd, web_handleAliasDelete,
              web_handleTokenAdd, web_handleTokenDelete
<1> QED BY <1>1, <1>2, <1>3 DEF Web

\* A step of a command writes its own record.
LEMMA CliMoves == ASSUME NEW c \in Client, Cli(c) PROVE Moved(c)
  BY DEF Cli, cmdDomain, cmdDomainCatchAll, cmdMailbox, cmdMailboxForward, cmdAlias, cmdGroup,
         cmdGroupUpdate, cmdAPI, TokenChange, cmdAPIKey, To, Look, Calling, Finish, Call, Do,
         AddDomain, Recording, Moved

\* The steps around the calls write the record of one request and no token.
LEMMA AroundMoves == ASSUME NEW c \in Client, Around(c) PROVE Moved(c) /\ UNCHANGED api_tokens
  BY DEF Around, Proceed, Overlay, ensureDKIMAndDNSRecords, Record, Refuse, ProvisionFails,
         CallFails, HangUp, To, Calling, Moved

\* A step of one request leaves the others alone.
LEMMA OwnDoorOnly ==
    ASSUME FrontInv, NEW c \in Client, NEW d \in Client, c # d, FrontStep(d)
    PROVE  door'[c] = door[c] /\ req'[c] = req[c]
<1>1. Moved(d)
  BY PublicMoves, LocalMoves, WebMoves, CliMoves, AroundMoves DEF FrontStep
<1>2. OnStore(d)
  BY PublicIsStep, LocalIsStep, WebIsStep, CliIsStep, AroundIsStep, FrontStateOK
     DEF FrontStep, IndInv
<1> QED BY <1>1, <1>2, OtherCalls, FrontStateOK DEF Moved

\* Only its own kind of handler takes a request from where it is, and Around what they share.
LEMMA OwnWayOnly ==
    ASSUME FrontInv, NEW c \in Client, FrontStep(c)
    PROVE  /\ door[c].kind = "public" => Public(c) \/ Around(c)
           /\ door[c].kind = "local" => Local(c) \/ Around(c)
           /\ door[c].kind = "web" => Web(c) \/ Around(c)
<1>1. Closed.kind = "none" /\ WayOK(door[c])
  BY FrontStateOK DEF Closed, DoorOK
<1>2. ASSUME Public(c) PROVE door[c].kind \in {"none", "public"}
  BY <1>1, <1>2
     DEF Public, auth, public_handleMailboxCreate, public_handleMailboxDelete,
         public_handleMailboxPassword, public_handleMailboxName, public_handleMailboxQuota,
         public_handleMailboxStatus, public_handleAliasCreate, public_handleAliasDelete,
         public_handleGroupCreate, public_handleGroupUpdate, public_handleGroupDelete,
         public_handleGroupAddMembers, public_handleGroupRemoveMember,
         public_handleForwardSet, public_handleForwardClear, OwnCall, Find, Call, Do,
         AtHandler, WayOK
<1>3. ASSUME Local(c) PROVE door[c].kind \in {"none", "local"}
  BY <1>1, <1>3
     DEF Local, requireScope, api_handleDomainAdd, api_handleDomainRemove,
         api_handleMailboxAdd, api_handleMailboxRemove, api_handleMailboxPasswd,
         api_handleMailboxQuota, api_handleAliasAdd, api_handleAliasRemove,
         api_handleGroupCreate, api_handleGroupDelete, api_handleGroupAddMembers,
         api_handleGroupRemoveMember, Scoped, ScopedDo, Call, Do, AddDomain, AtHandler
<1>4. ASSUME Cli(c) PROVE door[c].kind = "none"
  BY <1>1, <1>4
     DEF Cli, cmdDomain, cmdDomainCatchAll, cmdMailbox, cmdMailboxForward, cmdAlias, cmdGroup,
         cmdGroupUpdate, cmdAPI, TokenChange, cmdAPIKey, Call, Do, AddDomain, AtHandler
<1>5. ASSUME Web(c), door[c].kind # "web" PROVE door[c].kind = "none"
  <2>1. ASSUME AtHandler(c, "web") PROVE door[c].kind = "none"
    BY <1>1, <2>1 DEF AtHandler
  <2>2. door[c].at \notin {"alias", "import"}
    BY <1>1, <1>5 DEF WayOK
  <2> QED BY <1>5, <2>1, <2>2
     DEF Web, web_handleDomainAdd, web_handleDomainDelete, web_handleDomainCatchAll,
         web_handleDomainAPIKeyGenerate, web_handleDomainAPIKeyRevoke, web_handleUserCreate,
         web_handleUserProfile, web_handleUserPassword, web_handleUserQuota,
         web_handleUserStatus, web_handleUserForward, web_handleUserForwardClear,
         web_handleUserAliasAdd, web_handleUserAliasRemove, web_handleUserGroupAdd,
         web_handleUserGroupRemove, web_handleUserDelete, web_handleUsersImport,
         web_handleGroupCreate, web_handleGroupUpdate, web_handleGroupDelete,
         web_handleGroupMembersAdd, web_handleGroupMemberRole, web_handleGroupMemberRemove,
         web_handleAliasAdd, web_handleAliasDelete, web_handleTokenAdd, web_handleTokenDelete,
         Call, Do, AddDomain
<1> QED BY <1>2, <1>3, <1>4, <1>5 DEF FrontStep

-----------------------------------------------------------------------------
(* What the dashboard records.                                              *)

\* A dashboard handler in the middle of its work never answers by itself.
LEMMA WebGoesOn ==
    ASSUME FrontInv, NEW c \in Client, door[c].kind = "web", Web(c)
    PROVE  door'[c] # Closed
<1>1. door \in [Client -> Door] /\ door[c] \in Door
  BY FrontStateOK
<1>2. Closed.kind = "none" /\ Closed.at = "closed"
  BY DEF Closed
<1>3. \A k \in {"web"} : ~AtHandler(c, k)
  BY <1>2 DEF AtHandler
<1>4. PICK x : door' = [door EXCEPT ![c] = x] /\ x.kind = "web"
  <2>1. \/ Calling(c, [door[c] EXCEPT !.args = << >>], "record")
        \/ To(c, [[door[c] EXCEPT !.args = Tail(@)] EXCEPT !.at = "calling", !.then = "import"])
        \/ Look(c, "import", [door[c] EXCEPT !.args = Tail(@)])
        \/ Look(c, "record", door[c])
    BY <1>3
     DEF Web, web_handleDomainAdd, web_handleDomainDelete, web_handleDomainCatchAll,
         web_handleDomainAPIKeyGenerate, web_handleDomainAPIKeyRevoke, web_handleUserCreate,
         web_handleUserProfile, web_handleUserPassword, web_handleUserQuota,
         web_handleUserStatus, web_handleUserForward, web_handleUserForwardClear,
         web_handleUserAliasAdd, web_handleUserAliasRemove, web_handleUserGroupAdd,
         web_handleUserGroupRemove, web_handleUserDelete, web_handleUsersImport,
         web_handleGroupCreate, web_handleGroupUpdate, web_handleGroupDelete,
         web_handleGroupMembersAdd, web_handleGroupMemberRole, web_handleGroupMemberRemove,
         web_handleAliasAdd, web_handleAliasDelete, web_handleTokenAdd, web_handleTokenDelete,
         Call, Do, AddDomain
  <2>2. PICK b \in BOOLEAN : b = Changes
    BY DEF Changes
  <2>3. PICK s, r, x : /\ s = [door[c] EXCEPT !.args = << >>]
                       /\ r = [door[c] EXCEPT !.args = Tail(@)]
                       /\ x = [s EXCEPT !.at = "calling", !.then = "record", !.changed = b]
    OBVIOUS
  <2>4. PICK y, z, w : /\ y = [r EXCEPT !.at = "calling", !.then = "import"]
                       /\ z = [r EXCEPT !.at = "import"]
                       /\ w = [door[c] EXCEPT !.at = "record"]
    OBVIOUS
  <2>5. x.kind = "web" /\ y.kind = "web" /\ z.kind = "web" /\ w.kind = "web"
    BY <1>1, <2>3, <2>4 DEF Door
  <2>6. \/ door' = [door EXCEPT ![c] = x] \/ door' = [door EXCEPT ![c] = y]
        \/ door' = [door EXCEPT ![c] = z] \/ door' = [door EXCEPT ![c] = w]
    BY <2>1, <2>2, <2>3, <2>4 DEF Calling, Look, To
  <2> QED BY <2>5, <2>6
<1> QED BY <1>1, <1>2, <1>4

\* A dashboard request that ends without an audit entry has changed nothing, or its call has
\* failed.
LEMMA WebEnds ==
    ASSUME FrontInv, NEW c \in Client, door[c].kind = "web", FrontStep(c), EndsUnrecorded(c),
           ~CallFails(c), ~ProvisionFails(c)
    PROVE  req[c].op = "GroupAddMembers" /\ ~GroupId(req[c].id)
<1>1. /\ IndInv /\ door \in [Client -> Door] /\ door[c] \in Door
      /\ StageOK(req[c]) /\ WayOK(door[c]) /\ WebOK(door[c], req[c])
  BY FrontStateOK DEF DoorOK
<1>2. Around(c)
  BY OwnWayOnly, WebGoesOn DEF EndsUnrecorded
<1>3. ~Overlay(c) /\ ~Record(c) /\ ~ensureDKIMAndDNSRecords(c)
  <2>1. ~Overlay(c) /\ ~Record(c)
    BY <1>1 DEF Overlay, Record, WayOK, EndsUnrecorded
  <2>2. ASSUME ensureDKIMAndDNSRecords(c) PROVE FALSE
    <3>1. PICK x : x = [door[c] EXCEPT !.at = "record"]
      OBVIOUS
    <3>2. x.at = "record" /\ Closed.at = "closed"
      BY <1>1, <3>1 DEF Door, Closed
    <3>3. door' = [door EXCEPT ![c] = x]
      BY <1>1, <2>2, <3>1 DEF ensureDKIMAndDNSRecords, To, WebOK
    <3> QED BY <1>1, <3>2, <3>3 DEF EndsUnrecorded
  <2> QED BY <2>1, <2>2
<1>4. ~Refuse(c)
  <2>1. ASSUME Refuse(c) PROVE door[c].at \in {"delete", "alias"} /\ ~Changes
    BY <1>1, <2>1 DEF Refuse, WayOK, EndsUnrecorded, Changes, vars, dbvars
  <2> QED BY <1>1, <2>1 DEF EndsUnrecorded, WebOK
<1>5. ~HangUp(c)
  <2>1. SUFFICES ASSUME HangUp(c) PROVE FALSE
    OBVIOUS
  <2>2. PICK x : door' = [door EXCEPT ![c] = x] /\ x.at \in {"gone", "record"}
    <3>1. [Closed EXCEPT !.kind = door[c].kind, !.at = "gone"].at = "gone"
      BY DEF Closed
    <3>2. [door[c] EXCEPT !.at = "record", !.args = << >>].at = "record"
      BY <1>1 DEF Door
    <3> QED BY <2>1, <3>1, <3>2 DEF HangUp, To
  <2>3. Closed.at = "closed"
    BY DEF Closed
  <2> QED BY <1>1, <2>2, <2>3 DEF EndsUnrecorded
<1>6. Proceed(c)
  BY <1>2, <1>3, <1>4, <1>5 DEF Around
<1>7. PICK d : d = Advanced(c)
  OBVIOUS
<1>8. /\ SameRequest(door[c], d) /\ d.at = "calling"
      /\ door[c].added => d.added
      /\ req[c].op = "GroupAddMembers" /\ req[c].at = "insert" /\ GroupId(req[c].id) => d.added
  BY <1>6, <1>7, AdvancedOK DEF Proceed
<1>9. Closed = IF req'[c].op = "idle" THEN Returned(c, d) ELSE d
  BY <1>1, <1>6, <1>7 DEF Proceed, Advanced, To, EndsUnrecorded
<1>10. Closed.at = "closed"
  BY DEF Closed
<1>11. req'[c].op = "idle" /\ Closed = Returned(c, d)
  BY <1>8, <1>9, <1>10
<1>12. /\ d.then # "import"
       /\ Fails(c) \/ ~(d.then = "record" \/ (d.then = "ifAdded" /\ d.added))
  <2>1. [d EXCEPT !.at = "import"].at = "import" /\ [d EXCEPT !.at = "record"].at = "record"
    BY <1>8 DEF SameRequest, Door
  <2> QED BY <1>10, <1>11, <2>1 DEF Returned
<1>13. /\ d.then \in {"record", "ifAdded"}
       /\ d.then = "ifAdded" => req[c].op = "GroupAddMembers"
       /\ req[c].op # "MailboxAdd"
  BY <1>1, <1>6, <1>8, <1>12 DEF Proceed, WebOK, SameRequest
<1>14. /\ req[c].op \in {"MailboxRemove", "GroupDelete"} => ~Fails(c)
       /\ req[c].op = "MailboxCreate" /\ req[c].at = "createMaildir" => ~Fails(c)
       /\ req[c].op = "GroupAddMembers" /\ Fails(c) =>
             req[c].at = "insert" /\ ~GroupId(req[c].id)
  BY <1>1 DEF StageOK, Fails
<1>17. Fails(c) \/ (req[c].op = "GroupAddMembers" /\ ~d.added)
  BY <1>12, <1>13
<1>18. d.added /\ req[c].op = "GroupAddMembers" => ~GroupId(req[c].id)
  BY <1>14, <1>17
<1>15. CASE Changes
  <2>1. Settled(c)
    BY <1>1, <1>6, <1>15, ContinueSettles DEF Proceed
  <2>2. CASE req[c].op # "GroupAddMembers"
    BY <1>11, <1>13, <1>14, <1>17, <2>1, <2>2 DEF Settled
  <2>3. CASE req[c].op = "GroupAddMembers"
    BY <1>8, <1>18, <2>1, <2>3 DEF Settled
  <2> QED BY <2>2, <2>3
<1>16. CASE door[c].changed
  <2>1. \/ req[c].op = "MailboxCreate" /\ req[c].at = "createMaildir"
        \/ req[c].op \in {"MailboxRemove", "GroupDelete"}
        \/ req[c].op = "GroupAddMembers" /\ door[c].added
    BY <1>1, <1>6, <1>8, <1>12, <1>16 DEF Proceed, WebOK, SameRequest
  <2>2. CASE req[c].op # "GroupAddMembers"
    BY <1>14, <1>17, <2>1, <2>2
  <2>3. CASE req[c].op = "GroupAddMembers"
    BY <1>8, <1>18, <2>1, <2>3
  <2> QED BY <2>2, <2>3
<1> QED BY <1>15, <1>16 DEF EndsUnrecorded

-----------------------------------------------------------------------------
(* What a token of the server-wide API lets its holder change.              *)

\* The tables that the statements of a call change.
LEMMA ContinueTables ==
    ASSUME NEW c \in Client, Continue(c), InputsOK(req[c])
    PROVE  /\ req[c].op \in {"MailboxAdd", "MailboxRemove"} =>
                 UNCHANGED << virtual_domains, domain_api_keys, virtual_aliases, mail_groups >>
           /\ req[c].op = "AliasAdd" =>
                 UNCHANGED << virtual_domains, domain_api_keys, virtual_users, mailbox_forwards,
                              mail_groups, mail_group_members, maildirs >>
           /\ req[c].op \in {"GroupCreate", "GroupDelete", "GroupAddMembers",
                             "GroupRemoveMember"} =>
                 UNCHANGED << virtual_domains, domain_api_keys, virtual_users, mailbox_forwards,
                              virtual_aliases, maildirs >>
<1> USE DEF At, Spool, dbvars
<1>1. CASE notAGroup(c) \/ CheckAddressKind(c) \/ GroupUpdateMembers(c) \/ hostedDomains(c)
           \/ GroupAddMembersCheck(c)
  BY <1>1 DEF notAGroup, CheckAddressKind, GroupUpdateMembers, hostedDomains,
              GroupAddMembersCheck
<1>2. CASE MailboxAddUpsert(c) \/ MailboxCreateInsert(c) \/ MailboxRemoveLeaveGroups(c)
           \/ MailboxRemoveSpool(c)
  BY <1>2 DEF MailboxAddUpsert, MailboxCreateInsert, MailboxRemoveLeaveGroups,
              MailboxRemoveSpool, UpsertUser, InsertUser, UpdatePassword, UserTableOnly,
              DeleteMemberships, MemberTableOnly
<1>3. CASE createMaildir(c)
  BY <1>3 DEF createMaildir, InputsOK
<1>4. CASE ForwardSetUpsert(c) \/ AliasAddInsert(c) \/ CatchAllReplace(c)
           \/ GenerateKeyUpsert(c)
  BY <1>4 DEF ForwardSetUpsert, AliasAddInsert, InsertIgnoreAlias, AliasTableOnly,
              CatchAllReplace, GenerateKeyUpsert
<1>5. CASE GroupCreateInsert(c) \/ GroupUpdateApply(c) \/ GroupDeleteLeaveGroups(c)
           \/ GroupAddMembersInsert(c) \/ GroupRemoveMemberApply(c)
           \/ GroupSetMemberRoleApply(c)
  BY <1>5 DEF GroupCreateInsert, InsertGroup, GroupUpdateApply, GroupDeleteLeaveGroups,
              DeleteMemberships, MemberTableOnly, GroupAddMembersInsert, UpsertMember,
              GroupRemoveMemberApply, DeleteMember, GroupSetMemberRoleApply
<1> QED BY <1>1, <1>2, <1>3, <1>4, <1>5 DEF Continue

\* A step of a request of the server-wide API.
LEMMA LocalEffect ==
    ASSUME FrontInv, NEW c \in Client, door[c].kind = "local", FrontStep(c)
    PROVE  WithinScopes(c)
<1>1. /\ IndInv /\ WayOK(door[c]) /\ LocalOK(door[c], req[c]) /\ InputsOK(req[c])
  BY FrontStateOK DEF DoorOK, IndInv, CallsOK
<1>2. UNCHANGED api_tokens
  BY OwnWayOnly, LocalMoves, AroundMoves
<1>3. ASSUME UNCHANGED << dbvars, maildirs >> PROVE WithinScopes(c)
  BY <1>2, <1>3 DEF WithinScopes, dbvars
<1>4. CASE Around(c)
  <2>1. ~Overlay(c)
    BY <1>1 DEF Overlay, WayOK
  <2>2. CASE \/ ensureDKIMAndDNSRecords(c) \/ Record(c) \/ Refuse(c) \/ ProvisionFails(c)
             \/ CallFails(c) \/ HangUp(c)
    BY <1>3, <2>2 DEF ensureDKIMAndDNSRecords, Record, Refuse, ProvisionFails, CallFails,
                      HangUp, Abandon, Spool, vars
  <2>3. CASE Proceed(c)
    <3>1. ScopesAllow(door[c].scopes, req[c]) /\ Continue(c)
      BY <1>1, <2>3 DEF Proceed, LocalOK
    <3> QED BY <1>1, <1>2, <3>1, ContinueTables DEF ScopesAllow, WithinScopes, Admitted
  <2> QED BY <1>4, <2>1, <2>2, <2>3 DEF Around
<1>5. CASE Local(c)
  <2>1. ~requireScope(c)
    <3>1. Closed.kind = "none"
      BY DEF Closed
    <3> QED BY <3>1 DEF requireScope
  <2>2. CASE api_handleDomainAdd(c) \/ api_handleDomainRemove(c)
    BY <1>2, <2>2 DEF api_handleDomainAdd, api_handleDomainRemove, ScopedDo, HasScope,
                      WithinScopes, Admitted
  <2>3. CASE api_handleMailboxPasswd(c) \/ api_handleMailboxQuota(c)
    BY <1>2, <2>3 DEF api_handleMailboxPasswd, api_handleMailboxQuota, ScopedDo, HasScope, Do,
                      MailboxPasswd, UpdatePassword, UserTableOnly, updateMailbox, vars,
                      dbvars, Spool, WithinScopes, Admitted
  <2>4. CASE api_handleMailboxRemove(c)
    BY <1>2, <2>4 DEF api_handleMailboxRemove, Scoped, HasScope, Call, MailboxRemove,
                      DeleteUser, Spool, WithinScopes, Admitted
  <2>5. CASE api_handleAliasRemove(c)
    BY <1>2, <2>5 DEF api_handleAliasRemove, ScopedDo, HasScope, Do, AliasRemove, DeleteAlias,
                      AliasTableOnly, Spool, WithinScopes, Admitted
  <2>6. CASE api_handleGroupDelete(c)
    BY <1>2, <2>6 DEF api_handleGroupDelete, Scoped, HasScope, Call, GroupDelete, DeleteGroup,
                      Spool, WithinScopes, Admitted
  <2>7. CASE api_handleMailboxAdd(c) \/ api_handleAliasAdd(c) \/ api_handleGroupCreate(c)
             \/ api_handleGroupAddMembers(c) \/ api_handleGroupRemoveMember(c)
    <3>1. UNCHANGED << dbvars, Spool >>
      BY <1>1, <2>7, FirstStatement
         DEF api_handleMailboxAdd, api_handleAliasAdd, api_handleGroupCreate,
             api_handleGroupAddMembers, api_handleGroupRemoveMember, Scoped, Call, Begun
    <3> QED BY <1>3, <3>1 DEF Spool
  <2> QED BY <1>5, <2>1, <2>2, <2>3, <2>4, <2>5, <2>6, <2>7 DEF Local
<1> QED BY <1>4, <1>5, OwnWayOnly

-----------------------------------------------------------------------------
(* What a key of the public API lets its holder change.                     *)

\* The statements of a call, each of which changes rows of the address or the group of the call.
LEMMA ContinueOwn ==
    ASSUME IndInv, NEW c \in Client, Continue(c), NEW dom, OwnRequest(req[c], dom),
           UNCHANGED api_tokens
    PROVE  OnlyDomain(dom)
<1> USE DEF At, Spool, OnlyDomain, Differ
<1>1. /\ req[c].op \in PublicOps
      /\ req[c].key \in Addr /\ DomainOf[req[c].key] = dom
      /\ req[c].op \in ByGroup =>
            \A g \in mail_groups : g.id = req[c].id => DomainOf[g.email] = dom
      /\ InputsOK(req[c])
  BY DEF OwnRequest, IndInv, CallsOK
<1>2. /\ mail_groups \subseteq GroupRow
      /\ \A m \in mail_group_members : \E g \in mail_groups : g.id = m.group_id
  BY DEF IndInv, TypeOK, DBTypeOK, HomedRows, GroupId
<1>3. CASE notAGroup(c) \/ CheckAddressKind(c) \/ GroupUpdateMembers(c) \/ hostedDomains(c)
           \/ GroupAddMembersCheck(c)
  BY <1>3 DEF notAGroup, CheckAddressKind, GroupUpdateMembers, hostedDomains,
              GroupAddMembersCheck, dbvars
<1>4. ~(MailboxAddUpsert(c) \/ CatchAllReplace(c) \/ GroupSetMemberRoleApply(c)
        \/ GenerateKeyUpsert(c))
  BY <1>1 DEF MailboxAddUpsert, CatchAllReplace, GroupSetMemberRoleApply, GenerateKeyUpsert,
              PublicOps
<1>5. CASE MailboxCreateInsert(c)
  BY <1>1, <1>5 DEF MailboxCreateInsert, InsertUser, UserTableOnly, dbvars
<1>6. CASE createMaildir(c) \/ MailboxRemoveSpool(c)
  BY <1>1, <1>6 DEF createMaildir, MailboxRemoveSpool, dbvars
<1>7. CASE MailboxRemoveLeaveGroups(c) \/ GroupDeleteLeaveGroups(c)
  BY <1>1, <1>7 DEF MailboxRemoveLeaveGroups, GroupDeleteLeaveGroups, DeleteMemberships,
                    MemberTableOnly
<1>8. CASE ForwardSetUpsert(c)
  BY <1>1, <1>8 DEF ForwardSetUpsert, UpsertForward, ForwardTableOnly, dbvars
<1>9. CASE AliasAddInsert(c)
  BY <1>1, <1>9 DEF AliasAddInsert, InsertIgnoreAlias, AliasTableOnly
<1>10. CASE GroupCreateInsert(c)
  BY <1>1, <1>10 DEF GroupCreateInsert, InsertGroup, dbvars
<1>11. CASE GroupUpdateApply(c)
  <2> DEFINE new(g) == IF g.id = req[c].id
                       THEN [g EXCEPT !.post_policy = req[c].policy, !.allow_external = req[c].flag]
                       ELSE g
  <2>1. /\ mail_groups' = {new(g) : g \in mail_groups}
        /\ UNCHANGED << virtual_domains, virtual_users, virtual_aliases, mail_group_members,
                        mailbox_forwards, domain_api_keys, maildirs, issued >>
        /\ req[c].op \in ByGroup
    BY <1>11 DEF GroupUpdateApply, UpdateGroup, ByGroup
  <2>2. \A g \in mail_groups : new(g).id = g.id /\ new(g).email = g.email
    BY <1>2 DEF GroupRow
  <2>3. \A g \in mail_groups : g.id # req[c].id => new(g) = g
    OBVIOUS
  <2> HIDE DEF new
  <2>4. \A g \in Differ(mail_groups, mail_groups') : DomainOf[g.email] = dom
    BY <1>1, <2>1, <2>2, <2>3
  <2> QED BY <2>1, <2>4
<1>12. CASE GroupAddMembersInsert(c)
  BY <1>1, <1>12 DEF GroupAddMembersInsert, UpsertMember, GroupId, MemberTableOnly, ByGroup,
                     dbvars
<1>13. CASE GroupRemoveMemberApply(c)
  BY <1>1, <1>2, <1>13 DEF GroupRemoveMemberApply, DeleteMember, MemberTableOnly, ByGroup
<1> QED BY <1>3, <1>4, <1>5, <1>6, <1>7, <1>8, <1>9, <1>10, <1>11, <1>12, <1>13 DEF Continue

\* The statements of the calls that are one statement, or that start with one that deletes.
LEMMA StatementOwn ==
    ASSUME IndInv, NEW e \in Addr, UNCHANGED api_tokens, UNCHANGED Spool,
           \/ \E p \in Password : UpdatePassword(e, p)
           \/ \E b \in BOOLEAN : UpdateEnabled(e, b)
           \/ \E d \in Addr : DeleteAlias(e, d)
           \/ DeleteForward(e) \/ DeleteUser(e) \/ DeleteGroup(e)
           \/ UNCHANGED dbvars
    PROVE  OnlyDomain(DomainOf[e])
<1> USE DEF Spool, OnlyDomain, Differ
<1>1. virtual_users \subseteq UserRow
  BY DEF IndInv, TypeOK, DBTypeOK
<1>2. ASSUME NEW p \in Password, UpdatePassword(e, p) PROVE OnlyDomain(DomainOf[e])
  <2> DEFINE new(u) == IF u.email = e THEN [u EXCEPT !.password = p] ELSE u
  <2>1. virtual_users' = {new(u) : u \in virtual_users} /\ UserTableOnly
    BY <1>2 DEF UpdatePassword
  <2>2. \A u \in virtual_users : new(u).email = u.email /\ (u.email # e => new(u) = u)
    BY <1>1 DEF UserRow
  <2> HIDE DEF new
  <2>3. \A u \in Differ(virtual_users, virtual_users') : DomainOf[u.email] = DomainOf[e]
    BY <2>1, <2>2
  <2> QED BY <2>1, <2>3 DEF UserTableOnly
<1>3. ASSUME NEW b \in BOOLEAN, UpdateEnabled(e, b) PROVE OnlyDomain(DomainOf[e])
  <2> DEFINE new(u) == IF u.email = e THEN [u EXCEPT !.enabled = b] ELSE u
  <2>1. virtual_users' = {new(u) : u \in virtual_users} /\ UserTableOnly
    BY <1>3 DEF UpdateEnabled
  <2>2. \A u \in virtual_users : new(u).email = u.email /\ (u.email # e => new(u) = u)
    BY <1>1 DEF UserRow
  <2> HIDE DEF new
  <2>3. \A u \in Differ(virtual_users, virtual_users') : DomainOf[u.email] = DomainOf[e]
    BY <2>1, <2>2
  <2> QED BY <2>1, <2>3 DEF UserTableOnly
<1>4. ASSUME NEW d \in Addr, DeleteAlias(e, d) PROVE OnlyDomain(DomainOf[e])
  BY <1>4 DEF DeleteAlias, AliasTableOnly
<1>5. CASE DeleteForward(e)
  BY <1>5 DEF DeleteForward, ForwardTableOnly
<1>6. CASE DeleteUser(e)
  BY <1>6 DEF DeleteUser
<1>7. CASE DeleteGroup(e)
  BY <1>7 DEF DeleteGroup
<1>8. CASE UNCHANGED dbvars
  BY <1>8 DEF dbvars
<1> QED BY <1>2, <1>3, <1>4, <1>5, <1>6, <1>7, <1>8

\* A step of a request of the public API.
LEMMA PublicEffect ==
    ASSUME FrontInv, NEW c \in Client, door[c].kind = "public", FrontStep(c),
           NEW k \in door[c].key
    PROVE  OnlyDomain(issued[k])
<1>1. /\ IndInv /\ WayOK(door[c]) /\ PublicOK(door[c], req[c]) /\ door[c] \in Door
  BY FrontStateOK DEF DoorOK
<1>2. UNCHANGED api_tokens /\ issued[k] = door[c].dom
  BY <1>1, OwnWayOnly, PublicMoves, AroundMoves DEF PublicOK
<1>3. ASSUME UNCHANGED << dbvars, Spool >> PROVE OnlyDomain(issued[k])
  BY <1>2, <1>3 DEF OnlyDomain, Differ, dbvars, Spool
<1>4. CASE Around(c)
  <2>1. CASE \/ ensureDKIMAndDNSRecords(c) \/ Record(c) \/ Refuse(c) \/ ProvisionFails(c)
             \/ CallFails(c) \/ HangUp(c)
    BY <1>3, <2>1 DEF ensureDKIMAndDNSRecords, Record, Refuse, ProvisionFails, CallFails,
                      HangUp, Abandon, Spool, vars
  <2>2. CASE Overlay(c)
    <3>1. Begun(c, "GroupUpdate")
      BY <1>1, <2>2, FirstStatement DEF Overlay
    <3> QED BY <1>3, <3>1 DEF Begun
  <2>3. CASE Proceed(c)
    <3>1. OwnRequest(req[c], door[c].dom) /\ Continue(c)
      BY <1>1, <2>3 DEF Proceed, PublicOK
    <3> QED BY <1>1, <1>2, <3>1, ContinueOwn
  <2> QED BY <1>4, <2>1, <2>2, <2>3 DEF Around
<1>5. CASE Public(c)
  <2>1. ~auth(c)
    <3>1. Closed.kind = "none"
      BY DEF Closed
    <3> QED BY <3>1 DEF auth
  <2>2. CASE \/ public_handleMailboxPassword(c) \/ public_handleMailboxName(c)
             \/ public_handleMailboxQuota(c) \/ public_handleMailboxStatus(c)
             \/ public_handleAliasDelete(c)
    <3>1. PICK e \in OwnAddr(c) :
             /\ UNCHANGED Spool
             /\ \/ \E p \in Password : UpdatePassword(e, p)
                \/ \E b \in BOOLEAN : UpdateEnabled(e, b)
                \/ \E d \in Addr : DeleteAlias(e, d)
                \/ UNCHANGED dbvars
      BY <2>2 DEF public_handleMailboxPassword, public_handleMailboxName,
                  public_handleMailboxQuota, public_handleMailboxStatus,
                  public_handleAliasDelete, Do, MailboxPasswd, updateMailbox,
                  MailboxSetEnabled, AliasRemove, vars, Spool
    <3>2. e \in Addr /\ DomainOf[e] = door[c].dom
      BY DEF OwnAddr
    <3> QED BY <1>1, <1>2, <3>1, <3>2, StatementOwn
  <2>3. CASE \/ public_handleMailboxCreate(c) \/ public_handleAliasCreate(c)
             \/ public_handleGroupCreate(c) \/ public_handleGroupAddMembers(c)
             \/ public_handleGroupRemoveMember(c) \/ public_handleForwardSet(c)
    <3>1. UNCHANGED << dbvars, Spool >>
      BY <1>1, <2>3, FirstStatement
         DEF public_handleMailboxCreate, public_handleAliasCreate, public_handleGroupCreate,
             public_handleGroupAddMembers, public_handleGroupRemoveMember,
             public_handleForwardSet, OwnCall, Call, Begun
    <3> QED BY <1>3, <3>1
  <2>4. CASE public_handleGroupUpdate(c) \/ Find(c, "delete") \/ Find(c, "clear")
    BY <1>3, <2>4 DEF public_handleGroupUpdate, Find, Look, vars, Spool
  <2>5. CASE public_handleGroupDelete(c)
    <3>1. PICK e \in Addr : DeleteGroup(e) /\ UNCHANGED Spool
             /\ req' = [req EXCEPT ![c] = [Idle EXCEPT !.op = "GroupDelete",
                                                       !.at = "leaveGroups", !.key = e]]
      BY <2>5 DEF public_handleGroupDelete, OwnCall, Call, GroupDelete
    <3>2. req'[c].key = e
      BY <1>1, <3>1 DEF IndInv, TypeOK, Idle
    <3>3. DomainOf[e] = door[c].dom
      BY <2>5, <3>2 DEF public_handleGroupDelete, OwnCall, Call, OwnAddr
    <3> QED BY <1>1, <1>2, <3>1, <3>3, StatementOwn
  <2>6. CASE /\ door[c].at = "delete" /\ MailboxRemove(c)
             /\ req'[c].key = Head(door[c].args)
    <3>1. PICK e \in Addr : DeleteUser(e) /\ UNCHANGED Spool
             /\ req' = [req EXCEPT ![c] = [Idle EXCEPT !.op = "MailboxRemove",
                                                       !.at = "leaveGroups", !.key = e]]
      BY <2>6 DEF MailboxRemove
    <3>2. req'[c].key = e
      BY <1>1, <3>1 DEF IndInv, TypeOK, Idle
    <3>3. DomainOf[e] = door[c].dom
      BY <1>1, <2>6, <3>2 DEF PublicOK
    <3> QED BY <1>1, <1>2, <3>1, <3>3, StatementOwn
  <2>7. CASE door[c].at = "clear" /\ ForwardClear(c, Head(door[c].args))
    <3>1. door[c].args \in Seq(Addr) /\ door[c].args # << >>
      BY <1>1, <2>7 DEF Door, PublicOK
    <3>2. Head(door[c].args) \in Addr /\ DomainOf[Head(door[c].args)] = door[c].dom
      BY <1>1, <2>7, <3>1 DEF PublicOK
    <3> QED BY <1>1, <1>2, <2>7, <3>2, StatementOwn DEF ForwardClear
  <2> QED BY <1>5, <2>1, <2>2, <2>3, <2>4, <2>5, <2>6, <2>7
          DEF Public, public_handleMailboxDelete, public_handleForwardClear
<1> QED BY <1>4, <1>5, OwnWayOnly

-----------------------------------------------------------------------------

\* What an open request may still do follows from how it was opened, whatever runs beside it.
THEOREM FrontKeepsBounds == FrontSpec => []FrontInv
  BY FrontInvInit, FrontInvNext, PTL DEF FrontSpec

\* Type correctness of the four ways in.
THEOREM FrontTypeCorrect == FrontSpec => []FrontTypeOK
<1>1. FrontInv => FrontTypeOK
  BY DEF FrontInv
<1> QED BY <1>1, FrontKeepsBounds, PTL

\* publicapi: the key of a domain only ever touches that one domain, for any number of domains,
\* keys and requests: a request keeps to addresses and groups of the domain its key was
\* generated for, and neither a group's id nor a generated key ever passes to another domain.
THEOREM KeysKeepToTheirDomain == FrontSpec => OwnDomainOnly
<1> DEFINE A == \A c \in Client : door[c].kind = "public" /\ Moves(c) =>
                   \A k \in door[c].key : OnlyDomain(issued[k])
<1>1. FrontInv /\ [FrontNext]_frontvars => [A]_frontvars
  <2> SUFFICES ASSUME FrontInv, FrontNext, NEW c \in Client, door[c].kind = "public", Moves(c),
                      NEW k \in door[c].key
               PROVE  OnlyDomain(issued[k])
    OBVIOUS
  <2>1. PICK d \in Client : FrontStep(d)
    BY DEF FrontNext
  <2>2. d = c
    BY <2>1, OwnDoorOnly DEF Moves
  <2> QED BY <2>1, <2>2, PublicEffect
<1> QED BY <1>1, FrontKeepsBounds, PTL DEF FrontSpec, OwnDomainOnly

\* requireScope: every statement of a request stays within the scopes its token had.
THEOREM TokensKeepToTheirScopes == FrontSpec => ScopesHonoured
<1> DEFINE A == \A c \in Client : door[c].kind = "local" /\ Moves(c) => WithinScopes(c)
<1>1. FrontInv /\ [FrontNext]_frontvars => [A]_frontvars
  <2> SUFFICES ASSUME FrontInv, FrontNext, NEW c \in Client, door[c].kind = "local", Moves(c)
               PROVE  WithinScopes(c)
    OBVIOUS
  <2>1. PICK d \in Client : FrontStep(d)
    BY DEF FrontNext
  <2>2. d = c
    BY <2>1, OwnDoorOnly DEF Moves
  <2> QED BY <2>1, <2>2, LocalEffect
<1> QED BY <1>1, FrontKeepsBounds, PTL DEF FrontSpec, ScopesHonoured

\* record: a dashboard handler that changed a row answers without its audit entry only when its
\* call has failed after the change, or its batch's group was deleted under it.
THEOREM DashboardRecords == FrontSpec => DashboardChangesRecorded
<1> DEFINE A == \A c \in Client : door[c].kind = "web" /\ EndsUnrecorded(c) =>
                   \/ CallFails(c) \/ ProvisionFails(c)
                   \/ req[c].op = "GroupAddMembers" /\ ~GroupId(req[c].id)
<1>1. FrontInv /\ [FrontNext]_frontvars => [A]_frontvars
  <2> SUFFICES ASSUME FrontInv, FrontNext, NEW c \in Client, door[c].kind = "web",
                      EndsUnrecorded(c), ~CallFails(c), ~ProvisionFails(c)
               PROVE  req[c].op = "GroupAddMembers" /\ ~GroupId(req[c].id)
    OBVIOUS
  <2>1. PICK d \in Client : FrontStep(d)
    BY DEF FrontNext
  <2>2. d = c
    BY <2>1, OwnDoorOnly DEF EndsUnrecorded
  <2> QED BY <2>1, <2>2, WebEnds
<1> QED BY <1>1, FrontKeepsBounds, PTL DEF FrontSpec, DashboardChangesRecorded
=============================================================================
