----------------------------- MODULE Directory -----------------------------
(***************************************************************************)
(* The directory of domains, mailboxes, aliases, groups, forwards,          *)
(* catch-alls and domain API keys: the state-changing operations of         *)
(* cli/internal/mailbox (Store) and cli/internal/domainkey, called by the   *)
(* CLI, the web UI and the two HTTP APIs without any lock between them.     *)
(*                                                                          *)
(* A client is one running call.  Each SQL statement, and each change of    *)
(* the mail spool, is one step; what a call has read so far is kept in its  *)
(* request record, and may be stale when it is used.  A call whose first    *)
(* statement makes it return an error changes nothing and is not a step.    *)
(***************************************************************************)
EXTENDS MailDB, Sequences

CONSTANTS
    Client,    \* concurrent callers
    Ops,       \* the operations these callers use
    Hostable,  \* the domain names they may register
    Policies,  \* the posting policies they ask for
    Faults,    \* whether a call may end between two of its statements
    MaxBatch,  \* bound on the addresses of one GroupAddMembers call
    None       \* "no value"

AllOps == {"DomainAdd", "DomainRemove", "MailboxAdd", "MailboxCreate", "MailboxRemove",
           "MailboxPasswd", "MailboxSetEnabled", "AliasAdd", "AliasRemove", "GroupCreate",
           "GroupUpdate", "GroupDelete", "GroupAddMembers", "GroupRemoveMember",
           "GroupSetMemberRole", "ForwardSet", "ForwardClear", "CatchAllSet",
           "GenerateKey", "RevokeKey"}

ASSUME InputAssumption ==
    Ops \subseteq AllOps /\ Hostable \subseteq Domain /\ Policies \subseteq Policy
ASSUME FaultsAssumption == Faults \in BOOLEAN
ASSUME BatchAssumption == MaxBatch \in Nat \ {0}
ASSUME NoneAssumption == None \notin Source \cup Password

VARIABLES
    req,       \* the request each client is executing
    maildirs,  \* addresses with a directory under /var/mail/vhosts
    issued     \* the domain each API key was generated for (None: not generated)

vars == << dbvars, req, maildirs, issued >>

-----------------------------------------------------------------------------
(* Requests.  The inputs of the call, then what it has read: id is          *)
(* domID or g.ID, ext is g.AllowExternal, hosted is hostedDomains().        *)

Idle == [op |-> "idle", at |-> "idle", key |-> None, arg |-> None, pw |-> None,
         role |-> "member", policy |-> "organization", flag |-> FALSE,
         todo |-> << >>, id |-> 0, ext |-> FALSE, hosted |-> {}]

Label == {"idle", "notAGroup", "addressKind", "insert", "createMaildir", "leaveGroups",
          "removeAll", "members", "update", "hosted", "check", "apply", "replace"}

Request ==
    [op : AllOps \cup {"idle"}, at : Label,
     key : Source \cup {None}, arg : Addr \cup {None}, pw : Password \cup {None},
     role : Role, policy : Policy, flag : BOOLEAN, todo : Seq(Addr),
     id : Nat, ext : BOOLEAN, hosted : SUBSET Domain]

TypeOK ==
    /\ DBTypeOK
    /\ req \in [Client -> Request]
    /\ maildirs \subseteq Addr
    /\ issued \in [ApiKey -> Domain \cup {None}]

Init ==
    /\ DBInit
    /\ req = [c \in Client |-> Idle]
    /\ maildirs = {}
    /\ issued = [k \in ApiKey |-> None]

Free(c, op)   == op \in Ops /\ req[c].op = "idle"
At(c, op, l)  == req[c].op = op /\ req[c].at = l
Goto(c, l)    == req' = [req EXCEPT ![c].at = l]
Return(c)     == req' = [req EXCEPT ![c] = Idle]
Spool         == << maildirs, issued >>

-----------------------------------------------------------------------------
(* Reads shared by several operations.                                      *)

\* SELECT id FROM virtual_domains WHERE name = ?, the first statement of call q.
domainID(c, q) ==
    /\ \E r \in virtual_domains :
          /\ r.name = HomeDomain(q.key)
          /\ req' = [req EXCEPT ![c] = [q EXCEPT !.id = r.id]]
    /\ UNCHANGED << dbvars, Spool >>

\* GroupGet, the first statement of call q: it finds the row g.
GroupGet(c, g, q) ==
    /\ req' = [req EXCEPT ![c] = [q EXCEPT !.key = g.email, !.id = g.id,
                                           !.ext = g.allow_external]]
    /\ UNCHANGED << dbvars, Spool >>

\* The first of the three branches of the UNION that has a row.
AddressKind(e) ==
    IF IsUser(e) THEN "user" ELSE IF IsGroup(e) THEN "group"
    ELSE IF IsAlias(e) THEN "alias" ELSE ""

\* The Kind column of GroupMembers.
MemberKind(a) ==
    IF AddressKind(a) # "" THEN AddressKind(a)
    ELSE IF Hosted(DomainOf[a]) THEN "missing" ELSE "external"

\* MailboxAdd and AliasAdd only refuse the address of a group.
notAGroup(c) ==
    /\ req[c].at = "notAGroup"
    /\ IF IsGroup(req[c].key) THEN Return(c) ELSE Goto(c, "insert")
    /\ UNCHANGED << dbvars, Spool >>

\* Mutant: a group may take the address of an alias.
TakenNotAlias(op) == {"user", "group"}

\* MailboxCreate refuses users and groups; GroupCreate refuses aliases too.
Taken(op) == IF op = "GroupCreate" THEN {"user", "group", "alias"} ELSE {"user", "group"}

CheckAddressKind(c) ==
    /\ req[c].at = "addressKind"
    /\ IF AddressKind(req[c].key) \in Taken(req[c].op) THEN Return(c) ELSE Goto(c, "insert")
    /\ UNCHANGED << dbvars, Spool >>

-----------------------------------------------------------------------------
(* Domains.                                                                 *)

\* The row; the rest of DomainAdd, ensureDKIMAndDNSRecords, only writes the files of module
\* Dkim, and leaves the row in place when it fails (module Requests has it as a step).
DomainAdd(c) ==
    /\ Free(c, "DomainAdd")
    /\ \E d \in Hostable : InsertDomain(d)
    /\ UNCHANGED << req, Spool >>

DomainRemove(c) ==
    /\ Free(c, "DomainRemove")
    /\ \E d \in Domain : DeleteDomain(d)
    /\ UNCHANGED << req, Spool >>

-----------------------------------------------------------------------------
(* Mailboxes.                                                               *)

MailboxAdd(c) ==
    /\ Free(c, "MailboxAdd")
    /\ \E e \in Addr, p \in Password :
          domainID(c, [Idle EXCEPT !.op = "MailboxAdd", !.at = "notAGroup",
                                   !.key = e, !.pw = p])

MailboxAddUpsert(c) ==
    /\ At(c, "MailboxAdd", "insert")
    /\ \/ /\ UpsertUser(req[c].key, req[c].id, req[c].pw)
          /\ Goto(c, "createMaildir")
       \/ /\ ~IsUser(req[c].key) /\ ~DomainId(req[c].id)
          /\ Return(c) /\ UNCHANGED dbvars
    /\ UNCHANGED Spool

MailboxCreate(c) ==
    /\ Free(c, "MailboxCreate")
    /\ \E e \in Addr, p \in Password :
          domainID(c, [Idle EXCEPT !.op = "MailboxCreate", !.at = "addressKind",
                                   !.key = e, !.pw = p])

\* Mutant: create resets the mailbox it finds, as MailboxAdd does.
MailboxCreateUpserts(c) ==
    /\ At(c, "MailboxCreate", "insert")
    /\ \/ UpsertUser(req[c].key, req[c].id, req[c].pw) /\ Goto(c, "createMaildir")
       \/ ~DomainId(req[c].id) /\ Return(c) /\ UNCHANGED dbvars
    /\ UNCHANGED Spool

\* Mutant: the spool directory is left to the first delivery.
MailboxCreateNoSpool(c) ==
    /\ At(c, "MailboxCreate", "insert")
    /\ InsertUser(req[c].key, req[c].id, req[c].pw) /\ Return(c)
    /\ UNCHANGED Spool

MailboxCreateInsert(c) ==
    /\ At(c, "MailboxCreate", "insert")
    /\ \/ /\ InsertUser(req[c].key, req[c].id, req[c].pw)
          /\ Goto(c, "createMaildir")
       \/ /\ IsUser(req[c].key) \/ ~DomainId(req[c].id)
          /\ Return(c) /\ UNCHANGED dbvars
    /\ UNCHANGED Spool

\* Mutant: the directory is named after the wrong variable.
createMaildirWrongName(c) ==
    /\ req[c].at = "createMaildir"
    /\ maildirs' = maildirs \cup {req[c].arg}
    /\ Return(c)
    /\ UNCHANGED << dbvars, issued >>

createMaildir(c) ==
    /\ req[c].at = "createMaildir"
    /\ maildirs' = maildirs \cup {req[c].key}
    /\ Return(c)
    /\ UNCHANGED << dbvars, issued >>

MailboxRemove(c) ==
    /\ Free(c, "MailboxRemove")
    /\ \E e \in Addr :
          /\ DeleteUser(e)
          /\ req' = [req EXCEPT ![c] = [Idle EXCEPT !.op = "MailboxRemove",
                                                    !.at = "leaveGroups", !.key = e]]
    /\ UNCHANGED Spool

\* Mutant: the address stays in its groups.
MailboxRemoveStaysInGroups(c) ==
    /\ At(c, "MailboxRemove", "leaveGroups")
    /\ Goto(c, "removeAll")
    /\ UNCHANGED << dbvars, Spool >>

MailboxRemoveLeaveGroups(c) ==
    /\ At(c, "MailboxRemove", "leaveGroups")
    /\ DeleteMemberships(req[c].key)
    /\ Goto(c, "removeAll")
    /\ UNCHANGED Spool

MailboxRemoveSpool(c) ==
    /\ At(c, "MailboxRemove", "removeAll")
    /\ maildirs' = maildirs \ {req[c].key}
    /\ Return(c)
    /\ UNCHANGED << dbvars, issued >>

MailboxPasswd(c, e, p) ==
    /\ Free(c, "MailboxPasswd")
    /\ UpdatePassword(e, p)
    /\ UNCHANGED << req, Spool >>

MailboxSetEnabled(c, e, b) ==
    /\ Free(c, "MailboxSetEnabled")
    /\ UpdateEnabled(e, b)
    /\ UNCHANGED << req, Spool >>

-----------------------------------------------------------------------------
(* Forwards, aliases and catch-alls.                                        *)

ForwardSet(c) ==
    /\ Free(c, "ForwardSet")
    /\ \E e \in Addr, d \in Addr, keep \in BOOLEAN :
          /\ d # e
          /\ IsUser(e)
          /\ req' = [req EXCEPT ![c] = [Idle EXCEPT !.op = "ForwardSet", !.at = "apply",
                                           !.key = e, !.arg = d, !.flag = keep]]
    /\ UNCHANGED << dbvars, Spool >>

ForwardSetUpsert(c) ==
    /\ At(c, "ForwardSet", "apply")
    /\ \/ UpsertForward(req[c].key, req[c].arg, req[c].flag)
       \/ ~IsUser(req[c].key) /\ UNCHANGED dbvars
    /\ Return(c)
    /\ UNCHANGED Spool

ForwardClear(c, e) ==
    /\ Free(c, "ForwardClear")
    /\ DeleteForward(e)
    /\ UNCHANGED << req, Spool >>

AliasAdd(c) ==
    /\ Free(c, "AliasAdd")
    /\ \E s \in Addr, d \in Addr :
          domainID(c, [Idle EXCEPT !.op = "AliasAdd", !.at = "notAGroup",
                                   !.key = s, !.arg = d])

AliasAddInsert(c) ==
    /\ At(c, "AliasAdd", "insert")
    /\ InsertIgnoreAlias(req[c].key, req[c].arg, req[c].id)
    /\ Return(c)
    /\ UNCHANGED Spool

\* Neither argument is validated: a source "@domain" takes the catch-all.
AliasRemove(c, s, d) ==
    /\ Free(c, "AliasRemove")
    /\ DeleteAlias(s, d)
    /\ UNCHANGED << req, Spool >>

\* An empty destination (None) clears the catch-all.
CatchAllSet(c) ==
    /\ Free(c, "CatchAllSet")
    /\ \E dom \in Domain, d \in Addr \cup {None} :
          domainID(c, [Idle EXCEPT !.op = "CatchAllSet", !.at = "replace",
                                   !.key = dom, !.arg = d])

CatchAllReplace(c) ==
    /\ At(c, "CatchAllSet", "replace")
    /\ \/ req[c].arg = None /\ DeleteSource(req[c].key)
       \/ req[c].arg # None /\ ReplaceCatchAll(req[c].key, req[c].arg, req[c].id)
       \/ req[c].arg # None /\ ~DomainId(req[c].id) /\ UNCHANGED dbvars
    /\ Return(c)
    /\ UNCHANGED Spool

-----------------------------------------------------------------------------
(* Groups.                                                                  *)

GroupCreate(c) ==
    /\ Free(c, "GroupCreate")
    /\ \E e \in Addr, p \in Policies, ext \in BOOLEAN :
          domainID(c, [Idle EXCEPT !.op = "GroupCreate", !.at = "addressKind",
                                   !.key = e, !.policy = p, !.flag = ext])

GroupCreateInsert(c) ==
    /\ At(c, "GroupCreate", "insert")
    /\ \/ InsertGroup(req[c].key, req[c].id, req[c].policy, req[c].flag)
       \/ /\ IsGroup(req[c].key) \/ ~DomainId(req[c].id) \/ lastGroup = MaxGroupId
          /\ UNCHANGED dbvars
    /\ Return(c)
    /\ UNCHANGED Spool

\* Only turning allow_external off needs the look at the members.
GroupUpdate(c) ==
    /\ Free(c, "GroupUpdate")
    /\ \E g \in mail_groups, p \in Policies, ext \in BOOLEAN :
          GroupGet(c, g, [Idle EXCEPT !.op = "GroupUpdate", !.policy = p, !.flag = ext,
             !.at = IF ~ext /\ g.allow_external THEN "members" ELSE "update"])

\* GroupMembers looks the group up again by its address.  Its two statements are one step:
\* if the group goes between them there is no row left for the UPDATE either.
GroupUpdateMembers(c) ==
    /\ At(c, "GroupUpdate", "members")
    /\ IF \E g \in mail_groups :
             /\ g.email = req[c].key
             /\ \A m \in mail_group_members :
                   m.group_id = g.id => MemberKind(m.member) # "external"
       THEN Goto(c, "update") ELSE Return(c)
    /\ UNCHANGED << dbvars, Spool >>

GroupUpdateApply(c) ==
    /\ At(c, "GroupUpdate", "update")
    /\ UpdateGroup(req[c].id, req[c].policy, req[c].flag)
    /\ Return(c)
    /\ UNCHANGED Spool

GroupDelete(c) ==
    /\ Free(c, "GroupDelete")
    /\ \E e \in Addr :
          /\ IsGroup(e)
          /\ DeleteGroup(e)
          /\ req' = [req EXCEPT ![c] = [Idle EXCEPT !.op = "GroupDelete",
                                                    !.at = "leaveGroups", !.key = e]]
    /\ UNCHANGED Spool

GroupDeleteLeaveGroups(c) ==
    /\ At(c, "GroupDelete", "leaveGroups")
    /\ DeleteMemberships(req[c].key)
    /\ Return(c)
    /\ UNCHANGED Spool

Batch == UNION {[1 .. n -> Addr] : n \in 1 .. MaxBatch}

GroupAddMembers(c) ==
    /\ Free(c, "GroupAddMembers")
    /\ \E g \in mail_groups, b \in Batch, r \in Role :
          GroupGet(c, g, [Idle EXCEPT !.op = "GroupAddMembers", !.at = "hosted", !.todo = b,
                                      !.role = r])

hostedDomains(c) ==
    /\ At(c, "GroupAddMembers", "hosted")
    /\ req' = [req EXCEPT ![c].hosted = {r.name : r \in virtual_domains}, ![c].at = "check"]
    /\ UNCHANGED << dbvars, Spool >>

\* Mutant: addresses outside the hosted domains are always let in.
AdmissibleExternal(q, a) ==
    /\ a # q.key
    /\ DomainOf[a] \in q.hosted => AddressKind(a) # ""

\* Whether the switch of GroupAddMembers leaves res.Error empty for address a.
Admissible(q, a) ==
    /\ a # q.key
    /\ IF DomainOf[a] \in q.hosted THEN AddressKind(a) # "" ELSE q.ext

\* On to the next address of the batch, or the end of the call.
NextAddress(c) ==
    LET q == req[c]
    IN  req' = [req EXCEPT ![c] = IF Len(q.todo) > 1
                                  THEN [q EXCEPT !.todo = Tail(q.todo), !.at = "check"]
                                  ELSE Idle]

GroupAddMembersCheck(c) ==
    /\ At(c, "GroupAddMembers", "check")
    /\ IF Admissible(req[c], Head(req[c].todo)) THEN Goto(c, "insert") ELSE NextAddress(c)
    /\ UNCHANGED << dbvars, Spool >>

GroupAddMembersInsert(c) ==
    /\ At(c, "GroupAddMembers", "insert")
    /\ \/ UpsertMember(req[c].id, Head(req[c].todo), req[c].role) /\ NextAddress(c)
       \/ ~GroupId(req[c].id) /\ Return(c) /\ UNCHANGED dbvars
    /\ UNCHANGED Spool

GroupRemoveMember(c) ==
    /\ Free(c, "GroupRemoveMember")
    /\ \E g \in mail_groups, a \in Addr :
          GroupGet(c, g, [Idle EXCEPT !.op = "GroupRemoveMember", !.at = "apply", !.arg = a])

GroupRemoveMemberApply(c) ==
    /\ At(c, "GroupRemoveMember", "apply")
    /\ DeleteMember(req[c].id, req[c].arg)
    /\ Return(c)
    /\ UNCHANGED Spool

GroupSetMemberRole(c) ==
    /\ Free(c, "GroupSetMemberRole")
    /\ \E g \in mail_groups, a \in Addr, r \in Role :
          GroupGet(c, g, [Idle EXCEPT !.op = "GroupSetMemberRole", !.at = "apply", !.arg = a,
                                      !.role = r])

GroupSetMemberRoleApply(c) ==
    /\ At(c, "GroupSetMemberRole", "apply")
    /\ UpdateRole(req[c].id, req[c].arg, req[c].role)
    /\ Return(c)
    /\ UNCHANGED Spool

-----------------------------------------------------------------------------
(* API keys of a domain.                                                    *)

GenerateKey(c) ==
    /\ Free(c, "GenerateKey")
    /\ \E d \in Domain :
          domainID(c, [Idle EXCEPT !.op = "GenerateKey", !.at = "apply", !.key = d])

\* The key is 32 random bytes: one that was never generated before.
GenerateKeyUpsert(c) ==
    /\ At(c, "GenerateKey", "apply")
    /\ \/ \E k \in ApiKey :
             /\ issued[k] = None
             /\ UpsertKey(req[c].id, k)
             /\ issued' = [issued EXCEPT ![k] = req[c].key]
       \/ ~DomainId(req[c].id) /\ UNCHANGED << dbvars, issued >>
    /\ Return(c)
    /\ UNCHANGED maildirs

RevokeKey(c) ==
    /\ Free(c, "RevokeKey")
    /\ \E d \in Domain : DeleteKey(d)
    /\ UNCHANGED << req, Spool >>

\* The domain Verify returns for key k.
Verifies(k, d) ==
    \E r \in domain_api_keys, v \in virtual_domains :
        r.key_hash = k /\ v.id = r.domain_id /\ v.name = d

-----------------------------------------------------------------------------
\* A statement fails, the HTTP client goes away (which cancels r.Context()), or the process
\* is killed: what the call has done so far stays.
Abandon(c) ==
    /\ Faults
    /\ req[c].op # "idle"
    /\ Return(c)
    /\ UNCHANGED << dbvars, Spool >>

\* The first statement of a call.
Begin(c) ==
    \/ DomainAdd(c) \/ DomainRemove(c)
    \/ MailboxAdd(c) \/ MailboxCreate(c) \/ MailboxRemove(c)
    \/ \E e \in Addr, p \in Password : MailboxPasswd(c, e, p)
    \/ \E e \in Addr, b \in BOOLEAN : MailboxSetEnabled(c, e, b)
    \/ ForwardSet(c) \/ \E e \in Addr : ForwardClear(c, e)
    \/ AliasAdd(c) \/ \E s \in Source, d \in Addr : AliasRemove(c, s, d)
    \/ CatchAllSet(c)
    \/ GroupCreate(c) \/ GroupUpdate(c) \/ GroupDelete(c)
    \/ GroupAddMembers(c) \/ GroupRemoveMember(c) \/ GroupSetMemberRole(c)
    \/ GenerateKey(c) \/ RevokeKey(c)

\* The statements after it.
Continue(c) ==
    \/ notAGroup(c) \/ CheckAddressKind(c)
    \/ MailboxAddUpsert(c) \/ MailboxCreateInsert(c) \/ createMaildir(c)
    \/ MailboxRemoveLeaveGroups(c) \/ MailboxRemoveSpool(c)
    \/ ForwardSetUpsert(c) \/ AliasAddInsert(c) \/ CatchAllReplace(c)
    \/ GroupCreateInsert(c) \/ GroupUpdateMembers(c) \/ GroupUpdateApply(c)
    \/ GroupDeleteLeaveGroups(c)
    \/ hostedDomains(c) \/ GroupAddMembersCheck(c) \/ GroupAddMembersInsert(c)
    \/ GroupRemoveMemberApply(c) \/ GroupSetMemberRoleApply(c)
    \/ GenerateKeyUpsert(c)

Step(c) == Begin(c) \/ Continue(c) \/ Abandon(c)

Next == \E c \in Client : Step(c)

Spec == Init /\ [][Next]_vars
-----------------------------------------------------------------------------
(* Properties that hold whatever the callers do.                            *)

\* Primary and unique keys of the schema, and ids that AUTO_INCREMENT has handed out.
KeysUnique ==
    /\ \A r, s \in virtual_domains : r.id = s.id \/ r.name = s.name => r = s
    /\ \A r \in virtual_domains : r.id <= lastDomain
    /\ \A u, v \in virtual_users : u.email = v.email => u = v
    /\ \A g, h \in mail_groups : g.id = h.id \/ g.email = h.email => g = h
    /\ \A g \in mail_groups : g.id <= lastGroup
    /\ \A m, n \in mail_group_members :
          m.group_id = n.group_id /\ m.member = n.member => m = n
    /\ \A j, k \in domain_api_keys : j.domain_id = k.domain_id \/ j.key_hash = k.key_hash => j = k

\* Every row hangs under the registered domain that its own address names (DomainRemove
\* cascades, and a domain_id read before the domain was removed and added again is refused),
\* every member row under a group and every forward under a mailbox.
HomedRows ==
    /\ \A u \in virtual_users : \E r \in virtual_domains :
          r.id = u.domain_id /\ r.name = DomainOf[u.email]
    /\ \A a \in virtual_aliases : \E r \in virtual_domains :
          r.id = a.domain_id /\ r.name = HomeDomain(a.source)
    /\ \A g \in mail_groups : \E r \in virtual_domains :
          r.id = g.domain_id /\ r.name = DomainOf[g.email]
    /\ \A m \in mail_group_members : GroupId(m.group_id)
    /\ \A f \in mailbox_forwards : IsUser(f.email)
    /\ \A k \in domain_api_keys : \E r \in virtual_domains :
          r.id = k.domain_id /\ r.name = issued[k.key_hash]

\* A domain has at most one catch-all address, although no key of virtual_aliases says so:
\* CatchAllSet replaces the old row in the transaction that inserts the new one.
OneCatchAll ==
    \A a, b \in virtual_aliases : a.source \in Domain /\ a.source = b.source => a = b

\* A key that Verify accepts was generated for the very domain it opens, and it is the only
\* one for that domain: Generate revokes the key before it, also when the domain is removed
\* and added again under a call to Generate.
KeyAuthority ==
    \A k \in ApiKey, d \in Domain : Verifies(k, d) =>
        /\ issued[k] = d
        /\ \A j \in ApiKey : Verifies(j, d) => j = k

\* A running call has the inputs its statements use.
InputsOK(q) ==
    /\ q.op \in {"MailboxAdd", "MailboxCreate"} => q.key \in Addr /\ q.pw \in Password
    /\ q.op \in {"AliasAdd", "ForwardSet"} => q.key \in Addr /\ q.arg \in Addr
    /\ q.op = "GroupCreate" => q.key \in Addr
    /\ q.op \in {"CatchAllSet", "GenerateKey"} => q.key \in Domain
    /\ q.op = "GroupAddMembers" => q.todo # << >>
    /\ q.at = "createMaildir" => q.op \in {"MailboxAdd", "MailboxCreate"}

\* The domID a call has read still belongs to the domain of its address, or to no row.
ByDomain == {"MailboxAdd", "MailboxCreate", "AliasAdd", "GroupCreate", "CatchAllSet",
             "GenerateKey"}

ReadIdOK(q) ==
    q.op \in ByDomain =>
        /\ q.id <= lastDomain
        /\ \A r \in virtual_domains : r.id = q.id => r.name = HomeDomain(q.key)

CallsOK == \A c \in Client : InputsOK(req[c]) /\ ReadIdOK(req[c])

\* The inductive invariant behind HomedRows, OneCatchAll and KeyAuthority: an id that any row
\* or any running call holds names the domain it was read for, for as long as it names one.
IndInv == TypeOK /\ KeysUnique /\ HomedRows /\ OneCatchAll /\ CallsOK

\* MailboxCreate never touches an existing mailbox, whatever races with it (the promise of
\* its comment: a repeated create must not silently reset someone's password).
CreateOnlyAdds ==
    [][\A c \in Client : req[c].op = "MailboxCreate" /\ req'[c] # req[c]
          => virtual_users \subseteq virtual_users']_vars

KeysOf(d)     == {k \in ApiKey : Verifies(k, d)}
GeneratedKeys == {k \in ApiKey : issued[k] # None}

Ledger == INSTANCE KeyLedger WITH
    Key <- ApiKey, opens <- [d \in Domain |-> KeysOf(d)], handedOut <- GeneratedKeys

\* The keys that Verify accepts for each domain, and those that Generate has made, are the
\* ledger of module KeyLedger: whatever domains come and go under a running call, the key that
\* Generate returns opens its domain at once, every other key of that domain is revoked for
\* good, and no other domain's key is touched.
LedgerKept == Ledger!LedgerSpec

-----------------------------------------------------------------------------
(* Properties of callers that do not overlap.                               *)

\* While a call runs, every step is a step of it.  One client never overlaps.
NoOverlap ==
    [][\A c \in Client : req[c].op # "idle" => Continue(c) \/ Abandon(c)]_vars

\* "Mailbox, group and alias addresses share one namespace" (AddressKind): the address of a
\* group is neither a mailbox nor an alias.
NamespaceDisjoint ==
    \A g \in mail_groups : ~IsUser(g.email) /\ ~IsAlias(g.email)

\* Address a is outside the hosted domains and in the group at e, which allows no such members.
Outsider(e, a) ==
    \E g \in mail_groups, m \in mail_group_members :
        /\ g.email = e /\ m.group_id = g.id /\ m.member = a
        /\ ~g.allow_external /\ MemberKind(a) = "external"

\* No call lets an external address into a group that does not allow them (GroupAddMembers),
\* or leaves one in a group it closes to them (GroupUpdate).  Only DomainRemove turns members
\* into external ones: it takes away the mailboxes, not the memberships elsewhere.
ExternalOnlyIfAllowed ==
    [][\A e, a \in Addr : Outsider(e, a)' =>
          Outsider(e, a) \/ (Hosted(DomainOf[a]) /\ ~Hosted(DomainOf[a])')]_vars

\* A call is about to take address a out of every group.
Leaving(c, a) ==
    req[c].op \in {"MailboxRemove", "GroupDelete"} /\ req[c].at = "leaveGroups" /\ req[c].key = a

\* Some group lists the hosted address a, which does not exist.
Stale(a) ==
    /\ \E m \in mail_group_members : m.member = a
    /\ MemberKind(a) = "missing"
    /\ \A c \in Client : ~Leaving(c, a)

\* No call makes an address missing and leaves it in a group: MailboxRemove and GroupDelete
\* take it out of every group, and GroupAddMembers adds none that is missing.  Two calls do,
\* which touch no membership: removing the last alias at the address, and registering
\* the domain of an address that was a member while it was external.
NoStaleMembership ==
    [][\A a \in Addr : Stale(a)' =>
          \/ Stale(a)
          \/ IsAlias(a) /\ ~IsAlias(a)'
          \/ ~Hosted(DomainOf[a]) /\ Hosted(DomainOf[a])']_vars

\* Between calls every mailbox has its spool directory.
LiveMailboxHasSpool ==
    (\A c \in Client : req[c].op = "idle") => \A u \in virtual_users : u.email \in maildirs
=============================================================================
