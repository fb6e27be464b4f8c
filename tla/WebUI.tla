-------------------------------- MODULE WebUI --------------------------------
(***************************************************************************)
(* cli/internal/webui: the dashboard's handlers for domains, users, groups, *)
(* aliases and tokens, behind requireAuth.  Each records what it did, when  *)
(* its call has returned no error.                                          *)
(***************************************************************************)
EXTENDS Requests

web_handleDomainAdd(c)          == AddDomain(c, "web", "record")
web_handleDomainDelete(c)       == Do(c, "web", DomainRemove(c), "record")
web_handleDomainCatchAll(c)     == Call(c, "web", CatchAllSet(c), "record")
web_handleDomainAPIKeyGenerate(c) == Call(c, "web", GenerateKey(c), "record")
web_handleDomainAPIKeyRevoke(c) == Do(c, "web", RevokeKey(c) /\ Changes, "record")

-----------------------------------------------------------------------------
(* Users.                                                                   *)

web_handleUserCreate(c)  == Call(c, "web", MailboxCreate(c), "record")
web_handleUserProfile(c) == \E e \in Addr : Do(c, "web", updateMailbox(e), "record")
web_handleUserPassword(c) ==
    \E e \in Addr, p \in Password : Do(c, "web", MailboxPasswd(c, e, p), "record")
web_handleUserQuota(c)   == \E e \in Addr : Do(c, "web", updateMailbox(e), "record")
web_handleUserStatus(c)  ==
    \E e \in Addr, b \in BOOLEAN :
        Do(c, "web", IsUser(e) /\ MailboxSetEnabled(c, e, b), "record")
web_handleUserForward(c) == Call(c, "web", ForwardSet(c), "record")
web_handleUserForwardClear(c) == \E e \in Addr : Do(c, "web", ForwardClear(c, e), "record")

\* AddressKind, and then AliasAdd.
web_handleUserAliasAdd(c) ==
    \/ /\ AtHandler(c, "web")
       /\ \E s, d \in Addr :
             /\ AddressKind(s) \notin {"user", "group"}
             /\ Look(c, "alias", [Opened(c, "web") EXCEPT !.args = << s, d >>])
    \/ /\ door[c].at = "alias"
       /\ AliasAdd(c) /\ req'[c].key = door[c].args[1] /\ req'[c].arg = door[c].args[2]
       /\ Calling(c, [door[c] EXCEPT !.args = << >>], "record")

web_handleUserAliasRemove(c) ==
    \E s \in Source, d \in Addr : Do(c, "web", AliasRemove(c, s, d), "record")

\* One address, recorded only when it was added.
web_handleUserGroupAdd(c) ==
    Call(c, "web", GroupAddMembers(c) /\ Len(req'[c].todo) = 1, "ifAdded")
web_handleUserGroupRemove(c) == Call(c, "web", GroupRemoveMember(c), "record")

\* MailboxGet, and then MailboxRemove.
web_handleUserDelete(c) ==
    \/ /\ AtHandler(c, "web")
       /\ \E e \in Addr :
             IsUser(e) /\ Look(c, "delete", [Opened(c, "web") EXCEPT !.args = << e >>])
    \/ /\ door[c].at = "delete" /\ door[c].kind = "web"
       /\ MailboxRemove(c) /\ req'[c].key = Head(door[c].args)
       /\ Calling(c, [door[c] EXCEPT !.args = << >>], "record")

\* Mutant: an import that created nothing but the last row is not recorded.
web_handleUsersImportStops(c) ==
    \/ /\ AtHandler(c, "web")
       /\ \E b \in Batch : Look(c, "import", [Opened(c, "web") EXCEPT !.args = b])
    \/ /\ door[c].at = "import" /\ door[c].args # << >>
       /\ LET rest == [door[c] EXCEPT !.args = Tail(@)]
          IN  \/ /\ MailboxCreate(c) /\ req'[c].key = Head(door[c].args)
                 /\ To(c, [rest EXCEPT !.at = "calling", !.then = "import"])
              \/ To(c, Closed) /\ UNCHANGED vars
    \/ door[c].at = "import" /\ door[c].args = << >> /\ Look(c, "record", door[c])

\* One MailboxCreate per row, whatever became of the rows before it (one may be refused
\* before any statement); then the record.
web_handleUsersImport(c) ==
    \/ /\ AtHandler(c, "web")
       /\ \E b \in Batch : Look(c, "import", [Opened(c, "web") EXCEPT !.args = b])
    \/ /\ door[c].at = "import" /\ door[c].args # << >>
       /\ LET rest == [door[c] EXCEPT !.args = Tail(@)]
          IN  \/ /\ MailboxCreate(c) /\ req'[c].key = Head(door[c].args)
                 /\ To(c, [rest EXCEPT !.at = "calling", !.then = "import"])
              \/ Look(c, "import", rest)
    \/ door[c].at = "import" /\ door[c].args = << >> /\ Look(c, "record", door[c])

-----------------------------------------------------------------------------
(* Groups, aliases and tokens.                                              *)

web_handleGroupCreate(c)       == Call(c, "web", GroupCreate(c), "record")
web_handleGroupUpdate(c)       == Call(c, "web", GroupUpdate(c), "record")
web_handleGroupDelete(c)       == Call(c, "web", GroupDelete(c), "record")
web_handleGroupMembersAdd(c)   == Call(c, "web", GroupAddMembers(c), "ifAdded")
web_handleGroupMemberRole(c)   == Call(c, "web", GroupSetMemberRole(c), "record")
web_handleGroupMemberRemove(c) == Call(c, "web", GroupRemoveMember(c), "record")

web_handleAliasAdd(c)    == Call(c, "web", AliasAdd(c), "record")
web_handleAliasDelete(c) ==
    \E s \in Source, d \in Addr : Do(c, "web", AliasRemove(c, s, d), "record")

web_handleTokenAdd(c) ==
    AtHandler(c, "web") /\ CreateToken /\ Recording(c, "web") /\ UNCHANGED vars
web_handleTokenDelete(c) ==
    AtHandler(c, "web") /\ RevokeToken /\ Recording(c, "web") /\ UNCHANGED vars

Web(c) ==
    \/ web_handleDomainAdd(c) \/ web_handleDomainDelete(c) \/ web_handleDomainCatchAll(c)
    \/ web_handleDomainAPIKeyGenerate(c) \/ web_handleDomainAPIKeyRevoke(c)
    \/ web_handleUserCreate(c) \/ web_handleUserProfile(c) \/ web_handleUserPassword(c)
    \/ web_handleUserQuota(c) \/ web_handleUserStatus(c)
    \/ web_handleUserForward(c) \/ web_handleUserForwardClear(c)
    \/ web_handleUserAliasAdd(c) \/ web_handleUserAliasRemove(c)
    \/ web_handleUserGroupAdd(c) \/ web_handleUserGroupRemove(c)
    \/ web_handleUserDelete(c) \/ web_handleUsersImport(c)
    \/ web_handleGroupCreate(c) \/ web_handleGroupUpdate(c) \/ web_handleGroupDelete(c)
    \/ web_handleGroupMembersAdd(c) \/ web_handleGroupMemberRole(c)
    \/ web_handleGroupMemberRemove(c)
    \/ web_handleAliasAdd(c) \/ web_handleAliasDelete(c)
    \/ web_handleTokenAdd(c) \/ web_handleTokenDelete(c)
=============================================================================
