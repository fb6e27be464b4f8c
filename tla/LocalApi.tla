------------------------------ MODULE LocalApi ------------------------------
(***************************************************************************)
(* cli/internal/api: the server-wide API on a Unix socket, opened by a      *)
(* token with the scope of the endpoint.  It writes no audit entries.       *)
(***************************************************************************)
EXTENDS Requests

\* authtoken.Verify.  The scope is part of the handlers' guards.
requireScope(c) ==
    /\ door[c] = Closed /\ UNCHANGED vars
    /\ \E t \in api_tokens :
          To(c, [Closed EXCEPT !.kind = "local", !.at = "handler", !.scopes = t.scopes])

\* Mutant: a token without scopes for an endpoint still gets through.
HasScopeAny(c, s) == door[c].scopes # {}

HasScope(c, s) == door[c].scopes \cap {"*", s} # {}

Scoped(c, s, A)   == HasScope(c, s) /\ Call(c, "local", A, "reply")
ScopedDo(c, s, A) == HasScope(c, s) /\ Do(c, "local", A, "reply")

api_handleDomainAdd(c)    == HasScope(c, "domain") /\ AddDomain(c, "local", "reply")
api_handleDomainRemove(c) == ScopedDo(c, "domain", DomainRemove(c))

api_handleMailboxAdd(c)    == Scoped(c, "mailbox", MailboxAdd(c))
api_handleMailboxRemove(c) == Scoped(c, "mailbox", MailboxRemove(c))
api_handleMailboxPasswd(c) ==
    \E e \in Addr, p \in Password : ScopedDo(c, "mailbox", MailboxPasswd(c, e, p))
api_handleMailboxQuota(c)  == \E e \in Addr : ScopedDo(c, "mailbox", updateMailbox(e))

api_handleAliasAdd(c)    == Scoped(c, "alias", AliasAdd(c))
api_handleAliasRemove(c) ==
    \E s \in Source, d \in Addr : ScopedDo(c, "alias", AliasRemove(c, s, d))

api_handleGroupCreate(c)       == Scoped(c, "group", GroupCreate(c))
api_handleGroupDelete(c)       == Scoped(c, "group", GroupDelete(c))
api_handleGroupAddMembers(c)   == Scoped(c, "group", GroupAddMembers(c))
api_handleGroupRemoveMember(c) == Scoped(c, "group", GroupRemoveMember(c))

Local(c) ==
    \/ requireScope(c)
    \/ api_handleDomainAdd(c) \/ api_handleDomainRemove(c)
    \/ api_handleMailboxAdd(c) \/ api_handleMailboxRemove(c)
    \/ api_handleMailboxPasswd(c) \/ api_handleMailboxQuota(c)
    \/ api_handleAliasAdd(c) \/ api_handleAliasRemove(c)
    \/ api_handleGroupCreate(c) \/ api_handleGroupDelete(c)
    \/ api_handleGroupAddMembers(c) \/ api_handleGroupRemoveMember(c)
=============================================================================
