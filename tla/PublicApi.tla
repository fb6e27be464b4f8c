----------------------------- MODULE PublicApi -----------------------------
(***************************************************************************)
(* cli/internal/publicapi: the API that the key of a domain opens for that  *)
(* domain.  Every address of a call is username@domainOf(r).                *)
(***************************************************************************)
EXTENDS Requests

\* Mutant: the domain of the key is not compared with the one in the path.
authAnyDomain(c) ==
    /\ door[c] = Closed /\ UNCHANGED vars
    /\ \E k \in ApiKey, d, e \in Domain :
          /\ Verifies(k, d)
          /\ To(c, [Closed EXCEPT !.kind = "public", !.at = "handler",
                                !.key = {k}, !.dom = e])

\* Verify, and the comparison with the domain of the path.
auth(c) ==
    /\ door[c] = Closed /\ UNCHANGED vars
    /\ \E k \in ApiKey, d \in Domain :
          /\ Verifies(k, d)
          /\ To(c, [Closed EXCEPT !.kind = "public", !.at = "handler",
                                !.key = {k}, !.dom = d])

\* address(): the call that A starts is for an address of the request's own domain.
OwnAddr(c) == {e \in Addr : DomainOf[e] = door[c].dom}

OwnCall(c, A, then) == Call(c, "public", A /\ req'[c].key \in OwnAddr(c), then)

-----------------------------------------------------------------------------
(* Mailboxes and aliases: no audit entry.                                   *)

public_handleMailboxCreate(c) == OwnCall(c, MailboxCreate(c), "reply")

\* MailboxGet, for the delete and for the forward.
Find(c, l) ==
    /\ AtHandler(c, "public")
    /\ \E e \in OwnAddr(c) : IsUser(e) /\ Look(c, l, [door[c] EXCEPT !.args = << e >>])

public_handleMailboxDelete(c) ==
    \/ Find(c, "delete")
    \/ /\ door[c].at = "delete" /\ door[c].kind = "public"
       /\ MailboxRemove(c) /\ req'[c].key = Head(door[c].args)
       /\ Calling(c, [door[c] EXCEPT !.args = << >>], "reply")

public_handleMailboxPassword(c) ==
    \E e \in OwnAddr(c), p \in Password : Do(c, "public", MailboxPasswd(c, e, p), "reply")

public_handleMailboxName(c) ==
    \E e \in OwnAddr(c) : Do(c, "public", updateMailbox(e), "reply")

public_handleMailboxQuota(c) ==
    \E e \in OwnAddr(c) : Do(c, "public", updateMailbox(e), "reply")

public_handleMailboxStatus(c) ==
    \E e \in OwnAddr(c), b \in BOOLEAN :
        Do(c, "public", IsUser(e) /\ MailboxSetEnabled(c, e, b), "reply")

public_handleAliasCreate(c) == OwnCall(c, AliasAdd(c), "reply")

public_handleAliasDelete(c) ==
    \E s \in OwnAddr(c), d \in Addr : Do(c, "public", AliasRemove(c, s, d), "reply")

-----------------------------------------------------------------------------
(* Groups and forwards: recorded.                                           *)

public_handleGroupCreate(c) == OwnCall(c, GroupCreate(c), "record")

\* The first read of the group; Overlay goes on.
public_handleGroupUpdate(c) ==
    /\ AtHandler(c, "public")
    /\ \E g \in mail_groups :
          g.email \in OwnAddr(c) /\ Look(c, "overlay", [door[c] EXCEPT !.seen = {g}])

public_handleGroupDelete(c) == OwnCall(c, GroupDelete(c), "record")

public_handleGroupAddMembers(c) == OwnCall(c, GroupAddMembers(c), "record")

public_handleGroupRemoveMember(c) == OwnCall(c, GroupRemoveMember(c), "record")

public_handleForwardSet(c) == OwnCall(c, ForwardSet(c), "record")

public_handleForwardClear(c) ==
    \/ Find(c, "clear")
    \/ /\ door[c].at = "clear"
       /\ ForwardClear(c, Head(door[c].args))
       /\ Finish(c, [door[c] EXCEPT !.args = << >>], "record")

Public(c) ==
    \/ auth(c)
    \/ public_handleMailboxCreate(c) \/ public_handleMailboxDelete(c)
    \/ public_handleMailboxPassword(c) \/ public_handleMailboxName(c)
    \/ public_handleMailboxQuota(c) \/ public_handleMailboxStatus(c)
    \/ public_handleAliasCreate(c) \/ public_handleAliasDelete(c)
    \/ public_handleGroupCreate(c) \/ public_handleGroupUpdate(c)
    \/ public_handleGroupDelete(c) \/ public_handleGroupAddMembers(c)
    \/ public_handleGroupRemoveMember(c)
    \/ public_handleForwardSet(c) \/ public_handleForwardClear(c)
=============================================================================
