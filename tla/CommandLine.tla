---------------------------- MODULE CommandLine ----------------------------
(***************************************************************************)
(* cli/cmd/patrabahok: the commands of the command line.  A process runs    *)
(* one command; run() adds an audit entry after a command that changes      *)
(* something and returned no error.                                         *)
(***************************************************************************)
EXTENDS Requests

cmdDomain(c) == AddDomain(c, "cli", "record") \/ Do(c, "cli", DomainRemove(c), "record")

cmdDomainCatchAll(c) == Call(c, "cli", CatchAllSet(c), "record")

cmdMailbox(c) ==
    \/ Call(c, "cli", MailboxAdd(c), "record")
    \/ Call(c, "cli", MailboxRemove(c), "record")
    \/ \E e \in Addr, p \in Password : Do(c, "cli", MailboxPasswd(c, e, p), "record")
    \/ \E e \in Addr : Do(c, "cli", updateMailbox(e), "record")
    \/ \E e \in Addr, b \in BOOLEAN :
          Do(c, "cli", IsUser(e) /\ MailboxSetEnabled(c, e, b), "record")

cmdMailboxForward(c) ==
    \/ Call(c, "cli", ForwardSet(c), "record")
    \/ \E e \in Addr : Do(c, "cli", ForwardClear(c, e), "record")

cmdAlias(c) ==
    \/ Call(c, "cli", AliasAdd(c), "record")
    \/ \E s \in Source, d \in Addr : Do(c, "cli", AliasRemove(c, s, d), "record")

\* GroupGet before GroupUpdate.
cmdGroupUpdate(c) ==
    /\ AtHandler(c, "cli")
    /\ \E g \in mail_groups : Look(c, "overlay", [Opened(c, "cli") EXCEPT !.seen = {g}])

\* An address that cannot be added makes "group add" fail, whatever was added before it.
cmdGroup(c) ==
    \/ Call(c, "cli", GroupCreate(c), "record")
    \/ cmdGroupUpdate(c)
    \/ Call(c, "cli", GroupDelete(c), "record")
    \/ Call(c, "cli", GroupAddMembers(c), "ifAllAdded")
    \/ Call(c, "cli", GroupRemoveMember(c), "record")
    \/ Call(c, "cli", GroupSetMemberRole(c), "record")

cmdAPI(c) == TokenChange(c, "cli")

cmdAPIKey(c) ==
    \/ Call(c, "cli", GenerateKey(c), "record")
    \/ Do(c, "cli", RevokeKey(c) /\ Changes, "record")

Cli(c) ==
    \/ cmdDomain(c) \/ cmdDomainCatchAll(c)
    \/ cmdMailbox(c) \/ cmdMailboxForward(c) \/ cmdAlias(c) \/ cmdGroup(c)
    \/ cmdAPI(c) \/ cmdAPIKey(c)
=============================================================================
