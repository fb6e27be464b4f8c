------------------------------- MODULE Front -------------------------------
(***************************************************************************)
(* The four ways in, side by side on one database: what a key of the public *)
(* API and a token of the server-wide API let their holder change, and      *)
(* which changes reach the audit log.                                       *)
(***************************************************************************)
EXTENDS PublicApi, LocalApi, WebUI, CommandLine

FrontStep(c) == Public(c) \/ Local(c) \/ Web(c) \/ Cli(c) \/ Around(c)

FrontNext == \E c \in Client : FrontStep(c)

FrontSpec == FrontInit /\ [][FrontNext]_frontvars

-----------------------------------------------------------------------------
(* The invariant behind what follows: what an open request may still do     *)
(* follows from how it was opened.                                          *)

\* The labels a call goes through.
StageOK(q) ==
    /\ q.op = "idle" => q.at = "idle"
    /\ q.op = "MailboxCreate" => q.at \in {"addressKind", "insert", "createMaildir"}
    /\ q.op = "MailboxRemove" => q.at \in {"leaveGroups", "removeAll"}
    /\ q.op = "GroupDelete" => q.at = "leaveGroups"
    /\ q.op = "GroupAddMembers" => q.at \in {"hosted", "check", "insert"}

\* The places that only one way in leads to.
WayOK(d) ==
    /\ d.at = "handler" => d.kind \in {"public", "local"}
    /\ d.at = "clear" => d.kind = "public"
    /\ d.at = "dkim" => d.kind \in {"local", "web", "cli"}
    /\ d.at \in {"alias", "import"} \/ d.then = "import" => d.kind = "web"
    /\ d.at = "overlay" => d.kind \in {"public", "cli"}
    /\ d.at = "delete" => d.kind \in {"public", "web"}

PublicOps == {"MailboxCreate", "MailboxRemove", "AliasAdd", "GroupCreate", "GroupUpdate",
              "GroupDelete", "GroupAddMembers", "GroupRemoveMember", "ForwardSet"}

ByGroup == {"GroupUpdate", "GroupAddMembers", "GroupRemoveMember"}

\* Call q is about an address of domain dom; the id of a group it has read is that of a group
\* of dom, or of none.
OwnRequest(q, dom) ==
    /\ q.op \in PublicOps
    /\ q.key \in Addr /\ DomainOf[q.key] = dom
    /\ q.op \in ByGroup =>
          q.id <= lastGroup /\ \A g \in mail_groups : g.id = q.id => DomainOf[g.email] = dom

\* A request of the public API has only addresses and groups of the domain of its key.
PublicOK(d, q) ==
    d.kind = "public" =>
        /\ \A k \in d.key : issued[k] = d.dom /\ d.dom # None
        /\ d.at \in {"delete", "clear"} => d.args # << >> /\ DomainOf[Head(d.args)] = d.dom
        /\ \A g \in d.seen : DomainOf[g.email] = d.dom
        /\ d.at = "calling" => OwnRequest(q, d.dom)

\* Scopes that the server-wide API asks for before call q.
ScopesAllow(scopes, q) ==
    \/ q.op \in {"MailboxAdd", "MailboxRemove"} /\ scopes \cap {"*", "mailbox"} # {}
    \/ q.op = "AliasAdd" /\ scopes \cap {"*", "alias"} # {}
    \/ /\ q.op \in {"GroupCreate", "GroupDelete", "GroupAddMembers", "GroupRemoveMember"}
       /\ scopes \cap {"*", "group"} # {}

\* A request of the server-wide API is in a call that its scopes are for.
LocalOK(d, q) == d.kind = "local" /\ d.at = "calling" => ScopesAllow(d.scopes, q)

\* A request of the web UI that has changed a row is in a call whose remaining statements will
\* find nothing amiss, or has added a member or a domain, or is an import.
WebOK(d, q) ==
    d.kind = "web" =>
        /\ d.at \in {"delete", "alias"} => ~d.changed
        /\ d.at = "dkim" => d.then = "record"
        /\ d.at = "calling" =>
              /\ d.then \in {"record", "ifAdded", "import"}
              /\ d.then = "ifAdded" => q.op = "GroupAddMembers"
              /\ q.op # "MailboxAdd"
              /\ d.changed /\ d.then # "import" =>
                    \/ q.op = "MailboxCreate" /\ q.at = "createMaildir"
                    \/ q.op \in {"MailboxRemove", "GroupDelete"}
                    \/ q.op = "GroupAddMembers" /\ d.added

DoorOK(d, q) == StageOK(q) /\ WayOK(d) /\ PublicOK(d, q) /\ LocalOK(d, q) /\ WebOK(d, q)

FrontInv == FrontTypeOK /\ IndInv /\ \A c \in Client : DoorOK(door[c], req[c])

-----------------------------------------------------------------------------

\* The step is one of client c's.
Moves(c) == << door[c], req[c] >>' # << door[c], req[c] >>

Differ(S, T) == (S \ T) \cup (T \ S)

\* What a request of the public API for domain d may do to the tables.
OnlyDomain(d) ==
    /\ UNCHANGED << virtual_domains, domain_api_keys, issued, api_tokens >>
    /\ \A u \in Differ(virtual_users, virtual_users') : DomainOf[u.email] = d
    /\ \A a \in Differ(virtual_aliases, virtual_aliases') :
          a.source \in Addr /\ DomainOf[a.source] = d
    /\ \A g \in Differ(mail_groups, mail_groups') : DomainOf[g.email] = d
    /\ \A m \in Differ(mail_group_members, mail_group_members') :
          \/ \E g \in mail_groups : g.id = m.group_id /\ DomainOf[g.email] = d
          \/ m \in mail_group_members /\ DomainOf[m.member] = d
    /\ \A f \in Differ(mailbox_forwards, mailbox_forwards') : DomainOf[f.email] = d
    /\ \A e \in Differ(maildirs, maildirs') : DomainOf[e] = d

\* A domain's key "can only ever touch that one domain" (publicapi): every statement of a
\* request it opened changes rows only of the domain the key was generated for, also when the
\* key has been replaced or the domain removed and added again since the key was checked.  The
\* one thing it does elsewhere is to take an address of its own domain out of the groups of
\* others.
OwnDomainOnly ==
    [][\A c \in Client : door[c].kind = "public" /\ Moves(c) =>
          \A k \in door[c].key : OnlyDomain(issued[k])]_frontvars

\* The scopes let the request change what hangs under scope s.
Admitted(c, s) == door[c].scopes \cap {"*", "domain", s} # {}

\* The step changes only tables that the scopes of the request's token are for.
WithinScopes(c) ==
    /\ Admitted(c, "domain") \/ UNCHANGED << virtual_domains, domain_api_keys >>
    /\ Admitted(c, "mailbox") \/ UNCHANGED << virtual_users, mailbox_forwards, maildirs >>
    /\ Admitted(c, "alias") \/ UNCHANGED virtual_aliases
    /\ Admitted(c, "group") \/ UNCHANGED mail_groups
    /\ Admitted(c, "group") \/ Admitted(c, "mailbox") \/ UNCHANGED mail_group_members
    /\ UNCHANGED api_tokens

\* Every statement of a request of the server-wide API changes only tables that the scopes of
\* its token, as they were when it was checked, are for: a token without the scope "domain"
\* never removes a mailbox it has no scope for through a cascade.
ScopesHonoured ==
    [][\A c \in Client : door[c].kind = "local" /\ Moves(c) => WithinScopes(c)]_frontvars

\* The request ends with this step, has changed a row, and wrote no audit entry.
EndsUnrecorded(c) ==
    /\ door[c] # Closed /\ door'[c] = Closed
    /\ door[c].changed \/ Changes
    /\ door[c].at \notin {"record", "gone"}

\* A dashboard request that changed a row and whose call returned no error comes to its audit
\* entry: also when only one of many imported users or added members went in.  What stays
\* unrecorded, whatever the dashboard says of "every change", are the changes of a call that then
\* failed (the DKIM key of a domain, the spool of a mailbox, a later statement, a group deleted
\* under its batch) and those of a client that went away in the middle of the call.
DashboardChangesRecorded ==
    [][\A c \in Client : door[c].kind = "web" /\ EndsUnrecorded(c) =>
          \/ CallFails(c) \/ ProvisionFails(c)
          \/ req[c].op = "GroupAddMembers" /\ ~GroupId(req[c].id)]_frontvars

\* "Omitted fields keep their current value, except allow_external" (handleGroupUpdate): the
\* UPDATE that ends a request of the public API leaves a posting policy it did not send as it
\* is.
OmittedFieldsKept ==
    [][\A c \in Client, g \in mail_groups, h \in mail_groups' :
          /\ door[c].kind = "public" /\ At(c, "GroupUpdate", "update")
          /\ req'[c].op = "idle" /\ door'[c].at = "record"
          /\ g.id = req[c].id /\ h.id = g.id
          /\ "post_policy" \in door[c].omits
          => h.post_policy = g.post_policy]_frontvars
=============================================================================
