------------------------------ MODULE Requests ------------------------------
(***************************************************************************)
(* What the four ways into the mail server have in common: the public API   *)
(* (module PublicApi), the server-wide API (LocalApi), the web UI (WebUI)   *)
(* and the command line (CommandLine).  A request is authorised, its        *)
(* handler makes one call of mailbox.Store or domainkey.Store, statement by *)
(* statement as in module Directory, and when the call succeeds some        *)
(* handlers add an entry to the audit log before they answer.               *)
(*                                                                          *)
(* A display name and a quota are not part of a modelled row; the sessions  *)
(* behind the web UI are those of module AdminAuth.                         *)
(***************************************************************************)
EXTENDS Directory

CONSTANTS
    Token,      \* hashes of the tokens of the server-wide API
    TokenName,  \* the names they are created under
    ScopeLists  \* the scope lists they are created with

Scope == {"*", "domain", "mailbox", "alias", "group"}

ASSUME ScopeAssumption == ScopeLists \subseteq SUBSET Scope

VARIABLES
    door,       \* the request each client has open
    api_tokens  \* the table of the tokens

frontvars == << vars, door, api_tokens >>

TokenRow == [token_hash : Token, name : TokenName, scopes : SUBSET Scope]

\* kind: the way in; at: what comes next; then: when the handler writes an audit entry;
\* key, dom: the presented key (a singleton) and domainOf(r); scopes: the verified token's;
\* args: addresses the handler still needs;
\* seen, omits: the group row an update has read and the settings it does not send;
\* added, failed: what GroupAddMembers reports so far; changed: the request changed a row.
Closed == [kind |-> "none", at |-> "closed", then |-> "reply", key |-> {}, dom |-> None,
           scopes |-> {}, args |-> << >>, seen |-> {}, omits |-> {}, added |-> FALSE,
           failed |-> FALSE, changed |-> FALSE]

Setting == {"post_policy", "allow_external"}

Door ==
    [kind : {"none", "public", "local", "web", "cli"},
     at : {"closed", "handler", "delete", "clear", "alias", "overlay", "import", "calling",
           "dkim", "record", "gone"},
     then : {"reply", "record", "ifAdded", "ifAllAdded", "import"},
     key : SUBSET ApiKey, dom : Domain \cup {None}, scopes : SUBSET Scope,
     args : Seq(Addr), seen : SUBSET GroupRow, omits : SUBSET Setting,
     added : BOOLEAN, failed : BOOLEAN, changed : BOOLEAN]

FrontTypeOK ==
    /\ TypeOK
    /\ door \in [Client -> Door]
    /\ api_tokens \subseteq TokenRow

FrontInit == Init /\ door = [c \in Client |-> Closed] /\ api_tokens = {}

-----------------------------------------------------------------------------
(* The steps of a request around its Store call.                            *)

\* The handler of a request of kind k is about to run: the command line and the web UI (whose
\* session is checked before) read nothing of this database on the way there.
AtHandler(c, k) ==
    IF k \in {"web", "cli"} THEN door[c] = Closed
    ELSE door[c].kind = k /\ door[c].at = "handler"

Opened(c, k) == IF k \in {"web", "cli"} THEN [Closed EXCEPT !.kind = k] ELSE door[c]

Changes == << virtual_domains, virtual_users, virtual_aliases, mail_groups,
              mail_group_members, mailbox_forwards, domain_api_keys >>' #
           << virtual_domains, virtual_users, virtual_aliases, mail_groups,
              mail_group_members, mailbox_forwards, domain_api_keys >>

\* The request goes on with record d.
To(c, d) == door' = [door EXCEPT ![c] = d] /\ UNCHANGED api_tokens

\* A has been the first statement of a call that has more of them.
Calling(c, d, then) ==
    To(c, [d EXCEPT !.at = "calling", !.then = then, !.changed = Changes])

Call(c, k, A, then) == AtHandler(c, k) /\ A /\ Calling(c, Opened(c, k), then)

\* A has been a call of one statement, and has succeeded.
Finish(c, d, then) ==
    To(c, IF then = "record" THEN [d EXCEPT !.at = "record", !.changed = Changes] ELSE Closed)

Do(c, k, A, then) == AtHandler(c, k) /\ A /\ Finish(c, Opened(c, k), then)

\* DomainAdd's INSERT, with the rest of DomainAdd still to come.
AddDomain(c, k, then) ==
    /\ AtHandler(c, k) /\ DomainAdd(c)
    /\ To(c, [Opened(c, k) EXCEPT !.at = "dkim", !.then = then, !.changed = Changes])

\* A handler that reads something before its call: it goes on at l with d.
Look(c, l, d) == To(c, [d EXCEPT !.at = l]) /\ UNCHANGED vars

\* Whether the statement that ends the call makes it return an error.
Fails(c) ==
    LET q == req[c]
    IN  \/ q.at \in {"notAGroup", "addressKind", "members"}
        \/ q.op \in {"MailboxAdd", "MailboxCreate"} /\ q.at = "insert"
        \/ q.op = "GroupCreate" /\ UNCHANGED mail_groups
        \/ q.op = "GroupAddMembers" /\ q.at = "insert" /\ ~GroupId(q.id)
        \/ /\ q.op \in {"GroupRemoveMember", "GroupSetMemberRole"}
           /\ ~\E m \in mail_group_members : m.group_id = q.id /\ m.member = q.arg
        \/ q.op = "ForwardSet" /\ ~IsUser(q.key)
        \/ ((q.op = "GenerateKey") \/ (q.op = "CatchAllSet" /\ q.arg # None)) /\ ~DomainId(q.id)

\* Where the handler goes when its call returns.
Returned(c, d) ==
    IF d.then = "import" THEN [d EXCEPT !.at = "import"]
    ELSE IF /\ ~Fails(c)
            /\ \/ d.then = "record"
               \/ d.then = "ifAdded" /\ d.added
               \/ d.then = "ifAllAdded" /\ ~d.failed
         THEN [d EXCEPT !.at = "record"]
         ELSE Closed

\* The next statement of the call a request is in.
Proceed(c) ==
    LET adding == req[c].op = "GroupAddMembers"
        added  == adding /\ req[c].at = "insert" /\ GroupId(req[c].id)
        failed == adding /\ req[c].at = "check" /\ req'[c].at # "insert"
        d      == [door[c] EXCEPT !.changed = @ \/ Changes, !.added = @ \/ added,
                                  !.failed = @ \/ failed]
    IN  /\ door[c].at = "calling"
        /\ Continue(c)
        /\ To(c, IF req'[c].op = "idle" THEN Returned(c, d) ELSE d)

\* The second read of GroupUpdate, with the settings that om does not name sent anew.
Overlay(c) ==
    /\ door[c].at = "overlay"
    /\ \E g \in door[c].seen, om \in SUBSET Setting :
          /\ GroupUpdate(c)
          /\ req'[c].key = g.email
          /\ "post_policy" \in om => req'[c].policy = g.post_policy
          /\ "allow_external" \in om => req'[c].flag = g.allow_external
          /\ Calling(c, [door[c] EXCEPT !.seen = {}, !.omits = om], "record")

\* The audit entry, written WithoutCancel (a failure is only logged), and the answer.
Record(c) ==
    /\ door[c].at = "record"
    /\ To(c, Closed)
    /\ UNCHANGED vars

\* A handler refuses its input, the first statement of its call finds no row, or the call has
\* been cut short.
Refuse(c) ==
    /\ door[c].at \in {"handler", "delete", "clear", "alias", "overlay", "gone"}
    /\ To(c, Closed)
    /\ UNCHANGED vars

\* The rest of DomainAdd, which no client going away cuts short: the files of module Dkim.
ensureDKIMAndDNSRecords(c) ==
    /\ door[c].at = "dkim"
    /\ To(c, IF door[c].then = "record" THEN [door[c] EXCEPT !.at = "record"] ELSE Closed)
    /\ UNCHANGED vars

\* It fails: the row stays, the handler answers with the error and writes no entry.
ProvisionFails(c) ==
    /\ Faults
    /\ door[c].at = "dkim"
    /\ To(c, Closed)
    /\ UNCHANGED vars

\* A statement of the call fails, or the spool cannot be changed (createMaildir, RemoveAll):
\* the handler answers with the error and writes no entry; an import goes on with its next row.
CallFails(c) ==
    /\ door[c].at = "calling"
    /\ Abandon(c)
    /\ To(c, IF door[c].then = "import" THEN [door[c] EXCEPT !.at = "import"] ELSE Closed)

\* The process ends in the middle of a call, or the client goes away, which cancels
\* r.Context(): the call fails and no entry is written, except by an import, where every row
\* that is left fails too and what was created is recorded.
HangUp(c) ==
    /\ door[c].at = "calling"
    /\ Abandon(c)
    /\ \/ To(c, [Closed EXCEPT !.kind = door[c].kind, !.at = "gone"])
       \/ door[c].then = "import" /\ To(c, [door[c] EXCEPT !.at = "record", !.args = << >>])

Around(c) ==
    \/ Proceed(c) \/ Overlay(c) \/ ensureDKIMAndDNSRecords(c) \/ Record(c)
    \/ Refuse(c) \/ ProvisionFails(c) \/ CallFails(c) \/ HangUp(c)

-----------------------------------------------------------------------------
(* Calls of one statement that change no modelled column, or another table. *)

\* MailboxSetName and MailboxSetQuota: UPDATE of a column that is not modelled.
updateMailbox(e) == IsUser(e) /\ UNCHANGED vars

\* Mutant: the name is not stored.
CreateTokenUnnamed ==
    \E t \in Token, s \in ScopeLists :
        /\ \A r \in api_tokens : r.token_hash # t
        /\ api_tokens' = api_tokens \cup
              {[token_hash |-> t, name |-> None, scopes |-> IF s = {} THEN {"*"} ELSE s]}

\* authtoken.Create: an empty list stands for every scope; nothing keeps names apart.
CreateToken ==
    \E t \in Token, n \in TokenName, s \in ScopeLists :
        /\ \A r \in api_tokens : r.token_hash # t
        /\ api_tokens' = api_tokens \cup
              {[token_hash |-> t, name |-> n, scopes |-> IF s = {} THEN {"*"} ELSE s]}

\* authtoken.Revoke: every token of that name.
RevokeToken ==
    \E n \in TokenName :
        /\ \E r \in api_tokens : r.name = n
        /\ api_tokens' = {r \in api_tokens : r.name # n}

Recording(c, k) == door' = [door EXCEPT ![c] = [Opened(c, k) EXCEPT !.at = "record"]]

TokenChange(c, k) ==
    /\ AtHandler(c, k)
    /\ CreateToken \/ RevokeToken
    /\ Recording(c, k)
    /\ UNCHANGED vars

=============================================================================
