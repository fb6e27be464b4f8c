------------------------------ MODULE Routing ------------------------------
(***************************************************************************)
(* What Postfix does with a recipient: the alias map of                     *)
(* templates/postfix/mysql-virtual-alias-maps.cf.tmpl over the tables of    *)
(* Directory, the search order and the recursive expansion of Postfix       *)
(* (external, as main.cf.tmpl configures it), and the posting policy of     *)
(* groups that cli/internal/policy answers at RCPT time.                    *)
(***************************************************************************)
EXTENDS Directory, FiniteSets

CONSTANT Untag   \* an address without its "+tag" (recipient_delimiter = +)

ASSUME UntagAssumption ==
    /\ Untag \in [Addr -> Addr]
    /\ \A a \in Addr : Untag[Untag[a]] = Untag[a] /\ DomainOf[Untag[a]] = DomainOf[a]

-----------------------------------------------------------------------------
(* The alias map.                                                           *)

\* virtual_mailbox_maps, and the password and user queries of Dovecot.
ActiveMailbox(e) == \E u \in virtual_users : u.email = e /\ u.enabled

\* Mutant: a mailbox that forwards is left out of the map when it keeps a copy.
LookupDropsForwards(s) ==
    {a.destination : a \in {x \in virtual_aliases : x.source = s}}
    \cup {m.member : m \in {x \in mail_group_members :
             /\ \E g \in mail_groups : g.id = x.group_id /\ g.email = s
             /\ ~Suspended(x.member)}}
    \cup {u.email : u \in {x \in virtual_users :
             /\ x.email = s /\ x.enabled
             /\ ~\E f \in mailbox_forwards : f.email = s
             /\ ~IsAlias(s)}}

\* Mutant: only the members that are mailboxes themselves are returned.
LookupSkipsNested(s) ==
    {a.destination : a \in {x \in virtual_aliases : x.source = s}}
    \cup {m.member : m \in {x \in mail_group_members :
             /\ \E g \in mail_groups : g.id = x.group_id /\ g.email = s
             /\ ActiveMailbox(x.member)}}
    \cup {u.email : u \in {x \in virtual_users : x.email = s /\ x.enabled /\ ~IsAlias(s)}}

\* The four parts of the UNION: aliases and catch-alls, members of a group that are not
\* suspended, the forward of an enabled mailbox, the mailbox itself.
Lookup(s) ==
    {a.destination : a \in {x \in virtual_aliases : x.source = s}}
    \cup {m.member : m \in {x \in mail_group_members :
             /\ \E g \in mail_groups : g.id = x.group_id /\ g.email = s
             /\ ~Suspended(x.member)}}
    \cup {f.destination : f \in {x \in mailbox_forwards : x.email = s /\ ActiveMailbox(s)}}
    \cup {u.email : u \in {x \in virtual_users :
             /\ x.email = s /\ x.enabled
             /\ ~\E f \in mailbox_forwards : f.email = s /\ ~f.keep_copy
             /\ ~IsAlias(s)}}

\* Postfix searches user+tag@domain, then user@domain, then @domain.
VirtualAlias(a) ==
    IF Lookup(a) # {} THEN Lookup(a)
    ELSE IF Lookup(Untag[a]) # {} THEN Lookup(Untag[a])
    ELSE Lookup(DomainOf[a])

\* reject_unlisted_recipient: an address of a hosted domain must be in one of the maps.
Listed(a) == VirtualAlias(a) # {} \/ ActiveMailbox(a) \/ ActiveMailbox(Untag[a])

\* Everything recursive expansion of a meets, in at most Cardinality(Addr) rounds.
Expansion(a) ==
    LET reach[n \in 0 .. Cardinality(Addr)] ==
            IF n = 0 THEN {a}
            ELSE reach[n - 1] \cup UNION {VirtualAlias(x) : x \in reach[n - 1]}
    IN  reach[Cardinality(Addr)]

\* Whether it meets an address again that it had to replace.  Postfix then gives up at its
\* recursion limit, and nobody gets the mail.
Cyclic(a) ==
    \E x \in Expansion(a) :
        /\ x \notin VirtualAlias(x)
        /\ x \in UNION {Expansion(y) : y \in VirtualAlias(x)}

\* Where it ends: an address that maps to nothing, or to itself.
Recipients(a) == {r \in Expansion(a) : VirtualAlias(r) = {} \/ r \in VirtualAlias(r)}

-----------------------------------------------------------------------------
(* The policy service.  sender and sasl are addresses or None (empty); down *)
(* is the one of the three SELECTs of Decide that fails, or 0: the call     *)
(* ends with it.                                                            *)

Strip(a) == IF a = None THEN None ELSE Untag[a]

memberRole(i, a) ==
    IF \E m \in mail_group_members : m.group_id = i /\ m.member = a
    THEN (CHOOSE m \in mail_group_members : m.group_id = i /\ m.member = a).role
    ELSE ""

isHostedAddress(a) == Hosted(DomainOf[a])

\* Mutant: the envelope sender is believed without a session.
DecideBelievesSender(sender, recipient, sasl, loopback, down) ==
    LET rcpt == Strip(recipient)
        who  == IF sasl # None THEN Strip(sasl) ELSE Strip(sender)
        g    == CHOOSE x \in mail_groups : x.email = rcpt
    IN  IF down = 1 THEN "DEFER"
        ELSE IF ~IsGroup(rcpt) THEN "DUNNO"
        ELSE IF g.post_policy = "anyone" \/ (sasl = None /\ loopback) THEN "DUNNO"
        ELSE IF g.post_policy = "organization" THEN IF sasl # None THEN "DUNNO" ELSE "REJECT"
        ELSE IF down = 3 THEN "DEFER"
        ELSE IF memberRole(g.id, who) \in (IF g.post_policy = "members" THEN Role ELSE {"owner"})
             THEN "DUNNO" ELSE "REJECT"

Decide(sender, recipient, sasl, loopback, down) ==
    LET rcpt == Strip(recipient)
        who  == IF sasl # None THEN Strip(sasl) ELSE Strip(sender)
        g    == CHOOSE x \in mail_groups : x.email = rcpt
    IN  IF down = 1 THEN "DEFER"
        ELSE IF ~IsGroup(rcpt) THEN "DUNNO"
        ELSE IF g.post_policy = "anyone" \/ (sasl = None /\ loopback) THEN "DUNNO"
        ELSE IF g.post_policy = "organization" THEN IF sasl # None THEN "DUNNO" ELSE "REJECT"
        ELSE IF sasl = None /\ who = None THEN "REJECT"
        ELSE IF sasl = None /\ down = 2 THEN "DEFER"
        ELSE IF sasl = None /\ isHostedAddress(who) THEN "REJECT"
        ELSE IF down = 3 THEN "DEFER"
        ELSE IF memberRole(g.id, who) \in (IF g.post_policy = "members" THEN Role ELSE {"owner"})
             THEN "DUNNO" ELSE "REJECT"

-----------------------------------------------------------------------------
(* Properties.                                                              *)

\* The catch-all of a domain never takes the mail of an address that is in use: a mailbox
\* that is not suspended, an alias, or a group with a member that is not suspended always
\* has a row of its own in the alias map (part 4 of the query; "what stops an @domain
\* catch-all from swallowing mail for addresses that do exist").
CatchAllOnlyForUnused ==
    \A a \in Addr : Lookup(a) = {} =>
        /\ ~ActiveMailbox(a)
        /\ ~IsAlias(a)
        /\ \A g \in mail_groups, m \in mail_group_members :
              g.email = a /\ m.group_id = g.id => Suspended(m.member)

\* The members of the groups at the addresses S, and all that is below the group at e.
MembersOf(S) ==
    {a \in Addr : \E m \in mail_group_members, g \in mail_groups :
        m.group_id = g.id /\ g.email \in S /\ m.member = a /\ Untag[a] = a}

Below(e) ==
    LET under[n \in 0 .. Cardinality(Addr)] ==
            IF n = 0 THEN {e} ELSE under[n - 1] \cup MembersOf(under[n - 1])
    IN  under[Cardinality(Addr)]

\* Mail to a group reaches every mailbox below it that is not suspended, forwards nowhere
\* and has no alias of its own, through any depth of nesting that is not circular ("Postfix
\* re-expands each of them, which is how nested groups work").
NestedGroupsDeliver ==
    \A g \in mail_groups : ~Cyclic(g.email) => \A a \in Below(g.email) :
        /\ ActiveMailbox(a) /\ ~IsAlias(a)
        /\ \A f \in mailbox_forwards : f.email = a => f.keep_copy
        => a \in Recipients(g.email)

\* Who may post to group g, in the words of the posting policies (groups.go) and of the
\* identity rules of the policy package: a session is its mailbox, a sender without one is
\* believed only outside the hosted domains, local processes are trusted.
MayPost(g, sender, sasl, loopback) ==
    \/ g.post_policy = "anyone"
    \/ sasl = None /\ loopback
    \/ g.post_policy = "organization" /\ sasl # None
    \/ \E m \in mail_group_members :
          /\ m.group_id = g.id
          /\ g.post_policy = "members" \/ (g.post_policy = "owners" /\ m.role = "owner")
          /\ \/ sasl # None /\ m.member = Strip(sasl)
             \/ sasl = None /\ m.member = Strip(sender) /\ ~Hosted(DomainOf[m.member])

Envelope == [sender : Addr \cup {None}, sasl : Addr \cup {None}, loopback : BOOLEAN]
Down     == 0 .. 3

\* Decide lets a post to a group, or to the group's address with a tag, pass only if the
\* sender may post to it, and with the database up it refuses nobody who may: an unanswered
\* SELECT never becomes a DUNNO.
PolicyEnforced ==
    \A g \in mail_groups, r \in Addr : Untag[r] = g.email =>
        \A q \in Envelope :
            LET ok == MayPost(g, q.sender, q.sasl, q.loopback)
                d(down) == Decide(q.sender, r, q.sasl, q.loopback, down)
            IN  /\ ok => d(0) = "DUNNO"
                /\ ~ok => \A down \in Down : d(down) # "DUNNO"

\* "They can't sign in, mail sent to them is rejected" (the page of a suspended user).
SuspendedMailRejected == \A u \in virtual_users : ~u.enabled => ~Listed(u.email)
=============================================================================
