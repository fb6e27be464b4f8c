---------------------------- MODULE MCDirectory ----------------------------
(***************************************************************************)
(* Instances of Directory with overlapping callers: one address at each of  *)
(* two domains that come and go.                                            *)
(***************************************************************************)
EXTENDS Directory, FiniteSets, TLC

CONSTANTS ann, eve, home, away

MCDomainOf == [a \in Addr |-> IF a = eve THEN away ELSE home]

\* Callers are interchangeable.
ClientSymmetry == Permutations(Client)

-----------------------------------------------------------------------------
(* Four kinds of operations that touch different tables.  One behaviour     *)
(* explores one of them, together with the domains, so that the run is the  *)
(* union of four instances and not their product.                           *)

AccountOps == {"MailboxAdd", "MailboxCreate", "MailboxRemove", "MailboxPasswd",
               "MailboxSetEnabled", "ForwardSet", "ForwardClear"}
GroupOps   == {"GroupCreate", "GroupUpdate", "GroupDelete", "GroupAddMembers",
               "GroupRemoveMember", "GroupSetMemberRole"}
RouteOps   == {"AliasAdd", "AliasRemove", "CatchAllSet"}
KeyOps     == {"GenerateKey", "RevokeKey"}

Running(ops) == \E c \in Client : req[c].op \in ops

AccountsUsed == Running(AccountOps) \/ virtual_users # {} \/ maildirs # {}
GroupsUsed   == Running(GroupOps) \/ lastGroup > 0
RoutesUsed   == Running(RouteOps) \/ virtual_aliases # {}
KeysUsed     == Running(KeyOps) \/ \E k \in ApiKey : issued[k] # None

\* Groups are explored with one domain, and at most two alias rows at a time.
OneConcern ==
    /\ AccountsUsed => ~GroupsUsed
    /\ RoutesUsed => ~AccountsUsed /\ ~GroupsUsed
    /\ KeysUsed => ~AccountsUsed /\ ~GroupsUsed /\ ~RoutesUsed
    /\ GroupsUsed => \A r \in virtual_domains : r.name = home
    /\ Cardinality(virtual_aliases) <= 2
=============================================================================
