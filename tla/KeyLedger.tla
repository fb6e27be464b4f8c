----------------------------- MODULE KeyLedger -----------------------------
(***************************************************************************)
(* What package domainkey promises about the API keys of domains (the       *)
(* comments of the package, of Generate and of ErrInvalidKey in             *)
(* cli/internal/domainkey/domainkey.go): at most one key opens a domain, a  *)
(* new one replaces and so immediately revokes it, and a key that was       *)
(* replaced or revoked opens nothing any more.  No domain ids, rows or      *)
(* joins: a key handed out opens its domain at once, and for the last time  *)
(* when the next one is handed out or the domain's key is revoked.          *)
(***************************************************************************)
CONSTANTS
    Domain,
    Key

VARIABLES
    opens,     \* the keys that open each domain
    handedOut  \* the keys that were ever handed out

ledgervars == << opens, handedOut >>

LedgerInit ==
    /\ opens = [d \in Domain |-> {}]
    /\ handedOut = {}

\* The key given to the caller is new, and from now on the only one that opens d.
HandOut(d, k) ==
    /\ k \notin handedOut
    /\ handedOut' = handedOut \cup {k}
    /\ opens' = [opens EXCEPT ![d] = {k}]

Revoke(d) ==
    /\ opens' = [opens EXCEPT ![d] = {}]
    /\ UNCHANGED handedOut

LedgerNext == \E d \in Domain : Revoke(d) \/ \E k \in Key : HandOut(d, k)

LedgerSpec == LedgerInit /\ [][LedgerNext]_ledgervars
=============================================================================
