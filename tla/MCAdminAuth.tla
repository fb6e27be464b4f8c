---------------------------- MODULE MCAdminAuth ----------------------------
(***************************************************************************)
(* Instances of AdminAuth for TLC: two browsers and a shell, with requests  *)
(* and commands that overlap and end anywhere.                              *)
(***************************************************************************)
EXTENDS AdminAuth, FiniteSets, TLC

CONSTANTS ann, Ann, bob

\* Two spellings of one name, and another name.
Collation == [n \in Username |-> IF n = bob THEN 2 ELSE 1]

\* Browsers, tokens, passwords and the spellings of a name are interchangeable.
AuthSymmetry == Permutations(Browser) \cup Permutations(Token) \cup Permutations(Password)
                \cup Permutations({ann, Ann})

Passwords == {u.password : u \in admin_users} \cup {s.under : s \in admin_sessions}
             \cup ({req[a].pw : a \in Actor} \ {None})
Tokens    == {s.token : s \in admin_sessions} \cup ({cookie[b] : b \in Browser} \ {None})

\* Once a request has overlapped another or was broken off, one password and two tokens.
FewWhenOverlapping == apart \/ (Cardinality(Passwords) <= 1 /\ Cardinality(Tokens) <= 2)
=============================================================================
