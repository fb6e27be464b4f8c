--------------------------- MODULE RoutingProofs ---------------------------
(***************************************************************************)
(* Proofs about Routing, and about which overlaps of the calls of Directory  *)
(* do harm.  What the alias map, Postfix's expansion and the posting policy  *)
(* compute follows from the consistency of the tables (DirectoryProofs);     *)
(* what the calls establish follows from an invariant about what a running   *)
(* call has read, first for any overlap but one, then for none.              *)
(***************************************************************************)
EXTENDS Routing, DirectoryProofs, FiniteSetTheorems

(***************************************************************************)
(* Induction over the natural numbers, for a property given as the set of   *)
(* the numbers that have it.                                                *)
(***************************************************************************)

\* A nonempty set of natural numbers has a least element: the strict subsets of a finite
\* set are well-founded, and the smaller of two numbers has the smaller interval below it.
LEMMA LeastElement ==
    ASSUME NEW T, T \subseteq Nat, T # {}
    PROVE  \E x \in T : \A y \in T : ~(y < x)
<1> DEFINE R == StrictSubsetOrdering(Nat)
           D == {0 .. n : n \in T}
<1>1. IsWellFoundedOn(R, FiniteSubsetsOf(Nat))
  BY FS_StrictSubsetOrderingWellFounded
<1>2. D \subseteq FiniteSubsetsOf(Nat) /\ D # {}
  <2>1. \A n \in T : 0 .. n \in SUBSET Nat /\ IsFiniteSet(0 .. n)
    BY FS_Interval
  <2> QED BY <2>1 DEF FiniteSubsetsOf
<1>3. \E d \in D : \A e \in D : << e, d >> \notin R
  <2> HIDE DEF R, D
  <2> QED BY <1>1, <1>2, WFMin
<1>4. PICK x \in T : \A e \in D : << e, 0 .. x >> \notin R
  BY <1>3
<1>5. ASSUME NEW y \in T, y < x PROVE FALSE
  <2>1. 0 .. y \in D /\ 0 .. y \in SUBSET Nat /\ 0 .. x \in SUBSET Nat
    OBVIOUS
  <2>2. 0 .. y \subseteq 0 .. x /\ x \in 0 .. x /\ x \notin 0 .. y
    BY <1>5
  <2>3. << 0 .. y, 0 .. x >> \in R
    BY <2>1, <2>2 DEF StrictSubsetOrdering
  <2> QED BY <2>1, <2>3, <1>4
<1> QED BY <1>4, <1>5

LEMMA SetInduction ==
    ASSUME NEW T, 0 \in T, \A n \in Nat : n \in T => n + 1 \in T
    PROVE  \A n \in Nat : n \in T
<1> SUFFICES ASSUME Nat \ T # {} PROVE FALSE
  OBVIOUS
<1>1. PICK x \in Nat \ T : \A y \in Nat \ T : ~(y < x)
  BY LeastElement
<1>2. x # 0 /\ x - 1 \in Nat
  OBVIOUS
<1>3. x - 1 \in T
  BY <1>1, <1>2
<1> QED BY <1>2, <1>3

\* The functions that give x0 for 0 and then, round by round, G of the round before.
Rounds(X, x0, G, N) ==
    {f \in [0 .. N -> X] : \A n \in 0 .. N : f[n] = IF n = 0 THEN x0 ELSE G[f[n - 1]]}

\* There is one.
LEMMA RoundsExist ==
    ASSUME NEW X, NEW x0 \in X, NEW G \in [X -> X], NEW N \in Nat
    PROVE  Rounds(X, x0, G, N) # {}
<1> DEFINE IsRun(f, k) == \A i \in 0 .. k : f[i] = IF i = 0 THEN x0 ELSE G[f[i - 1]]
           T == {k \in Nat : \E f \in [0 .. k -> X] : IsRun(f, k)}
<1>1. 0 \in T
  <2> DEFINE f == [i \in 0 .. 0 |-> x0]
  <2>1. f \in [0 .. 0 -> X] /\ IsRun(f, 0)
    OBVIOUS
  <2> QED BY <2>1
<1>2. ASSUME NEW k \in Nat, k \in T PROVE k + 1 \in T
  <2>1. PICK f \in [0 .. k -> X] : IsRun(f, k)
    BY <1>2
  <2> DEFINE h == [i \in 0 .. (k + 1) |-> IF i = k + 1 THEN G[f[k]] ELSE f[i]]
  <2>2. h \in [0 .. (k + 1) -> X]
    OBVIOUS
  <2>3. ASSUME NEW i \in 0 .. (k + 1) PROVE h[i] = IF i = 0 THEN x0 ELSE G[h[i - 1]]
    <3>1. CASE i = k + 1
      <4>1. i # 0 /\ i - 1 = k /\ k \in 0 .. (k + 1) /\ k # k + 1
        BY <3>1
      <4> QED BY <3>1, <4>1
    <3>2. CASE i = 0
      BY <3>2, <2>1
    <3>3. CASE i # k + 1 /\ i # 0
      <4>1. i \in 0 .. k /\ i - 1 \in 0 .. (k + 1) /\ i - 1 # k + 1
        BY <3>3
      <4>2. h[i] = f[i] /\ h[i - 1] = f[i - 1]
        BY <3>3, <4>1
      <4> QED BY <2>1, <3>3, <4>1, <4>2
    <3> QED BY <3>1, <3>2, <3>3
  <2> HIDE DEF h
  <2>4. IsRun(h, k + 1)
    BY <2>3
  <2> QED BY <2>2, <2>4
<1>3. N \in T
  <2> HIDE DEF T
  <2> QED BY <1>1, <1>2, SetInduction
<1> QED BY <1>3 DEF Rounds

\* What rounds compute that only add elements of the finite set X: they stop adding after as
\* many rounds as X has elements.
LEMMA RoundsStop ==
    ASSUME NEW X, IsFiniteSet(X), NEW N, N = Cardinality(X),
           NEW r, r[0] \in SUBSET X, r[0] # {},
           NEW H \in [SUBSET X -> SUBSET X],
           \A n \in 1 .. N : r[n - 1] \in SUBSET X => r[n] = r[n - 1] \cup H[r[n - 1]]
    PROVE  /\ r[N] \in SUBSET X /\ r[0] \subseteq r[N] /\ H[r[N]] \subseteq r[N]
           /\ \A n \in 0 .. N : r[n] \in SUBSET X
<1> DEFINE Closed(S) == H[S] \subseteq S
           Good(n) == r[n] \in SUBSET X /\ r[0] \subseteq r[n]
           T == {n \in Nat : n <= N => Good(n) /\ (Closed(r[n]) \/ Cardinality(r[n]) > n)}
<1>1. N \in Nat
  BY FS_CardinalityType
<1>2. \A S \in SUBSET X : IsFiniteSet(S) /\ Cardinality(S) \in Nat /\ Cardinality(S) <= N
  BY FS_Subset, FS_CardinalityType
<1>3. 0 \in T
  <2>1. Cardinality(r[0]) # 0
    BY <1>2, FS_EmptySet
  <2> QED BY <2>1, <1>2
<1>4. ASSUME NEW n \in Nat, n \in T, n + 1 <= N
      PROVE  Good(n + 1) /\ (Closed(r[n + 1]) \/ Cardinality(r[n + 1]) > n + 1)
  <2>1. /\ n + 1 \in 1 .. N /\ (n + 1) - 1 = n
        /\ Good(n) /\ (Closed(r[n]) \/ Cardinality(r[n]) > n)
    BY <1>4, <1>1
  <2>2. r[n + 1] \in SUBSET X /\ r[n + 1] = r[n] \cup H[r[n]]
    BY <2>1
  <2>3. CASE Closed(r[n])
    <3>1. r[n + 1] = r[n]
      BY <2>2, <2>3
    <3> QED BY <3>1, <2>1, <2>3
  <2>4. CASE ~Closed(r[n])
    <3>1. r[n] \in SUBSET r[n + 1] /\ r[n] # r[n + 1]
      BY <2>2, <2>4
    <3>2. Cardinality(r[n]) <= Cardinality(r[n + 1]) /\ Cardinality(r[n]) # Cardinality(r[n + 1])
      BY <3>1, <2>2, <1>2, FS_Subset
    <3> QED BY <3>1, <3>2, <2>1, <2>2, <2>4, <1>2
  <2> QED BY <2>3, <2>4
<1>5. \A n \in Nat : n \in T
  <2>1. \A n \in Nat : n \in T => n + 1 \in T
    BY <1>4
  <2> HIDE DEF T
  <2> QED BY <1>3, <2>1, SetInduction
<1>6. \A n \in 0 .. N : Good(n) /\ (Closed(r[n]) \/ Cardinality(r[n]) > n)
  BY <1>1, <1>5
<1>7. Good(N) /\ Closed(r[N])
  BY <1>1, <1>2, <1>6
<1> QED BY <1>6, <1>7

\* A round that starts in Q stays in Q.
ClosedUnder(H, Q) == \A S \in SUBSET Q : H[S] \subseteq Q

\* Nothing gets in that is not in every set that holds the start and is closed under a round.
LEMMA RoundsStayIn ==
    ASSUME NEW N \in Nat, NEW r, NEW H,
           \A n \in 1 .. N : r[n] = r[n - 1] \cup H[r[n - 1]],
           NEW Q, r[0] \subseteq Q, ClosedUnder(H, Q)
    PROVE  r[N] \subseteq Q
<1> DEFINE T == {n \in Nat : n <= N => r[n] \subseteq Q}
<1>1. 0 \in T
  OBVIOUS
<1>2. ASSUME NEW n \in Nat, n \in T PROVE n + 1 \in T
  <2> SUFFICES ASSUME n + 1 <= N PROVE r[n + 1] \subseteq Q
    OBVIOUS
  <2>1. n + 1 \in 1 .. N /\ (n + 1) - 1 = n /\ r[n] \in SUBSET Q
    BY <1>2
  <2>2. H[r[n]] \subseteq Q
    BY <2>1 DEF ClosedUnder
  <2> QED BY <2>1, <2>2
<1>3. N \in T
  <2> HIDE DEF T
  <2> QED BY <1>1, <1>2, SetInduction
<1> QED BY <1>3

\* Both together, for a recursive function whose rounds are those of H: its last value is
\* the least set that holds the start and is closed under H.
LEMMA RoundsClose ==
    ASSUME NEW X, IsFiniteSet(X), NEW r, r[0] \in SUBSET X, r[0] # {},
           NEW H \in [SUBSET X -> SUBSET X],
           \A n \in 1 .. Cardinality(X) :
              r[n - 1] \in SUBSET X => r[n] = r[n - 1] \cup H[r[n - 1]]
    PROVE  LET last == r[Cardinality(X)]
           IN  /\ last \in SUBSET X /\ r[0] \subseteq last /\ H[last] \subseteq last
               /\ \A Q : r[0] \subseteq Q /\ ClosedUnder(H, Q) => last \subseteq Q
<1> DEFINE N == Cardinality(X)
<1>1. N \in Nat
  BY FS_CardinalityType
<1>2. /\ r[N] \in SUBSET X /\ r[0] \subseteq r[N] /\ H[r[N]] \subseteq r[N]
      /\ \A n \in 0 .. N : r[n] \in SUBSET X
  <2> HIDE DEF N
  <2>1. N = Cardinality(X)
    BY DEF N
  <2>2. \A n \in 1 .. N : r[n - 1] \in SUBSET X => r[n] = r[n - 1] \cup H[r[n - 1]]
    BY <2>1
  <2> QED BY <2>1, <2>2, RoundsStop
<1>3. \A n \in 1 .. N : r[n] = r[n - 1] \cup H[r[n - 1]]
  <2>1. \A n \in 1 .. N : n - 1 \in 0 .. N
    BY <1>1
  <2> QED BY <1>2, <2>1
<1> HIDE DEF N
<1>4. ASSUME NEW Q, r[0] \subseteq Q, ClosedUnder(H, Q)
      PROVE  r[N] \subseteq Q
  BY <1>1, <1>3, <1>4, RoundsStayIn
<1> QED BY <1>2, <1>4 DEF N

(***************************************************************************)
(* What the queries compute, in every state the callers can reach.           *)
(***************************************************************************)

\* An address that is in use has a row of its own in the alias map, so Postfix never asks the
\* map for its @domain (part 4 of mysql-virtual-alias-maps).
THEOREM CatchAllTakesOnlyUnused == Spec => []CatchAllOnlyForUnused
<1>1. CatchAllOnlyForUnused
  <2> SUFFICES ASSUME NEW a \in Addr, Lookup(a) = {}
               PROVE  /\ ~ActiveMailbox(a)
                      /\ ~IsAlias(a)
                      /\ \A g \in mail_groups, m \in mail_group_members :
                            g.email = a /\ m.group_id = g.id => Suspended(m.member)
    BY DEF CatchAllOnlyForUnused
  <2>1. ~IsAlias(a)
    BY DEF Lookup, IsAlias
  <2>2. ASSUME NEW g \in mail_groups, NEW m \in mail_group_members,
               g.email = a, m.group_id = g.id
        PROVE  Suspended(m.member)
    BY <2>2 DEF Lookup
  <2>3. ~ActiveMailbox(a)
    <3>1. SUFFICES ASSUME ActiveMailbox(a) PROVE FALSE
      OBVIOUS
    <3>2. \A f \in mailbox_forwards : f.email # a
      BY <3>1 DEF Lookup
    <3>3. PICK u \in virtual_users : u.email = a /\ u.enabled
      BY <3>1 DEF ActiveMailbox
    <3>4. u.email \in Lookup(a)
      BY <2>1, <3>2, <3>3 DEF Lookup
    <3> QED BY <3>4
  <2> QED BY <2>1, <2>2, <2>3
<1> QED BY <1>1, PTL

\* The role that memberRole returns is the one of the only row with that group and address.
LEMMA MemberRoleOf ==
    ASSUME KeysUnique, NEW i, NEW a
    PROVE  /\ \A m \in mail_group_members :
                 m.group_id = i /\ m.member = a => memberRole(i, a) = m.role
           /\ (\A m \in mail_group_members : ~(m.group_id = i /\ m.member = a))
              => memberRole(i, a) = ""
<1>1. ASSUME NEW m \in mail_group_members, m.group_id = i /\ m.member = a
      PROVE  memberRole(i, a) = m.role
  <2>1. \A n \in mail_group_members : n.group_id = i /\ n.member = a => n = m
    BY <1>1 DEF KeysUnique
  <2>2. (CHOOSE n \in mail_group_members : n.group_id = i /\ n.member = a) = m
    BY <1>1, <2>1
  <2> QED BY <1>1, <2>2 DEF memberRole
<1>2. ASSUME \A m \in mail_group_members : ~(m.group_id = i /\ m.member = a)
      PROVE  memberRole(i, a) = ""
  BY <1>2 DEF memberRole
<1> QED BY <1>1, <1>2

\* What Decide answers for a group g, with the CHOOSE of the group's row resolved.
Answer(g, who, sasl, loopback, down) ==
    IF down = 1 THEN "DEFER"
    ELSE IF g.post_policy = "anyone" \/ (sasl = None /\ loopback) THEN "DUNNO"
    ELSE IF g.post_policy = "organization" THEN IF sasl # None THEN "DUNNO" ELSE "REJECT"
    ELSE IF sasl = None /\ who = None THEN "REJECT"
    ELSE IF sasl = None /\ down = 2 THEN "DEFER"
    ELSE IF sasl = None /\ isHostedAddress(who) THEN "REJECT"
    ELSE IF down = 3 THEN "DEFER"
    ELSE IF memberRole(g.id, who) \in (IF g.post_policy = "members" THEN Role ELSE {"owner"})
         THEN "DUNNO" ELSE "REJECT"

\* Decide looks up the group of the recipient without its tag; its row is unique.
LEMMA DecideAnswers ==
    ASSUME KeysUnique, NEW g \in mail_groups, NEW r \in Addr, Untag[r] = g.email,
           NEW sender, NEW sasl, NEW loopback, NEW down
    PROVE  Decide(sender, r, sasl, loopback, down)
           = Answer(g, IF sasl # None THEN Strip(sasl) ELSE Strip(sender), sasl, loopback, down)
<1>1. r # None
  BY NoneAssumption DEF Source
<1>2. Strip(r) = g.email /\ IsGroup(Strip(r))
  BY <1>1 DEF Strip, IsGroup
<1>3. \A x \in mail_groups : x.email = Strip(r) => x = g
  BY <1>2 DEF KeysUnique
<1>4. (CHOOSE x \in mail_groups : x.email = Strip(r)) = g
  BY <1>2, <1>3
<1>5. PICK who : who = IF sasl # None THEN Strip(sasl) ELSE Strip(sender)
  OBVIOUS
<1> QED BY <1>2, <1>4, <1>5 DEF Decide, Answer

\* Who the policy service takes the poster to be: the session, or else the sender, each
\* without its tag.
Poster(q) == IF q.sasl # None THEN Strip(q.sasl) ELSE Strip(q.sender)

\* The poster is an address exactly when the session, or else the sender, is one.
LEMMA PosterKnown ==
    ASSUME NEW q \in Envelope
    PROVE  /\ q.sender \in Addr \cup {None} /\ q.sasl \in Addr \cup {None}
           /\ Poster(q) \in Addr \cup {None}
           /\ q.sasl # None => Poster(q) = Strip(q.sasl) /\ Poster(q) \in Addr
           /\ q.sasl = None => Poster(q) = Strip(q.sender)
           /\ None \notin Addr
<1>1. q.sender \in Addr \cup {None} /\ q.sasl \in Addr \cup {None}
  BY DEF Envelope
<1>2. None \notin Addr
  BY NoneAssumption DEF Source
<1>3. \A a \in Addr : Strip(a) \in Addr
  BY <1>2, UntagAssumption DEF Strip
<1>4. Strip(None) = None
  BY DEF Strip
<1> QED BY <1>1, <1>2, <1>3, <1>4 DEF Poster

\* The lists of members and of owners let exactly those post whose row memberRole finds.
LEMMA ListedPoster ==
    ASSUME IndInv, NEW g \in mail_groups, NEW who \in Addr
    PROVE  memberRole(g.id, who) \in (IF g.post_policy = "members" THEN Role ELSE {"owner"})
           <=> \E m \in mail_group_members :
                  /\ m.group_id = g.id /\ m.member = who
                  /\ g.post_policy = "members" \/ m.role = "owner"
<1>1. KeysUnique /\ \A m \in mail_group_members : m.role \in Role
  BY DEF IndInv, TypeOK, DBTypeOK, MemberRow
<1>2. CASE \E m \in mail_group_members : m.group_id = g.id /\ m.member = who
  <2>1. PICK m \in mail_group_members : m.group_id = g.id /\ m.member = who
    BY <1>2
  <2>2. \A n \in mail_group_members : n.group_id = g.id /\ n.member = who => n = m
    BY <1>1, <2>1 DEF KeysUnique
  <2>3. memberRole(g.id, who) = m.role
    BY <1>1, <2>1, MemberRoleOf
  <2> QED BY <1>1, <2>1, <2>2, <2>3
<1>3. CASE ~\E m \in mail_group_members : m.group_id = g.id /\ m.member = who
  <2>1. memberRole(g.id, who) = ""
    BY <1>1, <1>3, MemberRoleOf
  <2> QED BY <1>3, <2>1 DEF Role
<1> QED BY <1>2, <1>3

\* The policy service lets exactly those post who may, whichever of its SELECTs fail: no
\* order of its early returns turns a failed query into a permission.
THEOREM PolicyAlwaysEnforced == Spec => []PolicyEnforced
<1>1. ASSUME IndInv PROVE PolicyEnforced
  <2> SUFFICES ASSUME NEW g \in mail_groups, NEW r \in Addr, Untag[r] = g.email,
                      NEW q \in Envelope
               PROVE  /\ MayPost(g, q.sender, q.sasl, q.loopback)
                         => Decide(q.sender, r, q.sasl, q.loopback, 0) = "DUNNO"
                      /\ ~MayPost(g, q.sender, q.sasl, q.loopback)
                         => \A down \in Down : Decide(q.sender, r, q.sasl, q.loopback, down) # "DUNNO"
    BY DEF PolicyEnforced
  <2>1. PICK who : who = Poster(q)
    OBVIOUS
  <2>2. PICK ok \in BOOLEAN : ok <=> MayPost(g, q.sender, q.sasl, q.loopback)
    OBVIOUS
  <2>3. KeysUnique /\ g.post_policy \in Policy
    BY <1>1 DEF IndInv, TypeOK, DBTypeOK, GroupRow
  <2>4. \A down : Decide(q.sender, r, q.sasl, q.loopback, down)
                = Answer(g, who, q.sasl, q.loopback, down)
    BY <2>1, <2>3, DecideAnswers DEF Poster
  <2>5. /\ who \in Addr \cup {None} /\ None \notin Addr
        /\ q.sasl # None => who = Strip(q.sasl) /\ who \in Addr
        /\ q.sasl = None => who = Strip(q.sender)
    BY <2>1, PosterKnown
  <2>6. PICK mine \in BOOLEAN :
           mine <=> \E m \in mail_group_members :
                       /\ m.group_id = g.id /\ m.member = who
                       /\ g.post_policy = "members" \/ m.role = "owner"
    OBVIOUS
  <2>7. who = None => ~mine
    BY <1>1, <2>5, <2>6 DEF IndInv, TypeOK, DBTypeOK, MemberRow
  <2>8. who \in Addr =>
          (memberRole(g.id, who) \in (IF g.post_policy = "members" THEN Role ELSE {"owner"})
           <=> mine)
    BY <1>1, <2>6, ListedPoster
  <2>9. ok <=> \/ g.post_policy = "anyone"
               \/ q.sasl = None /\ q.loopback
               \/ g.post_policy = "organization" /\ q.sasl # None
               \/ /\ g.post_policy \in {"members", "owners"} /\ mine
                  /\ q.sasl = None => ~isHostedAddress(who)
    BY <2>2, <2>3, <2>5, <2>6 DEF MayPost, Policy, isHostedAddress
  <2>10. ASSUME ok PROVE Answer(g, who, q.sasl, q.loopback, 0) = "DUNNO"
    BY <2>3, <2>5, <2>7, <2>8, <2>9, <2>10 DEF Answer, Policy
  <2>11. ASSUME ~ok, NEW down \in Down PROVE Answer(g, who, q.sasl, q.loopback, down) # "DUNNO"
    BY <2>3, <2>5, <2>7, <2>8, <2>9, <2>11 DEF Answer, Policy
  <2> QED BY <2>2, <2>4, <2>10, <2>11
<1> QED BY <1>1, Consistent, PTL

-----------------------------------------------------------------------------
(***************************************************************************)
(* What the recursive expansion computes.                                   *)
(***************************************************************************)

\* Every destination is an address.
LEMMA DestinationsAreAddresses ==
    ASSUME TypeOK, NEW a
    PROVE  VirtualAlias(a) \subseteq Addr
<1>1. \A s : Lookup(s) \subseteq Addr
  BY DEF Lookup, TypeOK, DBTypeOK, AliasRow, MemberRow, ForwardRow, UserRow
<1> QED BY <1>1 DEF VirtualAlias

\* Postfix's expansion of a recipient, computed by recursion on the number of rounds, is the
\* least set that holds the recipient and every destination of what it holds: as many rounds
\* as there are addresses are enough for nesting of any depth, also when it is circular.
THEOREM ExpansionLeast ==
    ASSUME TypeOK, IsFiniteSet(Addr), NEW a \in Addr
    PROVE  /\ a \in Expansion(a) /\ Expansion(a) \subseteq Addr
           /\ \A x \in Expansion(a) : VirtualAlias(x) \subseteq Expansion(a)
           /\ \A Q \in SUBSET Addr :
                 a \in Q /\ (\A x \in Q : VirtualAlias(x) \subseteq Q) => Expansion(a) \subseteq Q
<1> DEFINE N == Cardinality(Addr)
           Round(S) == UNION {VirtualAlias(x) : x \in S}
           G == [S \in SUBSET Addr |-> S \cup Round(S)]
           H == [S \in SUBSET Addr |-> Round(S)]
           IsRun(f) == f = [n \in 0 .. N |-> IF n = 0 THEN {a}
                              ELSE f[n - 1] \cup UNION {VirtualAlias(x) : x \in f[n - 1]}]
           reach == CHOOSE f : IsRun(f)
<1>1. N \in Nat
  BY FS_CardinalityType
<1>2. Expansion(a) = reach[N]
  BY DEF Expansion
<1>3. \A S \in SUBSET Addr : Round(S) \in SUBSET Addr
  BY DestinationsAreAddresses
<1>4. G \in [SUBSET Addr -> SUBSET Addr] /\ H \in [SUBSET Addr -> SUBSET Addr]
  BY <1>3
<1> HIDE DEF N
<1>5. PICK f : f \in Rounds(SUBSET Addr, {a}, G, N)
  <2> DEFINE X == SUBSET Addr
             x0 == {a}
  <2>1. x0 \in X
    OBVIOUS
  <2>2. G \in [X -> X]
    BY <1>4
  <2> HIDE DEF G, X, x0
  <2>3. Rounds(X, x0, G, N) # {}
    BY <1>1, <2>1, <2>2, RoundsExist
  <2> QED BY <2>3 DEF X, x0
<1>6. /\ f = [n \in 0 .. N |-> f[n]] /\ f \in [0 .. N -> SUBSET Addr]
      /\ \A n \in 0 .. N : f[n] = IF n = 0 THEN {a} ELSE G[f[n - 1]]
  <2> HIDE DEF G
  <2> QED BY <1>5 DEF Rounds
<1>7. \A n \in 0 .. N : f[n] = IF n = 0 THEN {a} ELSE f[n - 1] \cup Round(f[n - 1])
  <2>1. \A n \in 0 .. N : n # 0 => n - 1 \in 0 .. N
    BY <1>1
  <2>2. \A n \in 0 .. N : n # 0 => f[n - 1] \in SUBSET Addr
    BY <2>1, <1>6
  <2>3. \A S \in SUBSET Addr : G[S] = S \cup Round(S)
    OBVIOUS
  <2> HIDE DEF G, Round
  <2> QED BY <2>2, <2>3, <1>6
<1>8. IsRun(f)
  BY <1>6, <1>7
<1>9. IsRun(reach)
  BY <1>8
<1> HIDE DEF reach
<1>10. reach[0] = {a}
  BY <1>1, <1>9
<1>11. \A n \in 1 .. N : reach[n - 1] \in SUBSET Addr => reach[n] = reach[n - 1] \cup H[reach[n - 1]]
  <2>1. \A n \in 1 .. N : n \in 0 .. N /\ n # 0
    BY <1>1
  <2> QED BY <2>1, <1>9
<1>12. /\ reach[N] \in SUBSET Addr /\ reach[0] \subseteq reach[N] /\ H[reach[N]] \subseteq reach[N]
       /\ \A Q : reach[0] \subseteq Q /\ ClosedUnder(H, Q) => reach[N] \subseteq Q
  <2>1. reach[0] \in SUBSET Addr /\ reach[0] # {}
    BY <1>10
  <2> HIDE DEF H
  <2> QED BY <1>4, <1>11, <2>1, RoundsClose DEF N
<1>13. ASSUME NEW Q \in SUBSET Addr, \A x \in Q : VirtualAlias(x) \subseteq Q
       PROVE  ClosedUnder(H, Q)
  BY <1>13 DEF ClosedUnder
<1>14. H[reach[N]] = Round(reach[N])
  BY <1>12
<1> HIDE DEF H
<1> QED BY <1>2, <1>10, <1>12, <1>13, <1>14

\* What is below a group, in the same way.
LEMMA BelowLeast ==
    ASSUME TypeOK, IsFiniteSet(Addr), NEW e \in Addr
    PROVE  /\ e \in Below(e) /\ Below(e) \subseteq Addr
           /\ MembersOf(Below(e)) \subseteq Below(e)
           /\ \A Q \in SUBSET Addr :
                 e \in Q /\ MembersOf(Q) \subseteq Q => Below(e) \subseteq Q
<1> DEFINE N == Cardinality(Addr)
           Round(S) == MembersOf(S)
           G == [S \in SUBSET Addr |-> S \cup Round(S)]
           H == [S \in SUBSET Addr |-> Round(S)]
           IsRun(f) == f = [n \in 0 .. N |-> IF n = 0 THEN {e}
                              ELSE f[n - 1] \cup MembersOf(f[n - 1])]
           under == CHOOSE f : IsRun(f)
<1>1. N \in Nat
  BY FS_CardinalityType
<1>2. Below(e) = under[N]
  BY DEF Below
<1>3. \A S \in SUBSET Addr : Round(S) \in SUBSET Addr
  BY DEF MembersOf
<1>4. G \in [SUBSET Addr -> SUBSET Addr] /\ H \in [SUBSET Addr -> SUBSET Addr]
  BY <1>3
<1> HIDE DEF N
<1>5. PICK f : f \in Rounds(SUBSET Addr, {e}, G, N)
  <2> DEFINE X == SUBSET Addr
             x0 == {e}
  <2>1. x0 \in X
    OBVIOUS
  <2>2. G \in [X -> X]
    BY <1>4
  <2> HIDE DEF G, X, x0
  <2>3. Rounds(X, x0, G, N) # {}
    BY <1>1, <2>1, <2>2, RoundsExist
  <2> QED BY <2>3 DEF X, x0
<1>6. /\ f = [n \in 0 .. N |-> f[n]] /\ f \in [0 .. N -> SUBSET Addr]
      /\ \A n \in 0 .. N : f[n] = IF n = 0 THEN {e} ELSE G[f[n - 1]]
  <2> HIDE DEF G
  <2> QED BY <1>5 DEF Rounds
<1>7. \A n \in 0 .. N : f[n] = IF n = 0 THEN {e} ELSE f[n - 1] \cup Round(f[n - 1])
  <2>1. \A n \in 0 .. N : n # 0 => n - 1 \in 0 .. N
    BY <1>1
  <2>2. \A n \in 0 .. N : n # 0 => f[n - 1] \in SUBSET Addr
    BY <2>1, <1>6
  <2>3. \A S \in SUBSET Addr : G[S] = S \cup Round(S)
    OBVIOUS
  <2> HIDE DEF G, Round
  <2> QED BY <2>2, <2>3, <1>6
<1>8. IsRun(f)
  BY <1>6, <1>7
<1>9. IsRun(under)
  BY <1>8
<1> HIDE DEF under
<1>10. under[0] = {e}
  BY <1>1, <1>9
<1>11. \A n \in 1 .. N : under[n - 1] \in SUBSET Addr => under[n] = under[n - 1] \cup H[under[n - 1]]
  <2>1. \A n \in 1 .. N : n \in 0 .. N /\ n # 0
    BY <1>1
  <2> QED BY <2>1, <1>9
<1>12. /\ under[N] \in SUBSET Addr /\ under[0] \subseteq under[N] /\ H[under[N]] \subseteq under[N]
       /\ \A Q : under[0] \subseteq Q /\ ClosedUnder(H, Q) => under[N] \subseteq Q
  <2>1. under[0] \in SUBSET Addr /\ under[0] # {}
    BY <1>10
  <2> HIDE DEF H
  <2> QED BY <1>4, <1>11, <2>1, RoundsClose DEF N
<1>13. ASSUME NEW Q \in SUBSET Addr, MembersOf(Q) \subseteq Q
       PROVE  ClosedUnder(H, Q)
  BY <1>13 DEF ClosedUnder, MembersOf
<1>14. H[under[N]] = Round(under[N])
  BY <1>12
<1> HIDE DEF H
<1> QED BY <1>2, <1>10, <1>12, <1>13, <1>14

(***************************************************************************)
(* Calls that do not overlap.  Knows(q) is what call q has established and   *)
(* may rely on while no other call runs.                                     *)
(***************************************************************************)

\* Which operations make which of the two checks of an address.
CheckLabels(q) ==
    /\ q.at = "notAGroup" => q.op \in {"MailboxAdd", "AliasAdd"}
    /\ q.at = "addressKind" => q.op \in {"MailboxCreate", "GroupCreate"}

\* The address a new row will get is free in the sense of its operation.
KeyFree(q) ==
    /\ q.at = "notAGroup" => q.op \in {"MailboxAdd", "AliasAdd"}
    /\ q.at = "addressKind" => q.op \in {"MailboxCreate", "GroupCreate"}
    /\ q.op \in {"MailboxAdd", "MailboxCreate", "AliasAdd"} /\ q.at = "insert"
          => ~IsGroup(q.key)
    /\ q.op = "GroupCreate" /\ q.at = "insert" => ~IsUser(q.key) /\ ~IsAlias(q.key)

\* MailboxRemove starts with the row, GroupDelete too.
KeyGone(q) ==
    /\ q.op = "MailboxRemove" => ~IsUser(q.key) /\ q.at \in {"leaveGroups", "removeAll"}
    /\ q.op = "GroupDelete" => ~IsGroup(q.key) /\ q.at = "leaveGroups"

\* What GroupAddMembers has read is still so, and the address it inserts is admissible.
BatchJudged(q) ==
    q.op = "GroupAddMembers" =>
        /\ q.at \in {"hosted", "check", "insert"}
        /\ \A g \in mail_groups : g.id = q.id => g.email = q.key /\ g.allow_external = q.ext
        /\ q.at # "hosted" => q.hosted = {r.name : r \in virtual_domains}
        /\ q.at = "insert" => Admissible(q, Head(q.todo))

\* GroupUpdate closes a group to external members only when it has found none.
UpdateJudged(q) ==
    q.op = "GroupUpdate" =>
        /\ q.at \in {"members", "update"}
        /\ \A g \in mail_groups : g.id = q.id => g.email = q.key /\ g.allow_external = q.ext
        /\ q.at = "update" /\ ~q.flag /\ q.ext =>
              \A m \in mail_group_members : m.group_id = q.id => MemberKind(m.member) # "external"

Knows(q) == KeyFree(q) /\ KeyGone(q) /\ BatchJudged(q) /\ UpdateJudged(q)

\* A step of client c ends with a call that knows what it may rely on.
Learns(c) == \E n : req' = [req EXCEPT ![c] = n] /\ Knows(n)'

\* The rows that decide what an address is stay, apart from aliases that go and catch-alls.
Quiet ==
    /\ UNCHANGED << virtual_domains, mail_groups >>
    /\ \A e : IsUser(e)' <=> IsUser(e)
    /\ \A a \in virtual_aliases' : a \in virtual_aliases \/ a.source \in Domain
    /\ \A m \in mail_group_members' : \E n \in mail_group_members :
          n.group_id = m.group_id /\ n.member = m.member

-----------------------------------------------------------------------------

\* A call that returns knows nothing.
LEMMA IdleKnows == Knows(Idle) /\ Knows(Idle)'
<1>1. PICK q : q = Idle
  OBVIOUS
<1>2. q.op = "idle" /\ q.at = "idle"
  BY <1>1 DEF Idle
<1>3. Knows(q) /\ Knows(q)'
  BY <1>2 DEF Knows, KeyFree, KeyGone, BatchJudged, UpdateJudged
<1> QED BY <1>1, <1>3

\* Learns for a call that returns.
LEMMA ReturnLearns ==
    ASSUME NEW c \in Client, Return(c) PROVE Learns(c)
  BY IdleKnows DEF Return, Learns

\* A call that is not in an operation with checks knows nothing, and nothing is needed.
LEMMA PlainKnows ==
    ASSUME NEW q, q.at \notin {"notAGroup", "addressKind"},
           q.op \notin {"MailboxAdd", "MailboxCreate", "AliasAdd", "GroupCreate",
                        "MailboxRemove", "GroupDelete", "GroupAddMembers", "GroupUpdate"}
    PROVE  Knows(q)'
  BY DEF Knows, KeyFree, KeyGone, BatchJudged, UpdateJudged

\* The operations that begin by reading the id of their domain have learnt nothing else yet.
LEMMA domainIDLearns ==
    ASSUME NEW c \in Client, NEW q \in Request, domainID(c, q),
           \/ q.op \in {"MailboxAdd", "AliasAdd"} /\ q.at = "notAGroup"
           \/ q.op \in {"MailboxCreate", "GroupCreate"} /\ q.at = "addressKind"
           \/ q.op \in {"CatchAllSet", "GenerateKey"} /\ q.at \in {"replace", "apply"}
    PROVE  Learns(c)
<1>1. PICK i : req' = [req EXCEPT ![c] = [q EXCEPT !.id = i]]
  BY DEF domainID
<1>2. PICK n : n = [q EXCEPT !.id = i]
  OBVIOUS
<1>3. n.op = q.op /\ n.at = q.at
  BY <1>2 DEF Request
<1>4. Knows(n)'
  BY <1>3 DEF Knows, KeyFree, KeyGone, BatchJudged, UpdateJudged
<1> QED BY <1>1, <1>2, <1>4 DEF Learns

\* GroupGet reads the row of the group: its address and whether it allows external members.
LEMMA GroupGetLearns ==
    ASSUME IndInv, NEW c \in Client, NEW q \in Request, NEW g \in mail_groups,
           GroupGet(c, g, q),
           \/ q.op = "GroupAddMembers" /\ q.at = "hosted"
           \/ /\ q.op = "GroupUpdate"
              /\ q.at = IF ~q.flag /\ g.allow_external THEN "members" ELSE "update"
           \/ q.op \in {"GroupRemoveMember", "GroupSetMemberRole"} /\ q.at = "apply"
    PROVE  Learns(c)
<1>1. PICK n : n = [q EXCEPT !.key = g.email, !.id = g.id, !.ext = g.allow_external]
  OBVIOUS
<1>2. /\ n.op = q.op /\ n.at = q.at /\ n.flag = q.flag
      /\ n.key = g.email /\ n.id = g.id /\ n.ext = g.allow_external
  BY <1>1 DEF Request
<1>3. req' = [req EXCEPT ![c] = n] /\ UNCHANGED dbvars
  BY <1>1 DEF GroupGet
<1>4. \A h \in mail_groups : h.id = n.id => h = g
  BY <1>2 DEF IndInv, KeysUnique
<1>5. Knows(n)'
  BY <1>2, <1>3, <1>4 DEF Knows, KeyFree, KeyGone, BatchJudged, UpdateJudged, dbvars
<1> QED BY <1>3, <1>5 DEF Learns

\* Going on with the same inputs and readings at another label.
LEMMA GotoRecord ==
    ASSUME IndInv, NEW c \in Client, NEW l \in Label, Goto(c, l), NEW q, q = req[c]
    PROVE  \E n : /\ req' = [req EXCEPT ![c] = n] /\ n.at = l
                  /\ n.op = q.op /\ n.key = q.key /\ n.id = q.id /\ n.ext = q.ext
                  /\ n.flag = q.flag /\ n.hosted = q.hosted /\ n.todo = q.todo
<1>1. PICK n : n = [q EXCEPT !.at = l]
  OBVIOUS
<1>2. q \in Request
  BY StateOK DEF CallOK
<1>3. /\ n.at = l
      /\ n.op = q.op /\ n.key = q.key /\ n.id = q.id /\ n.ext = q.ext
      /\ n.flag = q.flag /\ n.hosted = q.hosted /\ n.todo = q.todo
  BY <1>1, <1>2 DEF Request
<1>4. req' = [req EXCEPT ![c] = n]
  BY <1>1, IndInvParts DEF Goto
<1> QED BY <1>3, <1>4

-----------------------------------------------------------------------------
(* The calls of one statement, and the statements after which a call returns. *)

\* A step that leaves the requests as they are.
LEMMA UnchangedLearns ==
    ASSUME IndInv, NEW c \in Client, req[c].op = "idle", CheckLabels(req[c]), UNCHANGED req
    PROVE  Learns(c)
<1>1. PICK q : q = req[c]
  OBVIOUS
<1>2. q.op = "idle" /\ q.at \notin {"notAGroup", "addressKind"}
  BY <1>1 DEF CheckLabels
<1>3. req' = [req EXCEPT ![c] = q]
  BY <1>1, IndInvParts
<1> QED BY <1>2, <1>3, PlainKnows DEF Learns

\* The calls of one statement.
LEMMA OneStatementLearns ==
    ASSUME IndInv, NEW c \in Client, CheckLabels(req[c]),
           DomainAdd(c) \/ DomainRemove(c) \/ SomePasswd(c) \/ SomeSetEnabled(c)
           \/ SomeForwardClear(c) \/ SomeAliasRemove(c) \/ RevokeKey(c)
    PROVE  Learns(c)
<1>1. UNCHANGED req /\ req[c].op = "idle"
  BY Zenon DEF DomainAdd, DomainRemove, SomePasswd, MailboxPasswd, SomeSetEnabled,
     MailboxSetEnabled, SomeForwardClear, ForwardClear, SomeAliasRemove, AliasRemove, RevokeKey,
     Free
<1> QED BY <1>1, UnchangedLearns

\* The statements after which the call returns.
LEMMA LastStatementLearns ==
    ASSUME NEW c \in Client,
           createMaildir(c) \/ MailboxRemoveSpool(c) \/ ForwardSetUpsert(c) \/ AliasAddInsert(c)
           \/ CatchAllReplace(c) \/ GroupCreateInsert(c) \/ GroupUpdateApply(c)
           \/ GroupDeleteLeaveGroups(c) \/ GroupRemoveMemberApply(c)
           \/ GroupSetMemberRoleApply(c) \/ GenerateKeyUpsert(c) \/ Abandon(c)
    PROVE  Learns(c)
<1>1. Return(c)
  BY Zenon DEF createMaildir, MailboxRemoveSpool, ForwardSetUpsert, AliasAddInsert,
     CatchAllReplace, GroupCreateInsert, GroupUpdateApply, GroupDeleteLeaveGroups,
     GroupRemoveMemberApply, GroupSetMemberRoleApply, GenerateKeyUpsert, Abandon
<1> QED BY <1>1, ReturnLearns

-----------------------------------------------------------------------------
(* The first statements of the longer calls.                                *)

\* The calls that begin with the id of their domain.
LEMMA DomainIDFirstLearns ==
    ASSUME IndInv, NEW c \in Client,
           MailboxAdd(c) \/ MailboxCreate(c) \/ AliasAdd(c) \/ GroupCreate(c) \/ CatchAllSet(c)
           \/ GenerateKey(c)
    PROVE  Learns(c)
<1>0. Idle \in Request
  BY IdleOK DEF CallOK
<1> USE DEF Label, AllOps, Source
<1>1. CASE MailboxAdd(c)
  <2>1. PICK e, p, q :
           /\ e \in Addr /\ p \in Password
           /\ q = [Idle EXCEPT !.op = "MailboxAdd", !.at = "notAGroup", !.key = e, !.pw = p]
           /\ domainID(c, q)
    BY <1>1 DEF MailboxAdd
  <2>2. q \in Request /\ q.op = "MailboxAdd" /\ q.at = "notAGroup"
    BY <1>0, <2>1 DEF Request
  <2> QED BY <2>1, <2>2, domainIDLearns
<1>2. CASE MailboxCreate(c)
  <2>1. PICK e, p, q :
           /\ e \in Addr /\ p \in Password
           /\ q = [Idle EXCEPT !.op = "MailboxCreate", !.at = "addressKind", !.key = e, !.pw = p]
           /\ domainID(c, q)
    BY <1>2 DEF MailboxCreate
  <2>2. q \in Request /\ q.op = "MailboxCreate" /\ q.at = "addressKind"
    BY <1>0, <2>1 DEF Request
  <2> QED BY <2>1, <2>2, domainIDLearns
<1>3. CASE AliasAdd(c)
  <2>1. PICK s, d, q :
           /\ s \in Addr /\ d \in Addr
           /\ q = [Idle EXCEPT !.op = "AliasAdd", !.at = "notAGroup", !.key = s, !.arg = d]
           /\ domainID(c, q)
    BY <1>3 DEF AliasAdd
  <2>2. q \in Request /\ q.op = "AliasAdd" /\ q.at = "notAGroup"
    BY <1>0, <2>1 DEF Request
  <2> QED BY <2>1, <2>2, domainIDLearns
<1>4. CASE GroupCreate(c)
  <2>1. PICK e, p, ext, q :
           /\ e \in Addr /\ p \in Policies /\ ext \in BOOLEAN
           /\ q = [Idle EXCEPT !.op = "GroupCreate", !.at = "addressKind",
                               !.key = e, !.policy = p, !.flag = ext]
           /\ domainID(c, q)
    BY <1>4 DEF GroupCreate
  <2>2. q \in Request /\ q.op = "GroupCreate" /\ q.at = "addressKind"
    BY <1>0, <2>1, InputAssumption DEF Request
  <2> QED BY <2>1, <2>2, domainIDLearns
<1>5. CASE CatchAllSet(c)
  <2>1. PICK dom, d, q :
           /\ dom \in Domain /\ d \in Addr \cup {None}
           /\ q = [Idle EXCEPT !.op = "CatchAllSet", !.at = "replace", !.key = dom, !.arg = d]
           /\ domainID(c, q)
    BY <1>5 DEF CatchAllSet
  <2>2. q \in Request /\ q.op = "CatchAllSet" /\ q.at = "replace"
    BY <1>0, <2>1 DEF Request
  <2> QED BY <2>1, <2>2, domainIDLearns
<1>6. CASE GenerateKey(c)
  <2>1. PICK d, q :
           /\ d \in Domain
           /\ q = [Idle EXCEPT !.op = "GenerateKey", !.at = "apply", !.key = d]
           /\ domainID(c, q)
    BY <1>6 DEF GenerateKey
  <2>2. q \in Request /\ q.op = "GenerateKey" /\ q.at = "apply"
    BY <1>0, <2>1 DEF Request
  <2> QED BY <2>1, <2>2, domainIDLearns
<1> QED BY <1>1, <1>2, <1>3, <1>4, <1>5, <1>6

\* ForwardSet has only looked whether the mailbox exists.
LEMMA ForwardSetLearns ==
    ASSUME IndInv, NEW c \in Client, ForwardSet(c)
    PROVE  Learns(c)
<1>0. Idle \in Request
  BY IdleOK DEF CallOK
<1>1. PICK e \in Addr, d \in Addr, keep \in BOOLEAN :
         req' = [req EXCEPT ![c] = [Idle EXCEPT !.op = "ForwardSet", !.at = "apply",
                                       !.key = e, !.arg = d, !.flag = keep]]
  BY DEF ForwardSet
<1>2. PICK q : q = [Idle EXCEPT !.op = "ForwardSet", !.at = "apply",
                                !.key = e, !.arg = d, !.flag = keep]
  OBVIOUS
<1>3. q.op = "ForwardSet" /\ q.at = "apply"
  BY <1>0, <1>2 DEF Request
<1> QED BY <1>1, <1>2, <1>3, PlainKnows DEF Learns

\* MailboxRemove has deleted the mailbox when it goes on to the memberships.
LEMMA MailboxRemoveLearns ==
    ASSUME IndInv, NEW c \in Client, MailboxRemove(c)
    PROVE  Learns(c)
<1>0. Idle \in Request
  BY IdleOK DEF CallOK
<1>1. PICK e, q :
         /\ e \in Addr
         /\ q = [Idle EXCEPT !.op = "MailboxRemove", !.at = "leaveGroups", !.key = e]
         /\ DeleteUser(e) /\ req' = [req EXCEPT ![c] = q]
  BY DEF MailboxRemove
<1>2. q.op = "MailboxRemove" /\ q.at = "leaveGroups" /\ q.key = e
  BY <1>0, <1>1 DEF Request
<1>3. ~IsUser(e)'
  BY <1>1 DEF DeleteUser, IsUser
<1>4. Knows(q)'
  BY <1>2, <1>3 DEF Knows, KeyFree, KeyGone, BatchJudged, UpdateJudged, IsUser
<1> QED BY <1>1, <1>4 DEF Learns

\* GroupDelete has deleted the group when it goes on to the memberships.
LEMMA GroupDeleteLearns ==
    ASSUME IndInv, NEW c \in Client, GroupDelete(c)
    PROVE  Learns(c)
<1>0. Idle \in Request
  BY IdleOK DEF CallOK
<1>1. PICK e, q :
         /\ e \in Addr
         /\ q = [Idle EXCEPT !.op = "GroupDelete", !.at = "leaveGroups", !.key = e]
         /\ DeleteGroup(e) /\ req' = [req EXCEPT ![c] = q]
  BY DEF GroupDelete
<1>2. q.op = "GroupDelete" /\ q.at = "leaveGroups" /\ q.key = e
  BY <1>0, <1>1 DEF Request
<1>3. ~IsGroup(e)'
  BY <1>1 DEF DeleteGroup, IsGroup
<1>4. Knows(q)'
  BY <1>2, <1>3 DEF Knows, KeyFree, KeyGone, BatchJudged, UpdateJudged, IsGroup
<1> QED BY <1>1, <1>4 DEF Learns

\* The calls that begin by reading the row of the group.
LEMMA GroupGetFirstLearns ==
    ASSUME IndInv, NEW c \in Client,
           GroupUpdate(c) \/ GroupAddMembers(c) \/ GroupRemoveMember(c) \/ GroupSetMemberRole(c)
    PROVE  Learns(c)
<1>0. Idle \in Request
  BY IdleOK DEF CallOK
<1> USE DEF Label, AllOps
<1>1. CASE GroupUpdate(c)
  <2>1. PICK g, p, ext, l, q :
           /\ g \in mail_groups /\ p \in Policies /\ ext \in BOOLEAN /\ l \in {"members", "update"}
           /\ l = IF ~ext /\ g.allow_external THEN "members" ELSE "update"
           /\ q = [Idle EXCEPT !.op = "GroupUpdate", !.policy = p, !.flag = ext, !.at = l]
           /\ GroupGet(c, g, q)
    BY <1>1 DEF GroupUpdate
  <2>2. p \in Policy /\ l \in Label
    BY <2>1, InputAssumption
  <2> HIDE DEF Label
  <2>3. q \in Request /\ q.op = "GroupUpdate" /\ q.flag = ext /\ q.at = l
    BY ZenonT(60), <1>0, <2>1, <2>2 DEF Request
  <2> QED BY <2>1, <2>3, GroupGetLearns
<1>2. CASE GroupAddMembers(c)
  <2>1. PICK g, b, r, q :
           /\ g \in mail_groups /\ b \in Batch /\ r \in Role
           /\ q = [Idle EXCEPT !.op = "GroupAddMembers", !.at = "hosted", !.todo = b, !.role = r]
           /\ GroupGet(c, g, q)
    BY <1>2 DEF GroupAddMembers
  <2>2. b \in Seq(Addr)
    <3>1. PICK n \in 1 .. MaxBatch : b \in [1 .. n -> Addr]
      BY <2>1 DEF Batch
    <3>2. n \in Nat
      BY <3>1, BatchAssumption
    <3> QED BY <3>1, <3>2
  <2>3. q \in Request /\ q.op = "GroupAddMembers" /\ q.at = "hosted"
    BY <1>0, <2>1, <2>2 DEF Request
  <2> QED BY <2>1, <2>3, GroupGetLearns
<1>3. CASE GroupRemoveMember(c)
  <2>1. PICK g, a, q :
           /\ g \in mail_groups /\ a \in Addr
           /\ q = [Idle EXCEPT !.op = "GroupRemoveMember", !.at = "apply", !.arg = a]
           /\ GroupGet(c, g, q)
    BY <1>3 DEF GroupRemoveMember
  <2>2. q \in Request /\ q.op = "GroupRemoveMember" /\ q.at = "apply"
    BY <1>0, <2>1 DEF Request
  <2> QED BY <2>1, <2>2, GroupGetLearns
<1>4. CASE GroupSetMemberRole(c)
  <2>1. PICK g, a, r, q :
           /\ g \in mail_groups /\ a \in Addr /\ r \in Role
           /\ q = [Idle EXCEPT !.op = "GroupSetMemberRole", !.at = "apply", !.arg = a, !.role = r]
           /\ GroupGet(c, g, q)
    BY <1>4 DEF GroupSetMemberRole
  <2>2. q \in Request /\ q.op = "GroupSetMemberRole" /\ q.at = "apply"
    BY <1>0, <2>1 DEF Request
  <2> QED BY <2>1, <2>2, GroupGetLearns
<1> QED BY <1>1, <1>2, <1>3, <1>4

-----------------------------------------------------------------------------
(* The statements in the middle of a call, while no other call runs.        *)

\* notAGroup lets a call go on that has found no group at its address.
LEMMA notAGroupLearns ==
    ASSUME IndInv, NEW c \in Client, CheckLabels(req[c]), notAGroup(c)
    PROVE  Learns(c)
<1>1. PICK q : q = req[c]
  OBVIOUS
<1>2. q.op \in {"MailboxAdd", "AliasAdd"} /\ UNCHANGED dbvars
  BY <1>1 DEF notAGroup, CheckLabels
<1>3. Return(c) \/ (~IsGroup(q.key) /\ Goto(c, "insert"))
  BY <1>1 DEF notAGroup
<1>4. CASE ~IsGroup(q.key) /\ Goto(c, "insert")
  <2>1. PICK n : /\ req' = [req EXCEPT ![c] = n] /\ n.at = "insert"
                 /\ n.op = q.op /\ n.key = q.key
    BY <1>1, <1>4, GotoRecord DEF Label
  <2>2. Knows(n)'
    BY <1>2, <1>4, <2>1
       DEF Knows, KeyFree, KeyGone, BatchJudged, UpdateJudged, IsGroup, dbvars
  <2> QED BY <2>1, <2>2 DEF Learns
<1> QED BY <1>3, <1>4, ReturnLearns

\* CheckAddressKind lets a call go on whose address is free in the sense of its operation.
LEMMA CheckAddressKindLearns ==
    ASSUME IndInv, NEW c \in Client, CheckLabels(req[c]), CheckAddressKind(c)
    PROVE  Learns(c)
<1>1. PICK q : q = req[c]
  OBVIOUS
<1>2. q.op \in {"MailboxCreate", "GroupCreate"} /\ UNCHANGED dbvars
  BY <1>1 DEF CheckAddressKind, CheckLabels
<1>3. Return(c) \/ (AddressKind(q.key) \notin Taken(q.op) /\ Goto(c, "insert"))
  BY <1>1 DEF CheckAddressKind
<1>4. CASE AddressKind(q.key) \notin Taken(q.op) /\ Goto(c, "insert")
  <2>1. PICK n : /\ req' = [req EXCEPT ![c] = n] /\ n.at = "insert"
                 /\ n.op = q.op /\ n.key = q.key
    BY <1>1, <1>4, GotoRecord DEF Label
  <2>2. /\ ~IsGroup(q.key)
        /\ q.op = "GroupCreate" => ~IsUser(q.key) /\ ~IsAlias(q.key)
    BY <1>2, <1>4 DEF AddressKind, Taken
  <2>3. Knows(n)'
    BY <1>2, <2>1, <2>2
       DEF Knows, KeyFree, KeyGone, BatchJudged, UpdateJudged, IsGroup, IsUser, IsAlias, dbvars
  <2> QED BY <2>1, <2>3 DEF Learns
<1> QED BY <1>3, <1>4, ReturnLearns

\* After the INSERT of a mailbox the call has nothing more to rely on.
LEMMA MailboxInsertLearns ==
    ASSUME IndInv, NEW c \in Client, MailboxAddUpsert(c) \/ MailboxCreateInsert(c)
    PROVE  Learns(c)
<1>1. PICK q : q = req[c]
  OBVIOUS
<1>2. Return(c) \/ (q.op \in {"MailboxAdd", "MailboxCreate"} /\ Goto(c, "createMaildir"))
  BY <1>1 DEF MailboxAddUpsert, MailboxCreateInsert, At
<1>3. CASE q.op \in {"MailboxAdd", "MailboxCreate"} /\ Goto(c, "createMaildir")
  <2>1. PICK n : /\ req' = [req EXCEPT ![c] = n] /\ n.at = "createMaildir" /\ n.op = q.op
    BY <1>1, <1>3, GotoRecord DEF Label
  <2>2. Knows(n)'
    BY <1>3, <2>1 DEF Knows, KeyFree, KeyGone, BatchJudged, UpdateJudged
  <2> QED BY <2>1, <2>2 DEF Learns
<1> QED BY <1>2, <1>3, ReturnLearns

\* Nobody creates the mailbox again while MailboxRemove deletes its memberships.
LEMMA MailboxRemoveLeaveGroupsLearns ==
    ASSUME IndInv, NEW c \in Client, Knows(req[c]), MailboxRemoveLeaveGroups(c)
    PROVE  Learns(c)
<1>1. PICK q : q = req[c]
  OBVIOUS
<1>2. q.op = "MailboxRemove" /\ Goto(c, "removeAll") /\ MemberTableOnly
  BY <1>1 DEF MailboxRemoveLeaveGroups, DeleteMemberships, At
<1>3. ~IsUser(q.key)
  BY <1>1, <1>2 DEF Knows, KeyGone
<1>4. PICK n : /\ req' = [req EXCEPT ![c] = n] /\ n.at = "removeAll"
               /\ n.op = q.op /\ n.key = q.key
  BY <1>1, <1>2, GotoRecord DEF Label
<1>5. Knows(n)'
  BY <1>2, <1>3, <1>4
     DEF Knows, KeyFree, KeyGone, BatchJudged, UpdateJudged, IsUser, MemberTableOnly
<1> QED BY <1>4, <1>5 DEF Learns

\* GroupUpdate goes on to close the group only when none of its members is external.
LEMMA GroupUpdateMembersLearns ==
    ASSUME IndInv, NEW c \in Client, Knows(req[c]), GroupUpdateMembers(c)
    PROVE  Learns(c)
<1>1. PICK q : q = req[c]
  OBVIOUS
<1>2. /\ q.op = "GroupUpdate" /\ UNCHANGED dbvars
      /\ \A g \in mail_groups : g.id = q.id => g.email = q.key /\ g.allow_external = q.ext
  BY <1>1 DEF GroupUpdateMembers, At, Knows, UpdateJudged
<1>3. \/ Return(c)
      \/ /\ Goto(c, "update")
         /\ \E g \in mail_groups :
               /\ g.email = q.key
               /\ \A m \in mail_group_members :
                     m.group_id = g.id => MemberKind(m.member) # "external"
  BY <1>1 DEF GroupUpdateMembers
<1>4. ASSUME Goto(c, "update"), NEW g \in mail_groups, g.email = q.key,
             \A m \in mail_group_members :
                m.group_id = g.id => MemberKind(m.member) # "external"
      PROVE  Learns(c)
  <2>1. \A m \in mail_group_members : m.group_id = q.id => MemberKind(m.member) # "external"
    <3> SUFFICES ASSUME NEW m \in mail_group_members, m.group_id = q.id
                 PROVE  MemberKind(m.member) # "external"
      OBVIOUS
    <3>1. KeysUnique /\ GroupId(q.id)
      BY DEF IndInv, HomedRows
    <3>2. g.id = q.id
      BY <1>2, <1>4, <3>1 DEF GroupId, KeysUnique
    <3> QED BY <1>4, <3>2
  <2>2. PICK n : /\ req' = [req EXCEPT ![c] = n] /\ n.at = "update"
                 /\ n.op = q.op /\ n.key = q.key /\ n.id = q.id /\ n.ext = q.ext
    BY <1>1, <1>4, GotoRecord DEF Label
  <2>3. UpdateJudged(n)'
    BY <1>2, <2>1, <2>2
       DEF UpdateJudged, MemberKind, AddressKind, IsUser, IsGroup, IsAlias, Hosted, dbvars
  <2>4. Knows(n)'
    BY <1>2, <2>2, <2>3 DEF Knows, KeyFree, KeyGone, BatchJudged
  <2> QED BY <2>2, <2>4 DEF Learns
<1> QED BY <1>3, <1>4, ReturnLearns

\* hostedDomains has the names of the domains, and nobody changes them while it is used.
LEMMA hostedDomainsLearns ==
    ASSUME IndInv, NEW c \in Client, Knows(req[c]), hostedDomains(c)
    PROVE  Learns(c)
<1>1. PICK q : q = req[c]
  OBVIOUS
<1>2. /\ q.op = "GroupAddMembers" /\ UNCHANGED dbvars
      /\ \A g \in mail_groups : g.id = q.id => g.email = q.key /\ g.allow_external = q.ext
  BY <1>1 DEF hostedDomains, At, Knows, BatchJudged
<1>3. PICK h : h = {r.name : r \in virtual_domains}
  OBVIOUS
<1>4. PICK n : n = [q EXCEPT !.hosted = h, !.at = "check"]
  OBVIOUS
<1>5. q \in Request
  BY <1>1, StateOK DEF CallOK
<1>6. /\ n.op = q.op /\ n.at = "check" /\ n.key = q.key /\ n.id = q.id /\ n.ext = q.ext
      /\ n.hosted = h
  BY <1>4, <1>5 DEF Request
<1>7. req' = [req EXCEPT ![c] = n]
  BY <1>1, <1>3, <1>4, IndInvParts DEF hostedDomains
<1>8. Knows(n)'
  BY <1>2, <1>3, <1>6 DEF Knows, KeyFree, KeyGone, BatchJudged, UpdateJudged, dbvars
<1> QED BY <1>7, <1>8 DEF Learns

\* On to the next address: what was read before the batch is still so.
LEMMA NextAddressLearns ==
    ASSUME IndInv, NEW c \in Client, Knows(req[c]), NextAddress(c),
           req[c].op = "GroupAddMembers", req[c].at # "hosted", MemberTableOnly
    PROVE  Learns(c)
<1>1. PICK q : q = req[c]
  OBVIOUS
<1>2. /\ q.op = "GroupAddMembers"
      /\ \A g \in mail_groups : g.id = q.id => g.email = q.key /\ g.allow_external = q.ext
      /\ q.hosted = {r.name : r \in virtual_domains}
  BY <1>1 DEF Knows, BatchJudged
<1>3. CASE Len(q.todo) > 1
  <2>1. PICK t : t = Tail(q.todo)
    OBVIOUS
  <2>2. PICK n : n = [q EXCEPT !.todo = t, !.at = "check"]
    OBVIOUS
  <2>3. q \in Request
    BY <1>1, StateOK DEF CallOK
  <2>4. /\ n.op = q.op /\ n.at = "check" /\ n.key = q.key /\ n.id = q.id /\ n.ext = q.ext
        /\ n.hosted = q.hosted
    BY <2>2, <2>3 DEF Request
  <2>5. req' = [req EXCEPT ![c] = n]
    BY <1>1, <1>3, <2>1, <2>2 DEF NextAddress
  <2>6. Knows(n)'
    BY <1>2, <2>4
       DEF Knows, KeyFree, KeyGone, BatchJudged, UpdateJudged, MemberTableOnly
  <2> QED BY <2>5, <2>6 DEF Learns
<1>4. CASE ~(Len(q.todo) > 1)
  BY <1>1, <1>4, ReturnLearns DEF NextAddress, Return
<1> QED BY <1>3, <1>4

\* GroupAddMembersCheck goes on to insert an address that is admissible.
LEMMA GroupAddMembersCheckLearns ==
    ASSUME IndInv, NEW c \in Client, Knows(req[c]), GroupAddMembersCheck(c)
    PROVE  Learns(c)
<1>1. PICK q : q = req[c]
  OBVIOUS
<1>2. q.op = "GroupAddMembers" /\ q.at = "check" /\ UNCHANGED dbvars
  BY <1>1 DEF GroupAddMembersCheck, At
<1>3. /\ \A g \in mail_groups : g.id = q.id => g.email = q.key /\ g.allow_external = q.ext
      /\ q.hosted = {r.name : r \in virtual_domains}
  BY <1>1, <1>2 DEF Knows, BatchJudged
<1>4. MemberTableOnly
  BY <1>2 DEF MemberTableOnly, dbvars
<1>5. NextAddress(c) \/ (Admissible(q, Head(q.todo)) /\ Goto(c, "insert"))
  BY <1>1 DEF GroupAddMembersCheck
<1>6. CASE Admissible(q, Head(q.todo)) /\ Goto(c, "insert")
  <2>1. PICK n : /\ req' = [req EXCEPT ![c] = n] /\ n.at = "insert"
                 /\ n.op = q.op /\ n.key = q.key /\ n.id = q.id /\ n.ext = q.ext
                 /\ n.hosted = q.hosted /\ n.todo = q.todo
    BY <1>1, <1>6, GotoRecord DEF Label
  <2>2. BatchJudged(n)'
    BY <1>2, <1>3, <1>6, <2>1
       DEF BatchJudged, Admissible, AddressKind, IsUser, IsGroup, IsAlias, dbvars
  <2>3. Knows(n)'
    BY <1>2, <2>1, <2>2 DEF Knows, KeyFree, KeyGone, UpdateJudged
  <2> QED BY <2>1, <2>3 DEF Learns
<1> QED BY <1>1, <1>2, <1>4, <1>5, <1>6, NextAddressLearns

\* GroupAddMembersInsert touches only the members.
LEMMA GroupAddMembersInsertLearns ==
    ASSUME IndInv, NEW c \in Client, Knows(req[c]), GroupAddMembersInsert(c)
    PROVE  Learns(c)
<1>1. req[c].op = "GroupAddMembers" /\ req[c].at # "hosted"
  BY DEF GroupAddMembersInsert, At
<1>2. Return(c) \/ (MemberTableOnly /\ NextAddress(c))
  BY DEF GroupAddMembersInsert, UpsertMember
<1> QED BY <1>1, <1>2, ReturnLearns, NextAddressLearns

\* Whatever its step, a call that runs alone knows what it may rely on.
LEMMA StepLearns ==
    ASSUME IndInv, NEW c \in Client, Knows(req[c]), Step(c)
    PROVE  Learns(c)
<1>0. CheckLabels(req[c])
  BY DEF Knows, KeyFree, CheckLabels
<1>1. CASE DomainAdd(c) \/ DomainRemove(c) \/ SomePasswd(c) \/ SomeSetEnabled(c)
           \/ SomeForwardClear(c) \/ SomeAliasRemove(c) \/ RevokeKey(c)
  BY <1>0, <1>1, OneStatementLearns
<1>2. CASE MailboxAdd(c) \/ MailboxCreate(c) \/ AliasAdd(c) \/ GroupCreate(c) \/ CatchAllSet(c)
           \/ GenerateKey(c)
  BY <1>2, DomainIDFirstLearns
<1>3. CASE GroupUpdate(c) \/ GroupAddMembers(c) \/ GroupRemoveMember(c) \/ GroupSetMemberRole(c)
  BY <1>3, GroupGetFirstLearns
<1>4. CASE ForwardSet(c) \/ MailboxRemove(c) \/ GroupDelete(c) \/ MailboxRemoveLeaveGroups(c)
  BY <1>4, ForwardSetLearns, MailboxRemoveLearns, GroupDeleteLearns,
     MailboxRemoveLeaveGroupsLearns
<1>5. CASE notAGroup(c) \/ CheckAddressKind(c) \/ MailboxAddUpsert(c) \/ MailboxCreateInsert(c)
           \/ GroupUpdateMembers(c)
  BY <1>0, <1>5, notAGroupLearns, CheckAddressKindLearns, MailboxInsertLearns, GroupUpdateMembersLearns
<1>6. CASE hostedDomains(c) \/ GroupAddMembersCheck(c) \/ GroupAddMembersInsert(c)
  BY <1>6, hostedDomainsLearns, GroupAddMembersCheckLearns, GroupAddMembersInsertLearns
<1>7. CASE createMaildir(c) \/ MailboxRemoveSpool(c) \/ ForwardSetUpsert(c) \/ AliasAddInsert(c)
           \/ CatchAllReplace(c) \/ GroupCreateInsert(c) \/ GroupUpdateApply(c)
           \/ GroupDeleteLeaveGroups(c) \/ GroupRemoveMemberApply(c)
           \/ GroupSetMemberRoleApply(c) \/ GenerateKeyUpsert(c) \/ Abandon(c)
  BY <1>7, LastStatementLearns
<1> QED BY <1>1, <1>2, <1>3, <1>4, <1>5, <1>6, <1>7
   DEF Step, Begin, Continue, SomePasswd, SomeSetEnabled, SomeForwardClear, SomeAliasRemove

-----------------------------------------------------------------------------
(* The statements that decide what an address is.                           *)

\* The statements after which an address may be something else.
Loud(c) ==
    \/ DomainAdd(c) \/ DomainRemove(c) \/ MailboxAddUpsert(c) \/ MailboxCreateInsert(c)
    \/ MailboxRemove(c) \/ AliasAddInsert(c) \/ GroupCreateInsert(c) \/ GroupUpdateApply(c)
    \/ GroupDelete(c) \/ GroupAddMembersInsert(c)

\* A statement on none of the tables that decide.
LEMMA OtherTablesQuiet ==
    ASSUME \/ UNCHANGED dbvars \/ ForwardTableOnly \/ KeyTableOnly
           \/ MemberTableOnly /\ mail_group_members' \subseteq mail_group_members
           \/ AliasTableOnly /\ \A a \in virtual_aliases' :
                                   a \in virtual_aliases \/ a.source \in Domain
    PROVE  Quiet
<1> USE DEF Quiet, IsUser
<1>1. CASE UNCHANGED dbvars \/ ForwardTableOnly \/ KeyTableOnly
  BY <1>1 DEF dbvars, ForwardTableOnly, KeyTableOnly
<1>2. CASE MemberTableOnly /\ mail_group_members' \subseteq mail_group_members
  BY <1>2 DEF MemberTableOnly
<1>3. CASE AliasTableOnly /\ \A a \in virtual_aliases' :
                                a \in virtual_aliases \/ a.source \in Domain
  BY <1>3 DEF AliasTableOnly
<1> QED BY <1>1, <1>2, <1>3

\* An UPDATE of a mailbox keeps its address.
LEMMA UpdateUserQuiet ==
    ASSUME IndInv, NEW e \in Addr,
           \/ \E p \in Password : UpdatePassword(e, p)
           \/ \E b \in BOOLEAN : UpdateEnabled(e, b)
    PROVE  Quiet
<1>1. \A u \in virtual_users : u \in UserRow
  BY DEF IndInv, TypeOK, DBTypeOK
<1>2. ASSUME NEW p \in Password, UpdatePassword(e, p) PROVE Quiet
  <2> DEFINE new(u) == IF u.email = e THEN [u EXCEPT !.password = p] ELSE u
  <2>1. virtual_users' = {new(u) : u \in virtual_users} /\ UserTableOnly
    BY <1>2 DEF UpdatePassword
  <2>2. \A u \in virtual_users : new(u).email = u.email
    BY <1>1 DEF UserRow
  <2> HIDE DEF new
  <2> QED BY <2>1, <2>2 DEF Quiet, IsUser, UserTableOnly
<1>3. ASSUME NEW b \in BOOLEAN, UpdateEnabled(e, b) PROVE Quiet
  <2> DEFINE new(u) == IF u.email = e THEN [u EXCEPT !.enabled = b] ELSE u
  <2>1. virtual_users' = {new(u) : u \in virtual_users} /\ UserTableOnly
    BY <1>3 DEF UpdateEnabled
  <2>2. \A u \in virtual_users : new(u).email = u.email
    BY <1>1 DEF UserRow
  <2> HIDE DEF new
  <2> QED BY <2>1, <2>2 DEF Quiet, IsUser, UserTableOnly
<1> QED BY <1>2, <1>3

\* An UPDATE of the role keeps who is in the group.
LEMMA UpdateRoleQuiet ==
    ASSUME IndInv, NEW i, NEW a, NEW r \in Role, UpdateRole(i, a, r)
    PROVE  Quiet
<1> DEFINE new(m) == IF m.group_id = i /\ m.member = a THEN [m EXCEPT !.role = r] ELSE m
<1>1. mail_group_members' = {new(m) : m \in mail_group_members} /\ MemberTableOnly
  BY DEF UpdateRole
<1>2. \A m \in mail_group_members : new(m).group_id = m.group_id /\ new(m).member = m.member
  BY DEF IndInv, TypeOK, DBTypeOK, MemberRow
<1> HIDE DEF new
<1> QED BY <1>1, <1>2 DEF Quiet, IsUser, MemberTableOnly

\* Every other statement is quiet.
LEMMA StepQuiet ==
    ASSUME IndInv, NEW c \in Client, Step(c)
    PROVE  Quiet \/ Loud(c)
<1>1. CASE notAGroup(c) \/ CheckAddressKind(c) \/ createMaildir(c) \/ MailboxRemoveSpool(c)
           \/ MailboxAdd(c) \/ MailboxCreate(c) \/ AliasAdd(c) \/ GroupCreate(c)
           \/ CatchAllSet(c) \/ GenerateKey(c) \/ ForwardSet(c) \/ Abandon(c)
  <2>1. UNCHANGED dbvars
    BY <1>1, Zenon DEF notAGroup, CheckAddressKind, createMaildir, MailboxRemoveSpool, MailboxAdd,
       MailboxCreate, AliasAdd, GroupCreate, CatchAllSet, GenerateKey, ForwardSet, Abandon,
       domainID
  <2> QED BY <2>1, OtherTablesQuiet
<1>2. CASE GroupUpdate(c) \/ GroupUpdateMembers(c) \/ GroupAddMembers(c) \/ hostedDomains(c)
           \/ GroupAddMembersCheck(c) \/ GroupRemoveMember(c) \/ GroupSetMemberRole(c)
  <2>1. UNCHANGED dbvars
    BY <1>2, Zenon DEF GroupUpdate, GroupUpdateMembers, GroupAddMembers, hostedDomains,
       GroupAddMembersCheck, GroupRemoveMember, GroupSetMemberRole, GroupGet
  <2> QED BY <2>1, OtherTablesQuiet
<1>3. CASE SomePasswd(c) \/ SomeSetEnabled(c)
  BY <1>3, UpdateUserQuiet DEF SomePasswd, MailboxPasswd, SomeSetEnabled, MailboxSetEnabled
<1>4. CASE ForwardSetUpsert(c) \/ SomeForwardClear(c) \/ GenerateKeyUpsert(c) \/ RevokeKey(c)
  <2>1. UNCHANGED dbvars \/ ForwardTableOnly \/ KeyTableOnly
    BY <1>4 DEF ForwardSetUpsert, UpsertForward, SomeForwardClear, ForwardClear, DeleteForward,
       GenerateKeyUpsert, UpsertKey, RevokeKey, DeleteKey
  <2> QED BY <2>1, OtherTablesQuiet
<1>5. CASE SomeAliasRemove(c)
  BY <1>5, OtherTablesQuiet DEF SomeAliasRemove, AliasRemove, DeleteAlias
<1>6. CASE CatchAllReplace(c)
  <2>1. PICK q : q = req[c]
    OBVIOUS
  <2>2. q.key \in Domain
    BY <1>6, <2>1, StateOK DEF CallOK, InputsOK, CatchAllReplace, At
  <2>3. PICK i, a : i = q.id /\ a = q.arg
    OBVIOUS
  <2>4. UNCHANGED dbvars \/ DeleteSource(q.key) \/ ReplaceCatchAll(q.key, a, i)
    BY <1>6, <2>1, <2>3 DEF CatchAllReplace
  <2>5. CASE DeleteSource(q.key)
    BY <2>5, OtherTablesQuiet DEF DeleteSource
  <2>6. CASE ReplaceCatchAll(q.key, a, i)
    <3>1. PICK row : row = [source |-> q.key, destination |-> a, domain_id |-> i]
      OBVIOUS
    <3>2. row.source \in Domain
      BY <2>2, <3>1
    <3>3. /\ virtual_aliases' = {b \in virtual_aliases : b.source # q.key} \cup {row}
          /\ AliasTableOnly
      BY <2>6, <3>1 DEF ReplaceCatchAll
    <3> QED BY <3>2, <3>3, OtherTablesQuiet
  <2> QED BY <2>4, <2>5, <2>6, OtherTablesQuiet
<1>7. CASE MailboxRemoveLeaveGroups(c) \/ GroupDeleteLeaveGroups(c) \/ GroupRemoveMemberApply(c)
  <2>1. MemberTableOnly /\ mail_group_members' \subseteq mail_group_members
    BY <1>7 DEF MailboxRemoveLeaveGroups, GroupDeleteLeaveGroups, GroupRemoveMemberApply,
       DeleteMemberships, DeleteMember
  <2> QED BY <2>1, OtherTablesQuiet
<1>8. CASE GroupSetMemberRoleApply(c)
  <2>1. PICK q : q = req[c]
    OBVIOUS
  <2>2. q.role \in Role
    BY <2>1, StateOK DEF CallOK, Request
  <2> QED BY <1>8, <2>1, <2>2, UpdateRoleQuiet DEF GroupSetMemberRoleApply
<1> QED BY <1>1, <1>2, <1>3, <1>4, <1>5, <1>6, <1>7, <1>8
   DEF Step, Begin, Continue, Loud, SomePasswd, SomeSetEnabled, SomeForwardClear, SomeAliasRemove

-----------------------------------------------------------------------------
(* One call at a time.                                                      *)

OneRunning ==
    \A c, d \in Client : req[c].op # "idle" /\ req[d].op # "idle" => c = d

\* The invariant of calls that do not overlap.
SerialInv == IndInv /\ OneRunning /\ \A c \in Client : Knows(req[c])

\* A step without overlap.
Serial == \A c \in Client : req[c].op # "idle" => Continue(c) \/ Abandon(c)

\* The step is one of a client beside which none has a call running.
Alone(c) == \A d \in Client : d # c => req[d].op = "idle" /\ req'[d] = req[d]

\* A call begins where none is running.
LEMMA BeginsIdle ==
    ASSUME NEW c \in Client, Begin(c) PROVE req[c].op = "idle"
<1>1. CASE DomainAdd(c) \/ DomainRemove(c) \/ MailboxAdd(c) \/ MailboxCreate(c)
           \/ MailboxRemove(c) \/ SomePasswd(c) \/ SomeSetEnabled(c) \/ ForwardSet(c)
           \/ SomeForwardClear(c) \/ AliasAdd(c)
  BY <1>1, Zenon DEF Free, DomainAdd, DomainRemove, MailboxAdd, MailboxCreate, MailboxRemove,
     SomePasswd, MailboxPasswd, SomeSetEnabled, MailboxSetEnabled, ForwardSet, SomeForwardClear,
     ForwardClear, AliasAdd
<1>2. CASE SomeAliasRemove(c) \/ CatchAllSet(c) \/ GroupCreate(c) \/ GroupUpdate(c)
           \/ GroupDelete(c) \/ GroupAddMembers(c) \/ GroupRemoveMember(c)
           \/ GroupSetMemberRole(c) \/ GenerateKey(c) \/ RevokeKey(c)
  BY <1>2, Zenon DEF Free, SomeAliasRemove, AliasRemove, CatchAllSet, GroupCreate, GroupUpdate,
     GroupDelete, GroupAddMembers, GroupRemoveMember, GroupSetMemberRole, GenerateKey, RevokeKey
<1> QED BY <1>1, <1>2
   DEF Begin, SomePasswd, SomeSetEnabled, SomeForwardClear, SomeAliasRemove

\* The calls of a single client never overlap.
THEOREM OneCallerNeverOverlaps ==
    ASSUME \A c, d \in Client : c = d
    PROVE  Spec => NoOverlap
<1>1. [Next]_vars => [Serial]_vars
  <2> SUFFICES ASSUME Next, NEW c \in Client, req[c].op # "idle"
               PROVE  Continue(c) \/ Abandon(c)
    BY DEF Serial
  <2>1. PICK d \in Client : Step(d)
    BY DEF Next
  <2>2. d = c
    OBVIOUS
  <2> QED BY <2>1, <2>2, BeginsIdle DEF Step
<1>2. [][Next]_vars => [][Serial]_vars
  BY <1>1, PTL
<1> QED BY <1>2 DEF Spec, NoOverlap, Serial

\* Without overlap the client that steps is alone.
LEMMA SerialStep ==
    ASSUME SerialInv, Next, Serial
    PROVE  \E c \in Client : Step(c) /\ Alone(c)
<1>1. TypeOK
  BY DEF SerialInv, IndInv
<1>2. CASE \E c \in Client : req[c].op # "idle"
  <2>1. PICK c \in Client : req[c].op # "idle"
    BY <1>2
  <2>2. Step(c)
    BY <2>1 DEF Serial, Step
  <2>3. \A d \in Client : d # c => req[d].op = "idle"
    BY <2>1 DEF SerialInv, OneRunning
  <2>4. \A d \in Client : d # c => req'[d] = req[d]
    BY <1>1, <2>2, OwnCallOnly
  <2> QED BY <2>2, <2>3, <2>4 DEF Alone
<1>3. CASE ~\E c \in Client : req[c].op # "idle"
  <2>1. PICK c \in Client : Step(c)
    BY DEF Next
  <2>2. \A d \in Client : d # c => req'[d] = req[d]
    BY <1>1, <2>1, OwnCallOnly
  <2> QED BY <1>3, <2>1, <2>2 DEF Alone
<1> QED BY <1>2, <1>3

\* A call that is not running knows nothing that a step of another could falsify.
LEMMA AloneKnows ==
    ASSUME SerialInv, NEW c \in Client, Step(c), Alone(c)
    PROVE  \A d \in Client : Knows(req[d])'
<1>0. req \in [Client -> Request]
  BY IndInvParts DEF SerialInv
<1>1. PICK n : req' = [req EXCEPT ![c] = n] /\ Knows(n)'
  BY StepLearns DEF SerialInv, Learns
<1>2. ASSUME NEW d \in Client PROVE Knows(req[d])'
  <2>1. PICK p : p = req'[d]
    OBVIOUS
  <2>2. CASE d = c
    <3>1. p = n
      BY <1>0, <1>1, <2>1, <2>2
    <3>2. Knows(p)'
      BY <1>1, <3>1
    <3> QED BY <2>1, <3>2 DEF Knows, KeyFree, KeyGone, BatchJudged, UpdateJudged
  <2>3. CASE d # c
    <3>1. PICK q : q = req[d]
      OBVIOUS
    <3>2. p = q /\ q.op = "idle" /\ Knows(q)
      BY <2>1, <2>3, <3>1 DEF Alone, SerialInv
    <3>3. Knows(p)'
      BY <3>2, PlainKnows DEF Knows, KeyFree
    <3> QED BY <2>1, <3>3 DEF Knows, KeyFree, KeyGone, BatchJudged, UpdateJudged
  <2> QED BY <2>2, <2>3
<1> QED BY <1>2

\* Calls that do not overlap keep what each of them knows.
LEMMA SerialNextOK == SerialInv /\ [Next]_vars /\ [Serial]_vars => SerialInv'
<1> SUFFICES ASSUME SerialInv, [Next]_vars, [Serial]_vars PROVE SerialInv'
  OBVIOUS
<1>1. IndInv'
  BY NextOK DEF SerialInv
<1>2. CASE UNCHANGED vars
  <2>1. UNCHANGED << dbvars, req >>
    BY <1>2 DEF vars
  <2>2. ASSUME NEW d \in Client PROVE Knows(req[d])'
    <3>1. PICK p : p = req[d]
      OBVIOUS
    <3>2. p = req'[d] /\ Knows(p)
      BY <2>1, <3>1 DEF SerialInv
    <3>3. Knows(p)'
      BY <2>1, <3>2 DEF Knows, KeyFree, KeyGone, BatchJudged, UpdateJudged, IsUser, IsGroup,
         IsAlias, Hosted, MemberKind, Admissible, AddressKind, dbvars
    <3> QED BY <3>2, <3>3 DEF Knows, KeyFree, KeyGone, BatchJudged, UpdateJudged
  <2> QED BY <1>1, <2>1, <2>2 DEF SerialInv, OneRunning
<1>3. CASE Next /\ Serial
  <2>1. PICK c \in Client : Step(c) /\ Alone(c)
    BY <1>3, SerialStep
  <2>2. OneRunning'
    BY <2>1 DEF OneRunning, Alone
  <2>3. \A d \in Client : Knows(req[d])'
    BY <2>1, AloneKnows
  <2> QED BY <1>1, <2>2, <2>3 DEF SerialInv
<1> QED BY <1>2, <1>3

\* Nothing runs in the beginning.
LEMMA SerialInitOK == Init => SerialInv
<1> SUFFICES ASSUME Init PROVE SerialInv
  OBVIOUS
<1>1. \A c \in Client : req[c] = Idle
  BY DEF Init
<1>2. \A c \in Client : req[c].op = "idle"
  BY <1>1 DEF Idle
<1> QED BY <1>1, <1>2, InitOK, IdleKnows DEF SerialInv, OneRunning

\* What a running call has read stays so until it returns, when calls do not overlap.
LEMMA SerialKept == Spec /\ NoOverlap => []SerialInv
<1>1. NoOverlap <=> [][Serial]_vars
  BY DEF NoOverlap, Serial
<1> QED BY <1>1, SerialInitOK, SerialNextOK, PTL DEF Spec

-----------------------------------------------------------------------------
(* What calls that do not overlap guarantee.                                *)

\* The INSERT of a mailbox, or no statement at all: the address of the call is the only new
\* one.
LEMMA MailboxInsertRows ==
    ASSUME IndInv, NEW c \in Client, MailboxAddUpsert(c) \/ MailboxCreateInsert(c)
    PROVE  /\ UNCHANGED << virtual_domains, virtual_aliases, mail_groups, mail_group_members >>
           /\ req[c].op \in {"MailboxAdd", "MailboxCreate"} /\ req[c].at = "insert"
           /\ \A e : IsUser(e) => IsUser(e)'
           /\ \A e : IsUser(e)' => IsUser(e) \/ e = req[c].key
<1>1. PICK q : q = req[c]
  OBVIOUS
<1>2. PICK e \in Addr, i \in Nat, p \in Password : e = q.key /\ i = q.id /\ p = q.pw
  BY <1>1, StateOK DEF CallOK, Request, InputsOK, MailboxAddUpsert, MailboxCreateInsert, At
<1>3. q.op \in {"MailboxAdd", "MailboxCreate"} /\ q.at = "insert"
  BY <1>1 DEF MailboxAddUpsert, MailboxCreateInsert, At
<1>4. InsertUser(e, i, p) \/ UpdatePassword(e, p) \/ UNCHANGED dbvars
  BY <1>1, <1>2 DEF MailboxAddUpsert, MailboxCreateInsert, UpsertUser
<1>5. CASE InsertUser(e, i, p)
  <2>1. PICK row : row = [email |-> e, domain_id |-> i, password |-> p, enabled |-> TRUE]
    OBVIOUS
  <2>2. row.email = e /\ virtual_users' = virtual_users \cup {row} /\ UserTableOnly
    BY <1>5, <2>1 DEF InsertUser
  <2> QED BY <1>1, <1>2, <1>3, <2>2 DEF UserTableOnly, IsUser
<1>6. CASE UpdatePassword(e, p)
  <2>1. Quiet
    BY <1>6, UpdateUserQuiet
  <2> QED BY <1>1, <1>3, <1>6, <2>1 DEF Quiet, UpdatePassword, UserTableOnly
<1>7. CASE UNCHANGED dbvars
  BY <1>1, <1>3, <1>7 DEF dbvars, IsUser
<1> QED BY <1>4, <1>5, <1>6, <1>7

\* The INSERT of an alias: the address of the call is the only new one.
LEMMA AliasInsertRows ==
    ASSUME NEW c \in Client, AliasAddInsert(c)
    PROVE  /\ AliasTableOnly /\ req[c].op = "AliasAdd" /\ req[c].at = "insert"
           /\ virtual_aliases \subseteq virtual_aliases'
           /\ \A a \in virtual_aliases' : a \in virtual_aliases \/ a.source = req[c].key
<1>1. PICK q : q = req[c]
  OBVIOUS
<1>2. PICK row : row = [source |-> q.key, destination |-> q.arg, domain_id |-> q.id]
  OBVIOUS
<1>3. row.source = q.key
  BY <1>2
<1>4. /\ AliasTableOnly /\ q.op = "AliasAdd" /\ q.at = "insert"
      /\ virtual_aliases' = virtual_aliases \/ virtual_aliases' = virtual_aliases \cup {row}
  BY <1>1, <1>2 DEF AliasAddInsert, InsertIgnoreAlias, At
<1> QED BY <1>1, <1>3, <1>4

\* The INSERT of a group: a new id, at the address of the call.
LEMMA GroupInsertRows ==
    ASSUME IndInv, NEW c \in Client, GroupCreateInsert(c)
    PROVE  /\ UNCHANGED << virtual_domains, virtual_users, virtual_aliases, mail_group_members >>
           /\ req[c].op = "GroupCreate" /\ req[c].at = "insert"
           /\ mail_groups \subseteq mail_groups'
           /\ \A g \in mail_groups' :
                 g \in mail_groups \/ (g.email = req[c].key /\ g.id = lastGroup + 1)
<1>1. PICK q : q = req[c]
  OBVIOUS
<1>2. PICK row : row = [id |-> lastGroup + 1, email |-> q.key, domain_id |-> q.id,
                        post_policy |-> q.policy, allow_external |-> q.flag]
  OBVIOUS
<1>3. row.email = q.key /\ row.id = lastGroup + 1
  BY <1>2
<1>4. /\ UNCHANGED << virtual_domains, virtual_users, virtual_aliases, mail_group_members >>
      /\ q.op = "GroupCreate" /\ q.at = "insert"
      /\ mail_groups' = mail_groups \/ mail_groups' = mail_groups \cup {row}
  BY <1>1, <1>2 DEF GroupCreateInsert, InsertGroup, At, dbvars
<1> QED BY <1>1, <1>3, <1>4

\* The UPDATE of a group keeps its id and its address, and sets allow_external as asked.
LEMMA GroupUpdateRows ==
    ASSUME IndInv, NEW c \in Client, GroupUpdateApply(c)
    PROVE  /\ UNCHANGED << virtual_domains, virtual_users, virtual_aliases, mail_group_members >>
           /\ req[c].op = "GroupUpdate" /\ req[c].at = "update"
           /\ \A e : IsGroup(e)' <=> IsGroup(e)
           /\ \A h \in mail_groups' : \E g \in mail_groups :
                 /\ h.id = g.id /\ h.email = g.email
                 /\ h.allow_external = IF g.id = req[c].id THEN req[c].flag ELSE g.allow_external
<1>1. PICK q : q = req[c]
  OBVIOUS
<1>2. PICK i, p, b : i = q.id /\ p = q.policy /\ b = q.flag
  OBVIOUS
<1> DEFINE new(g) == IF g.id = i THEN [g EXCEPT !.post_policy = p, !.allow_external = b] ELSE g
<1>3. /\ mail_groups' = {new(g) : g \in mail_groups}
      /\ UNCHANGED << virtual_domains, virtual_users, virtual_aliases, mail_group_members >>
      /\ q.op = "GroupUpdate" /\ q.at = "update"
  BY <1>1, <1>2 DEF GroupUpdateApply, UpdateGroup, At
<1>4. \A g \in mail_groups : /\ new(g).id = g.id /\ new(g).email = g.email
                             /\ new(g).allow_external = IF g.id = i THEN b ELSE g.allow_external
  BY DEF IndInv, TypeOK, DBTypeOK, GroupRow
<1> HIDE DEF new
<1>5. \A e : IsGroup(e)' <=> IsGroup(e)
  BY <1>3, <1>4 DEF IsGroup
<1>6. \A h \in mail_groups' : \E g \in mail_groups :
         /\ h.id = g.id /\ h.email = g.email
         /\ h.allow_external = IF g.id = i THEN b ELSE g.allow_external
  BY <1>3, <1>4
<1> QED BY <1>1, <1>2, <1>3, <1>5, <1>6

\* The upsert of a member: the address under judgement in the group of the call.
LEMMA MemberInsertRows ==
    ASSUME IndInv, NEW c \in Client, GroupAddMembersInsert(c)
    PROVE  /\ UNCHANGED << virtual_domains, virtual_users, virtual_aliases, mail_groups >>
           /\ req[c].op = "GroupAddMembers" /\ req[c].at = "insert"
           /\ \A m \in mail_group_members' :
                 m \in mail_group_members
                 \/ (m.group_id = req[c].id /\ m.member = Head(req[c].todo))
<1>1. PICK q : q = req[c]
  OBVIOUS
<1>2. PICK a : a = Head(q.todo)
  OBVIOUS
<1>3. PICK row : row = [group_id |-> q.id, member |-> a, role |-> q.role]
  OBVIOUS
<1>4. row.group_id = q.id /\ row.member = a
  BY <1>3
<1>5. /\ UNCHANGED << virtual_domains, virtual_users, virtual_aliases, mail_groups >>
      /\ q.op = "GroupAddMembers" /\ q.at = "insert"
      /\ mail_group_members' \subseteq mail_group_members \cup {row}
  BY <1>1, <1>2, <1>3 DEF GroupAddMembersInsert, UpsertMember, MemberTableOnly, At, dbvars
<1> QED BY <1>1, <1>2, <1>4, <1>5

\* What the INSERT of an operation makes of its address: a group, or something that must not
\* be one.
Meaning(op) == IF op = "GroupCreate" THEN "group" ELSE "other"

\* Call c is about to give address a its meaning.
Claims(c, a) ==
    /\ req[c].op \in {"MailboxAdd", "MailboxCreate", "AliasAdd", "GroupCreate"}
    /\ req[c].at = "insert"
    /\ req[c].key = a

\* No two calls are about to give one address two meanings.
OneClaim ==
    \A c, d \in Client, a \in Addr :
        Claims(c, a) /\ Claims(d, a) => Meaning(req[c].op) = Meaning(req[d].op)

\* The address of every call at its INSERT is still free.
KeysFree == \A c \in Client : KeyFree(req[c])

\* The mailbox that MailboxRemove has deleted is still gone.
StaysGone(q) == q.op = "MailboxRemove" => ~IsUser(q.key)

\* A call goes on with its inputs at a label where it judges no address.
GoesOn(c) ==
    /\ UNCHANGED virtual_users
    /\ req[c].op \in {"MailboxRemove", "GroupUpdate", "GroupAddMembers"}
    /\ \E l \in Label \ {"notAGroup", "addressKind"} : Goto(c, l)

\* Only the INSERT of a group puts a group at an address.
LEMMA GroupsOnlyFromInsert ==
    ASSUME IndInv, NEW d \in Client, Step(d), ~GroupCreateInsert(d)
    PROVE  \A g \in mail_groups' : \E h \in mail_groups : h.email = g.email
<1>1. CASE Quiet
  BY <1>1 DEF Quiet
<1>2. CASE DomainAdd(d) \/ DomainRemove(d) \/ MailboxRemove(d) \/ GroupDelete(d)
  <2>1. mail_groups' \subseteq mail_groups
    BY <1>2 DEF DomainAdd, DomainRemove, MailboxRemove, GroupDelete, InsertDomain, DeleteDomain,
       DeleteUser, DeleteGroup
  <2> QED BY <2>1
<1>3. CASE MailboxAddUpsert(d) \/ MailboxCreateInsert(d) \/ AliasAddInsert(d)
           \/ GroupAddMembersInsert(d)
  BY <1>3, MailboxInsertRows, AliasInsertRows, MemberInsertRows DEF AliasTableOnly
<1>4. CASE GroupUpdateApply(d)
  BY <1>4, GroupUpdateRows
<1> QED BY <1>1, <1>2, <1>3, <1>4, StepQuiet DEF Loud

\* One namespace for mailboxes, groups and aliases: a step keeps it that relies on what it
\* has read.
LEMMA NamespaceStep ==
    ASSUME IndInv, KeysFree, NamespaceDisjoint, NEW c \in Client, Step(c)
    PROVE  NamespaceDisjoint'
<1>0. IndInv /\ KeyFree(req[c])
  BY DEF KeysFree
<1>a. \A g \in mail_groups : g.email \in Addr /\ g.email \notin Domain
  BY <1>0, AddressAssumption DEF IndInv, TypeOK, DBTypeOK, GroupRow
<1>1. CASE Quiet
  <2> SUFFICES ASSUME NEW g \in mail_groups PROVE ~IsUser(g.email)' /\ ~IsAlias(g.email)'
    BY <1>1 DEF Quiet, NamespaceDisjoint
  <2>1. ~IsUser(g.email) /\ ~IsAlias(g.email)
    BY DEF NamespaceDisjoint
  <2> QED BY <1>1, <1>a, <2>1 DEF Quiet, IsAlias, IsUser
<1>2. CASE DomainAdd(c) \/ DomainRemove(c) \/ MailboxRemove(c) \/ GroupDelete(c)
  <2>1. /\ virtual_users' \subseteq virtual_users
        /\ virtual_aliases' \subseteq virtual_aliases
        /\ mail_groups' \subseteq mail_groups
    BY <1>2 DEF DomainAdd, DomainRemove, MailboxRemove, GroupDelete, InsertDomain, DeleteDomain,
       DeleteUser, DeleteGroup
  <2> QED BY <2>1 DEF NamespaceDisjoint, IsUser, IsAlias
<1>3. CASE MailboxAddUpsert(c) \/ MailboxCreateInsert(c)
  <2>1. ~IsGroup(req[c].key)
    BY <1>0, <1>3, MailboxInsertRows DEF KeyFree
  <2>2. UNCHANGED << virtual_aliases, mail_groups >>
    BY <1>0, <1>3, MailboxInsertRows
  <2>3. \A e : IsUser(e)' => IsUser(e) \/ e = req[c].key
    BY <1>0, <1>3, MailboxInsertRows
  <2> QED BY <2>1, <2>2, <2>3 DEF NamespaceDisjoint, IsGroup, IsAlias, IsUser
<1>4. CASE AliasAddInsert(c)
  <2>1. ~IsGroup(req[c].key)
    BY <1>0, <1>4, AliasInsertRows DEF KeyFree
  <2>2. UNCHANGED << virtual_users, mail_groups >>
    BY <1>4, AliasInsertRows DEF AliasTableOnly
  <2>3. \A a \in virtual_aliases' : a \in virtual_aliases \/ a.source = req[c].key
    BY <1>4, AliasInsertRows
  <2> QED BY <2>1, <2>2, <2>3 DEF NamespaceDisjoint, IsGroup, IsAlias, IsUser
<1>5. CASE GroupCreateInsert(c)
  <2>1. ~IsUser(req[c].key) /\ ~IsAlias(req[c].key)
    BY <1>0, <1>5, GroupInsertRows DEF KeyFree
  <2> QED BY <1>0, <1>5, <2>1, GroupInsertRows DEF NamespaceDisjoint, IsAlias, IsUser
<1>6. CASE GroupUpdateApply(c)
  BY <1>0, <1>6, GroupUpdateRows DEF NamespaceDisjoint, IsAlias, IsUser
<1>7. CASE GroupAddMembersInsert(c)
  BY <1>0, <1>7, MemberInsertRows DEF NamespaceDisjoint, IsAlias, IsUser
<1> QED BY <1>0, <1>1, <1>2, <1>3, <1>4, <1>5, <1>6, <1>7, StepQuiet DEF Loud

\* What a call's own step leaves it with: whatever runs beside it, a call that goes on to its
\* INSERT has just found the address free.
LEMMA OwnKeyFree ==
    ASSUME IndInv, NEW c \in Client, CheckLabels(req[c]), Step(c)
    PROVE  \E n : /\ req' = [req EXCEPT ![c] = n] /\ KeyFree(n)'
                  /\ StaysGone(req[c]) => StaysGone(n)'
<1>1. CASE Learns(c)
  BY <1>1 DEF Learns, Knows, KeyGone, StaysGone
<1>2. CASE GoesOn(c)
  <2>1. PICK q : q = req[c]
    OBVIOUS
  <2>2. PICK l \in Label : /\ Goto(c, l) /\ l \notin {"notAGroup", "addressKind"}
                           /\ q.op \in {"MailboxRemove", "GroupUpdate", "GroupAddMembers"}
                           /\ UNCHANGED virtual_users
    BY <1>2, <2>1 DEF GoesOn
  <2>3. PICK n : req' = [req EXCEPT ![c] = n] /\ n.at = l /\ n.op = q.op /\ n.key = q.key
    BY <2>1, <2>2, GotoRecord
  <2>4. KeyFree(n)'
    BY <2>2, <2>3 DEF KeyFree
  <2>5. StaysGone(q) => StaysGone(n)'
    BY <2>2, <2>3 DEF StaysGone, IsUser
  <2> QED BY <2>1, <2>3, <2>4, <2>5
<1>3. CASE hostedDomains(c) \/ (req[c].op = "GroupAddMembers" /\ NextAddress(c))
  <2>1. PICK q : q = req[c]
    OBVIOUS
  <2>2. q \in Request /\ q.op = "GroupAddMembers"
    BY <1>3, <2>1, StateOK DEF CallOK, hostedDomains, At
  <2>3. PICK h, t : h = {r.name : r \in virtual_domains} /\ t = Tail(q.todo)
    OBVIOUS
  <2>4. PICK n : /\ req' = [req EXCEPT ![c] = n]
                 /\ n \in {[q EXCEPT !.hosted = h, !.at = "check"],
                           [q EXCEPT !.todo = t, !.at = "check"], Idle}
    BY <1>3, <2>1, <2>3, IndInvParts DEF hostedDomains, NextAddress
  <2>5. CASE n = Idle
    BY <2>4, <2>5, IdleKnows DEF Knows, KeyGone, StaysGone
  <2>6. CASE n # Idle
    <3>1. n.at = "check" /\ n.op = "GroupAddMembers"
      BY <2>2, <2>4, <2>6 DEF Request
    <3>2. KeyFree(n)' /\ StaysGone(n)'
      BY <3>1 DEF KeyFree, StaysGone
    <3> QED BY <2>4, <3>2
  <2> QED BY <2>5, <2>6
<1>4. CASE GroupUpdateMembers(c) \/ MailboxRemoveLeaveGroups(c) \/ GroupAddMembersCheck(c)
           \/ GroupAddMembersInsert(c)
  <2>1. \/ Return(c) \/ GoesOn(c) \/ (req[c].op = "GroupAddMembers" /\ NextAddress(c))
    BY <1>4 DEF GroupUpdateMembers, MailboxRemoveLeaveGroups, GroupAddMembersCheck,
       GroupAddMembersInsert, DeleteMemberships, MemberTableOnly, dbvars, At, GoesOn, Label
  <2> QED BY <1>1, <1>2, <1>3, <2>1, ReturnLearns
<1>5. Learns(c) \/ hostedDomains(c) \/ GroupUpdateMembers(c) \/ MailboxRemoveLeaveGroups(c)
      \/ GroupAddMembersCheck(c) \/ GroupAddMembersInsert(c)
  BY OneStatementLearns, DomainIDFirstLearns, GroupGetFirstLearns, ForwardSetLearns,
     MailboxRemoveLearns, GroupDeleteLearns, notAGroupLearns, CheckAddressKindLearns,
     MailboxInsertLearns, LastStatementLearns
     DEF Step, Begin, Continue, SomePasswd, SomeSetEnabled, SomeForwardClear, SomeAliasRemove
<1> QED BY <1>1, <1>3, <1>4, <1>5

\* A step of another call takes nothing from KeyFree unless it inserts at the same address.
LEMMA OthersKeyFree ==
    ASSUME IndInv, KeysFree, OneClaim, NEW c \in Client, NEW d \in Client, c # d, Step(d)
    PROVE  KeyFree(req[c])'
<1>1. PICK q : q = req[c]
  OBVIOUS
<1>2. PICK k : k = req[d].key
  OBVIOUS
<1>3. req'[c] = q /\ KeyFree(q) /\ KeyFree(req[d])
  BY <1>1, OwnCallOnly DEF IndInv, KeysFree
<1>a. q.op \in {"MailboxAdd", "MailboxCreate", "AliasAdd", "GroupCreate"} => q.key \in Addr
  BY <1>1, StateOK DEF CallOK, InputsOK
<1>4. ASSUME q.at = "insert", q.op \in {"MailboxAdd", "MailboxCreate", "AliasAdd"}
      PROVE  ~IsGroup(q.key)'
  <2>1. ~IsGroup(q.key)
    BY <1>3, <1>4 DEF KeyFree
  <2>2. CASE GroupCreateInsert(d)
    <3>1. q.key # k
      BY <1>1, <1>2, <1>a, <1>4, <2>2 DEF OneClaim, Claims, At, GroupCreateInsert, Meaning
    <3>2. \A g \in mail_groups' : g \in mail_groups \/ g.email = k
      BY <1>2, <2>2, GroupInsertRows
    <3> QED BY <2>1, <3>1, <3>2 DEF IsGroup
  <2>3. CASE ~GroupCreateInsert(d)
    <3>1. \A g \in mail_groups' : \E h \in mail_groups : h.email = g.email
      BY <2>3, GroupsOnlyFromInsert
    <3> QED BY <2>1, <3>1 DEF IsGroup
  <2> QED BY <2>2, <2>3
<1>5. ASSUME q.at = "insert", q.op = "GroupCreate"
      PROVE  ~IsUser(q.key)' /\ ~IsAlias(q.key)'
  <2>1. ~IsUser(q.key) /\ ~IsAlias(q.key) /\ q.key \in Addr
    BY <1>3, <1>a, <1>5 DEF KeyFree
  <2>2. q.key \notin Domain
    BY <2>1, AddressAssumption
  <2>3. CASE MailboxAddUpsert(d) \/ MailboxCreateInsert(d)
    <3>1. q.key # k
      BY <1>1, <1>2, <1>a, <1>5, <2>3
         DEF OneClaim, Claims, At, MailboxAddUpsert, MailboxCreateInsert, Meaning
    <3> QED BY <1>2, <2>1, <2>3, <3>1, MailboxInsertRows DEF IsAlias
  <2>4. CASE AliasAddInsert(d)
    <3>1. q.key # k
      BY <1>1, <1>2, <1>a, <1>5, <2>4 DEF OneClaim, Claims, At, AliasAddInsert, Meaning
    <3> QED BY <1>2, <2>1, <2>4, <3>1, AliasInsertRows DEF IsAlias, IsUser, AliasTableOnly
  <2>5. CASE Quiet
    BY <2>1, <2>2, <2>5 DEF Quiet, IsAlias
  <2>6. CASE DomainAdd(d) \/ DomainRemove(d) \/ MailboxRemove(d) \/ GroupDelete(d)
    <3>1. virtual_users' \subseteq virtual_users /\ virtual_aliases' \subseteq virtual_aliases
      BY <2>6 DEF DomainAdd, DomainRemove, MailboxRemove, GroupDelete, InsertDomain,
         DeleteDomain, DeleteUser, DeleteGroup
    <3> QED BY <2>1, <3>1 DEF IsUser, IsAlias
  <2>7. CASE GroupCreateInsert(d) \/ GroupUpdateApply(d) \/ GroupAddMembersInsert(d)
    BY <2>1, <2>7, GroupInsertRows, GroupUpdateRows, MemberInsertRows DEF IsUser, IsAlias
  <2> QED BY <2>3, <2>4, <2>5, <2>6, <2>7, StepQuiet DEF Loud
<1>6. KeyFree(q)'
  BY <1>3, <1>4, <1>5 DEF KeyFree
<1> QED BY <1>3, <1>6 DEF KeyFree

\* The namespace is kept, and what its calls rely on, as long as no address is claimed twice.
LEMMA ClaimsStep ==
    ASSUME IndInv, KeysFree, OneClaim, NamespaceDisjoint, [Next]_vars
    PROVE  KeysFree' /\ NamespaceDisjoint'
<1>1. CASE UNCHANGED vars
  <2>1. UNCHANGED << dbvars, req >>
    BY <1>1 DEF vars
  <2> QED BY <2>1 DEF KeysFree, KeyFree, NamespaceDisjoint, IsUser, IsAlias, IsGroup, dbvars
<1>2. CASE Next
  <2>1. PICK c \in Client : Step(c)
    BY <1>2 DEF Next
  <2>2. KeyFree(req[c])'
    <3>1. PICK n : req' = [req EXCEPT ![c] = n] /\ KeyFree(n)'
      BY <2>1, OwnKeyFree DEF KeysFree, KeyFree, CheckLabels
    <3>2. req'[c] = n
      BY <3>1, IndInvParts
    <3> QED BY <3>1, <3>2 DEF KeyFree
  <2>3. \A d \in Client : d # c => KeyFree(req[d])'
    BY <2>1, OthersKeyFree
  <2> QED BY <2>1, <2>2, <2>3, NamespaceStep DEF KeysFree
<1> QED BY <1>1, <1>2

\* No schedule of any callers gives one address two meanings, but one: two calls reach their
\* INSERTs of a group and of a mailbox or alias with the same address, each having found it
\* free before the other inserted.  No key of the schema spans the three tables.
THEOREM NamespaceUnlessClaimedTwice == Spec /\ []OneClaim => []NamespaceDisjoint
<1>1. Init => NamespaceDisjoint /\ KeysFree
  <2> SUFFICES ASSUME Init PROVE NamespaceDisjoint /\ KeysFree
    OBVIOUS
  <2>1. \A c \in Client : req[c] = Idle
    BY DEF Init
  <2> QED BY <2>1, IdleKnows DEF Init, DBInit, NamespaceDisjoint, KeysFree, Knows
<1>2. IndInv /\ OneClaim /\ KeysFree /\ NamespaceDisjoint /\ [Next]_vars
      => KeysFree' /\ NamespaceDisjoint'
  BY ClaimsStep
<1>3. Spec => []IndInv
  BY Consistent
<1> QED BY <1>1, <1>2, <1>3, PTL DEF Spec

\* Calls that do not overlap claim no address twice.
LEMMA SerialClaims == SerialInv => OneClaim
  BY DEF SerialInv, OneRunning, OneClaim, Claims, At, Meaning

\* Calls that do not overlap never give one address two meanings: AddressKind is still right
\* when the INSERT runs.
THEOREM OneNamespace == Spec /\ NoOverlap => []NamespaceDisjoint
  BY SerialKept, SerialClaims, NamespaceUnlessClaimedTwice, PTL

\* Mail to a group reaches all mailboxes below it, through any depth of nesting that is
\* not circular: the set of the addresses that the expansion meets, or drops because they are
\* suspended mailboxes, is closed under membership.  An address that is a group and a suspended
\* mailbox at once would break the chain, so this needs the one namespace.
THEOREM GroupsDeliver ==
    ASSUME IsFiniteSet(Addr)
    PROVE  Spec /\ []OneClaim => []NestedGroupsDeliver
<1>1. ASSUME IndInv, NamespaceDisjoint PROVE NestedGroupsDeliver
  <2> SUFFICES ASSUME NEW g \in mail_groups, NEW a \in Below(g.email),
                      ActiveMailbox(a), ~IsAlias(a),
                      \A f \in mailbox_forwards : f.email = a => f.keep_copy
               PROVE  a \in Recipients(g.email)
    BY DEF NestedGroupsDeliver
  <2> DEFINE e == g.email
             Q == {x \in Addr : x \in Expansion(e) \/ Suspended(x)}
  <2>1. TypeOK /\ KeysUnique
    BY <1>1 DEF IndInv
  <2>2. e \in Addr
    BY <2>1 DEF TypeOK, DBTypeOK, GroupRow
  <2>3. /\ e \in Expansion(e)
        /\ \A x \in Expansion(e) : VirtualAlias(x) \subseteq Expansion(e)
    BY <2>1, <2>2, ExpansionLeast
  <2>4. ASSUME NEW b \in MembersOf(Q) PROVE b \in Q
    <3>1. PICK m \in mail_group_members, h \in mail_groups :
             b \in Addr /\ m.group_id = h.id /\ h.email \in Q /\ m.member = b
      BY DEF MembersOf
    <3>2. ~Suspended(h.email)
      BY <1>1 DEF NamespaceDisjoint, IsUser, Suspended
    <3>3. VirtualAlias(h.email) \subseteq Expansion(e)
      BY <2>3, <3>1, <3>2
    <3>4. ~Suspended(b) => b \in Lookup(h.email)
      BY <3>1 DEF Lookup
    <3> QED BY <3>1, <3>3, <3>4 DEF VirtualAlias
  <2>5. a \in Q
    <3>1. Q \in SUBSET Addr /\ e \in Q /\ MembersOf(Q) \subseteq Q
      BY <2>2, <2>3, <2>4
    <3> HIDE DEF Q
    <3> QED BY <2>1, <2>2, <3>1, BelowLeast
  <2>6. a \in Expansion(e)
    <3>1. ~Suspended(a)
      BY <2>1 DEF KeysUnique, ActiveMailbox, Suspended
    <3> QED BY <2>5, <3>1
  <2>7. a \in VirtualAlias(a)
    <3>1. a \in Lookup(a)
      BY DEF Lookup, ActiveMailbox
    <3> QED BY <3>1 DEF VirtualAlias
  <2> QED BY <2>6, <2>7 DEF Recipients
<1> QED BY <1>1, NamespaceUnlessClaimedTwice, Consistent, PTL

-----------------------------------------------------------------------------
(* Spool directories.                                                       *)

\* Which statements a running call may execute at two of its labels.
LEMMA AtLabels ==
    ASSUME NEW c \in Client, req[c].op # "idle", Step(c)
    PROVE  /\ req[c].at = "createMaildir" => createMaildir(c) \/ Abandon(c)
           /\ req[c].at = "leaveGroups" =>
                 MailboxRemoveLeaveGroups(c) \/ GroupDeleteLeaveGroups(c) \/ Abandon(c)
<1>1. ~Begin(c)
  BY BeginsIdle
<1>2. CASE notAGroup(c) \/ CheckAddressKind(c) \/ MailboxAddUpsert(c) \/ MailboxCreateInsert(c)
           \/ createMaildir(c) \/ MailboxRemoveLeaveGroups(c) \/ MailboxRemoveSpool(c)
           \/ ForwardSetUpsert(c) \/ AliasAddInsert(c) \/ CatchAllReplace(c) \/ Abandon(c)
  BY <1>2 DEF At, notAGroup, CheckAddressKind, MailboxAddUpsert, MailboxCreateInsert,
     createMaildir, MailboxRemoveLeaveGroups, MailboxRemoveSpool, ForwardSetUpsert,
     AliasAddInsert, CatchAllReplace
<1>3. CASE GroupCreateInsert(c) \/ GroupUpdateMembers(c) \/ GroupUpdateApply(c)
           \/ GroupDeleteLeaveGroups(c) \/ hostedDomains(c) \/ GroupAddMembersCheck(c)
           \/ GroupAddMembersInsert(c) \/ GroupRemoveMemberApply(c)
           \/ GroupSetMemberRoleApply(c) \/ GenerateKeyUpsert(c)
  BY <1>3 DEF At, GroupCreateInsert, GroupUpdateMembers, GroupUpdateApply,
     GroupDeleteLeaveGroups, hostedDomains, GroupAddMembersCheck, GroupAddMembersInsert,
     GroupRemoveMemberApply, GroupSetMemberRoleApply, GenerateKeyUpsert
<1> QED BY <1>1, <1>2, <1>3 DEF Step, Continue

\* A call is about to make the spool directory of mailbox e.
Pending(e) == \E c \in Client : req[c].at = "createMaildir" /\ req[c].key = e

Spooled == \A e : IsUser(e) => e \in maildirs \/ Pending(e)

\* Only two statements change the spool.
LEMMA SpoolSteps ==
    ASSUME NEW c \in Client, Step(c), ~createMaildir(c), ~MailboxRemoveSpool(c)
    PROVE  maildirs' = maildirs
<1> USE DEF Spool
<1>1. CASE Begin(c)
  <2>1. CASE DomainAdd(c) \/ DomainRemove(c) \/ MailboxAdd(c) \/ MailboxCreate(c)
             \/ MailboxRemove(c) \/ SomePasswd(c) \/ SomeSetEnabled(c) \/ ForwardSet(c)
             \/ SomeForwardClear(c) \/ AliasAdd(c)
    BY <2>1 DEF DomainAdd, DomainRemove, MailboxAdd, MailboxCreate, MailboxRemove,
       SomePasswd, MailboxPasswd, SomeSetEnabled, MailboxSetEnabled, ForwardSet,
       SomeForwardClear, ForwardClear, AliasAdd, domainID
  <2>2. CASE SomeAliasRemove(c) \/ CatchAllSet(c) \/ GroupCreate(c) \/ GroupUpdate(c)
             \/ GroupDelete(c) \/ GroupAddMembers(c) \/ GroupRemoveMember(c)
             \/ GroupSetMemberRole(c) \/ GenerateKey(c) \/ RevokeKey(c)
    BY <2>2 DEF SomeAliasRemove, AliasRemove, CatchAllSet, GroupCreate, GroupUpdate,
       GroupDelete, GroupAddMembers, GroupRemoveMember, GroupSetMemberRole, GenerateKey,
       RevokeKey, domainID, GroupGet
  <2> QED BY <1>1, <2>1, <2>2
     DEF Begin, SomePasswd, SomeSetEnabled, SomeForwardClear, SomeAliasRemove
<1>2. CASE Continue(c) \/ Abandon(c)
  <2>1. CASE notAGroup(c) \/ CheckAddressKind(c) \/ MailboxAddUpsert(c)
             \/ MailboxCreateInsert(c) \/ MailboxRemoveLeaveGroups(c) \/ ForwardSetUpsert(c)
             \/ AliasAddInsert(c) \/ CatchAllReplace(c) \/ Abandon(c)
    BY <2>1 DEF notAGroup, CheckAddressKind, MailboxAddUpsert, MailboxCreateInsert,
       MailboxRemoveLeaveGroups, ForwardSetUpsert, AliasAddInsert, CatchAllReplace, Abandon
  <2>2. CASE GroupCreateInsert(c) \/ GroupUpdateMembers(c) \/ GroupUpdateApply(c)
             \/ GroupDeleteLeaveGroups(c) \/ hostedDomains(c) \/ GroupAddMembersCheck(c)
             \/ GroupAddMembersInsert(c) \/ GroupRemoveMemberApply(c)
             \/ GroupSetMemberRoleApply(c) \/ GenerateKeyUpsert(c)
    BY <2>2 DEF GroupCreateInsert, GroupUpdateMembers, GroupUpdateApply,
       GroupDeleteLeaveGroups, hostedDomains, GroupAddMembersCheck, GroupAddMembersInsert,
       GroupRemoveMemberApply, GroupSetMemberRoleApply, GenerateKeyUpsert
  <2> QED BY <1>2, <2>1, <2>2 DEF Continue
<1> QED BY <1>1, <1>2 DEF Step

\* Only the two INSERTs of a mailbox bring in a new one.
LEMMA NewUsers ==
    ASSUME IndInv, NEW c \in Client, Step(c), ~MailboxAddUpsert(c), ~MailboxCreateInsert(c)
    PROVE  \A e : IsUser(e)' => IsUser(e)
<1>1. CASE Quiet
  BY <1>1 DEF Quiet
<1>2. CASE DomainAdd(c) \/ DomainRemove(c) \/ MailboxRemove(c) \/ GroupDelete(c)
  <2>1. virtual_users' \subseteq virtual_users
    BY <1>2 DEF DomainAdd, DomainRemove, MailboxRemove, GroupDelete, InsertDomain, DeleteDomain,
       DeleteUser, DeleteGroup
  <2> QED BY <2>1 DEF IsUser
<1>3. CASE AliasAddInsert(c) \/ GroupCreateInsert(c) \/ GroupUpdateApply(c)
           \/ GroupAddMembersInsert(c)
  <2>1. virtual_users' = virtual_users
    BY <1>3, AliasInsertRows, GroupInsertRows, GroupUpdateRows, MemberInsertRows
       DEF AliasTableOnly
  <2> QED BY <2>1 DEF IsUser
<1> QED BY <1>1, <1>2, <1>3, StepQuiet DEF Loud

\* No call that creates a mailbox reaches its INSERT while a MailboxRemove of the same address
\* is running.
NoCreateInRemove ==
    \A c, d \in Client :
        req[c].op = "MailboxRemove" /\ req[d].op \in {"MailboxAdd", "MailboxCreate"}
        /\ req[d].at = "insert" => req[d].key # req[c].key

\* The invariant of the spool.
SpoolInv == Spooled /\ \A c \in Client : CheckLabels(req[c]) /\ StaysGone(req[c])

\* Every mailbox has its spool directory or a call that is about to make it.
LEMMA SpooledStep ==
    ASSUME ~Faults, IndInv, SpoolInv, NEW c \in Client, Step(c)
    PROVE  Spooled'
<1>0. req \in [Client -> Request] /\ ~Abandon(c) /\ Spooled /\ StaysGone(req[c])
  BY IndInvParts DEF Abandon, SpoolInv
<1>1. \A d \in Client : d # c => req'[d] = req[d]
  BY OwnCallOnly DEF IndInv
<1>2. \A e : Pending(e) => Pending(e)' \/ (req[c].at = "createMaildir" /\ req[c].key = e)
  BY <1>1 DEF Pending
<1> SUFFICES ASSUME NEW e, IsUser(e)' PROVE e \in maildirs' \/ Pending(e)'
  BY DEF Spooled
<1>3. CASE createMaildir(c)
  <2>1. maildirs' = maildirs \cup {req[c].key} /\ UNCHANGED dbvars
    BY <1>3 DEF createMaildir
  <2>2. IsUser(e)
    BY <2>1 DEF dbvars, IsUser
  <2> QED BY <1>0, <1>2, <2>1, <2>2 DEF Spooled
<1>4. CASE MailboxRemoveSpool(c)
  <2>1. maildirs' = maildirs \ {req[c].key} /\ UNCHANGED dbvars /\ req[c].op = "MailboxRemove"
        /\ req[c].at = "removeAll"
    BY <1>4 DEF MailboxRemoveSpool, At
  <2>2. IsUser(e) /\ ~IsUser(req[c].key)
    BY <1>0, <2>1 DEF dbvars, IsUser, StaysGone
  <2> QED BY <1>0, <1>2, <2>1, <2>2 DEF Spooled
<1>5. CASE MailboxAddUpsert(c) \/ MailboxCreateInsert(c)
  <2>1. maildirs' = maildirs /\ req[c].at = "insert"
    BY <1>5 DEF MailboxAddUpsert, MailboxCreateInsert, Spool, At
  <2>2. Goto(c, "createMaildir") \/ UNCHANGED dbvars
    BY <1>5 DEF MailboxAddUpsert, MailboxCreateInsert
  <2>3. IsUser(e) => e \in maildirs' \/ Pending(e)'
    BY <1>0, <1>2, <2>1 DEF Spooled
  <2>4. ~IsUser(e) => e = req[c].key /\ Goto(c, "createMaildir")
    BY <1>5, <2>2, MailboxInsertRows DEF dbvars, IsUser
  <2>5. ASSUME e = req[c].key, Goto(c, "createMaildir") PROVE Pending(e)'
    <3>1. PICK q : q = req[c]
      OBVIOUS
    <3>2. PICK n : req' = [req EXCEPT ![c] = n] /\ n.at = "createMaildir" /\ n.key = q.key
      BY <2>5, <3>1, GotoRecord DEF Label
    <3>3. req'[c] = n
      BY <1>0, <3>2
    <3> QED BY <2>5, <3>1, <3>2, <3>3 DEF Pending
  <2> QED BY <2>3, <2>4, <2>5
<1>6. CASE ~(createMaildir(c) \/ MailboxRemoveSpool(c) \/ MailboxAddUpsert(c)
             \/ MailboxCreateInsert(c))
  <2>1. maildirs' = maildirs /\ IsUser(e)
    BY <1>6, SpoolSteps, NewUsers
  <2>2. req[c].at # "createMaildir"
    BY <1>0, <1>6, AtLabels DEF IndInv, CallsOK, InputsOK
  <2> QED BY <1>0, <1>2, <2>1, <2>2 DEF Spooled
<1> QED BY <1>3, <1>4, <1>5, <1>6

\* What a MailboxRemove has deleted stays deleted until the spool directory is gone too.
LEMMA StaysGoneStep ==
    ASSUME IndInv, SpoolInv, NoCreateInRemove, NEW c \in Client, Step(c)
    PROVE  \A d \in Client : CheckLabels(req[d])' /\ StaysGone(req[d])'
<1>1. CheckLabels(req[c])' /\ StaysGone(req[c])'
  <2>1. PICK n : /\ req' = [req EXCEPT ![c] = n] /\ KeyFree(n)'
                 /\ StaysGone(req[c]) => StaysGone(n)'
    BY OwnKeyFree DEF SpoolInv
  <2>2. req'[c] = n /\ StaysGone(n)' /\ KeyFree(n)'
    BY <2>1, IndInvParts DEF SpoolInv
  <2> QED BY <2>2 DEF KeyFree, CheckLabels, StaysGone
<1>2. ASSUME NEW d \in Client, d # c PROVE CheckLabels(req[d])' /\ StaysGone(req[d])'
  <2>1. PICK q : q = req[d]
    OBVIOUS
  <2>2. req'[d] = q /\ CheckLabels(q) /\ StaysGone(q)
    BY <1>2, <2>1, OwnCallOnly DEF IndInv, SpoolInv
  <2>3. ASSUME q.op = "MailboxRemove" PROVE ~IsUser(q.key)'
    <3>1. CASE MailboxAddUpsert(c) \/ MailboxCreateInsert(c)
      <4>1. req[c].key # q.key
        BY <2>1, <2>3, <3>1, MailboxInsertRows DEF NoCreateInRemove
      <4> QED BY <2>2, <2>3, <3>1, <4>1, MailboxInsertRows DEF StaysGone
    <3>2. CASE ~MailboxAddUpsert(c) /\ ~MailboxCreateInsert(c)
      BY <2>2, <2>3, <3>2, NewUsers DEF StaysGone
    <3> QED BY <3>1, <3>2
  <2>4. CheckLabels(q)' /\ StaysGone(q)'
    BY <2>2, <2>3 DEF CheckLabels, StaysGone
  <2> QED BY <2>2, <2>4 DEF CheckLabels, StaysGone
<1> QED BY <1>1, <1>2

\* Of all the ways calls can overlap only one leaves a mailbox without its spool directory: its
\* address is created again while a MailboxRemove of it is on its way from the DELETE of the
\* row to the removal of the directory.
THEOREM SpoolsUnlessCreatedInRemove ==
    ASSUME ~Faults
    PROVE  Spec /\ []NoCreateInRemove => []LiveMailboxHasSpool
<1>1. Init => SpoolInv
  <2> SUFFICES ASSUME Init PROVE SpoolInv
    OBVIOUS
  <2>1. \A c \in Client : req[c] = Idle
    BY DEF Init
  <2>2. CheckLabels(Idle) /\ StaysGone(Idle)
    BY IdleKnows DEF Knows, KeyFree, KeyGone, CheckLabels, StaysGone
  <2> QED BY <2>1, <2>2 DEF Init, DBInit, SpoolInv, Spooled, IsUser
<1>2. IndInv /\ SpoolInv /\ NoCreateInRemove /\ [Next]_vars => SpoolInv'
  <2>1. ASSUME SpoolInv, UNCHANGED vars PROVE SpoolInv'
    BY <2>1 DEF vars, dbvars, SpoolInv, Spooled, Pending, IsUser, CheckLabels, StaysGone
  <2> QED BY <2>1, SpooledStep, StaysGoneStep DEF Next, SpoolInv
<1>3. IndInv /\ SpoolInv => LiveMailboxHasSpool
  <2> SUFFICES ASSUME IndInv, SpoolInv, \A c \in Client : req[c].op = "idle",
                      NEW u \in virtual_users
               PROVE  u.email \in maildirs
    BY DEF LiveMailboxHasSpool
  <2>1. ~Pending(u.email)
    BY DEF Pending, IndInv, CallsOK, InputsOK
  <2> QED BY <2>1 DEF SpoolInv, Spooled, IsUser
<1> QED BY <1>1, <1>2, <1>3, Consistent, PTL DEF Spec

\* Calls that neither overlap nor are cut off leave every mailbox with its spool directory:
\* MailboxRemove deletes the directory only of a mailbox that is gone, and nobody has created
\* it again in between.
THEOREM MailboxesHaveSpools ==
    ASSUME ~Faults
    PROVE  Spec /\ NoOverlap => []LiveMailboxHasSpool
<1>1. SerialInv => NoCreateInRemove
  BY DEF SerialInv, OneRunning, NoCreateInRemove
<1> QED BY <1>1, SerialKept, SpoolsUnlessCreatedInRemove, PTL

-----------------------------------------------------------------------------
(* Who may be in a group.                                                   *)

\* An address is external exactly when its domain is not hosted, and missing exactly when it
\* is hosted and names nothing: every row is under the domain of its address.
LEMMA KindOfMember ==
    ASSUME IndInv, NEW a \in Addr
    PROVE  /\ MemberKind(a) = "external" <=> ~Hosted(DomainOf[a])
           /\ MemberKind(a) = "missing" <=>
                 Hosted(DomainOf[a]) /\ ~IsUser(a) /\ ~IsGroup(a) /\ ~IsAlias(a)
<1>1. IsUser(a) \/ IsGroup(a) \/ IsAlias(a) => Hosted(DomainOf[a])
  BY AddressAssumption DEF IndInv, HomedRows, IsUser, IsGroup, IsAlias, Hosted, HomeDomain
<1> QED BY <1>1 DEF MemberKind, AddressKind

\* The same of the next state.
LEMMA KindOfMemberNext ==
    ASSUME NEW a \in Addr
    PROVE  IndInv' => /\ MemberKind(a)' = "external" <=> ~Hosted(DomainOf[a])'
                      /\ MemberKind(a)' = "missing" <=>
                            Hosted(DomainOf[a])' /\ ~IsUser(a)' /\ ~IsGroup(a)' /\ ~IsAlias(a)'
<1> SUFFICES ASSUME IndInv'
             PROVE  /\ MemberKind(a)' = "external" <=> ~Hosted(DomainOf[a])'
                    /\ MemberKind(a)' = "missing" <=>
                          Hosted(DomainOf[a])' /\ ~IsUser(a)' /\ ~IsGroup(a)' /\ ~IsAlias(a)'
  OBVIOUS
<1>1. IsUser(a)' \/ IsGroup(a)' \/ IsAlias(a)' => Hosted(DomainOf[a])'
  BY AddressAssumption DEF IndInv, HomedRows, IsUser, IsGroup, IsAlias, Hosted, HomeDomain
<1> QED BY <1>1 DEF MemberKind, AddressKind

\* DomainRemove takes away no address of another domain.
LEMMA DomainRemoveOthers ==
    ASSUME IndInv, NEW c \in Client, DomainRemove(c), NEW a \in Addr, Hosted(DomainOf[a])'
    PROVE  /\ IsUser(a) => IsUser(a)'
           /\ IsGroup(a) => IsGroup(a)'
<1>1. PICK d \in Domain : DeleteDomain(d)
  BY DEF DomainRemove
<1>2. DomainOf[a] # d
  BY <1>1 DEF DeleteDomain, Hosted
<1>3. KeysUnique /\ HomedRows
  BY DEF IndInv
<1>4. ASSUME NEW i, \E r \in virtual_domains : r.id = i /\ r.name = DomainOf[a]
      PROVE  ~\E r \in virtual_domains : r.id = i /\ r.name = d
  BY <1>2, <1>3, <1>4 DEF KeysUnique
<1>5. ASSUME NEW u \in virtual_users, u.email = a PROVE u \in virtual_users'
  <2>1. \E r \in virtual_domains : r.id = u.domain_id /\ r.name = DomainOf[a]
    BY <1>3, <1>5 DEF HomedRows
  <2>2. ~\E r \in virtual_domains : r.id = u.domain_id /\ r.name = d
    BY <1>4, <2>1
  <2> QED BY <1>1, <2>2 DEF DeleteDomain
<1>6. ASSUME NEW g \in mail_groups, g.email = a PROVE g \in mail_groups'
  <2>1. \E r \in virtual_domains : r.id = g.domain_id /\ r.name = DomainOf[a]
    BY <1>3, <1>6 DEF HomedRows
  <2>2. ~\E r \in virtual_domains : r.id = g.domain_id /\ r.name = d
    BY <1>4, <2>1
  <2> QED BY <1>1, <2>2 DEF DeleteDomain
<1> QED BY <1>5, <1>6 DEF IsUser, IsGroup

\* Only GroupAddMembersInsert brings an address into a group, and only GroupCreateInsert and
\* GroupUpdateApply change groups other than by deleting them.
LEMMA GroupRowsKept ==
    ASSUME IndInv, NEW c \in Client, Step(c)
    PROVE  /\ ~GroupAddMembersInsert(c) =>
                 \A m \in mail_group_members' : \E n \in mail_group_members :
                    n.group_id = m.group_id /\ n.member = m.member
           /\ ~GroupCreateInsert(c) /\ ~GroupUpdateApply(c) => mail_groups' \subseteq mail_groups
<1>1. CASE Quiet
  BY <1>1 DEF Quiet
<1>2. CASE DomainAdd(c) \/ DomainRemove(c) \/ MailboxRemove(c) \/ GroupDelete(c)
  <2>1. /\ mail_group_members' \subseteq mail_group_members
        /\ mail_groups' \subseteq mail_groups
    BY <1>2 DEF DomainAdd, DomainRemove, MailboxRemove, GroupDelete, InsertDomain, DeleteDomain,
       DeleteUser, DeleteGroup
  <2> QED BY <2>1
<1>3. CASE MailboxAddUpsert(c) \/ MailboxCreateInsert(c) \/ AliasAddInsert(c)
           \/ GroupCreateInsert(c) \/ GroupUpdateApply(c)
  <2>1. /\ mail_group_members' = mail_group_members
        /\ ~GroupCreateInsert(c) /\ ~GroupUpdateApply(c) => mail_groups' = mail_groups
    BY <1>3, MailboxInsertRows, AliasInsertRows, GroupInsertRows, GroupUpdateRows
       DEF AliasTableOnly
  <2> QED BY <2>1
<1>4. CASE GroupAddMembersInsert(c)
  BY <1>4, MemberInsertRows
<1> QED BY <1>1, <1>2, <1>3, <1>4, StepQuiet DEF Loud

\* A step that makes an outsider unhosts its domain.
LEMMA OutsiderStep ==
    ASSUME SerialInv, IndInv', NEW c \in Client, Step(c), NEW e \in Addr, NEW a \in Addr,
           Outsider(e, a)', ~Outsider(e, a)
    PROVE  Hosted(DomainOf[a]) /\ ~Hosted(DomainOf[a])'
<1>0. IndInv /\ KeysUnique /\ HomedRows /\ Knows(req[c])
  BY DEF SerialInv, IndInv
<1>1. PICK h \in mail_groups', m \in mail_group_members' :
         /\ h.email = e /\ m.group_id = h.id /\ m.member = a
         /\ ~h.allow_external /\ MemberKind(a)' = "external"
  BY DEF Outsider
<1>2. ~Hosted(DomainOf[a])'
  BY <1>1, KindOfMemberNext
<1> SUFFICES ASSUME ~Hosted(DomainOf[a]) PROVE FALSE
  BY <1>2
<1>3. MemberKind(a) = "external"
  BY <1>0, KindOfMember
<1>4. ASSUME NEW g \in mail_groups, NEW n \in mail_group_members,
             g.email = e, n.group_id = g.id, n.member = a
      PROVE  g.allow_external
  BY <1>3, <1>4 DEF Outsider
<1>5. CASE ~GroupAddMembersInsert(c) /\ ~GroupCreateInsert(c) /\ ~GroupUpdateApply(c)
  <2>1. PICK n \in mail_group_members : n.group_id = m.group_id /\ n.member = m.member
    BY <1>0, <1>5, GroupRowsKept
  <2>2. h \in mail_groups
    BY <1>0, <1>5, GroupRowsKept
  <2> QED BY <1>1, <1>4, <2>1, <2>2
<1>6. CASE GroupCreateInsert(c)
  <2>1. m \in mail_group_members /\ (h \in mail_groups \/ h.id = lastGroup + 1)
    BY <1>0, <1>6, GroupInsertRows
  <2>2. GroupId(m.group_id)
    BY <1>0, <2>1 DEF HomedRows
  <2>3. PICK g \in mail_groups : g.id = m.group_id
    BY <2>2 DEF GroupId
  <2>4. g.id <= lastGroup /\ g.id \in Nat /\ lastGroup \in Nat
    BY <1>0, <2>3 DEF KeysUnique, IndInv, TypeOK, DBTypeOK, GroupRow
  <2>5. h.id # lastGroup + 1
    BY <1>1, <2>3, <2>4
  <2> QED BY <1>1, <1>4, <2>1, <2>5
<1>7. CASE GroupUpdateApply(c)
  <2>1. PICK q : q = req[c]
    OBVIOUS
  <2>2. m \in mail_group_members /\ q.op = "GroupUpdate" /\ q.at = "update"
    BY <1>0, <1>7, <2>1, GroupUpdateRows
  <2>3. PICK g \in mail_groups :
           /\ h.id = g.id /\ h.email = g.email
           /\ h.allow_external = IF g.id = q.id THEN q.flag ELSE g.allow_external
    BY <1>0, <1>7, <2>1, GroupUpdateRows
  <2>4. g.allow_external
    BY <1>1, <1>4, <2>2, <2>3
  <2>5. g.id = q.id /\ ~q.flag
    BY <1>1, <2>3, <2>4
  <2>6. q.ext
    BY <1>0, <2>1, <2>2, <2>4, <2>5 DEF Knows, UpdateJudged
  <2>7. MemberKind(m.member) # "external"
    BY <1>0, <1>1, <2>1, <2>2, <2>3, <2>5, <2>6 DEF Knows, UpdateJudged
  <2> QED BY <1>1, <1>3, <2>7
<1>8. CASE GroupAddMembersInsert(c)
  <2>1. PICK q : q = req[c]
    OBVIOUS
  <2>2. /\ h \in mail_groups /\ q.op = "GroupAddMembers" /\ q.at = "insert"
        /\ m \in mail_group_members \/ (m.group_id = q.id /\ m.member = Head(q.todo))
    BY <1>0, <1>8, <2>1, MemberInsertRows
  <2>3. m.group_id = q.id /\ a = Head(q.todo)
    BY <1>1, <1>4, <2>2
  <2>4. /\ h.allow_external = q.ext /\ Admissible(q, a)
        /\ q.hosted = {r.name : r \in virtual_domains}
    BY <1>0, <1>1, <2>1, <2>2, <2>3 DEF Knows, BatchJudged
  <2>5. DomainOf[a] \notin q.hosted
    BY <2>4 DEF Hosted
  <2> QED BY <1>1, <2>4, <2>5 DEF Admissible
<1> QED BY <1>5, <1>6, <1>7, <1>8

\* Calls that do not overlap let no external address into a group that does not allow them,
\* and close no group on one: only the removal of a domain makes an outsider.
THEOREM OutsidersOnlyByDomainRemoval == Spec /\ NoOverlap => ExternalOnlyIfAllowed
<1> DEFINE A == \A e, a \in Addr : Outsider(e, a)' =>
                   Outsider(e, a) \/ (Hosted(DomainOf[a]) /\ ~Hosted(DomainOf[a])')
<1>1. SerialInv /\ SerialInv' /\ [Next]_vars => [A]_vars
  BY OutsiderStep DEF Next, SerialInv
<1> QED BY <1>1, SerialKept, PTL DEF Spec, ExternalOnlyIfAllowed

-----------------------------------------------------------------------------
(* Members that do not exist.                                               *)

\* A mailbox or a group that goes is one of a removed domain, or is leaving its groups.
LEMMA GoneAddress ==
    ASSUME SerialInv, NEW c \in Client, Step(c), NEW a \in Addr, Hosted(DomainOf[a])',
           (IsUser(a) /\ ~IsUser(a)') \/ (IsGroup(a) /\ ~IsGroup(a)')
    PROVE  Leaving(c, a)'
<1>0. IndInv /\ Idle \in Request /\ req \in [Client -> Request]
  BY IdleOK, IndInvParts DEF SerialInv, CallOK
<1>1. CASE Quiet
  BY <1>1 DEF Quiet, IsGroup
<1>2. CASE DomainAdd(c)
  BY <1>2 DEF DomainAdd, InsertDomain, IsUser, IsGroup
<1>3. CASE DomainRemove(c)
  BY <1>0, <1>3, DomainRemoveOthers
<1>4. CASE MailboxAddUpsert(c) \/ MailboxCreateInsert(c)
  BY <1>0, <1>4, MailboxInsertRows DEF IsGroup
<1>5. CASE AliasAddInsert(c)
  BY <1>5, AliasInsertRows DEF AliasTableOnly, IsUser, IsGroup
<1>6. CASE GroupCreateInsert(c) \/ GroupUpdateApply(c) \/ GroupAddMembersInsert(c)
  BY <1>0, <1>6, GroupInsertRows, GroupUpdateRows, MemberInsertRows DEF IsUser, IsGroup
<1>7. CASE MailboxRemove(c)
  <2>1. PICK e, q :
           /\ e \in Addr
           /\ q = [Idle EXCEPT !.op = "MailboxRemove", !.at = "leaveGroups", !.key = e]
           /\ DeleteUser(e) /\ req' = [req EXCEPT ![c] = q]
    BY <1>7 DEF MailboxRemove
  <2>2. a = e
    BY <2>1 DEF DeleteUser, IsUser, IsGroup
  <2>3. q.op = "MailboxRemove" /\ q.at = "leaveGroups" /\ q.key = e
    BY <1>0, <2>1 DEF Request
  <2>4. req'[c] = q
    BY <1>0, <2>1
  <2> QED BY <2>2, <2>3, <2>4 DEF Leaving
<1>8. CASE GroupDelete(c)
  <2>1. PICK e, q :
           /\ e \in Addr
           /\ q = [Idle EXCEPT !.op = "GroupDelete", !.at = "leaveGroups", !.key = e]
           /\ DeleteGroup(e) /\ req' = [req EXCEPT ![c] = q]
    BY <1>8 DEF GroupDelete
  <2>2. a = e
    BY <2>1 DEF DeleteGroup, IsUser, IsGroup
  <2>3. q.op = "GroupDelete" /\ q.at = "leaveGroups" /\ q.key = e
    BY <1>0, <2>1 DEF Request
  <2>4. req'[c] = q
    BY <1>0, <2>1
  <2> QED BY <2>2, <2>3, <2>4 DEF Leaving
<1> QED BY <1>0, <1>1, <1>2, <1>3, <1>4, <1>5, <1>6, <1>7, <1>8, StepQuiet DEF Loud

\* A step that makes a member missing removes its last alias or hosts its domain.
LEMMA StaleStep ==
    ASSUME ~Faults, SerialInv, IndInv', NEW c \in Client, Step(c), Alone(c), NEW a \in Addr,
           Stale(a)', ~Stale(a)
    PROVE  \/ IsAlias(a) /\ ~IsAlias(a)'
           \/ ~Hosted(DomainOf[a]) /\ Hosted(DomainOf[a])'
<1>0. IndInv /\ Knows(req[c]) /\ ~Abandon(c)
  BY DEF SerialInv, Abandon
<1>1. PICK m \in mail_group_members' : m.member = a
  BY DEF Stale
<1>2. MemberKind(a)' = "missing" /\ ~Leaving(c, a)'
  BY DEF Stale
<1>3. Hosted(DomainOf[a])' /\ ~IsUser(a)' /\ ~IsGroup(a)' /\ ~IsAlias(a)'
  BY <1>2, KindOfMemberNext
<1> SUFFICES ASSUME ~IsAlias(a), Hosted(DomainOf[a]) PROVE FALSE
  BY <1>3
<1>4. ~IsUser(a) /\ ~IsGroup(a)
  BY <1>2, <1>3, GoneAddress
<1>5. MemberKind(a) = "missing"
  BY <1>0, <1>4, KindOfMember
<1>6. \E n \in mail_group_members : n.member = a
  <2>1. CASE ~GroupAddMembersInsert(c)
    BY <1>0, <1>1, <2>1, GroupRowsKept
  <2>2. CASE GroupAddMembersInsert(c)
    <3>1. PICK q : q = req[c]
      OBVIOUS
    <3>2. /\ q.op = "GroupAddMembers" /\ q.at = "insert"
          /\ m \in mail_group_members \/ m.member = Head(q.todo)
      BY <1>0, <2>2, <3>1, MemberInsertRows
    <3>3. CASE a = Head(q.todo)
      <4>1. Admissible(q, a) /\ q.hosted = {r.name : r \in virtual_domains}
        BY <1>0, <3>1, <3>2, <3>3 DEF Knows, BatchJudged
      <4>2. DomainOf[a] \in q.hosted
        BY <4>1 DEF Hosted
      <4> QED BY <1>4, <4>1, <4>2 DEF Admissible, AddressKind
    <3> QED BY <1>1, <3>2, <3>3
  <2> QED BY <2>1, <2>2
<1>7. PICK d \in Client : Leaving(d, a)
  BY <1>5, <1>6 DEF Stale
<1>8. d = c /\ req[c].op # "idle" /\ req[c].at = "leaveGroups" /\ req[c].key = a
  BY <1>7 DEF Leaving, Alone
<1>9. MailboxRemoveLeaveGroups(c) \/ GroupDeleteLeaveGroups(c)
  BY <1>0, <1>8, AtLabels
<1>10. DeleteMemberships(a)
  BY <1>8, <1>9 DEF MailboxRemoveLeaveGroups, GroupDeleteLeaveGroups
<1> QED BY <1>1, <1>10 DEF DeleteMemberships

\* Calls that neither overlap nor are cut off leave no membership of a mailbox or a group
\* they remove, and add none of an address that does not exist.
THEOREM NoMembershipGoesStale ==
    ASSUME ~Faults
    PROVE  Spec /\ NoOverlap => NoStaleMembership
<1> DEFINE A == \A a \in Addr : Stale(a)' =>
                   \/ Stale(a)
                   \/ IsAlias(a) /\ ~IsAlias(a)'
                   \/ ~Hosted(DomainOf[a]) /\ Hosted(DomainOf[a])'
<1>1. SerialInv /\ SerialInv' /\ [Next]_vars /\ [Serial]_vars => [A]_vars
  <2> SUFFICES ASSUME SerialInv, SerialInv', Next, Serial PROVE A
    OBVIOUS
  <2>1. IndInv'
    BY DEF SerialInv
  <2>2. PICK c \in Client : Step(c) /\ Alone(c)
    BY SerialStep
  <2> QED BY <2>1, <2>2, StaleStep
<1>2. NoOverlap <=> [][Serial]_vars
  BY DEF NoOverlap, Serial
<1> QED BY <1>1, <1>2, SerialKept, PTL DEF Spec, NoStaleMembership
=============================================================================
