----------------------------- MODULE DkimProofs -----------------------------
(***************************************************************************)
(* Proofs about Dkim, for any number of domains, key pairs and callers whose *)
(* calls do not overlap.                                                     *)
(***************************************************************************)
EXTENDS Dkim, TLAPS

(***************************************************************************)
(* The inductive invariant: DkimInv.                                         *)
(***************************************************************************)

\* The fields of a call agree with the step it is at: it holds a text exactly between reading
\* or generating one and writing it, and only the phase has further domains to do.
CallOK(q) ==
    /\ q \in Call
    /\ q.at = "idle" => q = Idle
    /\ q.at # "idle" => q.op # "idle" /\ q.dom \in Domain
    /\ IF q.at \in {"record", "writeName", "writeQuoting"} THEN q.text \in Text ELSE q.text = None
    /\ q.op # "phase_run" => q.todo = {}
    /\ q.at = "rmRecord" => q.op = "RotateDKIMKey"
    /\ q.at = "restart" => q.op # "DomainAdd"

\* No two calls run at once.
OneCall == \A c, e \in Caller : call[c].at # "idle" /\ call[e].at # "idle" => c = e

\* A key is generated only for a domain that has none, also after a call has ended early.
KeygenOK(q) == q.at = "keygen" => key[q.dom] = None

\* The files of domain d if it has a key, and d is registered only with one.
PairOK(d) == key[d] # None => record[d] = Published(key[d]) /\ dump[d] = record[d]
Good(d)   == PairOK(d) /\ (d \in registered => key[d] # None)

\* Also after a call has ended early: a key has a record of its own, in some form, unless only
\* a rotation can repair it, and a domain that needs nothing is good.
PairText(d) ==
    key[d] # None /\ needs[d] # "rotation" => record[d] \in Text /\ record[d].pair = key[d]
Fit(d) == PairText(d) /\ (needs[d] = "nothing" => Good(d))

\* How far call q has got with the files of its domain.
Doing(q) ==
    LET d == q.dom
    IN  /\ q.at = "rmRecord" => key[d] = None
        /\ q.at = "stat" => PairText(d) /\ (q.op = "RotateDKIMKey" => key[d] = None)
        /\ q.at = "record" => key[d] # None /\ q.text = Printed(key[d])
        /\ q.at \in {"name", "writeName", "quoting", "writeQuoting", "policy", "dump"} =>
              key[d] # None /\ PairText(d)
        /\ q.at \in {"writeName", "writeQuoting"} => q.text = record[d]
        /\ q.at \in {"quoting", "writeQuoting"} /\ needs[d] # "rotation" =>
              record[d].name = "qualified"
        /\ q.at \in {"policy", "dump"} /\ needs[d] # "rotation" =>
              record[d] = Published(key[d])

\* The files of a domain are fit unless a call is at work on them.
Busy(d) == \E c \in Caller : call[c].at \notin {"idle", "restart"} /\ call[c].dom = d

\* rspamd holds the key on disk or none, unless a rotation is going to restart it.
Rotating == \E c \in Caller : call[c].op = "RotateDKIMKey"
Current  == \A d \in Domain : loaded[d] \in {None, key[d]}

Progress ==
    /\ \A c \in Caller : Doing(call[c])
    /\ \A d \in Domain : Busy(d) \/ Fit(d)
    /\ missed \/ Rotating \/ Current

TypeInv == TypeOK /\ \A c \in Caller : CallOK(call[c])

SerialInv == TypeInv /\ OneCall /\ \A c \in Caller : KeygenOK(call[c])

DkimInv == SerialInv /\ Progress

-----------------------------------------------------------------------------
(***************************************************************************)
(* How a step changes what its caller is doing.                              *)
(***************************************************************************)

\* The labels between which a caller holds the text of a record.
Holding == {"record", "writeName", "writeQuoting"}

\* Caller c has moved on to a legal place, and the others have not moved.
Moved(c) ==
    /\ call' \in [Caller -> Call] /\ CallOK(call'[c])
    /\ \A e \in Caller : e # c => call'[e] = call[e]

FilesOK ==
    /\ registered \subseteq Domain /\ policy \subseteq Domain
    /\ key \in [Domain -> KeyPair \cup {None}]
    /\ record \in [Domain -> Text \cup {None, Blank}]
    /\ dump \in [Domain -> Text \cup {None, Blank, NotFound}]
    /\ loaded \in [Domain -> KeyPair \cup {None}]
    /\ needs \in [Domain -> {"nothing", "rerun", "rotation"}] /\ missed \in BOOLEAN

LEMMA TypeStep ==
    ASSUME TypeInv, NEW c \in Caller, Moved(c), FilesOK'
    PROVE  TypeInv'
<1>1. TypeOK'
  BY DEF Moved, FilesOK, TypeOK
<1>2. ASSUME NEW e \in Caller PROVE CallOK(call'[e])
  BY DEF Moved, TypeInv
<1> QED BY <1>1, <1>2 DEF TypeInv

LEMMA CallFields ==
    ASSUME NEW q \in Call
    PROVE  /\ q.op \in AllOps \cup {"idle"} /\ q.at \in Label /\ q.dom \in Domain \cup {None}
           /\ q.text \in Text \cup {None, Blank} /\ q.todo \in SUBSET Domain
           /\ q = [op |-> q.op, at |-> q.at, dom |-> q.dom, text |-> q.text, todo |-> q.todo]
BY DEF Call

LEMMA IdleOK == CallOK(Idle) /\ Idle.at = "idle" /\ Idle.op = "idle" /\ Idle.todo = {}
<1>1. /\ Idle.at = "idle" /\ Idle.op = "idle" /\ Idle.dom = None /\ Idle.text = None
      /\ Idle.todo = {}
  BY DEF Idle
<1>2. Idle \in Call
  BY DEF Idle, Call, Label
<1> QED BY <1>1, <1>2 DEF CallOK

\* Goto and Hold move one caller: a call that runs stays in its operation.
LEMMA HoldEffect ==
    ASSUME TypeInv, NEW c \in Caller, call[c].at # "idle", NEW l \in Label, NEW t,
           l \notin {"idle", "rmRecord"}, l \in Holding => t \in Text, l \notin Holding => t = None,
           l = "restart" => call[c].op # "DomainAdd", Hold(c, l, t)
    PROVE  /\ Moved(c) /\ call'[c].at = l /\ call'[c].text = t /\ call'[c].op = call[c].op
           /\ call'[c].dom = call[c].dom /\ call'[c].todo = call[c].todo
<1>1. call \in [Caller -> Call] /\ CallOK(call[c]) /\ call[c] \in Call
  BY DEF TypeInv, TypeOK
<1> DEFINE p == call[c]
<1>2. PICK q : q = [p EXCEPT !.at = l, !.text = t]
  OBVIOUS
<1>3. q.op = p.op /\ q.at = l /\ q.dom = p.dom /\ q.text = t /\ q.todo = p.todo
  BY <1>1, <1>2 DEF Call
<1>4. t \in Text \cup {None, Blank}
  OBVIOUS
<1>5. call' = [call EXCEPT ![c] = q]
  BY <1>1, <1>2 DEF Hold
<1>6. q \in Call
  BY <1>1, <1>2, <1>4 DEF Call
<1>7. CallOK(q)
  BY <1>1, <1>3, <1>6 DEF CallOK, Holding
<1> QED BY <1>1, <1>3, <1>5, <1>6, <1>7 DEF Moved

LEMMA GotoEffect ==
    ASSUME TypeInv, NEW c \in Caller, call[c].at # "idle", NEW l \in Label,
           call[c].at \notin Holding, l \notin {"idle", "rmRecord"}, l \notin Holding,
           l = "restart" => call[c].op # "DomainAdd", Goto(c, l)
    PROVE  /\ Moved(c) /\ call'[c].at = l /\ call'[c].text = None /\ call'[c].op = call[c].op
           /\ call'[c].dom = call[c].dom /\ call'[c].todo = call[c].todo
<1>1. call \in [Caller -> Call] /\ CallOK(call[c]) /\ call[c] \in Call
  BY DEF TypeInv, TypeOK
<1>2. call[c].text = None
  BY <1>1 DEF CallOK, Holding
<1>3. [call[c] EXCEPT !.at = l, !.text = None] = [call[c] EXCEPT !.at = l]
  BY <1>1, <1>2 DEF Call
<1>4. Hold(c, l, None)
  BY <1>1, <1>3 DEF Goto, Hold
<1> QED BY <1>4, HoldEffect

LEMMA ReturnEffect ==
    ASSUME TypeInv, NEW c \in Caller, Return(c)
    PROVE  Moved(c) /\ call'[c] = Idle
<1>1. call \in [Caller -> Call] /\ Idle \in Call
  BY IdleOK DEF TypeInv, TypeOK, CallOK
<1>2. call'[c] = Idle /\ call' \in [Caller -> Call]
  BY <1>1 DEF Return
<1> QED BY <1>1, <1>2, IdleOK DEF Moved, Return

\* An operation starts at a domain.
LEMMA StartEffect ==
    ASSUME TypeInv, NEW c \in Caller, NEW op \in AllOps, NEW l \in {"stat", "rmRecord"},
           NEW d \in Domain, l = "rmRecord" => op = "RotateDKIMKey",
           call' = [call EXCEPT ![c] = [Idle EXCEPT !.op = op, !.at = l, !.dom = d]]
    PROVE  Moved(c) /\ call'[c].at = l /\ call'[c].op = op /\ call'[c].dom = d
<1>1. call \in [Caller -> Call] /\ Idle \in Call /\ Idle.text = None /\ Idle.todo = {}
  BY IdleOK DEF TypeInv, TypeOK, CallOK, Idle
<1>2. PICK q : q = [Idle EXCEPT !.op = op, !.at = l, !.dom = d]
  OBVIOUS
<1>3. q.op = op /\ q.at = l /\ q.dom = d /\ q.text = None /\ q.todo = {}
  BY <1>1, <1>2 DEF Call
<1>4. l \in Label
  BY DEF Label
<1>5. q \in Call
  BY <1>1, <1>2, <1>4 DEF Call
<1>6. CallOK(q)
  BY <1>3, <1>5 DEF CallOK, AllOps
<1>7. call' = [call EXCEPT ![c] = q]
  BY <1>2
<1> QED BY <1>1, <1>3, <1>5, <1>6, <1>7 DEF Moved

-----------------------------------------------------------------------------
(***************************************************************************)
(* What each action does to the files of the domain it works on, and to     *)
(* rspamd, seen from the call that makes the step.                          *)
(***************************************************************************)

\* What Progress says of a call that runs alone.
Local(q) ==
    /\ Doing(q)
    /\ \A d \in Domain : (q.at \notin {"idle", "restart"} /\ q.dom = d) \/ Fit(d)
    /\ missed \/ q.op = "RotateDKIMKey" \/ Current

\* No key is replaced by another.
KeysKept == \A d \in Domain : key[d] # None => key'[d] \in {key[d], None}

\* A step of caller c that its invariant survives as far as it is about c.
Keeps(c) ==
    /\ Moved(c)
    /\ KeygenOK(call[c])'
    /\ KeygenOK(call[c]) => KeysKept
    /\ KeygenOK(call[c]) /\ Local(call[c]) => Local(call[c])'

LEMMA Marks ==
    /\ None \notin KeyPair /\ None \notin Text /\ Blank \notin Text /\ NotFound \notin Text
    /\ None # Blank
    /\ \A k \in KeyPair : /\ Printed(k) \in Text /\ Printed(k).pair = k
                          /\ Published(k) \in Text /\ Published(k).pair = k
                          /\ Published(k).name = "qualified" /\ Published(k).quoting = "wire"
<1>1. \A k \in KeyPair : Printed(k) \in Text /\ Printed(k).pair = k
  BY DEF Printed, Text
<1>2. \A k \in KeyPair : /\ Published(k) \in Text /\ Published(k).pair = k
                         /\ Published(k).name = "qualified" /\ Published(k).quoting = "wire"
  BY DEF Published, Text
<1> QED BY <1>1, <1>2, MarkAssumption

LEMMA TypeFacts ==
    ASSUME TypeInv, NEW c \in Caller
    PROVE  /\ call \in [Caller -> Call] /\ CallOK(call[c])
           /\ FilesOK /\ (call[c].at # "idle" => call[c].dom \in Domain)
           /\ call[c].todo \in SUBSET Domain
<1>1. call[c].todo \in SUBSET Domain
  BY CallFields DEF TypeInv, TypeOK
<1> QED BY <1>1 DEF TypeInv, TypeOK, FilesOK, CallOK

LEMMA LabelFact ==
    {"idle", "rmRecord", "stat", "keygen", "record", "name", "writeName", "quoting",
     "writeQuoting", "policy", "dump", "restart"} \subseteq Label
BY DEF Label

\* A text of one pair is the published record when its name and its quoting are right.
LEMMA TextIsPublished ==
    ASSUME NEW t \in Text, t.name = "qualified", t.quoting = "wire"
    PROVE  t = Published(t.pair)
BY DEF Text, Published

\* The files of a domain that a step leaves alone stay fit.
Kept(d) ==
    /\ key'[d] = key[d] /\ record'[d] = record[d] /\ dump'[d] = dump[d] /\ needs'[d] = needs[d]
    /\ d \in registered' => d \in registered

LEMMA KeptFit ==
    ASSUME NEW d \in Domain, Kept(d)
    PROVE  (PairText(d) => PairText(d)') /\ (Fit(d) => Fit(d)')
BY DEF Kept, Fit, PairText, Good, PairOK

LEMMA DomainAddStep ==
    ASSUME TypeInv, NEW c \in Caller, DomainAdd(c)
    PROVE  TypeInv' /\ Keeps(c)
<1>1. PICK d \in Domain :
         /\ registered' = registered \cup {d}
         /\ call' = [call EXCEPT ![c] = [Idle EXCEPT !.op = "DomainAdd", !.at = "stat",
                                                     !.dom = d]]
  BY DEF DomainAdd
<1>2. call[c] = Idle /\ UNCHANGED << key, record, dump, policy, loaded, needs, missed >>
  BY DEF DomainAdd, Free, files, hist
<1>4. /\ Moved(c) /\ call'[c].at = "stat" /\ call'[c].op = "DomainAdd" /\ call'[c].dom = d
  BY <1>1, StartEffect DEF AllOps
<1>5. TypeInv'
  <2>1. FilesOK'
    BY <1>1, <1>2, TypeFacts DEF FilesOK
  <2> QED BY <1>4, <2>1, TypeStep
<1>6. ASSUME Local(call[c]) PROVE Local(call[c])'
  <2>1. \A e \in Domain : Fit(e)
    BY <1>2, <1>6, IdleOK DEF Local
  <2>2. PairText(d)'
    BY <1>2, <2>1 DEF Fit, PairText
  <2>3. \A e \in Domain : e # d => Fit(e)'
    BY <1>1, <1>2, <2>1, KeptFit DEF Kept
  <2>4. missed' \/ Current'
    BY <1>2, <1>6, IdleOK DEF Local, Current
  <2>5. Doing(call[c])'
    BY <1>4, <2>2 DEF Doing
  <2> QED BY <1>4, <2>3, <2>4, <2>5 DEF Local
<1> QED BY <1>2, <1>4, <1>5, <1>6 DEF Keeps, KeygenOK, KeysKept

LEMMA DomainRemoveStep ==
    ASSUME TypeInv, NEW c \in Caller, DomainRemove(c)
    PROVE  TypeInv' /\ Keeps(c)
<1>1. PICK d \in Domain : registered' = registered \ {d}
  BY DEF DomainRemove
<1>2. call[c] = Idle /\ UNCHANGED << key, record, dump, policy, loaded, call, needs, missed >>
  BY DEF DomainRemove, Free, files, hist
<1>3. Moved(c)
  BY <1>2, TypeFacts DEF Moved
<1>4. TypeInv'
  <2>1. FilesOK'
    BY <1>1, <1>2, TypeFacts DEF FilesOK
  <2> QED BY <1>3, <2>1, TypeStep
<1>5. ASSUME Local(call[c]) PROVE Local(call[c])'
  <2>1. \A e \in Domain : Fit(e)
    BY <1>2, <1>5, IdleOK DEF Local
  <2>2. \A e \in Domain : Fit(e)'
    BY <1>1, <1>2, <2>1, KeptFit DEF Kept
  <2>3. missed' \/ Current'
    BY <1>2, <1>5, IdleOK DEF Local, Current
  <2>4. Doing(call[c])'
    BY <1>2, IdleOK DEF Doing
  <2> QED BY <2>2, <2>3, <2>4 DEF Local
<1>6. KeygenOK(call[c])'
  BY <1>2, IdleOK DEF KeygenOK
<1> QED BY <1>2, <1>3, <1>4, <1>5, <1>6 DEF Keeps, KeysKept

LEMMA RotateStep ==
    ASSUME TypeInv, NEW c \in Caller, RotateDKIMKey(c)
    PROVE  TypeInv' /\ Keeps(c)
<1>1. PICK d \in Domain :
         /\ key' = [key EXCEPT ![d] = None]
         /\ needs' = [needs EXCEPT ![d] = IF @ = "rotation" THEN "rerun" ELSE @]
         /\ call' = [call EXCEPT ![c] = [Idle EXCEPT !.op = "RotateDKIMKey", !.at = "rmRecord",
                                                     !.dom = d]]
  BY DEF RotateDKIMKey
<1>2. call[c] = Idle /\ UNCHANGED << registered, record, dump, policy, loaded, missed >>
  BY DEF RotateDKIMKey, Free
<1>3. /\ Moved(c) /\ call'[c].at = "rmRecord" /\ call'[c].op = "RotateDKIMKey"
      /\ call'[c].dom = d
  BY <1>1, StartEffect DEF AllOps
<1>4. key \in [Domain -> KeyPair \cup {None}] /\ key' \in [Domain -> KeyPair \cup {None}]
      /\ key'[d] = None /\ \A e \in Domain : e # d => key'[e] = key[e]
  BY <1>1, TypeFacts DEF FilesOK
<1>5. needs' \in [Domain -> {"nothing", "rerun", "rotation"}]
      /\ \A e \in Domain : e # d => needs'[e] = needs[e]
  BY <1>1, TypeFacts DEF FilesOK
<1>6. TypeInv'
  <2>1. FilesOK'
    BY <1>2, <1>4, <1>5, TypeFacts DEF FilesOK
  <2> QED BY <1>3, <2>1, TypeStep
<1>7. ASSUME Local(call[c]) PROVE Local(call[c])'
  <2>1. \A e \in Domain : Fit(e)
    BY <1>2, <1>7, IdleOK DEF Local
  <2>2. \A e \in Domain : e # d => Fit(e)'
    BY <1>2, <1>4, <1>5, <2>1, KeptFit DEF Kept
  <2>3. Doing(call[c])'
    BY <1>3, <1>4 DEF Doing
  <2> QED BY <1>3, <2>2, <2>3 DEF Local
<1>8. KeysKept
  BY <1>4 DEF KeysKept
<1> QED BY <1>3, <1>6, <1>7, <1>8 DEF Keeps, KeygenOK

LEMMA RotateRemoveRecordStep ==
    ASSUME TypeInv, NEW c \in Caller, RotateRemoveRecord(c)
    PROVE  TypeInv' /\ Keeps(c)
<1> DEFINE d == call[c].dom
<1>1. /\ call[c].at = "rmRecord" /\ Goto(c, "stat") /\ record' = [record EXCEPT ![d] = None]
      /\ UNCHANGED << registered, key, dump, policy, loaded, needs, missed >>
  BY DEF RotateRemoveRecord, At, hist
<1>2. /\ Moved(c) /\ call'[c].at = "stat" /\ call'[c].op = call[c].op /\ call'[c].dom = d
  BY <1>1, GotoEffect, LabelFact DEF Holding
<1>3. d \in Domain
  BY <1>1, TypeFacts
<1> HIDE DEF d
<1>4. /\ record' \in [Domain -> Text \cup {None, Blank}]
      /\ \A e \in Domain : e # d => record'[e] = record[e]
  BY <1>1, <1>3, TypeFacts DEF FilesOK
<1>5. TypeInv'
  <2>1. FilesOK'
    BY <1>1, <1>4, TypeFacts DEF FilesOK
  <2> QED BY <1>2, <2>1, TypeStep
<1>6. ASSUME Local(call[c]) PROVE Local(call[c])'
  <2>1. key[d] = None
    BY <1>1, <1>6 DEF Local, Doing, d
  <2>2. \A e \in Domain : e # d => Fit(e)
    BY <1>6 DEF Local, d
  <2>3. \A e \in Domain : e # d => Fit(e)'
    BY <1>1, <1>4, <2>2, KeptFit DEF Kept
  <2>4. Doing(call[c])'
    BY <1>1, <1>2, <2>1 DEF Doing, PairText
  <2>5. call[c].op = "RotateDKIMKey"
    BY <1>1, TypeFacts DEF CallOK
  <2> QED BY <1>2, <2>3, <2>4, <2>5 DEF Local
<1> QED BY <1>1, <1>2, <1>5, <1>6 DEF Keeps, KeygenOK, KeysKept

LEMMA PhaseStep ==
    ASSUME TypeInv, NEW c \in Caller, phase_run(c)
    PROVE  TypeInv' /\ Keeps(c)
<1>1. PICK d \in Installed :
         call' = [call EXCEPT ![c] = [Idle EXCEPT !.op = "phase_run", !.at = "stat",
                                                  !.dom = d, !.todo = Installed \ {d}]]
  BY DEF phase_run
<1>2. /\ call[c] = Idle
      /\ UNCHANGED << registered, key, record, dump, policy, loaded, needs, missed >>
  BY DEF phase_run, Free, files, hist
<1>3. d \in Domain /\ Installed \ {d} \in SUBSET Domain
  BY DkimAssumption
<1>4. Moved(c) /\ call'[c].at = "stat" /\ call'[c].op = "phase_run" /\ call'[c].dom = d
  <2>1. Idle \in Call /\ Idle.text = None
    BY IdleOK DEF CallOK, Idle
  <2>2. PICK w : w = Installed \ {d}
    OBVIOUS
  <2>3. PICK q : q = [Idle EXCEPT !.op = "phase_run", !.at = "stat", !.dom = d, !.todo = w]
    OBVIOUS
  <2>4. q.op = "phase_run" /\ q.at = "stat" /\ q.dom = d /\ q.text = None
    BY <2>1, <2>3 DEF Call
  <2>5. "stat" \in Label /\ "phase_run" \in AllOps
    BY DEF Label, AllOps
  <2>6. q \in Call
    BY <1>3, <2>1, <2>2, <2>3, <2>5 DEF Call
  <2>7. CallOK(q)
    BY <1>3, <2>4, <2>6 DEF CallOK
  <2>8. call' = [call EXCEPT ![c] = q]
    BY <1>1, <2>2, <2>3
  <2> QED BY <2>4, <2>6, <2>7, <2>8, TypeFacts DEF Moved
<1>5. TypeInv'
  <2>1. FilesOK'
    BY <1>2, TypeFacts DEF FilesOK
  <2> QED BY <1>4, <2>1, TypeStep
<1>6. ASSUME Local(call[c]) PROVE Local(call[c])'
  <2>1. \A e \in Domain : Fit(e)
    BY <1>2, <1>6, IdleOK DEF Local
  <2>2. \A e \in Domain : Fit(e)'
    BY <1>2, <2>1, KeptFit DEF Kept
  <2>3. missed' \/ Current'
    BY <1>2, <1>6, IdleOK DEF Local, Current
  <2>4. Doing(call[c])'
    BY <1>3, <1>4, <2>2 DEF Doing, Fit
  <2> QED BY <2>2, <2>3, <2>4 DEF Local
<1> QED BY <1>2, <1>4, <1>5, <1>6 DEF Keeps, KeygenOK, KeysKept

-----------------------------------------------------------------------------
(* Provisioning one domain.                                                 *)

LEMMA StatKeyStep ==
    ASSUME TypeInv, NEW c \in Caller, StatKey(c)
    PROVE  TypeInv' /\ Keeps(c)
<1> DEFINE d == call[c].dom
<1>1. /\ call[c].at = "stat"
      /\ UNCHANGED << registered, key, dump, policy, loaded, needs, missed >>
  BY DEF StatKey, At, hist
<1>2. d \in Domain
  BY <1>1, TypeFacts
<1>3. CASE key[d] = None
  <2>1. /\ Goto(c, "keygen")
        /\ record' = IF call[c].op = "phase_run" THEN [record EXCEPT ![d] = Blank] ELSE record
    BY <1>3 DEF StatKey, KeyMissing
  <2>2. /\ Moved(c) /\ call'[c].at = "keygen" /\ call'[c].op = call[c].op
        /\ call'[c].dom = d
    BY <1>1, <2>1, GotoEffect, LabelFact DEF Holding
  <2> HIDE DEF d
  <2>3. /\ record' \in [Domain -> Text \cup {None, Blank}]
        /\ \A e \in Domain : e # d => record'[e] = record[e]
    BY <1>2, <2>1, TypeFacts DEF FilesOK
  <2>4. TypeInv'
    <3>1. FilesOK'
      BY <1>1, <2>3, TypeFacts DEF FilesOK
    <3> QED BY <2>2, <3>1, TypeStep
  <2>5. KeygenOK(call[c])'
    BY <1>1, <1>3, <2>2 DEF KeygenOK
  <2>6. ASSUME Local(call[c]) PROVE Local(call[c])'
    <3>1. \A e \in Domain : e # d => Fit(e)
      BY <2>6 DEF Local, d
    <3>2. \A e \in Domain : e # d => Fit(e)'
      BY <1>1, <2>3, <3>1, KeptFit DEF Kept
    <3>3. Doing(call[c])'
      BY <2>2 DEF Doing
    <3> QED BY <1>1, <2>2, <2>6, <3>2, <3>3 DEF Local, Current
  <2> QED BY <1>1, <2>2, <2>4, <2>5, <2>6 DEF Keeps, KeysKept
<1>4. CASE key[d] # None
  <2>1. Goto(c, "name") /\ UNCHANGED record
    BY <1>4 DEF StatKey, KeyMissing
  <2>2. /\ Moved(c) /\ call'[c].at = "name" /\ call'[c].op = call[c].op
        /\ call'[c].dom = d
    BY <1>1, <2>1, GotoEffect, LabelFact DEF Holding
  <2> HIDE DEF d
  <2>3. TypeInv'
    <3>1. FilesOK'
      BY <1>1, <2>1, TypeFacts DEF FilesOK
    <3> QED BY <2>2, <3>1, TypeStep
  <2>4. ASSUME Local(call[c]) PROVE Local(call[c])'
    <3>1. PairText(d)
      BY <1>1, <2>4 DEF Local, Doing, d
    <3>2. PairText(call[c].dom)'
      BY <1>1, <2>1, <2>2, <3>1 DEF PairText, d
    <3>3. Doing(call[c])'
      BY <1>1, <1>4, <2>2, <3>2 DEF Doing, d
    <3>4. \A e \in Domain : e # d => Fit(e)
      BY <2>4 DEF Local, d
    <3>5. \A e \in Domain : e # d => Fit(e)'
      BY <1>1, <2>1, <3>4, KeptFit DEF Kept
    <3> QED BY <1>1, <2>2, <2>4, <3>3, <3>5 DEF Local, Current
  <2> QED BY <1>1, <2>2, <2>3, <2>4 DEF Keeps, KeygenOK, KeysKept
<1> QED BY <1>3, <1>4

LEMMA KeygenStep ==
    ASSUME TypeInv, NEW c \in Caller, dkim_keygen(c)
    PROVE  TypeInv' /\ Keeps(c)
<1> DEFINE d == call[c].dom
<1>1. PICK k \in KeyPair : key' = [key EXCEPT ![d] = k] /\ Hold(c, "record", Printed(k))
  BY DEF dkim_keygen
<1>2. /\ call[c].at = "keygen"
      /\ UNCHANGED << registered, record, dump, policy, loaded, needs, missed >>
  BY DEF dkim_keygen, At, hist
<1>3. d \in Domain
  BY <1>2, TypeFacts
<1>4. /\ Moved(c) /\ call'[c].at = "record" /\ call'[c].text = Printed(k)
      /\ call'[c].op = call[c].op /\ call'[c].dom = d
  BY <1>1, <1>2, HoldEffect, LabelFact, Marks DEF Holding
<1> HIDE DEF d
<1>5. /\ key' \in [Domain -> KeyPair \cup {None}] /\ key'[d] = k
      /\ \A e \in Domain : e # d => key'[e] = key[e]
  BY <1>1, <1>3, TypeFacts DEF FilesOK
<1>6. TypeInv'
  <2>1. FilesOK'
    BY <1>2, <1>5, TypeFacts DEF FilesOK
  <2> QED BY <1>4, <2>1, TypeStep
<1>7. ASSUME KeygenOK(call[c]) PROVE key[d] = None
  BY <1>2, <1>7 DEF KeygenOK, d
<1>8. ASSUME KeygenOK(call[c]), Local(call[c]) PROVE Local(call[c])'
  <2>1. \A e \in Domain : e # d => Fit(e)
    BY <1>8 DEF Local, d
  <2>2. \A e \in Domain : e # d => Fit(e)'
    BY <1>2, <1>5, <2>1, KeptFit DEF Kept
  <2>3. Doing(call[c])'
    BY <1>4, <1>5, Marks DEF Doing
  <2>4. ASSUME call[c].op # "RotateDKIMKey", ~missed, NEW e \in Domain
        PROVE  loaded'[e] \in {None, key'[e]}
    <3>1. loaded'[e] \in {None, key[e]}
      BY <1>2, <1>8, <2>4 DEF Local, Current
    <3> QED BY <1>5, <1>7, <1>8, <3>1
  <2>5. missed' \/ call'[c].op = "RotateDKIMKey" \/ Current'
    BY <1>2, <1>4, <2>4 DEF Current
  <2> QED BY <1>4, <2>2, <2>3, <2>5 DEF Local
<1>9. ASSUME KeygenOK(call[c]) PROVE KeysKept
  BY <1>5, <1>7, <1>9 DEF KeysKept
<1> QED BY <1>2, <1>4, <1>6, <1>8, <1>9 DEF Keeps, KeygenOK

\* A step that stays with its domain and writes at most that domain's record.
LEMMA SameDomainStep ==
    ASSUME TypeInv, NEW c \in Caller, call[c].at \notin {"idle", "restart"}, Moved(c),
           call'[c].at \notin {"idle", "restart", "keygen"}, call'[c].op = call[c].op,
           call'[c].dom = call[c].dom,
           record' \in [Domain -> Text \cup {None, Blank}],
           \A e \in Domain : e # call[c].dom => record'[e] = record[e],
           policy' \subseteq Domain,
           UNCHANGED << registered, key, dump, loaded, needs, missed >>,
           Local(call[c]) => Doing(call[c])'
    PROVE  TypeInv' /\ Keeps(c)
<1>1. TypeInv'
  <2>1. FilesOK'
    BY TypeFacts DEF FilesOK
  <2> QED BY <2>1, TypeStep
<1>2. ASSUME Local(call[c]) PROVE Local(call[c])'
  <2>1. \A e \in Domain : e # call[c].dom => Fit(e)
    BY <1>2 DEF Local
  <2>2. \A e \in Domain : e # call[c].dom => Fit(e)'
    BY <2>1, KeptFit DEF Kept
  <2> QED BY <1>2, <2>2 DEF Local, Current
<1> QED BY <1>1, <1>2 DEF Keeps, KeygenOK, KeysKept

\* Writing a text into the record of the call's domain.
LEMMA WriteFact ==
    ASSUME TypeInv, NEW d \in Domain, NEW t \in Text, record' = [record EXCEPT ![d] = t]
    PROVE  /\ record' \in [Domain -> Text \cup {None, Blank}] /\ record'[d] = t
           /\ \A e \in Domain : e # d => record'[e] = record[e]
BY DEF TypeInv, TypeOK

LEMMA WriteRecordStep ==
    ASSUME TypeInv, NEW c \in Caller, WriteRecord(c)
    PROVE  TypeInv' /\ Keeps(c)
<1>1. /\ call[c].at = "record" /\ record' = [record EXCEPT ![call[c].dom] = call[c].text]
      /\ Hold(c, "name", None)
      /\ UNCHANGED << registered, key, dump, policy, loaded, needs, missed >>
  BY DEF WriteRecord, At, hist
<1>2. call[c].dom \in Domain /\ call[c].text \in Text /\ policy \subseteq Domain
  BY <1>1, TypeFacts DEF CallOK, FilesOK
<1>3. Moved(c) /\ call'[c].at = "name" /\ call'[c].op = call[c].op /\ call'[c].dom = call[c].dom
  BY <1>1, HoldEffect, LabelFact DEF Holding
<1>4. /\ record' \in [Domain -> Text \cup {None, Blank}] /\ record'[call[c].dom] = call[c].text
      /\ \A e \in Domain : e # call[c].dom => record'[e] = record[e]
  BY <1>1, <1>2, WriteFact
<1>5. ASSUME Local(call[c]) PROVE Doing(call[c])'
  <2>1. key[call[c].dom] # None /\ call[c].text = Printed(key[call[c].dom])
    BY <1>1, <1>5 DEF Local, Doing
  <2>2. key[call[c].dom] \in KeyPair
    BY <1>2, <2>1, TypeFacts DEF FilesOK
  <2>3. call[c].text.pair = key[call[c].dom]
    BY <2>1, <2>2, Marks
  <2>4. PairText(call[c].dom)'
    BY <1>1, <1>2, <1>3, <1>4, <2>3 DEF PairText
  <2> QED BY <1>1, <1>3, <2>1, <2>4 DEF Doing
<1> QED BY <1>1, <1>2, <1>3, <1>4, <1>5, SameDomainStep

\* Wherever a call ends early, what it leaves undone is noted.
LEMMA EndEarlyStep ==
    ASSUME TypeInv, NEW c \in Caller, call[c].at # "idle", EndEarly(c),
           UNCHANGED << registered, files, loaded >>
    PROVE  TypeInv' /\ Keeps(c)
<1>d. PICK d : d = call[c].dom
  OBVIOUS
<1>1. /\ Return(c) /\ missed' = (missed \/ call[c].op = "RotateDKIMKey")
      /\ needs' = IF call[c].at = "restart" THEN needs
                  ELSE [needs EXCEPT ![d] =
                          IF call[c].at = "record" \/ @ = "rotation" THEN "rotation" ELSE "rerun"]
      /\ UNCHANGED << registered, key, record, dump, policy, loaded >>
  BY <1>d DEF EndEarly, At, files
<1>2. Moved(c) /\ call'[c] = Idle
  BY <1>1, ReturnEffect
<1>3. d \in Domain /\ needs \in [Domain -> {"nothing", "rerun", "rotation"}]
  BY <1>d, TypeFacts DEF FilesOK
<1>4. /\ needs' \in [Domain -> {"nothing", "rerun", "rotation"}]
      /\ \A e \in Domain : e # d => needs'[e] = needs[e]
      /\ call[c].at = "restart" => needs'[d] = needs[d]
      /\ call[c].at = "record" => needs'[d] = "rotation"
      /\ call[c].at # "restart" => needs'[d] # "nothing"
      /\ needs[d] = "rotation" => needs'[d] = "rotation"
  BY <1>1, <1>3
<1>5. missed' \in BOOLEAN
  BY <1>1
<1>6. TypeInv'
  <2>1. FilesOK'
    BY <1>1, <1>4, <1>5, TypeFacts DEF FilesOK
  <2> QED BY <1>2, <2>1, TypeStep
<1>7. ASSUME KeygenOK(call[c]), Local(call[c]) PROVE Local(call[c])'
  <2>1. ASSUME NEW e \in Domain, e # d PROVE Fit(e)'
    <3>1. Fit(e)
      BY <1>d, <1>7, <2>1 DEF Local
    <3> QED BY <1>1, <1>4, <2>1, <3>1, KeptFit DEF Kept
  <2>2. Fit(d)'
    <3>1. CASE call[c].at = "restart"
      <4>1. Fit(d)
        BY <1>3, <1>7, <3>1 DEF Local
      <4> QED BY <1>1, <1>3, <1>4, <3>1, <4>1, KeptFit DEF Kept
    <3>2. CASE call[c].at = "record"
      BY <1>4, <3>2 DEF Fit, PairText
    <3>3. CASE call[c].at \in {"rmRecord", "keygen"} /\ key[d] = None
      BY <1>1, <1>4, <3>3 DEF Fit, PairText
    <3>4. CASE call[c].at \notin {"restart", "record", "rmRecord", "keygen"}
      <4>1. call[c].at \in Label
        BY TypeFacts, CallFields DEF CallOK
      <4>2. PairText(d)
        BY <1>d, <1>7, <3>4, <4>1 DEF Local, Doing, Label
      <4>3. PairText(d)'
        BY <1>1, <1>4, <4>2 DEF PairText
      <4> QED BY <1>4, <3>4, <4>3 DEF Fit
    <3>5. call[c].at = "rmRecord" => key[d] = None
      BY <1>d, <1>7 DEF Local, Doing
    <3>6. call[c].at = "keygen" => key[d] = None
      BY <1>d, <1>7 DEF KeygenOK
    <3> QED BY <3>1, <3>2, <3>3, <3>4, <3>5, <3>6
  <2>3. missed' \/ Current'
    BY <1>1, <1>7 DEF Local, Current
  <2>4. Doing(call[c])'
    BY <1>2, IdleOK DEF Doing
  <2> QED BY <2>1, <2>2, <2>3, <2>4 DEF Local
<1> QED BY <1>1, <1>2, <1>6, <1>7, IdleOK DEF Keeps, KeygenOK, KeysKept

\* A normalize function that reads the record: it fails, or leaves a text alone that is right
\* or not to be recognized, or goes on to rewrite it.
LEMMA NormalizeReadStep ==
    ASSUME TypeInv, NEW c \in Caller, NEW l \in {"name", "quoting"},
           NEW w \in {"writeName", "writeQuoting"}, NEW next \in {"quoting", "policy"},
           NEW right \in BOOLEAN, NormalizeRead(c, l, w, next, right),
           ASSUME Local(call[c]), record' = record, key' = key, needs' = needs,
                  call'[c].at = next, call'[c].dom = call[c].dom,
                  record[call[c].dom] \in Text => right
           PROVE  Doing(call[c])',
           ASSUME Local(call[c]), record' = record, key' = key, needs' = needs,
                  call'[c].at = w, call'[c].dom = call[c].dom, ~right,
                  call'[c].text = record[call[c].dom]
           PROVE  Doing(call[c])'
    PROVE  TypeInv' /\ Keeps(c)
<1> DEFINE t == record[call[c].dom]
<1>1. /\ call[c].at = l /\ UNCHANGED << registered, files, loaded >>
      /\ \/ EndEarly(c)
         \/ (t \in Text => right) /\ Goto(c, next) /\ UNCHANGED << needs, missed >>
         \/ t \in Text /\ ~right /\ Hold(c, w, t) /\ UNCHANGED << needs, missed >>
  BY DEF NormalizeRead, At, hist
<1>2. call[c].dom \in Domain /\ policy \subseteq Domain
      /\ record \in [Domain -> Text \cup {None, Blank}]
  BY <1>1, TypeFacts DEF FilesOK
<1> HIDE DEF t
<1>3. CASE EndEarly(c)
  BY <1>1, <1>3, EndEarlyStep
<1>4. CASE (t \in Text => right) /\ Goto(c, next) /\ UNCHANGED << needs, missed >>
  <2>1. /\ Moved(c) /\ call'[c].at = next /\ call'[c].op = call[c].op
        /\ call'[c].dom = call[c].dom
    BY <1>1, <1>4, GotoEffect, LabelFact DEF Holding
  <2>2. ASSUME Local(call[c]) PROVE Doing(call[c])'
    BY <1>1, <1>4, <2>1, <2>2 DEF t, files
  <2> QED BY <1>1, <1>2, <1>4, <2>1, <2>2, SameDomainStep DEF files
<1>5. CASE t \in Text /\ ~right /\ Hold(c, w, t) /\ UNCHANGED << needs, missed >>
  <2>1. /\ Moved(c) /\ call'[c].at = w /\ call'[c].op = call[c].op
        /\ call'[c].dom = call[c].dom /\ call'[c].text = t
    BY <1>1, <1>5, HoldEffect, LabelFact DEF Holding
  <2>2. ASSUME Local(call[c]) PROVE Doing(call[c])'
    BY <1>1, <1>5, <2>1, <2>2 DEF t, files
  <2> QED BY <1>1, <1>2, <1>5, <2>1, <2>2, SameDomainStep DEF files
<1> QED BY <1>1, <1>3, <1>4, <1>5

LEMMA NameStep ==
    ASSUME TypeInv, NEW c \in Caller, normalizeDKIMRecordName(c)
    PROVE  TypeInv' /\ Keeps(c)
<1> DEFINE t == record[call[c].dom]
<1>1. CASE NormalizeRead(c, "name", "writeName", "quoting", t.name = "qualified")
  <2>1. PICK right \in BOOLEAN : right <=> t.name = "qualified"
    OBVIOUS
  <2>2. right = (t.name = "qualified")
    BY <2>1
  <2>3. NormalizeRead(c, "name", "writeName", "quoting", right)
    BY <1>1, <2>2
  <2>4. call[c].at = "name"
    BY <1>1 DEF NormalizeRead, At
  <2>5. ASSUME Local(call[c])
        PROVE  key[call[c].dom] # None /\ PairText(call[c].dom)
    BY <2>4, <2>5 DEF Local, Doing
  <2>6. ASSUME Local(call[c]), record' = record, key' = key, needs' = needs,
               call'[c].at = "quoting", call'[c].dom = call[c].dom,
               record[call[c].dom] \in Text => right
        PROVE  Doing(call[c])'
    <3>1. PairText(call[c].dom)'
      BY <2>5, <2>6 DEF PairText
    <3>2. needs[call[c].dom] # "rotation" => t.name = "qualified"
      BY <2>1, <2>5, <2>6 DEF PairText
    <3> QED BY <2>5, <2>6, <3>1, <3>2 DEF Doing
  <2>7. ASSUME Local(call[c]), record' = record, key' = key, needs' = needs,
               call'[c].at = "writeName", call'[c].dom = call[c].dom, ~right,
               call'[c].text = record[call[c].dom]
        PROVE  Doing(call[c])'
    <3>1. PairText(call[c].dom)'
      BY <2>5, <2>7 DEF PairText
    <3> QED BY <2>5, <2>7, <3>1 DEF Doing
  <2> QED BY <2>3, <2>6, <2>7, NormalizeReadStep
<1>2. CASE NormalizeWrite(c, "writeName", "quoting", [call[c].text EXCEPT !.name = "qualified"])
  <2>1. PICK u : u = [call[c].text EXCEPT !.name = "qualified"]
    OBVIOUS
  <2>2. /\ call[c].at = "writeName" /\ record' = [record EXCEPT ![call[c].dom] = u]
        /\ Hold(c, "quoting", None)
        /\ UNCHANGED << registered, key, dump, policy, loaded, needs, missed >>
    BY <1>2, <2>1 DEF NormalizeWrite, At, hist
  <2>3. call[c].dom \in Domain /\ call[c].text \in Text /\ policy \subseteq Domain
    BY <2>2, TypeFacts DEF CallOK, FilesOK
  <2>4. u \in Text /\ u.name = "qualified" /\ u.pair = call[c].text.pair
    BY <2>1, <2>3 DEF Text
  <2>5. /\ Moved(c) /\ call'[c].at = "quoting" /\ call'[c].op = call[c].op
        /\ call'[c].dom = call[c].dom
    BY <2>2, HoldEffect, LabelFact DEF Holding
  <2>6. /\ record' \in [Domain -> Text \cup {None, Blank}] /\ record'[call[c].dom] = u
        /\ \A e \in Domain : e # call[c].dom => record'[e] = record[e]
    BY <2>2, <2>3, <2>4, WriteFact
  <2>7. ASSUME Local(call[c]) PROVE Doing(call[c])'
    <3>1. /\ key[call[c].dom] # None /\ PairText(call[c].dom)
          /\ call[c].text = record[call[c].dom]
      BY <2>2, <2>7 DEF Local, Doing
    <3>2. PairText(call[c].dom)'
      BY <2>2, <2>4, <2>5, <2>6, <3>1 DEF PairText
    <3> QED BY <2>2, <2>4, <2>5, <2>6, <3>1, <3>2 DEF Doing
  <2> QED BY <2>2, <2>3, <2>5, <2>6, <2>7, SameDomainStep
<1> QED BY <1>1, <1>2 DEF normalizeDKIMRecordName

LEMMA QuotingStep ==
    ASSUME TypeInv, NEW c \in Caller, normalizeDKIMRecordQuoting(c)
    PROVE  TypeInv' /\ Keeps(c)
<1> DEFINE t == record[call[c].dom]
<1>1. CASE NormalizeRead(c, "quoting", "writeQuoting", "policy", t.quoting = "wire")
  <2>1. PICK right \in BOOLEAN : right <=> t.quoting = "wire"
    OBVIOUS
  <2>2. right = (t.quoting = "wire")
    BY <2>1
  <2>3. NormalizeRead(c, "quoting", "writeQuoting", "policy", right)
    BY <1>1, <2>2
  <2>4. call[c].at = "quoting"
    BY <1>1 DEF NormalizeRead, At
  <2>5. ASSUME Local(call[c])
        PROVE  /\ key[call[c].dom] # None /\ PairText(call[c].dom)
               /\ needs[call[c].dom] # "rotation" => t.name = "qualified"
    BY <2>4, <2>5 DEF Local, Doing
  <2>6. ASSUME Local(call[c]), record' = record, key' = key, needs' = needs,
               call'[c].at = "policy", call'[c].dom = call[c].dom,
               record[call[c].dom] \in Text => right
        PROVE  Doing(call[c])'
    <3>1. PairText(call[c].dom)'
      BY <2>5, <2>6 DEF PairText
    <3>2. ASSUME needs[call[c].dom] # "rotation" PROVE t = Published(key[call[c].dom])
      BY <2>1, <2>5, <2>6, <3>2, TextIsPublished DEF PairText
    <3> QED BY <2>5, <2>6, <3>1, <3>2 DEF Doing
  <2>7. ASSUME Local(call[c]), record' = record, key' = key, needs' = needs,
               call'[c].at = "writeQuoting", call'[c].dom = call[c].dom, ~right,
               call'[c].text = record[call[c].dom]
        PROVE  Doing(call[c])'
    <3>1. PairText(call[c].dom)'
      BY <2>5, <2>7 DEF PairText
    <3> QED BY <2>5, <2>7, <3>1 DEF Doing
  <2> QED BY <2>3, <2>6, <2>7, NormalizeReadStep
<1>2. CASE NormalizeWrite(c, "writeQuoting", "policy", [call[c].text EXCEPT !.quoting = "wire"])
  <2>1. PICK u : u = [call[c].text EXCEPT !.quoting = "wire"]
    OBVIOUS
  <2>2. /\ call[c].at = "writeQuoting" /\ record' = [record EXCEPT ![call[c].dom] = u]
        /\ Hold(c, "policy", None)
        /\ UNCHANGED << registered, key, dump, policy, loaded, needs, missed >>
    BY <1>2, <2>1 DEF NormalizeWrite, At, hist
  <2>3. call[c].dom \in Domain /\ call[c].text \in Text /\ policy \subseteq Domain
    BY <2>2, TypeFacts DEF CallOK, FilesOK
  <2>4. /\ u \in Text /\ u.quoting = "wire" /\ u.pair = call[c].text.pair
        /\ u.name = call[c].text.name
    BY <2>1, <2>3 DEF Text
  <2>5. /\ Moved(c) /\ call'[c].at = "policy" /\ call'[c].op = call[c].op
        /\ call'[c].dom = call[c].dom
    BY <2>2, HoldEffect, LabelFact DEF Holding
  <2>6. /\ record' \in [Domain -> Text \cup {None, Blank}] /\ record'[call[c].dom] = u
        /\ \A e \in Domain : e # call[c].dom => record'[e] = record[e]
    BY <2>2, <2>3, <2>4, WriteFact
  <2>7. ASSUME Local(call[c]) PROVE Doing(call[c])'
    <3>1. /\ key[call[c].dom] # None /\ PairText(call[c].dom)
          /\ call[c].text = record[call[c].dom]
          /\ needs[call[c].dom] # "rotation" => call[c].text.name = "qualified"
      BY <2>2, <2>7 DEF Local, Doing
    <3>2. PairText(call[c].dom)'
      BY <2>2, <2>4, <2>5, <2>6, <3>1 DEF PairText
    <3>3. ASSUME needs[call[c].dom] # "rotation" PROVE u = Published(key[call[c].dom])
      BY <2>4, <3>1, <3>3, TextIsPublished DEF PairText
    <3> QED BY <2>2, <2>5, <2>6, <3>1, <3>2, <3>3 DEF Doing
  <2> QED BY <2>2, <2>3, <2>5, <2>6, <2>7, SameDomainStep
<1> QED BY <1>1, <1>2 DEF normalizeDKIMRecordQuoting

LEMMA WritePolicyStep ==
    ASSUME TypeInv, NEW c \in Caller, WritePolicy(c)
    PROVE  TypeInv' /\ Keeps(c)
<1>1. /\ call[c].at = "policy" /\ Goto(c, "dump")
      /\ UNCHANGED << registered, key, record, dump, loaded, needs, missed >>
  BY DEF WritePolicy, At, hist
<1>2. call[c].dom \in Domain /\ policy \subseteq Domain
      /\ record \in [Domain -> Text \cup {None, Blank}]
  BY <1>1, TypeFacts DEF FilesOK
<1>3. policy' \subseteq Domain
  BY <1>2 DEF WritePolicy
<1>4. Moved(c) /\ call'[c].at = "dump" /\ call'[c].op = call[c].op /\ call'[c].dom = call[c].dom
  BY <1>1, GotoEffect, LabelFact DEF Holding
<1>5. ASSUME Local(call[c]) PROVE Doing(call[c])'
  <2>1. /\ key[call[c].dom] # None /\ PairText(call[c].dom)
        /\ needs[call[c].dom] # "rotation" => record[call[c].dom] = Published(key[call[c].dom])
    BY <1>1, <1>5 DEF Local, Doing
  <2>2. PairText(call[c].dom)'
    BY <1>1, <1>4, <2>1 DEF PairText
  <2> QED BY <1>1, <1>4, <2>1, <2>2 DEF Doing
<1> QED BY <1>1, <1>2, <1>3, <1>4, <1>5, SameDomainStep

\* The dump makes the domain's files good; the call goes on, restarts rspamd or ends.
LEMMA WriteDumpStep ==
    ASSUME TypeInv, NEW c \in Caller, writeDNSRecordsFile(c)
    PROVE  TypeInv' /\ Keeps(c)
<1>d. PICK d : d = call[c].dom
  OBVIOUS
<1>1. /\ call[c].at = "dump" /\ AfterDump(c)
      /\ dump' = [dump EXCEPT ![d] = IF record[d] = None THEN NotFound ELSE record[d]]
      /\ needs' = [needs EXCEPT ![d] = IF @ = "rerun" THEN "nothing" ELSE @]
      /\ UNCHANGED << registered, key, record, policy, loaded, missed >>
  BY <1>d DEF writeDNSRecordsFile, At
<1>2. d \in Domain /\ CallOK(call[c]) /\ call[c].todo \in SUBSET Domain
  BY <1>d, <1>1, TypeFacts
<1>n. /\ needs' \in [Domain -> {"nothing", "rerun", "rotation"}]
      /\ (needs'[d] = "rotation" <=> needs[d] = "rotation")
      /\ \A e \in Domain : e # d => needs'[e] = needs[e]
  BY <1>1, <1>2, TypeFacts DEF FilesOK
<1>3. FilesOK'
  BY <1>n, <1>1, <1>2, TypeFacts DEF FilesOK
<1>4. ASSUME Local(call[c]) PROVE \A e \in Domain : Fit(e)'
  <2>1. /\ key[d] # None /\ PairText(d)
        /\ needs[d] # "rotation" => record[d] = Published(key[d])
    BY <1>d, <1>1, <1>4 DEF Local, Doing
  <2>2. key[d] \in KeyPair
    BY <1>2, <2>1, TypeFacts DEF FilesOK
  <2>3. needs[d] # "rotation" => record[d] # None
    BY <2>1, <2>2, Marks
  <2>4. /\ needs[d] # "rotation" => dump'[d] = record[d]
        /\ \A e \in Domain : e # d => dump'[e] = dump[e]
    BY <1>1, <1>2, <2>3, TypeFacts DEF FilesOK
  <2>5. Fit(d)'
    <3>1. PairText(d)'
      BY <1>1, <1>n, <2>1 DEF PairText
    <3>2. ASSUME needs'[d] = "nothing" PROVE Good(d)'
      BY <1>1, <1>n, <2>1, <2>4, <3>2 DEF Good, PairOK
    <3> QED BY <3>1, <3>2 DEF Fit
  <2>6. ASSUME NEW e \in Domain, e # d PROVE Fit(e)'
    <3>1. Fit(e)
      BY <1>d, <1>4, <2>6 DEF Local
    <3> QED BY <1>1, <1>n, <2>4, <2>6, <3>1, KeptFit DEF Kept
  <2> QED BY <2>5, <2>6
<1>5. ASSUME Local(call[c])
      PROVE  missed' \/ call[c].op = "RotateDKIMKey" \/ Current'
  BY <1>1, <1>5 DEF Local, Current
<1>6. KeysKept
  BY <1>1 DEF KeysKept
<1>7. ASSUME NEW n \in call[c].todo,
             call' = [call EXCEPT ![c].at = "stat", ![c].dom = n, ![c].todo = @ \ {n}]
      PROVE  TypeInv' /\ Keeps(c)
  <2>1. call[c].op = "phase_run" /\ n \in Domain
    BY <1>2, <1>7 DEF CallOK
  <2>2. call[c] \in Call /\ call[c].text = None
    BY <1>1, <1>2 DEF CallOK
  <2>3. PICK p : p = call[c]
    OBVIOUS
  <2>4. PICK w : w = p.todo \ {n}
    OBVIOUS
  <2>5. PICK q : q = [p EXCEPT !.at = "stat", !.dom = n, !.todo = w]
    OBVIOUS
  <2>6. q.op = "phase_run" /\ q.at = "stat" /\ q.dom = n /\ q.text = None
    BY <2>1, <2>2, <2>3, <2>5 DEF Call
  <2>7. "stat" \in Label /\ w \in SUBSET Domain
    BY <1>2, <2>3, <2>4 DEF Label
  <2>8. q \in Call
    BY <2>1, <2>2, <2>3, <2>5, <2>7 DEF Call
  <2>9. CallOK(q)
    BY <2>1, <2>6, <2>8 DEF CallOK
  <2>10. call' = [call EXCEPT ![c] = q]
    BY <1>7, <2>2, <2>3, <2>4, <2>5
  <2>11. Moved(c) /\ call'[c] = q
    BY <2>8, <2>9, <2>10, TypeFacts DEF Moved
  <2>12. ASSUME Local(call[c]) PROVE Local(call[c])'
    <3>1. \A e \in Domain : Fit(e)' /\ PairText(e)'
      BY <1>4, <2>12 DEF Fit
    <3>2. Doing(call[c])'
      BY <2>1, <2>6, <2>11, <3>1 DEF Doing
    <3> QED BY <1>5, <2>1, <2>12, <3>1, <3>2 DEF Local
  <2> QED BY <1>3, <1>6, <2>6, <2>11, <2>12, TypeStep DEF Keeps, KeygenOK
<1>8. CASE call[c].op # "DomainAdd" /\ Goto(c, "restart")
  <2>1. Moved(c) /\ call'[c].at = "restart" /\ call'[c].op = call[c].op
    BY <1>1, <1>8, GotoEffect, LabelFact DEF Holding
  <2>2. ASSUME Local(call[c]) PROVE Local(call[c])'
    <3>1. Doing(call[c])'
      BY <2>1 DEF Doing
    <3> QED BY <1>4, <1>5, <2>1, <2>2, <3>1 DEF Local
  <2> QED BY <1>3, <1>6, <2>1, <2>2, TypeStep DEF Keeps, KeygenOK
<1>9. CASE call[c].op = "DomainAdd" /\ Return(c)
  <2>1. Moved(c) /\ call'[c] = Idle
    BY <1>9, ReturnEffect
  <2>2. ASSUME Local(call[c]) PROVE Local(call[c])'
    <3>1. Doing(call[c])'
      BY <2>1, IdleOK DEF Doing
    <3> QED BY <1>4, <1>5, <1>9, <2>2, <3>1 DEF Local
  <2> QED BY <1>3, <1>6, <2>1, <2>2, TypeStep, IdleOK DEF Keeps, KeygenOK
<1> QED BY <1>1, <1>7, <1>8, <1>9 DEF AfterDump

LEMMA RestartStep ==
    ASSUME TypeInv, NEW c \in Caller, RestartRspamd(c)
    PROVE  TypeInv' /\ Keeps(c)
<1>1. /\ call[c].at = "restart" /\ Return(c)
      /\ UNCHANGED << registered, key, record, dump, policy, needs >>
  BY DEF RestartRspamd, At, files
<1>2. \/ loaded' = [e \in Domain |-> None] /\ missed' = FALSE
      \/ loaded' = loaded /\ missed' = (missed \/ call[c].op = "RotateDKIMKey")
  BY DEF RestartRspamd
<1>3. Moved(c) /\ call'[c] = Idle
  BY <1>1, ReturnEffect
<1>4. missed' \in BOOLEAN /\ loaded' \in [Domain -> KeyPair \cup {None}]
  BY <1>2, TypeFacts DEF FilesOK
<1>5. FilesOK'
  BY <1>1, <1>4, TypeFacts DEF FilesOK
<1>6. ASSUME Local(call[c]) PROVE Local(call[c])'
  <2>1. \A e \in Domain : Fit(e)
    BY <1>1, <1>6 DEF Local
  <2>2. \A e \in Domain : Fit(e)'
    BY <1>1, <2>1, KeptFit DEF Kept
  <2>3. Doing(call[c])'
    BY <1>3, IdleOK DEF Doing
  <2>4. missed' \/ Current'
    BY <1>1, <1>2, <1>6 DEF Local, Current
  <2> QED BY <2>2, <2>3, <2>4 DEF Local
<1> QED BY <1>1, <1>3, <1>5, <1>6, IdleOK, TypeStep DEF Keeps, KeygenOK, KeysKept

\* Whatever a call was at, it may end there.
LEMMA AbandonStep ==
    ASSUME TypeInv, NEW c \in Caller, Abandon(c)
    PROVE  TypeInv' /\ Keeps(c)
<1>1. call[c].at # "idle"
  BY TypeFacts DEF Abandon, CallOK
<1> QED BY <1>1, EndEarlyStep DEF Abandon

LEMMA LoadKeyStep ==
    ASSUME TypeInv, NEW d \in Domain, LoadKey(d)
    PROVE  TypeInv' /\ UNCHANGED << registered, key, record, dump, policy, call, needs, missed >>
           /\ loaded'[d] = key[d] /\ \A e \in Domain : e # d => loaded'[e] = loaded[e]
<1>1. /\ loaded' = [loaded EXCEPT ![d] = key[d]]
      /\ UNCHANGED << registered, key, record, dump, policy, call, needs, missed >>
  BY DEF LoadKey, files, hist
<1>2. loaded \in [Domain -> KeyPair \cup {None}] /\ key[d] \in KeyPair \cup {None}
  BY DEF TypeInv, TypeOK
<1>3. loaded' \in [Domain -> KeyPair \cup {None}] /\ loaded'[d] = key[d]
      /\ \A e \in Domain : e # d => loaded'[e] = loaded[e]
  BY <1>1, <1>2
<1>4. TypeInv'
  BY <1>1, <1>3 DEF TypeInv, TypeOK
<1> QED BY <1>1, <1>3, <1>4

-----------------------------------------------------------------------------
(***************************************************************************)
(* The theorems.                                                            *)
(***************************************************************************)

\* A step of a caller, whether or not others run.
LEMMA CallerStep ==
    ASSUME TypeInv, NEW c \in Caller, Step(c)
    PROVE  TypeInv' /\ Keeps(c)
<1>1. CASE DomainAdd(c) BY <1>1, DomainAddStep
<1>2. CASE DomainRemove(c) BY <1>2, DomainRemoveStep
<1>3. CASE RotateDKIMKey(c) BY <1>3, RotateStep
<1>4. CASE RotateRemoveRecord(c) BY <1>4, RotateRemoveRecordStep
<1>5. CASE phase_run(c) BY <1>5, PhaseStep
<1>6. CASE StatKey(c) BY <1>6, StatKeyStep
<1>7. CASE dkim_keygen(c) BY <1>7, KeygenStep
<1>8. CASE WriteRecord(c) BY <1>8, WriteRecordStep
<1>9. CASE normalizeDKIMRecordName(c) BY <1>9, NameStep
<1>10. CASE normalizeDKIMRecordQuoting(c) BY <1>10, QuotingStep
<1>11. CASE WritePolicy(c) BY <1>11, WritePolicyStep
<1>12. CASE writeDNSRecordsFile(c) BY <1>12, WriteDumpStep
<1>13. CASE RestartRspamd(c) BY <1>13, RestartStep
<1>14. CASE Abandon(c) BY <1>14, AbandonStep
<1> QED
  BY <1>1, <1>2, <1>3, <1>4, <1>5, <1>6, <1>7, <1>8, <1>9, <1>10, <1>11, <1>12, <1>13, <1>14
  DEF Step

LEMMA InitTypeInv == Init => TypeInv
<1> SUFFICES ASSUME Init PROVE TypeInv
  OBVIOUS
<1>1. call \in [Caller -> Call] /\ \A c \in Caller : CallOK(call[c])
  BY IdleOK DEF Init, CallOK
<1>2. TypeOK
  BY <1>1 DEF Init, TypeOK
<1> QED BY <1>1, <1>2 DEF TypeInv

LEMMA StutterTypeInv == TypeInv /\ UNCHANGED vars => TypeInv'
BY DEF TypeInv, TypeOK, vars

\* The variables keep their types, and every call what it needs at the step it is at, also
\* when calls overlap and end early: nothing DomainAdd, RotateDKIMKey or the phase writes into
\* a record file is anything but a record's text.
THEOREM FilesTypeCorrect == Spec => []TypeOK
<1>1. TypeInv /\ [Next]_vars => TypeInv'
  <2> SUFFICES ASSUME TypeInv, [Next]_vars PROVE TypeInv'
    OBVIOUS
  <2>1. CASE UNCHANGED vars BY <2>1, StutterTypeInv
  <2>2. ASSUME NEW c \in Caller, Step(c) PROVE TypeInv' BY <2>2, CallerStep
  <2>3. ASSUME NEW d \in Domain, LoadKey(d) PROVE TypeInv' BY <2>3, LoadKeyStep
  <2> QED BY <2>1, <2>2, <2>3 DEF Next
<1>2. TypeInv => TypeOK
  BY DEF TypeInv
<1> QED BY <1>1, <1>2, InitTypeInv, PTL DEF Spec

\* Calls that do not overlap: while one runs, the others are idle.
LEMMA OthersIdle ==
    ASSUME SerialInv, ~Overlap, NEW c \in Caller, Step(c), NEW e \in Caller, e # c
    PROVE  call[e] = Idle
<1>1. ASSUME call[c].at # "idle" PROVE call[e] = Idle
  BY <1>1 DEF SerialInv, OneCall, TypeInv, CallOK
<1>2. ASSUME call[c] = Idle, ~Quiet PROVE FALSE
  <2>1. call[c].at = "idle"
    BY <1>2, IdleOK
  <2>2. ~DomainAdd(c) /\ ~DomainRemove(c) /\ ~RotateDKIMKey(c) /\ ~phase_run(c)
    BY <1>2 DEF DomainAdd, DomainRemove, RotateDKIMKey, phase_run, Free
  <2>3. ~RotateRemoveRecord(c) /\ ~StatKey(c) /\ ~dkim_keygen(c) /\ ~WriteRecord(c)
    BY <2>1 DEF RotateRemoveRecord, StatKey, dkim_keygen, WriteRecord, At
  <2>4. ~normalizeDKIMRecordName(c) /\ ~normalizeDKIMRecordQuoting(c)
    BY <2>1 DEF normalizeDKIMRecordName, normalizeDKIMRecordQuoting, NormalizeRead,
                NormalizeWrite, At
  <2>5. ~WritePolicy(c) /\ ~writeDNSRecordsFile(c) /\ ~RestartRspamd(c) /\ ~Abandon(c)
    BY <1>2, <2>1 DEF WritePolicy, writeDNSRecordsFile, RestartRspamd, Abandon, At
  <2> QED BY <2>2, <2>3, <2>4, <2>5 DEF Step
<1>3. call[c].at = "idle" => call[c] = Idle
  BY DEF SerialInv, TypeInv, CallOK
<1> QED BY <1>1, <1>2, <1>3 DEF Quiet

\* When only c runs, Progress is what Local says of c.
LEMMA ProgressIsLocal ==
    ASSUME NEW c \in Caller, \A e \in Caller : e # c => call[e] = Idle
    PROVE  Progress <=> Local(call[c])
<1>1. \A e \in Caller : e # c =>
         call[e].at = "idle" /\ call[e].op # "RotateDKIMKey" /\ Doing(call[e])
  BY IdleOK DEF Doing
<1>2. \A d \in Domain : Busy(d) <=> call[c].at \notin {"idle", "restart"} /\ call[c].dom = d
  BY <1>1 DEF Busy
<1>3. Rotating <=> call[c].op = "RotateDKIMKey"
  BY <1>1 DEF Rotating
<1>4. (\A e \in Caller : Doing(call[e])) <=> Doing(call[c])
  BY <1>1
<1> QED BY <1>2, <1>3, <1>4 DEF Progress, Local

\* A step of one caller, with nothing else running, keeps the invariant.
LEMMA AloneStep ==
    ASSUME DkimInv, ~Overlap, NEW c \in Caller, Step(c)
    PROVE  DkimInv' /\ KeysKept
<1>1. TypeInv /\ SerialInv /\ KeygenOK(call[c])
  BY DEF DkimInv, SerialInv
<1>2. \A e \in Caller : e # c => call[e] = Idle
  BY <1>1, OthersIdle
<1>3. TypeInv' /\ Keeps(c)
  BY <1>1, CallerStep
<1>4. Moved(c) /\ KeygenOK(call[c])' /\ KeysKept
  BY <1>1, <1>3 DEF Keeps
<1>5. \A e \in Caller : e # c => call'[e] = Idle
  BY <1>2, <1>4 DEF Moved
<1>6. SerialInv'
  <2>1. OneCall'
    BY <1>5, IdleOK DEF OneCall
  <2>2. ASSUME NEW e \in Caller PROVE KeygenOK(call[e])'
    BY <1>4, <1>5, IdleOK DEF KeygenOK
  <2> QED BY <1>3, <2>1, <2>2 DEF SerialInv
<1>7. Progress'
  <2>2. Local(call[c])
    BY <1>2, ProgressIsLocal DEF DkimInv
  <2>3. Local(call[c])'
    BY <1>1, <1>3, <2>2 DEF Keeps
  <2>4. (Progress <=> Local(call[c]))'
    <3> SUFFICES ASSUME \A e \in Caller : e # c => call'[e] = Idle
                 PROVE  (Progress <=> Local(call[c]))'
      BY <1>5
    <3>1. \A e \in Caller : e # c =>
             call'[e].at = "idle" /\ call'[e].op # "RotateDKIMKey" /\ Doing(call[e])'
      BY IdleOK DEF Doing
    <3>2. \A d \in Domain : Busy(d)' <=> call'[c].at \notin {"idle", "restart"} /\ call'[c].dom = d
      BY <3>1 DEF Busy
    <3>3. Rotating' <=> call'[c].op = "RotateDKIMKey"
      BY <3>1 DEF Rotating
    <3>4. (\A e \in Caller : Doing(call[e])') <=> Doing(call[c])'
      BY <3>1
    <3> QED BY <3>2, <3>3, <3>4 DEF Progress, Local
  <2> QED BY <2>3, <2>4
<1> QED BY <1>4, <1>6, <1>7 DEF DkimInv

\* rspamd reads the key on disk.
LEMMA LoadStep ==
    ASSUME DkimInv, NEW d \in Domain, LoadKey(d)
    PROVE  DkimInv' /\ KeysKept
<1>1. /\ TypeInv' /\ UNCHANGED << registered, key, record, dump, policy, call, needs, missed >>
      /\ loaded'[d] = key[d] /\ \A e \in Domain : e # d => loaded'[e] = loaded[e]
  BY LoadKeyStep DEF DkimInv, SerialInv
<1>2. SerialInv'
  BY <1>1 DEF DkimInv, SerialInv, OneCall, KeygenOK
<1>3. ASSUME Progress PROVE Progress'
  <2>1. \A c \in Caller : Doing(call[c])'
    BY <1>1, <1>3 DEF Progress, Doing, PairText
  <2>2. \A e \in Domain : Busy(e)' \/ Fit(e)'
    BY <1>1, <1>3, KeptFit DEF Progress, Busy, Kept
  <2>3. missed' \/ Rotating' \/ Current'
    BY <1>1, <1>3 DEF Progress, Rotating, Current
  <2> QED BY <2>1, <2>2, <2>3 DEF Progress
<1> QED BY <1>1, <1>2, <1>3 DEF DkimInv, KeysKept

LEMMA InitDkimInv == Init => DkimInv
<1> SUFFICES ASSUME Init PROVE DkimInv
  OBVIOUS
<1>1. \A c \in Caller : call[c] = Idle
  BY DEF Init
<1>2. SerialInv
  BY <1>1, InitTypeInv, IdleOK DEF SerialInv, OneCall, KeygenOK
<1>3. Progress
  <2>1. \A c \in Caller : Doing(call[c])
    BY <1>1, IdleOK DEF Doing
  <2>2. \A d \in Domain : Fit(d) /\ loaded[d] \in {None, key[d]}
    BY DEF Init, Fit, PairText, Good, PairOK
  <2> QED BY <2>1, <2>2 DEF Progress, Current
<1> QED BY <1>2, <1>3 DEF DkimInv

LEMMA NextDkimInv ==
    ASSUME ~Overlap
    PROVE  DkimInv /\ [Next]_vars => DkimInv' /\ KeysKept
<1> SUFFICES ASSUME DkimInv, [Next]_vars PROVE DkimInv' /\ KeysKept
  OBVIOUS
<1>1. CASE UNCHANGED vars
  <2>1. UNCHANGED << registered, key, record, dump, policy, loaded, call, needs, missed >>
    BY <1>1 DEF vars
  <2>2. SerialInv'
    BY <1>1, <2>1, StutterTypeInv DEF DkimInv, SerialInv, OneCall, KeygenOK
  <2>3. Progress => Progress'
    <3> SUFFICES ASSUME Progress PROVE Progress'
      OBVIOUS
    <3>1. \A c \in Caller : Doing(call[c])'
      BY <2>1 DEF Progress, Doing, PairText
    <3>2. \A e \in Domain : Busy(e)' \/ Fit(e)'
      BY <2>1, KeptFit DEF Progress, Busy, Kept
    <3>3. missed' \/ Rotating' \/ Current'
      BY <2>1 DEF Progress, Rotating, Current
    <3> QED BY <3>1, <3>2, <3>3 DEF Progress
  <2> QED BY <2>1, <2>2, <2>3 DEF DkimInv, KeysKept
<1>2. ASSUME NEW c \in Caller, Step(c) PROVE DkimInv' /\ KeysKept BY <1>2, AloneStep
<1>3. ASSUME NEW d \in Domain, LoadKey(d) PROVE DkimInv' /\ KeysKept BY <1>3, LoadStep
<1> QED BY <1>1, <1>2, <1>3 DEF Next

\* Calls that do not overlap, but end anywhere: between them a registered domain has a key, and
\* a domain with a key has the record that publishes this key and a dump that quotes it, for
\* any number of domains and after any sequence of adding, removing, rotating and ending early,
\* as soon as one call for the domain has been completed since, or a rotation when a call ended
\* between the key and its record.
THEOREM DomainsProvisioned == ASSUME ~Overlap PROVE Spec => []Provisioned
<1>1. DkimInv => Provisioned
  <2> SUFFICES ASSUME DkimInv, Quiet, NEW d \in Domain, needs[d] = "nothing" PROVE Good(d)
    BY DEF Provisioned, Good, PairOK
  <2>1. ~Busy(d)
    BY IdleOK DEF Busy, Quiet
  <2> QED BY <2>1 DEF DkimInv, Progress, Fit
<1> QED BY <1>1, InitDkimInv, NextDkimInv, PTL DEF Spec

\* Likewise rspamd signs with a key that is not the one on disk only from a rotation whose
\* restart failed or never came until a restart that works: no call that ends early anywhere
\* else makes it do so.
THEOREM NoSigningWithOldKey == ASSUME ~Overlap PROVE Spec => []SignsWithKeyOnDisk
<1>1. DkimInv => SignsWithKeyOnDisk
  <2> SUFFICES ASSUME DkimInv, Quiet, ~missed PROVE Current
    BY DEF SignsWithKeyOnDisk, Current
  <2>1. ~Rotating
    BY IdleOK DEF Rotating, Quiet
  <2> QED BY <2>1 DEF DkimInv, Progress
<1> QED BY <1>1, InitDkimInv, NextDkimInv, PTL DEF Spec

\* ensureDKIMAndDNSRecords and the phase never replace a key that is there, calls that ended
\* early and their re-runs included: the key looked for before rspamadm runs is still missing
\* when it does.
THEOREM KeysNeverOverwritten == ASSUME ~Overlap PROVE Spec => NeverOverwrites
<1>1. DkimInv /\ [Next]_vars => [KeysKept]_vars
  BY NextDkimInv
<1>2. [KeysKept]_vars => [\A d \in Domain : key[d] # None => key'[d] \in {key[d], None}]_vars
  BY DEF KeysKept
<1> QED BY <1>1, <1>2, InitDkimInv, NextDkimInv, PTL DEF Spec, NeverOverwrites
=============================================================================
