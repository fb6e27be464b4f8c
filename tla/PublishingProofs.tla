-------------------------- MODULE PublishingProofs --------------------------
(***************************************************************************)
(* Proofs about MTA-STS hosting beside the records it depends on, for any   *)
(* number of names, callers of Enable and requests, and any time that nginx *)
(* takes to stop: no handshake gets less than what was complete on disk     *)
(* when it began, a loader that has a certificate serves one as long as     *)
(* certbot leaves the chain in its place, a name that is enabled has both   *)
(* its certificate and its policy, and Enable keeps to its limits.          *)
(*                                                                          *)
(* Two invariants carry this.  FilesOK says in which states certbot, also   *)
(* one that was killed, leaves the files, and what a handshake that is half *)
(* way knows about them; CallsOK says what each stage of Enable has behind  *)
(* it and how long that can have taken.                                     *)
(***************************************************************************)
EXTENDS Publishing, DnsProofs

HostStep == HostNext \/ Propagate \/ UNCHANGED hostvars

\* A step of the whole is one of hosting, of a resolver, or of the records alone.
LEMMA HostOfPub == [PubNext]_pubvars => HostStep
  BY DEF PubNext, pubvars, HostStep

-----------------------------------------------------------------------------
(* Types.                                                                   *)

Stage == {"idle", "lookup", "policy", "stop", "certbot", "issuing", "enabled", "failed",
          "answering"}
EnableRecord == [at : Stage, name : Name, attempt : Nat, spent : Nat, timed : BOOLEAN]
HelloRecord  == [at : {"idle", "chain", "key", "done"}, mod : Nat, got : Nat, floor : Nat,
                 kept : BOOLEAN, calm : BOOLEAN]

\* Nothing under way has its type.
LEMMA NothingOK == NoEnable \in EnableRecord /\ NoHello \in HelloRecord
                   /\ NoCertbot \in [at : {"idle", "key", "unlink", "link"}, name : Name,
                                     by : Admin \cup {Nobody}]
  BY DEF NoEnable, NoHello, NoCertbot, Stage, EnableRecord, HelloRecord, Name

\* A call that goes on.
LEMMA TakeOK ==
    ASSUME HostTypeOK, NEW a \in Admin, NEW t \in Nat, NEW l \in Stage, Take(a, l, t)
    PROVE  /\ enable' \in [Admin -> EnableRecord]
           /\ \A b \in Admin : b # a => enable'[b] = enable[b]
           /\ enable'[a].at = l /\ enable'[a].spent = enable[a].spent + t
           /\ enable'[a].name = enable[a].name /\ enable'[a].timed = enable[a].timed
           /\ enable'[a].attempt = enable[a].attempt
<1>1. enable \in [Admin -> EnableRecord]
  BY DEF HostTypeOK, EnableRecord, Stage
<1>s. PICK s \in Nat : s = enable[a].spent + t
  BY <1>1 DEF EnableRecord
<1>2. PICK n : n = [[enable[a] EXCEPT !.at = l] EXCEPT !.spent = s]
  OBVIOUS
<1>3. /\ n \in EnableRecord /\ n.at = l /\ n.spent = s
      /\ n.name = enable[a].name /\ n.timed = enable[a].timed /\ n.attempt = enable[a].attempt
  BY <1>1, <1>2 DEF EnableRecord
<1>4. enable' = [enable EXCEPT ![a] = n]
  BY <1>1, <1>s, <1>2 DEF Take, EnableRecord
<1> QED BY <1>1, <1>s, <1>3, <1>4

\* A lookup that is tried again.
LEMMA TryAgainOK ==
    ASSUME HostTypeOK, NEW a \in Admin, NEW t \in Nat, At(a, "lookup"), TryAgain(a, t)
    PROVE  /\ enable' \in [Admin -> EnableRecord]
           /\ \A b \in Admin : b # a => enable'[b] = enable[b]
           /\ enable'[a].name = enable[a].name /\ enable'[a].timed = enable[a].timed
           /\ \/ /\ enable[a].attempt < Attempts
                 /\ enable'[a].at = "lookup" /\ enable'[a].attempt = enable[a].attempt + 1
                 /\ enable'[a].spent = enable[a].spent + t + 2
              \/ enable'[a].at = "failed" /\ enable'[a].spent = enable[a].spent + t
<1>0. enable \in [Admin -> EnableRecord] /\ enable[a].at = "lookup"
  BY DEF HostTypeOK, EnableRecord, Stage, At
<1>1. CASE enable[a].attempt < Attempts
  <2>s. PICK s \in Nat, i \in Nat : s = enable[a].spent + t + 2 /\ i = enable[a].attempt + 1
    BY <1>0 DEF EnableRecord
  <2>1. PICK n : n = [[enable[a] EXCEPT !.attempt = i] EXCEPT !.spent = s]
    OBVIOUS
  <2>2. /\ n \in EnableRecord /\ n.at = "lookup" /\ n.spent = s
        /\ n.name = enable[a].name /\ n.timed = enable[a].timed /\ n.attempt = i
    BY <1>0, <2>1 DEF EnableRecord
  <2>3. enable' = [enable EXCEPT ![a] = n]
    BY <1>0, <1>1, <2>s, <2>1 DEF TryAgain, EnableRecord
  <2> QED BY <1>0, <1>1, <2>s, <2>2, <2>3
<1>2. CASE ~(enable[a].attempt < Attempts)
  BY <1>0, <1>2, TakeOK DEF TryAgain, Stage
<1> QED BY <1>1, <1>2

\* CertTime: certbot never gets more than what is left of the 140 seconds.
LEMMA CertTimeOK ==
    ASSUME HostTypeOK, NEW a \in Admin
    PROVE  /\ CertTime(a) \in Nat /\ CertTime(a) <= 90
           /\ enable[a].timed => /\ CertTime(a) + enable[a].spent <= 140
                                 \/ CertTime(a) = 0
  BY DEF HostTypeOK, CertTime

\* What a handshake has after its next step.
LEMMA HelloOK ==
    ASSUME HostTypeOK, NEW n \in Name, NEW h \in HelloRecord, hello' = [hello EXCEPT ![n] = h]
    PROVE  /\ hello' \in [Name -> HelloRecord] /\ hello'[n] = h
           /\ \A m \in Name : m # n => hello'[m] = hello[m]
  BY DEF HostTypeOK, HelloRecord

-----------------------------------------------------------------------------
(* The invariant.                                                           *)

\* A stage of Enable has behind it what it needs, and has taken so long at most: four lookups
\* of six seconds with two in between, the time nginx takes to stop, certbot.
SpentOK(a) ==
    LET q == enable[a]
    IN  /\ q.at = "idle" => q.spent = 0
        /\ q.at = "lookup" => q.attempt \in 1 .. Attempts /\ q.spent <= 8 * (q.attempt - 1)
        /\ q.at \in {"policy", "stop"} => q.spent <= 30
        /\ q.at \in {"certbot", "issuing"} => q.spent <= 30 + StopTime
        /\ q.at \in {"enabled", "failed"} => q.spent <= Longest(q.timed)
        /\ q.at = "answering" =>
              q.spent <= Longest(q.timed) + IF q.timed THEN PageTime ELSE 0

\* Enable asks for a certificate once the policy is written, and it has the run of certbot that
\* it waits for to itself.
CallOK(a) ==
    /\ ~At(a, "idle") => enable[a].name \in Policy
    /\ enable[a].at \in {"stop", "certbot", "issuing", "enabled"} => enable[a].name \in policies
    /\ At(a, "issuing") <=> certbot.by = a
    /\ At(a, "issuing") => certbot.name = enable[a].name
    /\ At(a, "enabled") => chain[enable[a].name] # 0

\* A run of certbot is for a name with a policy, has a new key once it unlinks the chain, and
\* nobody waits for one that does not run.
CertbotOK ==
    /\ certbot.at # "idle" /\ certbot.name \in Policy => certbot.name \in policies
    /\ certbot.at \in {"unlink", "link"} => priv[certbot.name] # 0
    /\ certbot.by # Nobody => certbot.at # "idle"

\* However certbot was killed the chain is not newer than the key, and a linked one is there.
FileOK(n) ==
    /\ chain[n] <= priv[n]
    /\ linked[n] => chain[n] # 0
    /\ n \in Policy /\ chain[n] # 0 => n \in policies

\* A certificate in memory is as new as the time that is kept with it.
CacheOK(n) == cache[n].mod <= cache[n].cert

\* What a handshake has read is as new as the time that Stat saw, and while no replacement has
\* overlapped it, what was complete when it began is still there.
HandshakeOK(n) ==
    LET h == hello[n]
    IN  /\ h.at = "chain" => h.mod <= chain[n]
        /\ h.at = "key" => h.mod <= h.got
        /\ h.at \in {"chain", "key"} /\ h.calm /\ h.floor # 0 =>
              linked[n] /\ chain[n] = h.floor /\ priv[n] = h.floor
        /\ h.at = "key" /\ h.calm /\ h.floor # 0 => h.got = h.floor

HostInv ==
    /\ HostTypeOK /\ CertbotOK /\ RenewalServed /\ KeepsServing
    /\ \A a \in Admin : CallOK(a) /\ SpentOK(a)
    /\ \A n \in Name : FileOK(n) /\ CacheOK(n) /\ HandshakeOK(n)

\* The types that the steps need.
LEMMA HostTyped ==
    ASSUME HostInv
    PROVE  /\ HostTypeOK /\ enable \in [Admin -> EnableRecord] /\ hello \in [Name -> HelloRecord]
           /\ chain \in [Name -> Nat] /\ priv \in [Name -> Nat] /\ linked \in [Name -> BOOLEAN]
           /\ cache \in [Name -> [cert : Nat, mod : Nat]] /\ policies \subseteq Policy
           /\ certbot.name \in Name /\ StopTime \in Nat
  BY HostingAssumption DEF HostInv, HostTypeOK, EnableRecord, Stage, HelloRecord

\* A step of one call of Enable that leaves certbot and the certificates alone.
LEMMA CallStep ==
    ASSUME HostInv, NEW a \in Admin, enable' \in [Admin -> EnableRecord],
           \A b \in Admin : b # a => enable'[b] = enable[b],
           policies \subseteq policies', policies' \subseteq Policy, nginx' \in BOOLEAN,
           UNCHANGED << answer, files, certbot, cache, hello >>,
           CallOK(a)', SpentOK(a)'
    PROVE  HostInv'
<1>1. UNCHANGED << answer, chain, priv, linked, due, certbot, cache, hello >>
  BY DEF files
<1>2. HostTypeOK' /\ CertbotOK' /\ RenewalServed' /\ KeepsServing'
  BY <1>1 DEF HostInv, HostTypeOK, EnableRecord, Stage, CertbotOK, RenewalServed, KeepsServing
<1>3. ASSUME NEW b \in Admin, b # a PROVE CallOK(b)' /\ SpentOK(b)'
  BY <1>1, <1>3 DEF HostInv, CallOK, SpentOK, At
<1>4. ASSUME NEW n \in Name PROVE FileOK(n)' /\ CacheOK(n)' /\ HandshakeOK(n)'
  BY <1>1 DEF HostInv, FileOK, CacheOK, HandshakeOK
<1> QED BY <1>2, <1>3, <1>4 DEF HostInv

\* The steps of Enable before certbot, and after it.
LEMMA EnableStartOK ==
    ASSUME HostInv, NEW a \in Admin, EnableStart(a)
    PROVE  HostInv'
<1>1. PICK n \in Policy, timed \in BOOLEAN :
          enable' = [enable EXCEPT ![a] = [NoEnable EXCEPT !.at = "lookup", !.name = n,
                                               !.attempt = 1, !.timed = timed]]
  BY DEF EnableStart
<1>2. PICK q : q = [NoEnable EXCEPT !.at = "lookup", !.name = n, !.attempt = 1, !.timed = timed]
  OBVIOUS
<1>3. q \in EnableRecord /\ q.at = "lookup" /\ q.name = n /\ q.attempt = 1 /\ q.spent = 0
  BY <1>2 DEF NoEnable, EnableRecord, Stage, Name
<1>4. /\ enable' \in [Admin -> EnableRecord] /\ enable'[a] = q
      /\ \A b \in Admin : b # a => enable'[b] = enable[b]
  BY <1>1, <1>2, <1>3, HostTyped
<1>5. UNCHANGED << answer, policies, files, certbot, nginx, cache, hello >> /\ At(a, "idle")
  BY DEF EnableStart
<1>6. CallOK(a)'
  BY <1>3, <1>4, <1>5 DEF CallOK, At, HostInv
<1>7. SpentOK(a)'
  BY <1>3, <1>4 DEF SpentOK, Attempts
<1> QED BY <1>4, <1>5, <1>6, <1>7, CallStep, HostTyped DEF HostTypeOK

\* The lookups: each of the four attempts takes eight seconds at most.
LEMMA checkResolvesToOK ==
    ASSUME HostInv, NEW a \in Admin, checkResolvesTo(a)
    PROVE  HostInv'
<1>1. At(a, "lookup") /\ UNCHANGED << answer, policies, files, certbot, nginx, cache, hello >>
  BY DEF checkResolvesTo
<1>2. PICK t \in {0, 6} : TryAgain(a, t) \/ Take(a, "policy", t) \/ Take(a, "failed", t)
  BY DEF checkResolvesTo
<1>3. /\ enable' \in [Admin -> EnableRecord]
      /\ \A b \in Admin : b # a => enable'[b] = enable[b]
      /\ enable'[a].name = enable[a].name
      /\ \/ /\ enable[a].attempt < Attempts
            /\ enable'[a].at = "lookup" /\ enable'[a].attempt = enable[a].attempt + 1
            /\ enable'[a].spent = enable[a].spent + t + 2
         \/ /\ enable'[a].at \in {"policy", "failed"}
            /\ enable'[a].spent = enable[a].spent + t
  BY <1>1, <1>2, HostTyped, TakeOK, TryAgainOK DEF Stage
<1>4. CallOK(a)'
  BY <1>1, <1>3 DEF CallOK, At, HostInv
<1>5. /\ enable[a].attempt \in 1 .. Attempts /\ enable[a].spent <= 8 * (enable[a].attempt - 1)
      /\ enable[a].spent \in Nat
  BY <1>1, HostTyped DEF HostInv, SpentOK, At, EnableRecord
<1>6. SpentOK(a)'
  BY <1>2, <1>3, <1>5, HostTyped DEF SpentOK, Longest, Attempts
<1> QED BY <1>1, <1>3, <1>4, <1>6, CallStep, HostTyped DEF HostTypeOK

\* The policy file is written, or the call ends.
LEMMA WritePolicyOK ==
    ASSUME HostInv, NEW a \in Admin, WritePolicy(a)
    PROVE  HostInv'
<1>1. At(a, "policy") /\ UNCHANGED << answer, files, certbot, nginx, cache, hello >>
  BY DEF WritePolicy
<1>2. \/ policies' = policies \cup {enable[a].name} /\ Take(a, "stop", 0)
      \/ UNCHANGED policies /\ Take(a, "failed", 0)
  BY DEF WritePolicy
<1>3. /\ enable' \in [Admin -> EnableRecord]
      /\ \A b \in Admin : b # a => enable'[b] = enable[b]
      /\ enable'[a].name = enable[a].name /\ enable'[a].timed = enable[a].timed
      /\ enable'[a].at \in {"stop", "failed"} /\ enable'[a].spent = enable[a].spent
      /\ enable'[a].at = "stop" => enable[a].name \in policies'
  <2>1. CASE policies' = policies \cup {enable[a].name} /\ Take(a, "stop", 0)
    BY <2>1, HostTyped, TakeOK DEF Stage, EnableRecord
  <2>2. CASE UNCHANGED policies /\ Take(a, "failed", 0)
    BY <2>2, HostTyped, TakeOK DEF Stage, EnableRecord
  <2> QED BY <1>2, <2>1, <2>2
<1>4. enable[a].name \in Policy /\ enable[a].spent <= 30 /\ enable[a].spent \in Nat
  BY <1>1, HostTyped DEF HostInv, CallOK, SpentOK, At, EnableRecord
<1>5. CallOK(a)'
  BY <1>1, <1>3, <1>4 DEF CallOK, At, HostInv
<1>6. SpentOK(a)'
  BY <1>3, <1>4, HostTyped DEF SpentOK, Longest
<1>7. policies \subseteq policies' /\ policies' \subseteq Policy
  BY <1>2, <1>4, HostTyped
<1> QED BY <1>1, <1>3, <1>5, <1>6, <1>7, CallStep, HostTyped DEF HostTypeOK

\* nginx is stopped, in whatever time that takes.
LEMMA StopNginxOK ==
    ASSUME HostInv, NEW a \in Admin, StopNginx(a)
    PROVE  HostInv'
<1>1. /\ At(a, "stop") /\ nginx' = FALSE
      /\ UNCHANGED << answer, policies, files, certbot, cache, hello >>
  BY DEF StopNginx
<1>2. PICK t \in {0, StopTime} : Take(a, "certbot", t)
  BY DEF StopNginx
<1>3. /\ enable' \in [Admin -> EnableRecord]
      /\ \A b \in Admin : b # a => enable'[b] = enable[b]
      /\ enable'[a].name = enable[a].name /\ enable'[a].at = "certbot"
      /\ enable'[a].spent = enable[a].spent + t
  BY <1>2, HostTyped, TakeOK DEF Stage
<1>4. CallOK(a)'
  BY <1>1, <1>3 DEF CallOK, At, HostInv
<1>5. enable[a].spent <= 30 /\ enable[a].spent \in Nat
  BY <1>1, HostTyped DEF HostInv, SpentOK, At, EnableRecord
<1>6. SpentOK(a)'
  BY <1>2, <1>3, <1>5, HostTyped DEF SpentOK
<1> QED BY <1>1, <1>3, <1>4, <1>6, CallStep, HostTyped DEF HostTypeOK

\* The client goes away during the lookups.
LEMMA HangUpOK ==
    ASSUME HostInv, NEW a \in Admin, HangUp(a)
    PROVE  HostInv'
<1>1. /\ At(a, "lookup") /\ Take(a, "failed", 0)
      /\ UNCHANGED << answer, policies, files, certbot, nginx, cache, hello >>
  BY DEF HangUp
<1>2. /\ enable' \in [Admin -> EnableRecord]
      /\ \A b \in Admin : b # a => enable'[b] = enable[b]
      /\ enable'[a].name = enable[a].name /\ enable'[a].at = "failed"
      /\ enable'[a].spent = enable[a].spent
  BY <1>1, HostTyped, TakeOK DEF Stage, EnableRecord
<1>3. CallOK(a)'
  BY <1>1, <1>2 DEF CallOK, At, HostInv
<1>4. /\ enable[a].attempt \in 1 .. Attempts /\ enable[a].spent <= 8 * (enable[a].attempt - 1)
      /\ enable[a].spent \in Nat
  BY <1>1, HostTyped DEF HostInv, SpentOK, At, EnableRecord
<1>5. SpentOK(a)'
  BY <1>2, <1>4, HostTyped DEF SpentOK, Longest, Attempts
<1> QED BY <1>1, <1>2, <1>3, <1>5, CallStep, HostTyped DEF HostTypeOK

\* The call returns: dkimData adds its time to that of a page.
LEMMA EnableReturnOK ==
    ASSUME HostInv, NEW a \in Admin, EnableReturn(a)
    PROVE  HostInv'
<1>1. /\ enable[a].at \in {"enabled", "failed"}
      /\ UNCHANGED << answer, policies, files, certbot, nginx, cache, hello >>
  BY DEF EnableReturn
<1>2. PICK t \in IF enable[a].timed THEN {0, PageTime} ELSE {0} : Take(a, "answering", t)
  BY DEF EnableReturn
<1>3. t \in Nat /\ t <= IF enable[a].timed THEN PageTime ELSE 0
  BY <1>2 DEF PageTime
<1>4. /\ enable' \in [Admin -> EnableRecord]
      /\ \A b \in Admin : b # a => enable'[b] = enable[b]
      /\ enable'[a].name = enable[a].name /\ enable'[a].timed = enable[a].timed
      /\ enable'[a].at = "answering" /\ enable'[a].spent = enable[a].spent + t
  BY <1>2, <1>3, HostTyped, TakeOK DEF Stage
<1>5. enable[a].spent <= Longest(enable[a].timed) /\ enable[a].spent \in Nat
  BY <1>1, HostTyped DEF HostInv, SpentOK, EnableRecord
<1>6. CallOK(a)'
  BY <1>1, <1>4 DEF CallOK, At, HostInv
<1>7. SpentOK(a)'
  BY <1>3, <1>4, <1>5, HostTyped DEF SpentOK, Longest, PageTime
<1> QED BY <1>1, <1>4, <1>6, <1>7, CallStep, HostTyped DEF HostTypeOK

\* The answer is written or lost.
LEMMA EnableAnswerOK ==
    ASSUME HostInv, NEW a \in Admin, EnableAnswer(a)
    PROVE  HostInv'
<1>1. /\ At(a, "answering") /\ enable' = [enable EXCEPT ![a] = NoEnable]
      /\ UNCHANGED << answer, policies, files, certbot, nginx, cache, hello >>
  BY DEF EnableAnswer
<1>2. /\ enable' \in [Admin -> EnableRecord]
      /\ \A b \in Admin : b # a => enable'[b] = enable[b]
      /\ enable'[a].at = "idle" /\ enable'[a].spent = 0
  BY <1>1, HostTyped, NothingOK DEF NoEnable
<1>3. CallOK(a)' /\ SpentOK(a)'
  BY <1>1, <1>2 DEF CallOK, SpentOK, At, HostInv
<1> QED BY <1>1, <1>2, <1>3, CallStep, HostTyped DEF HostTypeOK

-----------------------------------------------------------------------------
\* A step that starts or ends the run of certbot: that of call a, or of the timer.
LEMMA CertbotStep ==
    ASSUME HostInv, NEW a \in Admin, enable' \in [Admin -> EnableRecord],
           \A b \in Admin : b # a => enable'[b] = enable[b],
           certbot' \in [at : {"idle", "key", "unlink", "link"}, name : Name,
                         by : Admin \cup {Nobody}],
           certbot.by \in {a, Nobody}, certbot'.by \in {a, Nobody}, CertbotOK',
           UNCHANGED << answer, policies, files, nginx, cache, hello >>,
           CallOK(a)', SpentOK(a)'
    PROVE  HostInv'
<1>1. UNCHANGED << answer, policies, nginx, chain, priv, linked, due, cache, hello >>
  BY DEF files
<1>2. HostTypeOK' /\ RenewalServed' /\ KeepsServing'
  BY <1>1 DEF HostInv, HostTypeOK, EnableRecord, Stage, RenewalServed, KeepsServing
<1>3. ASSUME NEW b \in Admin, b # a PROVE CallOK(b)' /\ SpentOK(b)'
  <2>1. certbot.by # b /\ certbot'.by # b /\ enable'[b] = enable[b]
    BY <1>3, HostingAssumption
  <2> QED BY <1>1, <2>1 DEF HostInv, CallOK, SpentOK, At
<1>4. ASSUME NEW n \in Name PROVE FileOK(n)' /\ CacheOK(n)' /\ HandshakeOK(n)'
  BY <1>1 DEF HostInv, FileOK, CacheOK, HandshakeOK
<1> QED BY <1>2, <1>3, <1>4 DEF HostInv

\* certbot keeps the certificate, fails, or starts.
LEMMA RunCertbotOK ==
    ASSUME HostInv, NEW a \in Admin, RunCertbot(a)
    PROVE  HostInv'
<1>1. At(a, "certbot") /\ UNCHANGED << answer, policies, files, nginx, cache, hello >>
  BY DEF RunCertbot
<1>2. /\ enable[a].name \in policies /\ enable[a].name \in Policy /\ certbot.by # a
      /\ enable[a].spent <= 30 + StopTime /\ enable[a].spent \in Nat
  BY <1>1, HostTyped DEF HostInv, CallOK, SpentOK, At, EnableRecord
<1>3. CASE UNCHANGED certbot
  <2>1. \/ linked[enable[a].name] /\ Take(a, "enabled", 0)
        \/ Take(a, "failed", 0)
    BY <1>3 DEF RunCertbot, NoCertbot
  <2>2. /\ enable' \in [Admin -> EnableRecord]
        /\ \A b \in Admin : b # a => enable'[b] = enable[b]
        /\ enable'[a].name = enable[a].name /\ enable'[a].timed = enable[a].timed
        /\ enable'[a].at \in {"enabled", "failed"} /\ enable'[a].spent = enable[a].spent
        /\ enable'[a].at = "enabled" => linked[enable[a].name]
    BY <2>1, <1>2, HostTyped, TakeOK DEF Stage
  <2>3. CallOK(a)'
    BY <1>1, <1>2, <1>3, <2>2 DEF CallOK, At, HostInv, FileOK, files, Name
  <2>4. SpentOK(a)'
    BY <1>2, <2>2, HostTyped DEF SpentOK, Longest
  <2> QED BY <1>1, <1>3, <2>2, <2>3, <2>4, CallStep, HostTyped DEF HostTypeOK
<1>4. CASE /\ certbot = NoCertbot
           /\ certbot' = [at |-> "key", name |-> enable[a].name, by |-> a]
           /\ Take(a, "issuing", 0)
  <2>1. /\ enable' \in [Admin -> EnableRecord]
        /\ \A b \in Admin : b # a => enable'[b] = enable[b]
        /\ enable'[a].name = enable[a].name /\ enable'[a].at = "issuing"
        /\ enable'[a].spent = enable[a].spent
    BY <1>2, <1>4, HostTyped, TakeOK DEF Stage
  <2>2. /\ certbot.by = Nobody /\ certbot'.by = a /\ certbot'.at = "key"
        /\ certbot'.name = enable[a].name
        /\ certbot' \in [at : {"idle", "key", "unlink", "link"}, name : Name,
                         by : Admin \cup {Nobody}]
    BY <1>2, <1>4 DEF NoCertbot, Name
  <2>3. CertbotOK' /\ CallOK(a)' /\ SpentOK(a)'
    BY <1>1, <1>2, <2>1, <2>2 DEF CertbotOK, CallOK, SpentOK, At
  <2> QED BY <1>1, <2>1, <2>2, <2>3, CertbotStep
<1> QED BY <1>3, <1>4 DEF RunCertbot

\* certbot is killed: what it had done to the files stays.
LEMMA KillCertbotOK ==
    ASSUME HostInv, NEW a \in Admin, KillCertbot(a)
    PROVE  HostInv'
<1>1. /\ At(a, "issuing") /\ certbot' = NoCertbot /\ Take(a, "failed", CertTime(a))
      /\ UNCHANGED << answer, policies, files, nginx, cache, hello >>
  BY DEF KillCertbot
<1>2. /\ enable[a].name \in Policy /\ certbot.by = a
      /\ enable[a].spent <= 30 + StopTime /\ enable[a].spent \in Nat
  BY <1>1, HostTyped DEF HostInv, CallOK, SpentOK, At, EnableRecord
<1>3. PICK t \in Nat : t = CertTime(a)
  BY CertTimeOK, HostTyped
<1>4. /\ enable' \in [Admin -> EnableRecord]
      /\ \A b \in Admin : b # a => enable'[b] = enable[b]
      /\ enable'[a].name = enable[a].name /\ enable'[a].timed = enable[a].timed
      /\ enable'[a].at = "failed" /\ enable'[a].spent = enable[a].spent + t
  BY <1>1, <1>3, HostTyped, TakeOK DEF Stage
<1>5. /\ certbot'.by = Nobody /\ certbot'.at = "idle"
      /\ certbot' \in [at : {"idle", "key", "unlink", "link"}, name : Name,
                       by : Admin \cup {Nobody}]
  BY <1>1, NothingOK DEF NoCertbot
<1>6. CertbotOK' /\ CallOK(a)'
  BY <1>2, <1>4, <1>5, HostingAssumption DEF CertbotOK, CallOK, At
<1>7. SpentOK(a)'
  BY <1>2, <1>3, <1>4, CertTimeOK, HostTyped DEF SpentOK, Longest
<1> QED BY <1>1, <1>2, <1>4, <1>5, <1>6, <1>7, CertbotStep

\* The timer starts a renewal.
LEMMA RenewStartOK ==
    ASSUME HostInv, RenewStart
    PROVE  HostInv'
<1>1. PICK n \in Name :
          /\ certbot = NoCertbot /\ linked[n]
          /\ certbot' = [at |-> "key", name |-> n, by |-> Nobody]
          /\ UNCHANGED << answer, policies, files, enable, nginx, cache, hello >>
  BY DEF RenewStart
<1>2. /\ certbot.by = Nobody /\ certbot'.by = Nobody /\ certbot'.at = "key" /\ certbot'.name = n
      /\ certbot' \in [at : {"idle", "key", "unlink", "link"}, name : Name,
                       by : Admin \cup {Nobody}]
  BY <1>1 DEF NoCertbot
<1>3. UNCHANGED << answer, policies, enable, nginx, chain, priv, linked, due, cache, hello >>
  BY <1>1 DEF files
<1>4. HostTypeOK' /\ RenewalServed' /\ KeepsServing'
  BY <1>2, <1>3 DEF HostInv, HostTypeOK, RenewalServed, KeepsServing
<1>5. CertbotOK'
  BY <1>1, <1>2, <1>3 DEF CertbotOK, HostInv, FileOK
<1>6. ASSUME NEW b \in Admin PROVE CallOK(b)' /\ SpentOK(b)'
  <2>1. certbot.by # b /\ certbot'.by # b
    BY <1>2, HostingAssumption
  <2> QED BY <1>3, <2>1 DEF HostInv, CallOK, SpentOK, At
<1>7. ASSUME NEW m \in Name PROVE FileOK(m)' /\ CacheOK(m)' /\ HandshakeOK(m)'
  BY <1>3 DEF HostInv, FileOK, CacheOK, HandshakeOK
<1> QED BY <1>4, <1>5, <1>6, <1>7 DEF HostInv

-----------------------------------------------------------------------------
(* certbot replaces the files of a name.                                    *)

\* What the handshake of the name has met.
LEMMA StirredOK ==
    ASSUME HostInv, NEW c \in Name, Stirred(c)
    PROVE  /\ hello' \in [Name -> HelloRecord] /\ hello'[c].calm = FALSE
           /\ hello'[c].at = hello[c].at /\ hello'[c].mod = hello[c].mod
           /\ hello'[c].got = hello[c].got /\ hello'[c].kept = hello[c].kept
           /\ \A n \in Name : n # c => hello'[n] = hello[n]
<1>1. hello \in [Name -> HelloRecord]
  BY HostTyped
<1>2. PICK h : h = [hello[c] EXCEPT !.calm = FALSE]
  OBVIOUS
<1>3. /\ h \in HelloRecord /\ h.calm = FALSE /\ h.at = hello[c].at /\ h.mod = hello[c].mod
      /\ h.got = hello[c].got /\ h.kept = hello[c].kept
  BY <1>1, <1>2 DEF HelloRecord
<1>4. hello' = [hello EXCEPT ![c] = h]
  BY <1>2 DEF Stirred
<1> QED BY <1>1, <1>3, <1>4

\* A step of certbot on the files of name c: the chain gets no older.
LEMMA FilesStep ==
    ASSUME HostInv, NEW c \in Name, Stirred(c),
           UNCHANGED << answer, policies, nginx, cache >>,
           chain' \in [Name -> Nat], priv' \in [Name -> Nat], linked' \in [Name -> BOOLEAN],
           due' \in [Name -> BOOLEAN],
           certbot' \in [at : {"idle", "key", "unlink", "link"}, name : Name,
                         by : Admin \cup {Nobody}],
           \A n \in Name : n # c => /\ chain'[n] = chain[n] /\ priv'[n] = priv[n]
                                    /\ linked'[n] = linked[n],
           chain[c] <= chain'[c], FileOK(c)', CertbotOK',
           enable' \in [Admin -> EnableRecord], \A a \in Admin : CallOK(a)' /\ SpentOK(a)'
    PROVE  HostInv'
<1>1. /\ hello' \in [Name -> HelloRecord] /\ hello'[c].calm = FALSE
      /\ hello'[c].at = hello[c].at /\ hello'[c].mod = hello[c].mod
      /\ hello'[c].got = hello[c].got /\ hello'[c].kept = hello[c].kept
      /\ \A n \in Name : n # c => hello'[n] = hello[n]
  BY StirredOK
<1>2. HostTypeOK'
  BY <1>1 DEF HostInv, HostTypeOK, EnableRecord, Stage, HelloRecord
<1>3. RenewalServed'
  BY <1>1 DEF HostInv, RenewalServed
<1>4. KeepsServing'
  <2> SUFFICES ASSUME NEW n \in Name, hello'[n].at = "done", cache'[n].cert # 0,
                      n = Mail \/ hello'[n].kept
               PROVE  hello'[n].got # 0
    BY DEF KeepsServing
  <2>1. /\ hello'[n].at = hello[n].at /\ hello'[n].got = hello[n].got
        /\ hello'[n].kept = hello[n].kept
    BY <1>1
  <2> QED BY <2>1 DEF HostInv, KeepsServing
<1>5. ASSUME NEW n \in Name PROVE FileOK(n)' /\ CacheOK(n)' /\ HandshakeOK(n)'
  <2>0. FileOK(n) /\ CacheOK(n) /\ HandshakeOK(n)
    BY DEF HostInv
  <2>1. CASE n = c
    <3>1. /\ hello[c].at = "chain" => hello[c].mod <= chain'[c]
          /\ hello[c].at = "key" => hello[c].mod <= hello[c].got
      BY <2>0, <2>1, HostTyped DEF HandshakeOK, HelloRecord
    <3> QED BY <1>1, <2>0, <2>1, <3>1 DEF CacheOK, HandshakeOK
  <2>2. CASE n # c
    BY <1>1, <2>0, <2>2 DEF FileOK, CacheOK, HandshakeOK
  <2> QED BY <2>1, <2>2
<1> QED BY <1>2, <1>3, <1>4, <1>5 DEF HostInv

\* certbot replaces the key.
LEMMA CertbotKeyOK ==
    ASSUME HostInv, CertbotKey
    PROVE  HostInv'
<1> DEFINE c == certbot.name
<1>1. /\ certbot.at = "key" /\ priv' = [priv EXCEPT ![c] = @ + 1]
      /\ certbot' = [certbot EXCEPT !.at = "unlink"] /\ Stirred(c)
      /\ UNCHANGED << answer, policies, chain, linked, due, enable, nginx, cache >>
  BY DEF CertbotKey
<1>2. c \in Name /\ c' = c /\ certbot'.at = "unlink" /\ certbot'.by = certbot.by
      /\ certbot' \in [at : {"idle", "key", "unlink", "link"}, name : Name,
                       by : Admin \cup {Nobody}]
  BY <1>1, HostTyped DEF HostTypeOK
<1>3. /\ priv' \in [Name -> Nat] /\ priv'[c] = priv[c] + 1
      /\ \A n \in Name : n # c => priv'[n] = priv[n]
  BY <1>1, <1>2, HostTyped
<1>4. FileOK(c)' /\ chain[c] <= chain'[c]
  BY <1>1, <1>2, <1>3, HostTyped DEF HostInv, FileOK
<1>5. CertbotOK'
  BY <1>1, <1>2, <1>3, HostTyped DEF HostInv, CertbotOK
<1>6. \A a \in Admin : CallOK(a)' /\ SpentOK(a)'
  BY <1>1, <1>2 DEF HostInv, CallOK, SpentOK, At
<1> HIDE DEF c
<1> QED BY <1>1, <1>2, <1>3, <1>4, <1>5, <1>6, FilesStep, HostTyped DEF HostTypeOK

\* certbot takes the chain away.
LEMMA CertbotUnlinkOK ==
    ASSUME HostInv, CertbotUnlink
    PROVE  HostInv'
<1> DEFINE c == certbot.name
<1>1. /\ certbot.at = "unlink" /\ linked' = [linked EXCEPT ![c] = FALSE]
      /\ certbot' = [certbot EXCEPT !.at = "link"] /\ Stirred(c)
      /\ UNCHANGED << answer, policies, chain, priv, due, enable, nginx, cache >>
  BY DEF CertbotUnlink
<1>2. c \in Name /\ c' = c /\ certbot'.at = "link" /\ certbot'.by = certbot.by
      /\ certbot' \in [at : {"idle", "key", "unlink", "link"}, name : Name,
                       by : Admin \cup {Nobody}]
  BY <1>1, HostTyped DEF HostTypeOK
<1>3. /\ linked' \in [Name -> BOOLEAN] /\ linked'[c] = FALSE
      /\ \A n \in Name : n # c => linked'[n] = linked[n]
  BY <1>1, <1>2, HostTyped
<1>4. FileOK(c)' /\ chain[c] <= chain'[c]
  BY <1>1, <1>2, <1>3, HostTyped DEF HostInv, FileOK
<1>5. CertbotOK'
  BY <1>1, <1>2 DEF HostInv, CertbotOK
<1>6. \A a \in Admin : CallOK(a)' /\ SpentOK(a)'
  BY <1>1, <1>2 DEF HostInv, CallOK, SpentOK, At
<1> HIDE DEF c
<1> QED BY <1>1, <1>2, <1>3, <1>4, <1>5, <1>6, FilesStep, HostTyped DEF HostTypeOK

\* certbot puts the new chain there, and the call that waits has succeeded.
LEMMA CertbotLinkOK ==
    ASSUME HostInv, CertbotLink
    PROVE  HostInv'
<1>c. PICK c \in Name : c = certbot.name
  BY HostTyped
<1>1. /\ certbot.at = "link" /\ chain' = [chain EXCEPT ![c] = priv[c]]
      /\ linked' = [linked EXCEPT ![c] = TRUE] /\ due' = [due EXCEPT ![c] = FALSE]
      /\ certbot' = NoCertbot /\ Stirred(c)
      /\ UNCHANGED << answer, policies, priv, nginx, cache >>
  BY <1>c DEF CertbotLink
<1>2. /\ c \in Name /\ certbot'.at = "idle" /\ certbot'.by = Nobody
      /\ certbot' \in [at : {"idle", "key", "unlink", "link"}, name : Name,
                       by : Admin \cup {Nobody}]
  BY <1>1, HostTyped, NothingOK DEF NoCertbot
<1>3. /\ chain' \in [Name -> Nat] /\ linked' \in [Name -> BOOLEAN] /\ due' \in [Name -> BOOLEAN]
      /\ chain'[c] = priv[c] /\ linked'[c] = TRUE
      /\ \A n \in Name : n # c => chain'[n] = chain[n] /\ linked'[n] = linked[n]
  BY <1>1, <1>2, HostTyped DEF HostTypeOK
<1>4. /\ priv[c] # 0 /\ chain[c] <= priv[c] /\ priv[c] \in Nat /\ chain[c] \in Nat
      /\ c \in Policy => c \in policies
  <2>1. FileOK(c) /\ CertbotOK
    BY <1>2 DEF HostInv
  <2> QED BY <1>c, <1>1, <1>2, <2>1, HostTyped DEF CertbotOK, FileOK
<1>5. FileOK(c)' /\ chain[c] <= chain'[c] /\ CertbotOK'
  BY <1>1, <1>2, <1>3, <1>4 DEF FileOK, CertbotOK
<1>6. \A n \in Name : chain[n] # 0 => chain'[n] # 0
  BY <1>3, <1>4
<1>7. ASSUME NEW a \in Admin, certbot.by # a, enable'[a] = enable[a]
      PROVE  CallOK(a)' /\ SpentOK(a)'
  <2>1. CallOK(a) /\ SpentOK(a) /\ a # Nobody
    BY HostingAssumption DEF HostInv
  <2>2. enable[a].name \in Name
    BY HostTyped DEF EnableRecord
  <2> QED BY <1>1, <1>2, <1>6, <1>7, <2>1, <2>2 DEF CallOK, SpentOK, At
<1>8. /\ enable' \in [Admin -> EnableRecord]
      /\ \A a \in Admin : CallOK(a)' /\ SpentOK(a)'
  <2>1. CASE certbot.by = Nobody
    <3>1. UNCHANGED enable
      BY <2>1 DEF CertbotLink
    <3> QED BY <1>7, <2>1, <3>1, HostTyped, HostingAssumption
  <2>2. CASE certbot.by # Nobody
    <3>1. PICK a \in Admin : certbot.by = a
      BY <2>2, HostTyped DEF HostTypeOK
    <3>2. PICK t \in {0, CertTime(a)} : Take(a, "enabled", t)
      BY <2>2, <3>1 DEF CertbotLink
    <3>3. t \in Nat
      BY <3>2, CertTimeOK, HostTyped
    <3>4. /\ enable' \in [Admin -> EnableRecord]
          /\ \A b \in Admin : b # a => enable'[b] = enable[b]
          /\ enable'[a].name = enable[a].name /\ enable'[a].timed = enable[a].timed
          /\ enable'[a].at = "enabled" /\ enable'[a].spent = enable[a].spent + t
      BY <3>2, <3>3, HostTyped, TakeOK DEF Stage
    <3>5. /\ At(a, "issuing") /\ enable[a].name = c /\ c \in Policy
          /\ enable[a].spent <= 30 + StopTime /\ enable[a].spent \in Nat
      BY <1>c, <3>1, HostTyped DEF HostInv, CallOK, SpentOK, At, EnableRecord
    <3>6. CallOK(a)'
      <4>1. enable'[a].name = c /\ c \in policies' /\ chain'[c] # 0 /\ certbot'.by # a
        BY <1>1, <1>2, <1>3, <1>4, <3>4, <3>5, HostingAssumption
      <4> QED BY <3>4, <3>5, <4>1 DEF CallOK, At
    <3>7. SpentOK(a)'
      BY <3>2, <3>3, <3>4, <3>5, CertTimeOK, HostTyped DEF SpentOK, Longest
    <3>8. ASSUME NEW b \in Admin, b # a PROVE CallOK(b)' /\ SpentOK(b)'
      BY <1>7, <3>1, <3>4, <3>8
    <3> QED BY <3>4, <3>6, <3>7, <3>8
  <2> QED BY <2>1, <2>2
<1>9. \A n \in Name : n # c => priv'[n] = priv[n]
  BY <1>1
<1> QED BY <1>1, <1>2, <1>3, <1>5, <1>8, <1>9, FilesStep, HostTyped

-----------------------------------------------------------------------------
(* Handshakes.                                                              *)

\* What a handshake that is over promises.
DoneOK(n, h, held) ==
    h.at = "done" => /\ h.calm => h.got >= h.floor
                     /\ held # 0 /\ (n = Mail \/ h.kept) => h.got # 0

\* The two properties of a handshake that is over, as one.
LEMMA DoneFact == RenewalServed /\ KeepsServing <=> \A n \in Name : DoneOK(n, hello[n], cache[n].cert)
  BY DEF RenewalServed, KeepsServing, DoneOK

\* A step of the handshake of name n.
LEMMA HelloStep ==
    ASSUME HostInv, NEW n \in Name, NEW h \in HelloRecord, hello' = [hello EXCEPT ![n] = h],
           cache' \in [Name -> [cert : Nat, mod : Nat]],
           \A m \in Name : m # n => cache'[m] = cache[m],
           UNCHANGED << answer, policies, files, certbot, enable, nginx >>,
           CacheOK(n)', HandshakeOK(n)', DoneOK(n, h, cache'[n].cert)
    PROVE  HostInv'
<1>1. UNCHANGED << answer, policies, chain, priv, linked, due, certbot, enable, nginx >>
  BY DEF files
<1>2. /\ hello' \in [Name -> HelloRecord] /\ hello'[n] = h
      /\ \A m \in Name : m # n => hello'[m] = hello[m]
  BY HelloOK DEF HostInv
<1>3. HostTypeOK' /\ CertbotOK'
  BY <1>1, <1>2 DEF HostInv, HostTypeOK, HelloRecord, CertbotOK
<1>4. \A a \in Admin : CallOK(a)' /\ SpentOK(a)'
  BY <1>1 DEF HostInv, CallOK, SpentOK, At
<1>5. ASSUME NEW m \in Name
      PROVE  FileOK(m)' /\ CacheOK(m)' /\ HandshakeOK(m)' /\ DoneOK(m, hello[m], cache[m].cert)'
  <2>1. CASE m = n
    BY <1>1, <1>2, <2>1 DEF HostInv, FileOK
  <2>2. CASE m # n
    <3>1. DoneOK(m, hello[m], cache[m].cert)
      BY DoneFact DEF HostInv
    <3> QED BY <1>1, <1>2, <2>2, <3>1 DEF HostInv, FileOK, CacheOK, HandshakeOK
  <2> QED BY <2>1, <2>2
<1>6. RenewalServed' /\ KeepsServing'
  BY <1>5 DEF RenewalServed, KeepsServing, DoneOK
<1> QED BY <1>3, <1>4, <1>5, <1>6 DEF HostInv

\* What a handshake may use of its name.
LEMMA NameOK ==
    ASSUME HostInv, NEW n \in Name
    PROVE  /\ hello[n] \in HelloRecord /\ chain[n] \in Nat /\ priv[n] \in Nat
           /\ linked[n] \in BOOLEAN /\ cache[n].cert \in Nat /\ cache[n].mod \in Nat
           /\ CacheOK(n) /\ HandshakeOK(n) /\ FileOK(n)
           /\ cache \in [Name -> [cert : Nat, mod : Nat]]
  BY HostTyped DEF HostInv

\* A handshake that gets what is in memory.
LEMMA ServeOK ==
    ASSUME HostInv, NEW n \in Name, ServeLastKnown(n, TRUE), hello[n].at \in {"chain", "key"},
           hello[n].calm => hello[n].floor = 0,
           UNCHANGED << answer, policies, files, certbot, enable, nginx, cache >>
    PROVE  HostInv'
<1>0. hello[n] \in HelloRecord /\ cache[n].cert \in Nat /\ CacheOK(n)
  BY NameOK
<1>1. PICK h : h = [hello[n] EXCEPT !.at = "done", !.got = cache[n].cert, !.kept = TRUE]
  OBVIOUS
<1>2. /\ h.at = "done" /\ h.got = cache[n].cert /\ h.floor = hello[n].floor
      /\ h.calm => hello[n].calm
  BY <1>0, <1>1 DEF HelloRecord
<1>3. h \in HelloRecord /\ hello' = [hello EXCEPT ![n] = h]
  BY <1>0, <1>1 DEF HelloRecord, ServeLastKnown
<1>4. hello'[n] = h
  BY <1>3, HelloOK DEF HostInv
<1>5. DoneOK(n, h, cache'[n].cert)
  BY <1>0, <1>2 DEF DoneOK
<1>6. CacheOK(n)' /\ HandshakeOK(n)'
  BY <1>0, <1>2, <1>4 DEF CacheOK, HandshakeOK
<1> QED BY <1>3, <1>5, <1>6, HelloStep, NameOK

\* os.Stat, and what it decides.
LEMMA HelloStatOK ==
    ASSUME HostInv, NEW n \in Name, HelloStat(n)
    PROVE  HostInv'
<1> DEFINE open == [NoHello EXCEPT !.at = "chain", !.mod = chain[n],
                                   !.floor = IF Whole(n) THEN chain[n] ELSE 0]
           h == IF ~linked[n]
                THEN IF n \in Policy THEN [open EXCEPT !.at = "done", !.kept = FALSE]
                     ELSE [open EXCEPT !.at = "done", !.got = cache[n].cert]
                ELSE IF Newer(n) THEN open
                ELSE [open EXCEPT !.at = "done", !.got = cache[n].cert]
<1>1. /\ hello' = [hello EXCEPT ![n] = h]
      /\ UNCHANGED << answer, policies, files, certbot, enable, nginx, cache >>
  BY DEF HelloStat
<1>2. PICK floor \in Nat : floor = IF Whole(n) THEN chain[n] ELSE 0
  BY NameOK
<1>3. PICK o : o = [NoHello EXCEPT !.at = "chain", !.mod = chain[n], !.floor = floor]
  OBVIOUS
<1>4. o = open
  BY <1>2, <1>3
<1>5. o \in HelloRecord /\ o.at = "chain" /\ o.mod = chain[n] /\ o.floor = floor
  BY <1>3, NothingOK, NameOK DEF HelloRecord
<1>6. PICK k : k = h
  OBVIOUS
<1> HIDE DEF open
<1>7. /\ k \in HelloRecord /\ k.floor = floor
      /\ \/ k.at = "chain" /\ k.mod = chain[n] /\ linked[n]
         \/ k.at = "done" /\ k.got = cache[n].cert /\ (linked[n] => ~Newer(n))
         \/ k.at = "done" /\ ~k.kept /\ n \in Policy /\ ~linked[n]
  <2>1. CASE ~linked[n] /\ n \in Policy
    <3>1. k = [o EXCEPT !.at = "done", !.kept = FALSE]
      BY <1>4, <1>6, <2>1
    <3> QED BY <1>5, <2>1, <3>1 DEF HelloRecord
  <2>2. CASE (~linked[n] /\ n \notin Policy) \/ (linked[n] /\ ~Newer(n))
    <3>1. k = [o EXCEPT !.at = "done", !.got = cache[n].cert]
      BY <1>4, <1>6, <2>2
    <3> QED BY <1>5, <2>2, <3>1, NameOK DEF HelloRecord
  <2>3. CASE linked[n] /\ Newer(n)
    <3>1. k = o
      BY <1>4, <1>6, <2>3
    <3> QED BY <1>5, <2>3, <3>1
  <2> QED BY <2>1, <2>2, <2>3
<1>8. hello' = [hello EXCEPT ![n] = k]
  BY <1>1, <1>6
<1>9. hello'[n] = k
  BY <1>7, <1>8, HelloOK DEF HostInv
<1>10. HandshakeOK(n)' /\ CacheOK(n)'
  BY <1>1, <1>2, <1>7, <1>9, NameOK DEF HandshakeOK, CacheOK, Whole, files
<1>11. DoneOK(n, k, cache'[n].cert)
  <2>1. k.got \in Nat /\ (~linked[n] => floor = 0) /\ floor <= chain[n]
    BY <1>2, <1>7, NameOK DEF Whole, HelloRecord
  <2>2. linked[n] /\ ~Newer(n) => cache[n].cert # 0 /\ chain[n] <= cache[n].cert
    BY NameOK DEF Newer, CacheOK
  <2> QED BY <1>1, <1>2, <1>7, <2>1, <2>2, NameOK, HostingAssumption DEF DoneOK
<1> QED BY <1>1, <1>7, <1>8, <1>10, <1>11, HelloStep, NameOK

\* The chain is read, or has gone.
LEMMA HelloReadChainOK ==
    ASSUME HostInv, NEW n \in Name, HelloReadChain(n)
    PROVE  HostInv'
<1>0. /\ hello[n].at = "chain"
      /\ UNCHANGED << answer, policies, files, certbot, enable, nginx, cache >>
  BY DEF HelloReadChain
<1>1. CASE ~linked[n] /\ ServeLastKnown(n, TRUE)
  <2>1. hello[n].calm => hello[n].floor = 0
    BY <1>0, <1>1, NameOK DEF HandshakeOK
  <2> QED BY <1>0, <1>1, <2>1, ServeOK
<1>2. CASE linked[n] /\ hello' = [hello EXCEPT ![n].at = "key", ![n].got = chain[n]]
  <2>1. PICK h : h = [hello[n] EXCEPT !.at = "key", !.got = chain[n]]
    OBVIOUS
  <2>2. /\ h \in HelloRecord /\ h.at = "key" /\ h.got = chain[n] /\ h.mod = hello[n].mod
        /\ h.floor = hello[n].floor /\ (h.calm => hello[n].calm)
    BY <2>1, NameOK DEF HelloRecord
  <2>3. hello' = [hello EXCEPT ![n] = h]
    BY <1>2, <2>1
  <2>4. hello'[n] = h
    BY <2>2, <2>3, HelloOK DEF HostInv
  <2>5. HandshakeOK(n)' /\ CacheOK(n)'
    BY <1>0, <2>2, <2>4, NameOK DEF HandshakeOK, CacheOK, files
  <2>6. DoneOK(n, h, cache'[n].cert)
    BY <2>2 DEF DoneOK
  <2> QED BY <1>0, <2>2, <2>3, <2>5, <2>6, HelloStep, NameOK
<1> QED BY <1>1, <1>2 DEF HelloReadChain

\* The key is read: the pair fits and is kept, or is not served.
LEMMA HelloReadKeyOK ==
    ASSUME HostInv, NEW n \in Name, HelloReadKey(n)
    PROVE  HostInv'
<1>0. /\ hello[n].at = "key"
      /\ UNCHANGED << answer, policies, files, certbot, enable, nginx >>
  BY DEF HelloReadKey
<1>1. CASE hello[n].got # priv[n] /\ ServeLastKnown(n, TRUE) /\ UNCHANGED cache
  <2>1. hello[n].calm => hello[n].floor = 0
    BY <1>0, <1>1, NameOK DEF HandshakeOK
  <2> QED BY <1>0, <1>1, <2>1, ServeOK
<1>2. CASE /\ hello[n].got = priv[n]
           /\ cache' = [cache EXCEPT ![n] = [cert |-> hello[n].got, mod |-> hello[n].mod]]
           /\ hello' = [hello EXCEPT ![n].at = "done"]
  <2>1. PICK h : h = [hello[n] EXCEPT !.at = "done"]
    OBVIOUS
  <2>2. /\ h \in HelloRecord /\ h.at = "done" /\ h.got = hello[n].got
        /\ h.floor = hello[n].floor /\ (h.calm => hello[n].calm)
    BY <2>1, NameOK DEF HelloRecord
  <2>3. hello' = [hello EXCEPT ![n] = h]
    BY <1>2, <2>1
  <2>4. hello'[n] = h
    BY <2>2, <2>3, HelloOK DEF HostInv
  <2>5. hello[n].got \in Nat /\ hello[n].mod \in Nat /\ hello[n].floor \in Nat
    BY NameOK DEF HelloRecord
  <2>6. /\ cache' \in [Name -> [cert : Nat, mod : Nat]]
        /\ cache'[n].cert = hello[n].got /\ cache'[n].mod = hello[n].mod
        /\ \A m \in Name : m # n => cache'[m] = cache[m]
    BY <1>2, <2>5, NameOK
  <2>7. HandshakeOK(n)' /\ CacheOK(n)'
    BY <1>0, <2>2, <2>4, <2>6, NameOK DEF HandshakeOK, CacheOK
  <2>8. DoneOK(n, h, cache'[n].cert)
    BY <1>0, <2>2, <2>5, <2>6, NameOK DEF DoneOK, HandshakeOK
  <2> QED BY <1>0, <2>2, <2>3, <2>6, <2>7, <2>8, HelloStep
<1> QED BY <1>1, <1>2 DEF HelloReadKey

\* The handshake is over.
LEMMA HelloEndOK ==
    ASSUME HostInv, NEW n \in Name, HelloEnd(n)
    PROVE  HostInv'
<1>1. /\ hello' = [hello EXCEPT ![n] = NoHello]
      /\ UNCHANGED << answer, policies, files, certbot, enable, nginx, cache >>
  BY DEF HelloEnd
<1>2. NoHello \in HelloRecord /\ NoHello.at = "idle"
  BY NothingOK DEF NoHello
<1>3. hello'[n] = NoHello
  BY <1>1, <1>2, HelloOK DEF HostInv
<1>4. HandshakeOK(n)' /\ CacheOK(n)' /\ DoneOK(n, NoHello, cache'[n].cert)
  BY <1>1, <1>2, <1>3, NameOK DEF HandshakeOK, CacheOK, DoneOK
<1> QED BY <1>1, <1>2, <1>4, HelloStep, NameOK

-----------------------------------------------------------------------------
\* The steps that only the world takes: a certificate ages, nginx is restarted, a resolver's
\* answer runs out, or nothing happens here.
LEMMA WorldOK ==
    ASSUME HostInv, answer' \in [Policy -> {"none", "other", "us"}], nginx' \in BOOLEAN,
           due' \in [Name -> BOOLEAN],
           UNCHANGED << policies, chain, priv, linked, certbot, enable, cache, hello >>
    PROVE  HostInv'
<1>1. HostTypeOK' /\ CertbotOK' /\ RenewalServed' /\ KeepsServing'
  BY DEF HostInv, HostTypeOK, CertbotOK, RenewalServed, KeepsServing
<1>2. \A a \in Admin : CallOK(a)' /\ SpentOK(a)'
  BY DEF HostInv, CallOK, SpentOK, At
<1>3. \A n \in Name : FileOK(n)' /\ CacheOK(n)' /\ HandshakeOK(n)'
  BY DEF HostInv, FileOK, CacheOK, HandshakeOK
<1> QED BY <1>1, <1>2, <1>3 DEF HostInv

\* Every step keeps the invariant.
LEMMA HostInvNext ==
    ASSUME HostInv, HostStep
    PROVE  HostInv'
<1>1. ASSUME NEW a \in Admin, EnableStart(a) \/ Enable(a) \/ KillCertbot(a) \/ HangUp(a)
      PROVE  HostInv'
  BY <1>1, EnableStartOK, checkResolvesToOK, WritePolicyOK, StopNginxOK, RunCertbotOK,
     EnableReturnOK, EnableAnswerOK, KillCertbotOK, HangUpOK DEF Enable
<1>2. CASE RenewStart \/ Certbot
  BY <1>2, RenewStartOK, CertbotKeyOK, CertbotUnlinkOK, CertbotLinkOK DEF Certbot
<1>3. ASSUME NEW n \in Name, Age(n) PROVE HostInv'
  <2>1. /\ due' = [due EXCEPT ![n] = TRUE]
        /\ UNCHANGED << answer, policies, chain, priv, linked, certbot, enable, nginx, cache,
                        hello >>
    BY <1>3 DEF Age
  <2> QED BY <2>1, WorldOK DEF HostInv, HostTypeOK
<1>4. ASSUME NEW n \in Name, GetCertificate(n) PROVE HostInv'
  BY <1>4, HelloStatOK, HelloReadChainOK, HelloReadKeyOK, HelloEndOK DEF GetCertificate
<1>5. CASE ControlNginx
  BY <1>5, WorldOK DEF ControlNginx, files, HostInv, HostTypeOK
<1>6. CASE Propagate
  <2>1. ZoneAnswer \in {"none", "other", "us"}
    BY DEF ZoneAnswer
  <2>2. answer' \in [Policy -> {"none", "other", "us"}]
    BY <1>6, <2>1 DEF Propagate
  <2> QED BY <1>6, <2>2, WorldOK DEF Propagate, files, HostInv, HostTypeOK
<1>7. CASE UNCHANGED hostvars
  BY <1>7, WorldOK DEF hostvars, files, HostInv, HostTypeOK
<1> QED BY <1>1, <1>2, <1>3, <1>4, <1>5, <1>6, <1>7 DEF HostStep, HostNext

\* Before the first request only the mail hostname has a certificate, and nothing is in memory.
LEMMA HostInvInit == HostInit => HostInv
<1> SUFFICES ASSUME HostInit PROVE HostInv
  OBVIOUS
<1>1. /\ chain \in [Name -> Nat] /\ priv = chain
      /\ \A n \in Name : /\ n = Mail => chain[n] = 1
                         /\ n # Mail => chain[n] = 0
                         /\ linked[n] => n = Mail
  BY DEF HostInit
<1>2. /\ enable \in [Admin -> EnableRecord]
      /\ \A a \in Admin : enable[a].at = "idle" /\ enable[a].spent = 0
  BY NothingOK DEF HostInit, NoEnable
<1>3. /\ hello \in [Name -> HelloRecord] /\ \A n \in Name : hello[n].at = "idle"
  BY NothingOK DEF HostInit, NoHello
<1>4. certbot = NoCertbot /\ certbot.at = "idle" /\ certbot.by = Nobody
  BY DEF HostInit, NoCertbot
<1>5. /\ cache \in [Name -> [cert : Nat, mod : Nat]]
      /\ \A n \in Name : cache[n].cert = 0 /\ cache[n].mod = 0
  BY DEF HostInit
<1>6. HostTypeOK
  BY <1>1, <1>2, <1>3, <1>4, <1>5, NothingOK
     DEF HostInit, HostTypeOK, EnableRecord, Stage, HelloRecord
<1>7. \A a \in Admin : CallOK(a) /\ SpentOK(a)
  BY <1>2, <1>4, HostingAssumption DEF CallOK, SpentOK, At
<1>8. \A n \in Name : FileOK(n) /\ CacheOK(n) /\ HandshakeOK(n)
  BY <1>1, <1>3, <1>5, HostingAssumption DEF FileOK, CacheOK, HandshakeOK
<1>9. CertbotOK /\ RenewalServed /\ KeepsServing
  BY <1>3, <1>4 DEF CertbotOK, RenewalServed, KeepsServing
<1> QED BY <1>6, <1>7, <1>8, <1>9 DEF HostInv

-----------------------------------------------------------------------------
(* What hosting promises.                                                   *)

\* The invariant holds throughout.
LEMMA HostKept == PubSpec => []HostInv
<1>1. PubInit => HostInv
  BY HostInvInit DEF PubInit
<1>2. HostInv /\ [PubNext]_pubvars => HostInv'
  BY HostOfPub, HostInvNext
<1> QED BY <1>1, <1>2, PTL DEF PubSpec

\* Whatever goes on at the names, the requests that apply records behave as module Dns says:
\* its theorems hold here too.
THEOREM PublishingImplementsDns == PubSpec => DnsSpec
<1>1. PubInit => DnsInit
  BY DEF PubInit
<1>2. [PubNext]_pubvars => [DnsNext]_dnsvars
  BY DEF PubNext, pubvars, Propagate
<1> QED BY <1>1, <1>2, PTL DEF PubSpec, DnsSpec

\* Type correctness of both components.
THEOREM PublishingTypeCorrect == PubSpec => []PubTypeOK
<1>1. DnsInit => DnsInv
  BY InitInv
<1>2. DnsInv /\ [DnsNext]_dnsvars => DnsInv'
  BY Refines
<1>3. DnsInv /\ HostInv => PubTypeOK
  BY DEF DnsInv, HostInv, PubTypeOK
<1> QED BY <1>1, <1>2, <1>3, PublishingImplementsDns, HostKept, PTL DEF DnsSpec

\* GetCertificate: a renewal takes effect without a restart, however the handshakes and the
\* steps of certbot, also one that is killed, interleave.
THEOREM RenewalTakesEffect == PubSpec => []RenewalServed
<1>1. HostInv => RenewalServed
  BY DEF HostInv
<1> QED BY <1>1, HostKept, PTL

\* GetCertificate: a loader that has a certificate serves one in every handshake, that of an
\* mta-sts name as long as its chain is linked: between certbot's unlink and link, and after a
\* kill there until the next run, such a handshake fails.
THEOREM ServesLastKnownGood == PubSpec => []KeepsServing
<1>1. HostInv => KeepsServing
  BY DEF HostInv
<1> QED BY <1>1, HostKept, PTL

\* Enable: success means a certificate and a policy, and no certificate is without its policy,
\* however many callers, runs of certbot and kills overlap.
THEOREM HostedComplete == PubSpec => []HostedWithPolicy
<1>1. HostInv => HostedWithPolicy
  <2> SUFFICES ASSUME HostInv PROVE HostedWithPolicy
    OBVIOUS
  <2>1. \A a \in Admin : At(a, "enabled") => chain[enable[a].name] # 0
    BY DEF HostInv, CallOK
  <2>2. \A n \in Policy : chain[n] # 0 => n \in policies
    BY DEF HostInv, FileOK, Name
  <2> QED BY <2>1, <2>2 DEF HostedWithPolicy
<1> QED BY <1>1, HostKept, PTL

\* Enable: it keeps within the 140 seconds of the page if nginx stops within 110, and otherwise
\* takes no longer than its lookups, certbot and what nginx takes, whatever that is; the page
\* follows within PageTime.
THEOREM EnableBounded == PubSpec => []EnableInTime
<1>1. HostInv => EnableInTime
  <2> SUFFICES ASSUME HostInv, NEW a \in Admin
               PROVE  enable[a].spent <= Longest(enable[a].timed)
                          + IF At(a, "answering") /\ enable[a].timed THEN PageTime ELSE 0
    BY DEF EnableInTime
  <2>1. enable[a].at \in Stage /\ enable[a].spent \in Nat /\ enable[a].attempt \in Nat
        /\ StopTime \in Nat /\ enable[a].timed \in BOOLEAN
    BY HostTyped DEF EnableRecord
  <2>2. SpentOK(a)
    BY DEF HostInv
  <2> QED BY <2>1, <2>2 DEF SpentOK, Stage, Attempts, At, Longest, PageTime
<1> QED BY <1>1, HostKept, PTL

-----------------------------------------------------------------------------
(* A call of Enable comes to its end.                                       *)

\* The steps that call a can still take: a lookup for each attempt that is left, the policy,
\* nginx, certbot and its three changes of files, the page and its answer.
EnableLeft(a) ==
    CASE At(a, "lookup")    -> 9 + Attempts - enable[a].attempt
      [] At(a, "policy")    -> 8
      [] At(a, "stop")      -> 7
      [] At(a, "certbot")   -> 6
      [] At(a, "issuing")   -> IF certbot.at = "key" THEN 5
                               ELSE IF certbot.at = "unlink" THEN 4 ELSE 3
      [] At(a, "idle")      -> 0
      [] At(a, "answering") -> 1
      [] OTHER              -> 2

\* The steps of call a: its own, those that break it off, and those of the certbot it waits
\* for.
EnableMoves(a) ==
    Enable(a) \/ KillCertbot(a) \/ HangUp(a) \/ (At(a, "issuing") /\ Certbot)

\* There are at most twelve, there are some as long as the call runs, and a call that waits
\* for certbot has it running.
EnableLittleLeft ==
    \A a \in Admin :
        /\ EnableLeft(a) \in 0 .. 8 + Attempts
        /\ EnableLeft(a) = 0 <=> At(a, "idle")
        /\ At(a, "issuing") => certbot.by = a /\ certbot.at # "idle"

\* A step of the call leaves it with fewer, and no other step gives it more.
EnableRunsDown ==
    \A a \in Admin : ~At(a, "idle") =>
        EnableLeft(a)' <= EnableLeft(a) /\ (EnableMoves(a) => EnableLeft(a)' < EnableLeft(a))

LEMMA EnableCounted ==
    ASSUME HostInv, NEW a \in Admin
    PROVE  /\ EnableLeft(a) \in 0 .. 8 + Attempts
           /\ EnableLeft(a) = 0 <=> At(a, "idle")
           /\ At(a, "issuing") => certbot.by = a /\ certbot.at # "idle"
<1>1. enable[a].at \in Stage /\ (At(a, "lookup") => enable[a].attempt \in 1 .. Attempts)
  BY HostTyped DEF HostInv, SpentOK, At, EnableRecord
<1>2. EnableLeft(a) \in 0 .. 8 + Attempts /\ (EnableLeft(a) = 0 <=> At(a, "idle"))
  BY <1>1 DEF EnableLeft, At, Stage, Attempts
<1>3. At(a, "issuing") => certbot.by = a /\ certbot.at # "idle"
  BY HostingAssumption DEF HostInv, CallOK, CertbotOK
<1> QED BY <1>2, <1>3

\* Enable before certbot, and after it.
LEMMA EnableNearer ==
    ASSUME HostInv, NEW a \in Admin, Enable(a)
    PROVE  EnableLeft(a)' < EnableLeft(a)
<1> USE DEF Attempts
<1>1. CASE checkResolvesTo(a)
  <2>1. At(a, "lookup") /\ enable[a].attempt \in 1 .. Attempts
    BY <1>1 DEF checkResolvesTo, HostInv, SpentOK, At
  <2>2. PICK t \in Nat : TryAgain(a, t) \/ Take(a, "policy", t) \/ Take(a, "failed", t)
    BY <1>1 DEF checkResolvesTo
  <2>3. \/ /\ enable[a].attempt < Attempts
           /\ enable'[a].at = "lookup" /\ enable'[a].attempt = enable[a].attempt + 1
        \/ enable'[a].at \in {"policy", "failed"}
    BY <2>1, <2>2, HostTyped, TakeOK, TryAgainOK DEF Stage
  <2> QED BY <2>1, <2>3 DEF EnableLeft, At
<1>2. CASE WritePolicy(a)
  <2>1. At(a, "policy") /\ (Take(a, "stop", 0) \/ Take(a, "failed", 0))
    BY <1>2 DEF WritePolicy
  <2>2. enable'[a].at \in {"stop", "failed"}
    BY <2>1, HostTyped, TakeOK DEF Stage
  <2> QED BY <2>1, <2>2 DEF EnableLeft, At
<1>3. CASE StopNginx(a)
  <2>1. At(a, "stop") /\ \E t \in Nat : Take(a, "certbot", t)
    BY <1>3, HostTyped DEF StopNginx
  <2>2. enable'[a].at = "certbot"
    BY <2>1, HostTyped, TakeOK DEF Stage
  <2> QED BY <2>1, <2>2 DEF EnableLeft, At
<1>4. CASE RunCertbot(a)
  <2>1. At(a, "certbot")
    BY <1>4 DEF RunCertbot
  <2>2. CASE Take(a, "enabled", 0) \/ Take(a, "failed", 0)
    <3>1. enable'[a].at \in {"enabled", "failed"}
      BY <2>2, HostTyped, TakeOK DEF Stage
    <3> QED BY <2>1, <3>1 DEF EnableLeft, At
  <2>3. CASE Take(a, "issuing", 0)
    <3>1. enable'[a].at = "issuing"
      BY <2>3, HostTyped, TakeOK DEF Stage
    <3> QED BY <2>1, <3>1 DEF EnableLeft, At
  <2> QED BY <1>4, <2>2, <2>3 DEF RunCertbot
<1>5. CASE EnableReturn(a)
  <2>1. PICK t \in Nat : enable[a].at \in {"enabled", "failed"} /\ Take(a, "answering", t)
    BY <1>5 DEF EnableReturn, PageTime
  <2>2. enable'[a].at = "answering"
    BY <2>1, HostTyped, TakeOK DEF Stage
  <2> QED BY <2>1, <2>2 DEF EnableLeft, At
<1>6. CASE EnableAnswer(a)
  <2>1. At(a, "answering") /\ enable'[a].at = "idle"
    BY <1>6, HostTyped DEF EnableAnswer, NoEnable
  <2> QED BY <2>1 DEF EnableLeft, At
<1> QED BY <1>1, <1>2, <1>3, <1>4, <1>5, <1>6 DEF Enable

\* A call that is broken off only has to answer.
LEMMA BrokenOffNearer ==
    ASSUME HostInv, NEW a \in Admin, KillCertbot(a) \/ HangUp(a)
    PROVE  EnableLeft(a)' < EnableLeft(a)
<1>1. PICK t \in Nat : Take(a, "failed", t)
  BY HostTyped, CertTimeOK DEF KillCertbot, HangUp
<1>2. enable'[a].at = "failed"
  BY <1>1, HostTyped, TakeOK DEF Stage
<1>3. At(a, "issuing") \/ (At(a, "lookup") /\ enable[a].attempt \in 1 .. Attempts)
  BY DEF KillCertbot, HangUp, HostInv, SpentOK, At
<1> QED BY <1>2, <1>3 DEF EnableLeft, At, Attempts

\* A step of certbot brings the call that waits for it nearer to its end.
LEMMA CertbotNearer ==
    ASSUME HostInv, NEW a \in Admin, At(a, "issuing"), Certbot
    PROVE  EnableLeft(a)' < EnableLeft(a)
<1>1. certbot.by = a /\ a # Nobody
  BY HostingAssumption DEF HostInv, CallOK
<1>2. certbot.at \in {"idle", "key", "unlink", "link"}
  BY HostTyped DEF HostTypeOK
<1>3. CASE CertbotKey
  <2>1. certbot.at = "key" /\ certbot'.at = "unlink" /\ enable' = enable
    BY <1>3, HostTyped DEF CertbotKey, HostTypeOK
  <2> QED BY <2>1 DEF EnableLeft, At
<1>4. CASE CertbotUnlink
  <2>1. certbot.at = "unlink" /\ certbot'.at = "link" /\ enable' = enable
    BY <1>4, HostTyped DEF CertbotUnlink, HostTypeOK
  <2> QED BY <2>1 DEF EnableLeft, At
<1>5. CASE CertbotLink
  <2>1. PICK t \in Nat : certbot.at = "link" /\ Take(a, "enabled", t)
    BY <1>1, <1>5, HostTyped, CertTimeOK DEF CertbotLink
  <2>2. enable'[a].at = "enabled"
    BY <2>1, HostTyped, TakeOK DEF Stage
  <2> QED BY <2>1, <2>2 DEF EnableLeft, At
<1> QED BY <1>3, <1>4, <1>5 DEF Certbot

\* What a call's count depends on.
LEMMA EnableSame ==
    ASSUME NEW a \in Admin, enable'[a] = enable[a], At(a, "issuing") => certbot'.at = certbot.at
    PROVE  EnableLeft(a)' = EnableLeft(a)
  BY DEF EnableLeft, At

\* What else happens does not move the call: certbot's lock keeps others from the run that it
\* waits for.
LEMMA OthersLeaveEnable ==
    ASSUME HostInv, HostStep, NEW a \in Admin, ~At(a, "idle"), ~EnableMoves(a)
    PROVE  EnableLeft(a)' = EnableLeft(a)
<1>0. /\ HostTypeOK /\ enable \in [Admin -> EnableRecord] /\ a # Nobody
      /\ At(a, "issuing") <=> certbot.by = a
  BY HostTyped, HostingAssumption DEF HostInv, CallOK
<1> SUFFICES enable'[a] = enable[a] /\ (At(a, "issuing") => certbot'.at = certbot.at)
  BY EnableSame
<1>1. ASSUME NEW b \in Admin, EnableStart(b) \/ Enable(b) \/ KillCertbot(b) \/ HangUp(b)
      PROVE  enable'[a] = enable[a] /\ (At(a, "issuing") => certbot'.at = certbot.at)
  <2>1. CASE EnableStart(b)
    <3>1. b # a /\ UNCHANGED certbot
      BY <2>1 DEF EnableStart
    <3> QED BY <1>0, <2>1, <3>1 DEF EnableStart
  <2>2. CASE ~EnableStart(b)
    <3>1. b # a
      BY <1>1, <2>2 DEF EnableMoves
    <3>2. CASE EnableAnswer(b)
      BY <1>0, <3>1, <3>2 DEF EnableAnswer
    <3>6. CASE EnableReturn(b)
      <4>1. PICK t \in Nat : Take(b, "answering", t)
        BY <3>6 DEF EnableReturn, PageTime
      <4> QED BY <1>0, <3>1, <3>6, <4>1, TakeOK DEF EnableReturn, Stage
    <3>3. CASE checkResolvesTo(b)
      <4>1. PICK t \in Nat : TryAgain(b, t) \/ Take(b, "policy", t) \/ Take(b, "failed", t)
        BY <3>3 DEF checkResolvesTo
      <4>2. enable'[a] = enable[a]
        BY <1>0, <3>1, <3>3, <4>1, TakeOK, TryAgainOK DEF Stage, checkResolvesTo
      <4> QED BY <3>3, <4>2 DEF checkResolvesTo
    <3>4. CASE WritePolicy(b) \/ StopNginx(b) \/ HangUp(b)
      <4>1. PICK t \in Nat, l \in Stage : Take(b, l, t)
        BY <3>4, HostTyped DEF WritePolicy, StopNginx, HangUp, Stage
      <4> QED BY <1>0, <3>1, <3>4, <4>1, TakeOK DEF WritePolicy, StopNginx, HangUp
    <3>5. CASE RunCertbot(b) \/ KillCertbot(b)
      <4>1. PICK t \in Nat, l \in Stage : Take(b, l, t)
        BY <1>0, <3>5, CertTimeOK DEF RunCertbot, KillCertbot, Stage
      <4>2. enable'[a] = enable[a]
        BY <1>0, <3>1, <4>1, TakeOK
      <4>3. KillCertbot(b) => certbot.by = b
        BY DEF KillCertbot, HostInv, CallOK
      <4>4. UNCHANGED certbot \/ certbot = NoCertbot \/ certbot.by = b
        BY <3>5, <4>3 DEF RunCertbot
      <4> QED BY <1>0, <3>1, <4>2, <4>4 DEF NoCertbot
    <3> QED BY <1>1, <2>2, <3>2, <3>3, <3>4, <3>5, <3>6 DEF Enable
  <2> QED BY <2>1, <2>2
<1>2. CASE RenewStart
  BY <1>0, <1>2 DEF RenewStart, NoCertbot
<1>3. CASE Certbot
  <2>1. ~At(a, "issuing") /\ certbot.by # a
    BY <1>0, <1>3 DEF EnableMoves
  <2>2. CASE CertbotLink /\ certbot.by # Nobody
    <3>1. PICK b \in Admin : certbot.by = b
      BY <1>0, <2>2 DEF HostTypeOK
    <3>2. PICK t \in Nat : Take(b, "enabled", t)
      BY <1>0, <2>2, <3>1, CertTimeOK DEF CertbotLink
    <3> QED BY <1>0, <2>1, <3>1, <3>2, TakeOK DEF Stage
  <2>3. CASE ~(CertbotLink /\ certbot.by # Nobody)
    BY <1>3, <2>1, <2>3 DEF Certbot, CertbotKey, CertbotUnlink, CertbotLink
  <2> QED BY <2>1, <2>2, <2>3
<1>4. CASE \/ \E n \in Name : Age(n) \/ GetCertificate(n)
           \/ ControlNginx \/ Propagate \/ UNCHANGED hostvars
  BY <1>4 DEF Age, GetCertificate, HelloStat, HelloReadChain, HelloReadKey, HelloEnd,
              ControlNginx, Propagate, hostvars
<1> QED BY <1>1, <1>2, <1>3, <1>4 DEF HostStep, HostNext

\* Enable: a call takes at most twelve steps, those of the certbot it waits for included,
\* whatever the resolvers, the timer and other calls do meanwhile; and it never waits for a
\* certbot that is not running.  EnableEnds follows with the fairness of these steps.
THEOREM EnableRunsOut == PubSpec => []EnableLittleLeft /\ [][EnableRunsDown]_pubvars
<1>1. HostInv => EnableLittleLeft
  BY EnableCounted DEF EnableLittleLeft
<1>2. HostInv' => EnableLittleLeft'
  BY <1>1, PTL
<1>3. ASSUME HostInv, HostInv', [PubNext]_pubvars PROVE EnableRunsDown
  <2> SUFFICES ASSUME NEW a \in Admin, ~At(a, "idle")
               PROVE  /\ EnableLeft(a)' <= EnableLeft(a)
                      /\ EnableMoves(a) => EnableLeft(a)' < EnableLeft(a)
    BY DEF EnableRunsDown
  <2>1. EnableLeft(a) \in Nat /\ EnableLeft(a)' \in Nat
    BY <1>1, <1>2, <1>3 DEF EnableLittleLeft, Attempts
  <2>2. EnableMoves(a) => EnableLeft(a)' < EnableLeft(a)
    BY <1>3, EnableNearer, BrokenOffNearer, CertbotNearer DEF EnableMoves
  <2>3. ~EnableMoves(a) => EnableLeft(a)' = EnableLeft(a)
    BY <1>3, HostOfPub, OthersLeaveEnable
  <2> QED BY <2>1, <2>2, <2>3
<1> QED BY <1>1, <1>3, HostKept, PTL DEF PubSpec
=============================================================================
