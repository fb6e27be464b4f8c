------------------------------- MODULE Hosting -------------------------------
(***************************************************************************)
(* MTA-STS hosting: mtasts.Enable with its DNS check and its run of         *)
(* certbot, the two certificate loaders of the daemon (webui.certReloader   *)
(* for the mail hostname, mtasts.multiCertReloader for mta-sts names), the  *)
(* renewal of certificates under them, and the nginx behind the webmail.    *)
(*                                                                          *)
(* A certificate is the number of its issue: its chain and its key fit when *)
(* they have the same one, and the time of the chain file grows with it.    *)
(* certbot (external) replaces the key, then takes the link to the chain    *)
(* away and puts the new one there.                                         *)
(***************************************************************************)
EXTENDS Naturals

CONSTANTS
    Mail,       \* the mail hostname
    Policy,     \* mta-sts names
    Admin,      \* callers of Enable: the web UI, the server-wide API, the CLI
    MaxIssue,   \* bound on the certificates issued per name
    StopTime,   \* what "systemctl stop nginx" may take, in seconds
    Nobody

Name == Policy \cup {Mail}

ASSUME HostingAssumption ==
    /\ Mail \notin Policy /\ Nobody \notin Admin
    /\ MaxIssue \in Nat /\ StopTime \in Nat

VARIABLES
    answer,    \* what a resolver says about a name: no address, another's, or this server's
    policies,  \* names whose policy file is written
    chain, priv, linked,  \* fullchain.pem and privkey.pem of each name, 0 without one
    due,       \* names whose certificate is about to expire
    certbot,   \* the run of certbot that is going on (its lock admits one)
    enable,    \* what each call of Enable is doing
    nginx,     \* whether nginx runs
    cache,     \* byKey, and cert of certReloader: the certificate and the time of its file
    hello      \* the handshake of each name that is in GetCertificate

files   == << chain, priv, linked, due >>
hostvars == << answer, policies, files, certbot, enable, nginx, cache, hello >>

NoCertbot == [at |-> "idle", name |-> Mail, by |-> Nobody]
NoEnable  == [at |-> "idle", name |-> Mail, attempt |-> 0, spent |-> 0,
              timed |-> FALSE]
NoHello   == [at |-> "idle", mod |-> 0, got |-> 0, floor |-> 0, kept |-> TRUE, calm |-> TRUE]

HostTypeOK ==
    /\ answer \in [Policy -> {"none", "other", "us"}]
    /\ policies \subseteq Policy /\ nginx \in BOOLEAN
    /\ chain \in [Name -> Nat] /\ priv \in [Name -> Nat]
    /\ linked \in [Name -> BOOLEAN] /\ due \in [Name -> BOOLEAN]
    /\ certbot \in [at : {"idle", "key", "unlink", "link"}, name : Name, by : Admin \cup {Nobody}]
    /\ enable \in [Admin -> [at : {"idle", "lookup", "policy", "stop", "certbot", "issuing",
                                   "enabled", "failed", "answering"},
                             name : Name, attempt : Nat, spent : Nat, timed : BOOLEAN]]
    /\ cache \in [Name -> [cert : Nat, mod : Nat]]
    /\ hello \in [Name -> [at : {"idle", "chain", "key", "done"}, mod : Nat, got : Nat,
                           floor : Nat, kept : BOOLEAN, calm : BOOLEAN]]

\* Phase 40-tls has issued the certificate of the mail hostname, phase 90-webmail has started
\* nginx.
HostInit ==
    /\ answer = [n \in Policy |-> "none"] /\ policies = {} /\ nginx = TRUE
    /\ chain = [n \in Name |-> IF n = Mail THEN 1 ELSE 0] /\ priv = chain
    /\ linked = [n \in Name |-> n = Mail] /\ due = [n \in Name |-> FALSE]
    /\ certbot = NoCertbot /\ enable = [a \in Admin |-> NoEnable]
    /\ cache = [n \in Name |-> [cert |-> 0, mod |-> 0]]
    /\ hello = [n \in Name |-> NoHello]

-----------------------------------------------------------------------------
(* Enable.                                                                  *)

Attempts == 4

At(a, l) == enable[a].at = l

\* The call goes on at l after t more seconds.
Take(a, l, t) == enable' = [enable EXCEPT ![a].at = l, ![a].spent = @ + t]

\* The page of the web UI gives Enable 140 seconds (timed); the server-wide API and the command
\* line set no limit.  Page and API extend the deadline for writing their answer to 150 seconds.
EnableStart(a) ==
    /\ At(a, "idle")
    /\ \E n \in Policy, timed \in BOOLEAN :
          enable' = [enable EXCEPT ![a] = [NoEnable EXCEPT !.at = "lookup", !.name = n,
                                               !.attempt = 1, !.timed = timed]]
    /\ UNCHANGED << answer, policies, files, certbot, nginx, cache, hello >>

\* Mutant: a failed lookup is always followed by another.
TryAgainForever(a, t) ==
    enable' = [enable EXCEPT ![a].attempt = IF @ < Attempts THEN @ + 1 ELSE @]

\* No answer: two seconds later the next of four attempts, or none.
TryAgain(a, t) ==
    IF enable[a].attempt < Attempts
    THEN enable' = [enable EXCEPT ![a].attempt = @ + 1, ![a].spent = @ + t + 2]
    ELSE Take(a, "failed", t)

\* One lookup of checkResolvesTo, of up to six seconds: it may fail on a record that is fine,
\* an address that is not ours ends it at once.
checkResolvesTo(a) ==
    /\ At(a, "lookup")
    /\ \E t \in {0, 6} :
          \/ TryAgain(a, t)
          \/ answer[enable[a].name] = "us" /\ Take(a, "policy", t)
          \/ answer[enable[a].name] = "other" /\ Take(a, "failed", t)
    /\ UNCHANGED << answer, policies, files, certbot, nginx, cache, hello >>

\* Mutant: no policy file.
WritePolicyNot(a) ==
    /\ At(a, "policy")
    /\ Take(a, "stop", 0)
    /\ UNCHANGED << answer, policies, files, certbot, nginx, cache, hello >>

WritePolicy(a) ==
    /\ At(a, "policy")
    /\ \/ policies' = policies \cup {enable[a].name} /\ Take(a, "stop", 0)
       \/ UNCHANGED policies /\ Take(a, "failed", 0)
    /\ UNCHANGED << answer, files, certbot, nginx, cache, hello >>

\* "systemctl stop nginx apache2", its result ignored, and not bound by the context.
StopNginx(a) ==
    /\ At(a, "stop")
    /\ nginx' = FALSE
    /\ \E t \in {0, StopTime} : Take(a, "certbot", t)
    /\ UNCHANGED << answer, policies, files, certbot, cache, hello >>

\* certbot certonly: it keeps a certificate that is not about to expire, fails when another
\* run holds the lock or the challenge fails, or starts to replace the files.
RunCertbot(a) ==
    LET n == enable[a].name
    IN  /\ At(a, "certbot")
        /\ \/ /\ linked[n] /\ ~due[n]
              /\ Take(a, "enabled", 0)
              /\ UNCHANGED certbot
           \/ Take(a, "failed", 0) /\ UNCHANGED certbot
           \/ /\ certbot = NoCertbot /\ (~linked[n] \/ due[n]) /\ priv[n] < MaxIssue
              /\ certbot' = [at |-> "key", name |-> n, by |-> a]
              /\ Take(a, "issuing", 0)
        /\ UNCHANGED << answer, policies, files, nginx, cache, hello >>

\* Mutant: the limit of the request does not reach certbot.
CertTimeAlone(a) == 90

\* How long certbot may run: 90 seconds, or what is left of the caller's 140.
CertTime(a) ==
    IF enable[a].timed /\ enable[a].spent > 50
    THEN IF enable[a].spent > 140 THEN 0 ELSE 140 - enable[a].spent
    ELSE 90

\* certCtx is done, or the client has gone: certbot is killed where it is.
KillCertbot(a) ==
    /\ At(a, "issuing")
    /\ certbot' = NoCertbot
    /\ Take(a, "failed", CertTime(a))
    /\ UNCHANGED << answer, policies, files, nginx, cache, hello >>

\* The client goes away during the lookups: the context ends the wait between them.
HangUp(a) ==
    /\ At(a, "lookup")
    /\ Take(a, "failed", 0)
    /\ UNCHANGED << answer, policies, files, certbot, nginx, cache, hello >>

\* What dkimData may take before the page is written: Token with a refresh has 15 seconds,
\* FindZone eight (its statements are not counted).
PageTime == 23

\* Enable returns; the page is then put together from dkimData.
EnableReturn(a) ==
    /\ enable[a].at \in {"enabled", "failed"}
    /\ \E t \in IF enable[a].timed THEN {0, PageTime} ELSE {0} : Take(a, "answering", t)
    /\ UNCHANGED << answer, policies, files, certbot, nginx, cache, hello >>

\* The answer is written, or lost when the 150 seconds are over.
EnableAnswer(a) ==
    /\ At(a, "answering")
    /\ enable' = [enable EXCEPT ![a] = NoEnable]
    /\ UNCHANGED << answer, policies, files, certbot, nginx, cache, hello >>

Enable(a) ==
    \/ checkResolvesTo(a) \/ WritePolicy(a) \/ StopNginx(a) \/ RunCertbot(a)
    \/ EnableReturn(a) \/ EnableAnswer(a)

-----------------------------------------------------------------------------
(* certbot (external).                                                      *)

\* The handshakes that are going on have met a replacement of files.
Stirred(n) == hello' = [hello EXCEPT ![n].calm = FALSE]

\* certbot.timer renews a certificate that is about to expire.
RenewStart ==
    /\ certbot = NoCertbot
    /\ \E n \in Name :
          /\ due[n] /\ linked[n] /\ priv[n] < MaxIssue
          /\ certbot' = [at |-> "key", name |-> n, by |-> Nobody]
    /\ UNCHANGED << answer, policies, files, enable, nginx, cache, hello >>

CertbotKey ==
    /\ certbot.at = "key"
    /\ priv' = [priv EXCEPT ![certbot.name] = @ + 1]
    /\ certbot' = [certbot EXCEPT !.at = "unlink"]
    /\ Stirred(certbot.name)
    /\ UNCHANGED << answer, policies, chain, linked, due, enable, nginx, cache >>

CertbotUnlink ==
    /\ certbot.at = "unlink"
    /\ linked' = [linked EXCEPT ![certbot.name] = FALSE]
    /\ certbot' = [certbot EXCEPT !.at = "link"]
    /\ Stirred(certbot.name)
    /\ UNCHANGED << answer, policies, chain, priv, due, enable, nginx, cache >>

CertbotLink ==
    /\ certbot.at = "link"
    /\ chain' = [chain EXCEPT ![certbot.name] = priv[certbot.name]]
    /\ linked' = [linked EXCEPT ![certbot.name] = TRUE]
    /\ due' = [due EXCEPT ![certbot.name] = FALSE]
    /\ certbot' = NoCertbot
    /\ \/ certbot.by = Nobody /\ UNCHANGED enable
       \/ certbot.by # Nobody /\ \E t \in {0, CertTime(certbot.by)} : Take(certbot.by, "enabled", t)
    /\ Stirred(certbot.name)
    /\ UNCHANGED << answer, policies, priv, nginx, cache >>

Certbot == CertbotKey \/ CertbotUnlink \/ CertbotLink

\* Sixty days pass.
Age(n) ==
    /\ chain[n] # 0 /\ ~due[n]
    /\ due' = [due EXCEPT ![n] = TRUE]
    /\ UNCHANGED << answer, policies, chain, priv, linked, certbot, enable, nginx, cache, hello >>

-----------------------------------------------------------------------------
(* GetCertificate of both loaders, under their lock.                        *)

\* A certificate is complete on disk.
Whole(n) == linked[n] /\ chain[n] = priv[n]

\* The lock of multiCertReloader is one for all its names.
Unlocked(n) ==
    /\ hello[n] = NoHello
    /\ n \in Policy => \A m \in Policy : hello[m] = NoHello

\* Mutant: nothing is served while a renewal is going on.
ServeNothing(n, k) == hello' = [hello EXCEPT ![n].at = "done", ![n].got = 0, ![n].kept = k]

\* The handshake gets the certificate in memory, or an error when there is none.
ServeLastKnown(n, k) ==
    hello' = [hello EXCEPT ![n].at = "done", ![n].got = cache[n].cert, ![n].kept = k]

\* Mutant: what is in memory is never loaded again.
NewerNever(n) == cache[n].cert = 0

Newer(n) == cache[n].cert = 0 \/ chain[n] > cache[n].mod

\* os.Stat of the chain.  Without it multiCertReloader gives up, certReloader serves what it
\* has.  A chain newer than the certificate in memory is loaded.
HelloStat(n) ==
    /\ Unlocked(n)
    /\ LET open == [NoHello EXCEPT !.at = "chain", !.mod = chain[n],
                                   !.floor = IF Whole(n) THEN chain[n] ELSE 0]
       IN  hello' = [hello EXCEPT ![n] =
              IF ~linked[n]
              THEN IF n \in Policy THEN [open EXCEPT !.at = "done", !.kept = FALSE]
                   ELSE [open EXCEPT !.at = "done", !.got = cache[n].cert]
              ELSE IF Newer(n) THEN open
              ELSE [open EXCEPT !.at = "done", !.got = cache[n].cert]]
    /\ UNCHANGED << answer, policies, files, certbot, enable, nginx, cache >>

\* LoadX509KeyPair reads the chain, then the key.
HelloReadChain(n) ==
    /\ hello[n].at = "chain"
    /\ \/ linked[n] /\ hello' = [hello EXCEPT ![n].at = "key", ![n].got = chain[n]]
       \/ ~linked[n] /\ ServeLastKnown(n, TRUE)
    /\ UNCHANGED << answer, policies, files, certbot, enable, nginx, cache >>

\* A pair that fits is kept with the time that Stat saw; one that does not is not served.
HelloReadKey(n) ==
    /\ hello[n].at = "key"
    /\ \/ /\ hello[n].got = priv[n]
          /\ cache' = [cache EXCEPT ![n] = [cert |-> hello[n].got, mod |-> hello[n].mod]]
          /\ hello' = [hello EXCEPT ![n].at = "done"]
       \/ hello[n].got # priv[n] /\ ServeLastKnown(n, TRUE) /\ UNCHANGED cache
    /\ UNCHANGED << answer, policies, files, certbot, enable, nginx >>

HelloEnd(n) ==
    /\ hello[n].at = "done"
    /\ hello' = [hello EXCEPT ![n] = NoHello]
    /\ UNCHANGED << answer, policies, files, certbot, enable, nginx, cache >>

GetCertificate(n) ==
    HelloStat(n) \/ HelloReadChain(n) \/ HelloReadKey(n) \/ HelloEnd(n)

-----------------------------------------------------------------------------
\* Control: the services page can restart nginx; systemd's own reload of a stopped unit fails.
ControlNginx ==
    /\ nginx' = TRUE
    /\ UNCHANGED << answer, policies, files, certbot, enable, cache, hello >>

HostNext ==
    \/ \E a \in Admin : EnableStart(a) \/ Enable(a) \/ KillCertbot(a) \/ HangUp(a)
    \/ RenewStart \/ Certbot
    \/ \E n \in Name : Age(n) \/ GetCertificate(n)
    \/ ControlNginx

\* Lookups end after six seconds, certbot after ninety.
HostFair == (\A a \in Admin : WF_hostvars(Enable(a))) /\ WF_hostvars(Certbot)

-----------------------------------------------------------------------------
(* Properties.                                                              *)

\* A handshake that no replacement of files overlapped gets a certificate at least as new as
\* the one that was complete on disk when it began: a renewal "takes effect without
\* restarting", also after a handshake that met the renewal half-way.
RenewalServed ==
    \A n \in Name : hello[n].at = "done" /\ hello[n].calm => hello[n].got >= hello[n].floor

\* "Serve the last-known-good cert rather than fail an in-progress renewal": once a loader has
\* a certificate every handshake gets one, wherever certbot is or was killed; for the mta-sts
\* names this is so only while their chain is linked.  Between certbot's unlink and link, and
\* for good when it was killed there, os.Stat fails and so does the handshake.
KeepsServing ==
    \A n \in Name : hello[n].at = "done" /\ cache[n].cert # 0 /\ (n = Mail \/ hello[n].kept) =>
        hello[n].got # 0

\* Enabled: when Enable reports success there is a certificate and a policy to serve with it,
\* and no mta-sts name ever has a certificate without a policy.
HostedWithPolicy ==
    /\ \A a \in Admin : At(a, "enabled") => chain[enable[a].name] # 0
    /\ \A n \in Policy : chain[n] # 0 => n \in policies

\* The longest that Enable takes: 30 seconds of lookups, nginx, and certbot's 90.  The limit of
\* the page cuts this to 140, but "systemctl stop" does not heed it.
Longest(timed) ==
    IF ~timed \/ StopTime <= 20 THEN 120 + StopTime
    ELSE IF StopTime <= 110 THEN 140 ELSE 30 + StopTime

\* Enable keeps within the limit of its caller, and the page within PageTime after that.  Their
\* answers therefore meet the write deadline of 150 seconds for certain only when nginx stops
\* within 7 seconds (the page) or 30 (the API).
EnableInTime ==
    \A a \in Admin :
        enable[a].spent <= Longest(enable[a].timed)
                              + IF At(a, "answering") /\ enable[a].timed THEN PageTime ELSE 0

\* Every call of Enable ends.
EnableEnds == \A a \in Admin : enable[a].at # "idle" ~> enable[a].at = "idle"

\* Port 80 is only needed "for the few seconds the HTTP-01 challenge takes", and webmail is
\* "temporarily unavailable" when its upstream is down: nginx comes back.
WebmailComesBack == ~nginx ~> nginx
=============================================================================
