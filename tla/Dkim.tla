-------------------------------- MODULE Dkim --------------------------------
(***************************************************************************)
(* The files a hosted domain is provisioned with: its DKIM key, the text    *)
(* of the DNS record that publishes the key, the dump of all its records    *)
(* and its MTA-STS policy.  Three programs write them, without a lock:      *)
(* Store.DomainAdd and RotateDKIMKey (cli/internal/mailbox) and the         *)
(* installer's phase 80-dkim-dmarc-dns.                                     *)
(*                                                                          *)
(* Each statement, and each read or write of a file, is one step of a       *)
(* caller.  A record's text is kept as what its readers tell apart: the     *)
(* key pair it publishes, and the form of its name and of its quoted        *)
(* strings, which the normalize functions rewrite.                          *)
(***************************************************************************)
EXTENDS Naturals, FiniteSets

CONSTANTS
    Domain,    \* domain names
    Installed, \* the domains recorded in the installer's state.json
    Caller,    \* concurrent runs of the CLI, the daemon's handlers and the installer
    KeyPair,   \* DKIM key pairs rspamadm may generate
    Ops,       \* the operations these callers use
    HostKnown, \* whether state.json records the mail hostname
    Overlap,   \* whether calls may overlap
    Faults,    \* whether a call may end between two of its steps, and a restart fail
    None, Blank, NotFound   \* no file; an empty file; "record file not found"

AllOps == {"DomainAdd", "DomainRemove", "RotateDKIMKey", "phase_run"}

ASSUME DkimAssumption ==
    /\ Installed \subseteq Domain /\ Ops \subseteq AllOps
    /\ HostKnown \in BOOLEAN /\ Overlap \in BOOLEAN /\ Faults \in BOOLEAN

VARIABLES
    registered, \* names DomainAdd has put in virtual_domains (phase 30 puts Installed there)
    key,        \* <domain>.mail.key: the private key
    record,     \* <domain>.mail.txt: the text of the DNS record
    dump,       \* patrabahok-dns-<domain>.txt: the record text it quotes
    policy,     \* domains with an mta-sts.txt
    loaded,     \* the key rspamd holds in memory
    call,       \* what each caller is doing
    needs,      \* history: what a domain needs after a call for it has ended early
    missed      \* history: a rotation was not followed by a restart that worked

vars == << registered, key, record, dump, policy, loaded, call, needs, missed >>
files == << key, record, dump, policy >>
hist  == << needs, missed >>

-----------------------------------------------------------------------------
Text == [pair : KeyPair, name : {"bare", "qualified"}, quoting : {"zone", "wire"}]

ASSUME MarkAssumption ==
    /\ None \notin KeyPair /\ {None, Blank, NotFound} \cap Text = {}
    /\ None # Blank /\ None # NotFound /\ Blank # NotFound

\* What rspamadm dkim_keygen prints, and what the record file should end up as.
Printed(k)   == [pair |-> k, name |-> "bare", quoting |-> "zone"]
Published(k) == [pair |-> k, name |-> "qualified", quoting |-> "wire"]

\* text is what the caller holds of the record: rspamadm's output, or the file it has read.
Idle == [op |-> "idle", at |-> "idle", dom |-> None, text |-> None, todo |-> {}]

Label == {"idle", "rmRecord", "stat", "keygen", "record", "name", "writeName",
          "quoting", "writeQuoting", "policy", "dump", "restart"}

Call == [op : AllOps \cup {"idle"}, at : Label, dom : Domain \cup {None},
         text : Text \cup {None, Blank}, todo : SUBSET Domain]

TypeOK ==
    /\ registered \subseteq Domain /\ policy \subseteq Domain
    /\ key \in [Domain -> KeyPair \cup {None}]
    /\ record \in [Domain -> Text \cup {None, Blank}]
    /\ dump \in [Domain -> Text \cup {None, Blank, NotFound}]
    /\ loaded \in [Domain -> KeyPair \cup {None}]
    /\ call \in [Caller -> Call]
    /\ needs \in [Domain -> {"nothing", "rerun", "rotation"}] /\ missed \in BOOLEAN

Init ==
    /\ registered = {} /\ policy = {}
    /\ key = [d \in Domain |-> None] /\ record = [d \in Domain |-> None]
    /\ dump = [d \in Domain |-> None] /\ loaded = [d \in Domain |-> None]
    /\ call = [c \in Caller |-> Idle]
    /\ needs = [d \in Domain |-> "nothing"] /\ missed = FALSE

Quiet == \A c \in Caller : call[c] = Idle

Free(c, op) == op \in Ops /\ call[c] = Idle /\ (Overlap \/ Quiet)
At(c, l)    == call[c].at = l
Goto(c, l)  == call' = [call EXCEPT ![c].at = l]
Hold(c, l, t) == call' = [call EXCEPT ![c].at = l, ![c].text = t]
Return(c)   == call' = [call EXCEPT ![c] = Idle]

\* The call ends here, with an error or killed.  Another call for the domain takes up what is
\* left, except between rspamadm writing the key and the text of its record being stored: a
\* key that is there is taken as provisioned, and only a rotation makes another record.
EndEarly(c) ==
    /\ Return(c)
    /\ needs' = IF At(c, "restart") THEN needs
                ELSE [needs EXCEPT ![call[c].dom] =
                         IF At(c, "record") \/ @ = "rotation" THEN "rotation" ELSE "rerun"]
    /\ missed' = (missed \/ call[c].op = "RotateDKIMKey")

-----------------------------------------------------------------------------
(* The three entry points.                                                  *)

\* INSERT IGNORE INTO virtual_domains, then ensureDKIMAndDNSRecords.
DomainAdd(c) ==
    /\ Free(c, "DomainAdd")
    /\ \E d \in Domain :
          /\ registered' = registered \cup {d}
          /\ call' = [call EXCEPT ![c] = [Idle EXCEPT !.op = "DomainAdd", !.at = "stat",
                                                      !.dom = d]]
    /\ UNCHANGED << files, loaded, hist >>

\* The files of the domain stay.
DomainRemove(c) ==
    /\ Free(c, "DomainRemove")
    /\ \E d \in Domain : registered' = registered \ {d}
    /\ UNCHANGED << files, loaded, call, hist >>

\* It does not ask whether the domain is registered.
RotateDKIMKey(c) ==
    /\ Free(c, "RotateDKIMKey")
    /\ \E d \in Domain :
          /\ key' = [key EXCEPT ![d] = None]
          /\ needs' = [needs EXCEPT ![d] = IF @ = "rotation" THEN "rerun" ELSE @]
          /\ call' = [call EXCEPT ![c] = [Idle EXCEPT !.op = "RotateDKIMKey", !.at = "rmRecord",
                                                      !.dom = d]]
    /\ UNCHANGED << registered, record, dump, policy, loaded, missed >>

RotateRemoveRecord(c) ==
    /\ At(c, "rmRecord")
    /\ record' = [record EXCEPT ![call[c].dom] = None]
    /\ Goto(c, "stat")
    /\ UNCHANGED << registered, key, dump, policy, loaded, hist >>

\* The installer goes through its domains one by one.
phase_run(c) ==
    /\ Free(c, "phase_run")
    /\ \E d \in Installed :
          call' = [call EXCEPT ![c] = [Idle EXCEPT !.op = "phase_run", !.at = "stat",
                                                   !.dom = d, !.todo = Installed \ {d}]]
    /\ UNCHANGED << registered, files, loaded, hist >>

-----------------------------------------------------------------------------
(* Provisioning one domain: ensureDKIMAndDNSRecords in Go, and the same     *)
(* order of work in the phase.                                              *)

\* Mutant: a key is generated whether or not there is one.
KeyMissingAlways(d) == TRUE

KeyMissing(d) == key[d] = None

\* The phase redirects rspamadm's output, so the shell empties the record file first.
StatKey(c) ==
    LET d == call[c].dom
    IN  /\ At(c, "stat")
        /\ IF KeyMissing(d)
           THEN /\ Goto(c, "keygen")
                /\ record' = IF call[c].op = "phase_run" THEN [record EXCEPT ![d] = Blank]
                             ELSE record
           ELSE Goto(c, "name") /\ UNCHANGED record
        /\ UNCHANGED << registered, key, dump, policy, loaded, hist >>

\* A pair that no file and no process has seen.
Fresh(k) ==
    \A d \in Domain :
        /\ k \notin {key[d], loaded[d]}
        /\ \A f \in {record[d], dump[d]} \cup {call[c].text : c \in Caller} :
              f \in Text => f.pair # k

\* rspamadm writes the key file and prints the record.
dkim_keygen(c) ==
    /\ At(c, "keygen")
    /\ \E k \in KeyPair :
          /\ Fresh(k)
          /\ key' = [key EXCEPT ![call[c].dom] = k]
          /\ Hold(c, "record", Printed(k))
    /\ UNCHANGED << registered, record, dump, policy, loaded, hist >>

\* Mutant: the record of a new key is only written where there is none.
WriteRecordIfMissing(c) ==
    /\ At(c, "record")
    /\ record' = IF record[call[c].dom] = None
                 THEN [record EXCEPT ![call[c].dom] = call[c].text] ELSE record
    /\ Hold(c, "name", None)
    /\ UNCHANGED << registered, key, dump, policy, loaded, hist >>

\* Mutant: the path is written instead of rspamadm's output.
WriteRecordPath(c) ==
    /\ At(c, "record")
    /\ record' = [record EXCEPT ![call[c].dom] = call[c].dom]
    /\ Hold(c, "name", None)
    /\ UNCHANGED << registered, key, dump, policy, loaded, hist >>

\* The record file; the chown and chmod of the key that follow change nothing modelled.
WriteRecord(c) ==
    /\ At(c, "record")
    /\ record' = [record EXCEPT ![call[c].dom] = call[c].text]
    /\ Hold(c, "name", None)
    /\ UNCHANGED << registered, key, dump, policy, loaded, hist >>

\* Without a record file the Go functions fail and the shell functions do nothing.  With an
\* empty one, grep finds no quotes to count, which under pipefail and errexit ends the phase.
CannotNormalize(c, l) ==
    LET t == record[call[c].dom]
    IN  IF call[c].op = "phase_run" THEN t = Blank /\ l = "quoting" ELSE t = None

\* Both normalize functions read the file, leave a text that is already right or that they do
\* not recognize (an empty one) alone, and else write the text back.
NormalizeRead(c, l, w, next, right) ==
    LET t == record[call[c].dom]
    IN  /\ At(c, l)
        /\ \/ CannotNormalize(c, l) /\ EndEarly(c)
           \/ /\ ~CannotNormalize(c, l)
              /\ IF t \in Text /\ ~right THEN Hold(c, w, t) ELSE Goto(c, next)
              /\ UNCHANGED hist
        /\ UNCHANGED << registered, files, loaded >>

NormalizeWrite(c, w, next, t) ==
    /\ At(c, w)
    /\ record' = [record EXCEPT ![call[c].dom] = t]
    /\ Hold(c, next, None)
    /\ UNCHANGED << registered, key, dump, policy, loaded, hist >>

normalizeDKIMRecordName(c) ==
    \/ NormalizeRead(c, "name", "writeName", "quoting",
                     record[call[c].dom].name = "qualified")
    \/ NormalizeWrite(c, "writeName", "quoting", [call[c].text EXCEPT !.name = "qualified"])

normalizeDKIMRecordQuoting(c) ==
    \/ NormalizeRead(c, "quoting", "writeQuoting", "policy",
                     record[call[c].dom].quoting = "wire")
    \/ NormalizeWrite(c, "writeQuoting", "policy", [call[c].text EXCEPT !.quoting = "wire"])

\* mtasts.WritePolicy, only when the hostname is known; the phase always writes one.
WritePolicy(c) ==
    /\ At(c, "policy")
    /\ policy' = IF HostKnown \/ call[c].op = "phase_run" THEN policy \cup {call[c].dom}
                 ELSE policy
    /\ Goto(c, "dump")
    /\ UNCHANGED << registered, key, record, dump, loaded, hist >>

\* The next domain of the phase, the restart that ends it and RotateDKIMKey, or the end.
AfterDump(c) ==
    \/ /\ call[c].todo # {}
       /\ \E d \in call[c].todo :
             call' = [call EXCEPT ![c].at = "stat", ![c].dom = d, ![c].todo = @ \ {d}]
    \/ call[c].todo = {} /\ call[c].op # "DomainAdd" /\ Goto(c, "restart")
    \/ call[c].todo = {} /\ call[c].op = "DomainAdd" /\ Return(c)

writeDNSRecordsFile(c) ==
    LET d == call[c].dom
    IN  /\ At(c, "dump")
        /\ dump' = [dump EXCEPT ![d] = IF record[d] = None THEN NotFound ELSE record[d]]
        /\ needs' = [needs EXCEPT ![d] = IF @ = "rerun" THEN "nothing" ELSE @]
        /\ AfterDump(c)
        /\ UNCHANGED << registered, key, record, policy, loaded, missed >>

\* Mutant: rspamd is left running.
NoRestart(c) ==
    /\ At(c, "restart")
    /\ Return(c)
    /\ UNCHANGED << registered, files, loaded, hist >>

\* A restart that fails is not noticed: rspamd goes on as it is and the call succeeds.
RestartRspamd(c) ==
    /\ At(c, "restart")
    /\ \/ loaded' = [d \in Domain |-> None] /\ missed' = FALSE
       \/ /\ Faults
          /\ missed' = (missed \/ call[c].op = "RotateDKIMKey")
          /\ UNCHANGED loaded
    /\ Return(c)
    /\ UNCHANGED << registered, files, needs >>

\* rspamd reads a key lazily, and may or may not read it again.
LoadKey(d) ==
    /\ key[d] # None /\ loaded[d] # key[d]
    /\ loaded' = [loaded EXCEPT ![d] = key[d]]
    /\ UNCHANGED << registered, files, call, hist >>

\* A file operation or rspamadm fails, or the process is killed: the call ends here.
Abandon(c) ==
    /\ Faults /\ call[c] # Idle
    /\ EndEarly(c)
    /\ UNCHANGED << registered, files, loaded >>

Step(c) ==
    \/ DomainAdd(c) \/ DomainRemove(c) \/ RotateDKIMKey(c) \/ RotateRemoveRecord(c)
    \/ phase_run(c) \/ StatKey(c) \/ dkim_keygen(c) \/ WriteRecord(c)
    \/ normalizeDKIMRecordName(c) \/ normalizeDKIMRecordQuoting(c)
    \/ WritePolicy(c) \/ writeDNSRecordsFile(c) \/ RestartRspamd(c)
    \/ Abandon(c)

Next == (\E c \in Caller : Step(c)) \/ (\E d \in Domain : LoadKey(d))

Spec == Init /\ [][Next]_vars

-----------------------------------------------------------------------------
(* Properties.                                                              *)

\* Between calls a registered domain has a key, and every domain with a key has the record
\* that publishes this very key, in the form to paste into a DNS provider, and a dump that
\* quotes it, also when it was removed, rotated and added again.  A call that ended early
\* leaves nothing that the next complete one does not repair, unless it ended between the key
\* and its record; then a rotation does.
Provisioned ==
    Quiet => \A d \in Domain : needs[d] = "nothing" =>
        /\ d \in registered => key[d] # None
        /\ key[d] # None => record[d] = Published(key[d]) /\ dump[d] = record[d]

\* "a restart forces it to read fresh from disk either way": between calls rspamd never signs
\* with a key that is no longer the one on disk, unless the restart of a rotation failed or
\* never came and none has worked since, whatever else has ended early.
SignsWithKeyOnDisk ==
    Quiet /\ ~missed => \A d \in Domain : loaded[d] \in {None, key[d]}

\* "ensureDKIMAndDNSRecords deliberately never overwrites an existing key file on its own":
\* a key file is only replaced after RotateDKIMKey has removed it.
NeverOverwrites ==
    [][\A d \in Domain : key[d] # None => key'[d] \in {key[d], None}]_vars
=============================================================================
