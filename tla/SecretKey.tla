----------------------------- MODULE SecretKey -----------------------------
(***************************************************************************)
(* secretkey.Ensure (cli/internal/secretkey): the random key kept under one *)
(* name in /etc/patrabahok/secrets.env, made at its first use.  The file is *)
(* shared by every caller and no lock protects it: looking a key up,        *)
(* appending a new one and reading it back are separate steps.              *)
(***************************************************************************)
EXTENDS Naturals, Sequences

CONSTANTS
    Caller,  \* requests that may need the key
    Key      \* the values rand.Read can return

VARIABLES
    secrets,  \* the lines of the file that start with the name, in order
    ensure    \* where each caller is in Ensure

KeyTypeOK ==
    /\ secrets \in Seq(Key)
    /\ ensure \in [Caller -> {"read", "append", "reread"}]

\* read keeps the last line it finds.
read == secrets[Len(secrets)]

\* Ensure returns k: at its first read, or when it reads the file again after its own append.
EnsureReturns(c, k) ==
    /\ ensure[c] \in {"read", "reread"}
    /\ secrets # << >>
    /\ k = read
    /\ ensure' = [ensure EXCEPT ![c] = "read"]
    /\ UNCHANGED secrets

\* Mutant: a key is made without looking for one.
EnsureMissesAlways(c) ==
    /\ ensure[c] = "read"
    /\ ensure' = [ensure EXCEPT ![c] = "append"]
    /\ UNCHANGED secrets

\* No line yet.
EnsureMisses(c) ==
    /\ ensure[c] = "read"
    /\ secrets = << >>
    /\ ensure' = [ensure EXCEPT ![c] = "append"]
    /\ UNCHANGED secrets

\* A random key is one nobody has (when the keys of the instance are used up, rand.Read fails).
FreshKey(k) == \A i \in 1 .. Len(secrets) : secrets[i] # k

EnsureAppends(c) ==
    /\ ensure[c] = "append"
    /\ \E k \in Key : FreshKey(k) /\ secrets' = Append(secrets, k)
    /\ ensure' = [ensure EXCEPT ![c] = "reread"]

\* The call ends with an error, what it appended stays.
EnsureFails(c) ==
    /\ ensure' = [ensure EXCEPT ![c] = "read"]
    /\ UNCHANGED secrets
=============================================================================
