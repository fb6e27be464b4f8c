-------------------------- MODULE CloudflareProofs --------------------------
(***************************************************************************)
(* Proofs about Cloudflare.  Once the key exists, whatever is stored stays  *)
(* readable, for any number of overlapping and broken-off requests          *)
(* (KeyInv).  From an empty key file on, requests that do not overlap share *)
(* one key, and the row holds one connection (AloneInv).                    *)
(***************************************************************************)
EXTENDS Cloudflare, TLAPS

\* A request whose parts are well typed is a request.
LEMMA RequestParts ==
    ASSUME NEW q \in Request
    PROVE  /\ q.open \in Seq(Sealed) /\ q.seal \in Seq(Subject) /\ q.sealed \in Seq(Sealed)
           /\ q.of \in Subject \cup {None} /\ q.grant \in Subject \cup {None}
  BY DEF Request

\* The idle request.
LEMMA IdleOK == Idle \in Request /\ Idle.sealed = << >> /\ RequestOK(Idle)
<1>1. << >> \in Seq(Sealed) /\ << >> \in Seq(Subject)
  OBVIOUS
<1>2. Idle \in Request /\ Idle.sealed = << >> /\ Idle.kind = "idle"
  BY <1>1 DEF Idle, Request
<1>3. \A i \in 1 .. Len(Idle.sealed) : Idle.sealed[i].key = read
  BY <1>2
<1> QED BY <1>2, <1>3 DEF RequestOK

\* With a key in the file Ensure returns it and leaves everything as it is.
LEMMA EnsureOK ==
    ASSUME KeyInv, NEW c \in Caller, NEW k, EnsureReturns(c, k)
    PROVE  UNCHANGED << secrets, ensure >> /\ k = read
<1>1. ensure \in [Caller -> {"read", "append", "reread"}] /\ ensure[c] = "read"
  BY DEF KeyInv, TypeOK, KeyTypeOK
<1>2. ensure' = [ensure EXCEPT ![c] = "read"]
  BY DEF EnsureReturns
<1>3. ensure' = ensure
  BY <1>1, <1>2
<1> QED BY <1>3 DEF EnsureReturns

\* A step that leaves the key file alone keeps the invariant when the one request it changes
\* and the row it writes were sealed with the key.
LEMMA KeyStep ==
    ASSUME KeyInv, UNCHANGED << secrets, ensure >>,
           NEW c \in Caller, NEW q \in Request,
           req' = [req EXCEPT ![c] = q],
           RequestOK(q),
           stateCookie' \in [Caller -> Client \cup {None}],
           settings' \in Row \cup {None},
           \A e \in Stored' : e.key = read
    PROVE  KeyInv'
<1>1. KeyTypeOK'
  BY DEF KeyInv, TypeOK, KeyTypeOK
<1>2. req' \in [Caller -> Request]
  BY DEF KeyInv, TypeOK
<1>3. TypeOK'
  BY <1>1, <1>2 DEF TypeOK
<1>4. \A d \in Caller : req'[d] = IF d = c THEN q ELSE req[d]
  BY DEF KeyInv, TypeOK
<1>5. read' = read
  BY DEF read
<1>6. secrets' # << >>
  BY DEF KeyInv
<1>7. \A d \in Caller : RequestOK(req[d])'
  BY <1>4, <1>5 DEF KeyInv, RequestOK
<1>8. StoredReadable'
  BY <1>5, <1>6 DEF StoredReadable
<1> QED BY <1>3, <1>7, <1>8 DEF KeyInv

\* The same for a step that does not write the row.
LEMMA ReadStep ==
    ASSUME KeyInv, UNCHANGED << secrets, ensure, settings >>,
           NEW c \in Caller, NEW q \in Request,
           req' = [req EXCEPT ![c] = q],
           RequestOK(q),
           stateCookie' \in [Caller -> Client \cup {None}]
    PROVE  KeyInv'
<1>1. Stored' = Stored
  BY DEF Stored
<1>2. settings' \in Row \cup {None} /\ \A e \in Stored' : e.key = read
  BY <1>1 DEF KeyInv, TypeOK, StoredReadable
<1> QED BY <1>2, KeyStep

\* A request that begins has sealed nothing.
LEMMA StartStep ==
    ASSUME KeyInv, NEW c \in Caller, NEW q \in Request, q.sealed = << >>, Start(c, q),
           q.kind \in {"client", "authorize", "callback", "refresh"} => q.of \in Client,
           UNCHANGED settings, stateCookie' \in [Caller -> Client \cup {None}]
    PROVE  KeyInv'
<1>1. \A i \in 1 .. Len(q.sealed) : q.sealed[i].key = read
  OBVIOUS
<1>2. RequestOK(q)
  BY <1>1 DEF RequestOK
<1> QED BY <1>2, ReadStep DEF Start

\* The handlers that read the row and begin a request.
LEMMA HandlerStep ==
    ASSUME KeyInv, NEW c \in Caller,
           \/ Get(c) \/ handleCloudflareConnect(c) \/ handleCloudflareOAuthClientSave(c)
           \/ handleCloudflareAuthorize(c) \/ TokenStored(c) \/ TokenRefresh(c)
    PROVE  KeyInv'
<1>1. settings \in Row \cup {None} /\ stateCookie \in [Caller -> Client \cup {None}]
  BY DEF KeyInv, TypeOK
<1>2. settings # None =>
        /\ settings.api \in Sealed \cup {None} /\ settings.secret \in Sealed \cup {None}
        /\ settings.access \in Sealed \cup {None} /\ settings.refresh \in Sealed \cup {None}
        /\ settings.client \in Client \cup {None}
  BY <1>1 DEF Row
<1>3. ASSUME NEW e \in Sealed, NEW l \in {"get", "token"},
             Start(c, [Idle EXCEPT !.kind = l, !.open = << e >>]),
             UNCHANGED << settings, stateCookie >>
      PROVE  KeyInv'
  <2>1. PICK q : q = [Idle EXCEPT !.kind = l, !.open = << e >>]
    OBVIOUS
  <2>a. << e >> \in Seq(Sealed)
    BY <1>3
  <2>2. q \in Request /\ q.sealed = << >> /\ q.kind = l
    BY <1>3, <2>1, <2>a, IdleOK DEF Request
  <2> QED BY <1>1, <1>3, <2>1, <2>2, StartStep
<1>4. ASSUME NEW s \in ApiToken \cup Client, NEW l \in {"connect", "client"},
             l = "client" => s \in Client,
             Start(c, [Idle EXCEPT !.kind = l, !.of = s, !.seal = << s >>]),
             UNCHANGED << settings, stateCookie >>
      PROVE  KeyInv'
  <2>1. PICK q : q = [Idle EXCEPT !.kind = l, !.of = s, !.seal = << s >>]
    OBVIOUS
  <2>2. << s >> \in Seq(Subject)
    BY <1>4 DEF Subject
  <2>3. q \in Request /\ q.sealed = << >> /\ q.kind = l /\ q.of = s
    BY <1>4, <2>1, <2>2, IdleOK DEF Request, Subject
  <2> QED BY <1>1, <1>4, <2>1, <2>3, StartStep
<1>5. CASE handleCloudflareAuthorize(c)
  <2>1. PICK q : q = [Idle EXCEPT !.kind = "authorize", !.of = settings.client,
                         !.open = << settings.secret >>]
    OBVIOUS
  <2>2. settings.client \in Client /\ settings.secret \in Sealed
    BY <1>2, <1>5 DEF handleCloudflareAuthorize, HasClient, Subject
  <2>a. << settings.secret >> \in Seq(Sealed)
    BY <2>2
  <2>3. q \in Request /\ q.sealed = << >> /\ q.of \in Client
    BY <2>1, <2>2, <2>a, IdleOK DEF Request, Subject
  <2> QED BY <1>1, <1>5, <2>1, <2>3, StartStep DEF handleCloudflareAuthorize
<1>6. CASE TokenRefresh(c)
  <2>1. PICK q : q = [Idle EXCEPT !.kind = "refresh", !.of = settings.client,
                         !.grant = settings.refresh.of,
                         !.open = << settings.secret, settings.refresh >>]
    OBVIOUS
  <2>2. settings.client \in Client /\ settings.secret \in Sealed /\ settings.refresh \in Sealed
    BY <1>2, <1>6 DEF TokenRefresh, HasClient, Subject
  <2>3. settings.refresh.of \in Subject
    BY <2>2 DEF Sealed
  <2>4. << settings.secret, settings.refresh >> \in Seq(Sealed)
    BY <2>2
  <2>5. q \in Request /\ q.sealed = << >> /\ q.of \in Client
    BY <2>1, <2>2, <2>3, <2>4, IdleOK DEF Request, Subject
  <2> QED BY <1>1, <1>6, <2>1, <2>5, StartStep DEF TokenRefresh
<1>7. CASE Get(c)
  BY <1>2, <1>3, <1>7 DEF Get
<1>8. CASE TokenStored(c)
  BY <1>2, <1>3, <1>8 DEF TokenStored
<1>9. CASE handleCloudflareConnect(c)
  BY <1>4, <1>9 DEF handleCloudflareConnect
<1>10. CASE handleCloudflareOAuthClientSave(c)
  BY <1>4, <1>10 DEF handleCloudflareOAuthClientSave
<1> QED BY <1>5, <1>6, <1>7, <1>8, <1>9, <1>10

\* The callback clears the cookie and may begin an exchange.
LEMMA CallbackStep ==
    ASSUME KeyInv, NEW c \in Caller, handleCloudflareCallback(c)
    PROVE  KeyInv'
<1>1. settings \in Row \cup {None} /\ stateCookie' \in [Caller -> Client \cup {None}]
      /\ stateCookie[c] \in Subject \cup {None}
  BY DEF KeyInv, TypeOK, handleCloudflareCallback, Subject
<1>2. CASE UNCHANGED << secrets, ensure, req >>
  <2>1. req' = [req EXCEPT ![c] = req[c]] /\ req[c] \in Request
    BY <1>2 DEF KeyInv, TypeOK
  <2>2. RequestOK(req[c])
    BY DEF KeyInv
  <2> QED BY <1>1, <1>2, <2>1, <2>2, ReadStep DEF handleCloudflareCallback
<1>3. CASE HasClient /\ Start(c, [Idle EXCEPT !.kind = "callback", !.of = settings.client,
                                     !.grant = stateCookie[c], !.open = << settings.secret >>])
  <2>1. PICK q : q = [Idle EXCEPT !.kind = "callback", !.of = settings.client,
                         !.grant = stateCookie[c], !.open = << settings.secret >>]
    OBVIOUS
  <2>2. settings.client \in Client /\ settings.secret \in Sealed
    BY <1>1, <1>3 DEF HasClient, Subject, Row
  <2>3. << settings.secret >> \in Seq(Sealed)
    BY <2>2
  <2>4. q \in Request /\ q.sealed = << >> /\ q.of \in Client
    BY <1>1, <2>1, <2>2, <2>3, IdleOK DEF Request, Subject
  <2> QED BY <1>1, <1>3, <2>1, <2>4, StartStep DEF handleCloudflareCallback
<1> QED BY <1>2, <1>3 DEF handleCloudflareCallback

\* A request that ends.
LEMMA ReturnStep ==
    ASSUME KeyInv, NEW c \in Caller, Return(c), UNCHANGED << secrets, ensure >>,
           stateCookie' \in [Caller -> Client \cup {None}],
           settings' \in Row \cup {None}, \A e \in Stored' : e.key = read
    PROVE  KeyInv'
  BY IdleOK, KeyStep DEF Return, Become

\* What is stored stays readable while the row does not change.
LEMMA StoredKept ==
    ASSUME KeyInv, UNCHANGED settings
    PROVE  settings' \in Row \cup {None} /\ \A e \in Stored' : e.key = read
  BY DEF KeyInv, TypeOK, StoredReadable, Stored

\* decrypt takes the key there is; a request it does not end goes on with one column less.
LEMMA decryptStep ==
    ASSUME KeyInv, NEW c \in Caller, decrypt(c)
    PROVE  KeyInv'
<1>1. PICK q \in Request : q = req[c] /\ RequestOK(q)
  BY DEF KeyInv, TypeOK
<1>2. PICK n : n = [q EXCEPT !.open = Tail(q.open)]
  OBVIOUS
<1>3. UNCHANGED << secrets, ensure, settings >>
  BY EnsureOK DEF decrypt
<1>4. q.open \in Seq(Sealed) /\ q.open # << >>
  BY <1>1, RequestParts DEF decrypt
<1>5. Tail(q.open) \in Seq(Sealed)
  BY <1>4
<1>6. n \in Request /\ n.sealed = q.sealed /\ n.kind = q.kind /\ n.of = q.of
  BY <1>1, <1>2, <1>5 DEF Request
<1>7. stateCookie' \in [Caller -> Client \cup {None}]
  <2>1. CASE stateCookie' = stateCookie
    BY <2>1 DEF KeyInv, TypeOK
  <2>2. CASE stateCookie' = [stateCookie EXCEPT ![c] = q.of] /\ q.kind = "authorize"
    BY <1>1, <2>2 DEF KeyInv, TypeOK, RequestOK
  <2> QED BY <1>1, <2>1, <2>2 DEF decrypt
<1>8. CASE Return(c)
  BY <1>3, <1>7, <1>8, StoredKept, ReturnStep
<1>9. CASE Become(c, n)
  <2>1. RequestOK(n)
    BY <1>1, <1>6 DEF RequestOK
  <2> QED BY <1>3, <1>6, <1>7, <1>9, <2>1, ReadStep DEF Become
<1> QED BY <1>1, <1>2, <1>8, <1>9 DEF decrypt, Opened, Return

\* encrypt seals with the key there is.
LEMMA encryptStep ==
    ASSUME KeyInv, NEW c \in Caller, encrypt(c)
    PROVE  KeyInv'
<1>1. PICK q \in Request : q = req[c] /\ RequestOK(q)
  BY DEF KeyInv, TypeOK
<1>2. PICK k \in Key :
         /\ EnsureReturns(c, k)
         /\ Become(c, [q EXCEPT !.seal = Tail(q.seal),
                         !.sealed = Append(q.sealed, [key |-> k, of |-> Head(q.seal)])])
  BY <1>1 DEF encrypt
<1>3. UNCHANGED << secrets, ensure >> /\ k = read
  BY <1>2, EnsureOK
<1>4. UNCHANGED << settings, stateCookie >>
  BY DEF encrypt
<1>5. q.seal \in Seq(Subject) /\ q.seal # << >> /\ q.sealed \in Seq(Sealed)
  BY <1>1, RequestParts DEF encrypt
<1>6. Head(q.seal) \in Subject /\ Tail(q.seal) \in Seq(Subject)
  BY <1>5
<1>7. PICK e : e = [key |-> k, of |-> Head(q.seal)]
  OBVIOUS
<1>8. e \in Sealed /\ e.key = k
  BY <1>6, <1>7 DEF Sealed
<1>9. PICK s : s = Append(q.sealed, e)
  OBVIOUS
<1>10. s \in Seq(Sealed)
  BY <1>5, <1>8, <1>9
<1>11. \A i \in 1 .. Len(s) : s[i].key = read
  <2>1. Len(s) = Len(q.sealed) + 1 /\ Len(q.sealed) \in Nat
    BY <1>5, <1>9
  <2>2. \A i \in 1 .. Len(q.sealed) : s[i] = q.sealed[i]
    BY <1>5, <1>9
  <2>3. s[Len(q.sealed) + 1] = e
    BY <1>5, <1>9
  <2>4. ASSUME NEW i \in 1 .. Len(s) PROVE s[i].key = read
    <3>1. CASE i \in 1 .. Len(q.sealed)
      BY <1>1, <2>2, <3>1 DEF RequestOK
    <3>2. CASE i = Len(q.sealed) + 1
      BY <1>3, <1>8, <2>3, <3>2
    <3> QED BY <2>1, <3>1, <3>2
  <2> QED BY <2>4
<1>12. PICK n : n = [q EXCEPT !.seal = Tail(q.seal), !.sealed = s]
  OBVIOUS
<1>13. n \in Request /\ n.sealed = s /\ n.kind = q.kind /\ n.of = q.of
  BY <1>1, <1>6, <1>10, <1>12 DEF Request
<1>14. RequestOK(n)
  BY <1>1, <1>11, <1>13 DEF RequestOK
<1>15. stateCookie' \in [Caller -> Client \cup {None}]
  BY <1>4 DEF KeyInv, TypeOK
<1> QED BY <1>2, <1>3, <1>4, <1>7, <1>9, <1>12, <1>13, <1>14, <1>15, ReadStep DEF Become

\* Cloudflare's answer.
LEMMA ExchangeStep ==
    ASSUME KeyInv, NEW c \in Caller, Exchange(c)
    PROVE  KeyInv'
<1>1. PICK q \in Request : q = req[c] /\ RequestOK(q) /\ q.kind \in {"callback", "refresh"}
  BY DEF KeyInv, TypeOK, Exchange
<1>2. stateCookie' \in [Caller -> Client \cup {None}]
      /\ UNCHANGED << secrets, ensure, settings >>
  BY DEF KeyInv, TypeOK, Exchange
<1>3. CASE Return(c)
  BY <1>2, <1>3, StoredKept, ReturnStep
<1>4. ASSUME NEW r \in {q.of, Empty}, Become(c, [q EXCEPT !.seal = << q.of, r >>])
      PROVE  KeyInv'
  <2>1. q.of \in Subject /\ r \in Subject
    BY <1>1, <1>4 DEF RequestOK, Subject
  <2>2. << q.of, r >> \in Seq(Subject)
    BY <2>1
  <2>3. PICK n : n = [q EXCEPT !.seal = << q.of, r >>]
    OBVIOUS
  <2>4. n \in Request /\ n.sealed = q.sealed /\ n.kind = q.kind /\ n.of = q.of
    BY <1>1, <2>2, <2>3 DEF Request
  <2>5. RequestOK(n)
    BY <1>1, <2>4 DEF RequestOK
  <2> QED BY <1>2, <1>4, <2>3, <2>4, <2>5, ReadStep DEF Become
<1> QED BY <1>1, <1>3, <1>4 DEF Exchange

\* The statements that write the row.
LEMMA WriteStep ==
    ASSUME KeyInv, NEW c \in Caller,
           SetAPIToken(c) \/ SetOAuthClient(c) \/ saveOAuthTokens(c)
    PROVE  KeyInv'
<1>1. PICK q \in Request : q = req[c] /\ RequestOK(q)
  BY DEF KeyInv, TypeOK
<1>2. /\ stateCookie' \in [Caller -> Client \cup {None}]
      /\ UNCHANGED << secrets, ensure >> /\ Return(c)
  BY DEF KeyInv, TypeOK, SetAPIToken, SetOAuthClient, saveOAuthTokens
<1>3. \A i \in 1 .. Len(q.sealed) : q.sealed[i] \in Sealed /\ q.sealed[i].key = read
  BY <1>1, RequestParts DEF RequestOK
<1>4. settings \in Row \cup {None} /\ \A e \in Stored : e.key = read
  BY DEF KeyInv, TypeOK, StoredReadable
<1>5. CASE SetAPIToken(c)
  <2>1. PICK e \in Sealed : e.key = read /\ settings' = ApiRow(e)
    BY <1>1, <1>3, <1>5 DEF SetAPIToken
  <2>2. settings' \in Row /\ Stored' \subseteq {e}
    BY <2>1 DEF Row, ApiRow, Stored
  <2> QED BY <1>2, <2>1, <2>2, ReturnStep
<1>6. CASE SetOAuthClient(c)
  <2>0. PICK e, o : e = q.sealed[1] /\ o = q.of
    OBVIOUS
  <2>1. /\ e \in Sealed /\ o \in Client /\ e.key = read
        /\ settings' = [ApiRow(None) EXCEPT !.client = o, !.secret = e]
    <3>1. q.kind = "client" /\ Len(q.sealed) = 1
          /\ settings' = [ApiRow(None) EXCEPT !.client = q.of, !.secret = q.sealed[1]]
      BY <1>1, <1>6 DEF SetOAuthClient
    <3>2. e \in Sealed /\ e.key = read
      BY <1>3, <2>0, <3>1
    <3> QED BY <1>1, <2>0, <3>1, <3>2 DEF RequestOK
  <2>2. settings' \in Row /\ Stored' \subseteq {e}
    BY <2>1 DEF Row, ApiRow, Stored
  <2> QED BY <1>2, <2>1, <2>2, ReturnStep
<1>7. CASE saveOAuthTokens(c) /\ settings = None
  <2>1. settings' = None /\ Stored' = {}
    BY <1>7 DEF saveOAuthTokens, Stored
  <2> QED BY <1>2, <2>1, ReturnStep
<1>8. CASE saveOAuthTokens(c) /\ settings # None
  <2>0. PICK a, r : a = q.sealed[1] /\ r = q.sealed[2]
    OBVIOUS
  <2>1. /\ a \in Sealed /\ a.key = read /\ r \in Sealed /\ r.key = read
        /\ settings' = [settings EXCEPT !.access = a, !.refresh = r, !.expired = FALSE]
    <3>1. Len(q.sealed) = 2
          /\ settings' = [settings EXCEPT !.access = q.sealed[1], !.refresh = q.sealed[2],
                                          !.expired = FALSE]
      BY <1>1, <1>8 DEF saveOAuthTokens
    <3>2. 1 \in 1 .. Len(q.sealed) /\ 2 \in 1 .. Len(q.sealed)
      BY <3>1
    <3>3. a \in Sealed /\ a.key = read /\ r \in Sealed /\ r.key = read
      BY <1>3, <2>0, <3>2
    <3> QED BY <2>0, <3>1, <3>3
  <2>2. settings \in Row
    BY <1>4, <1>8
  <2>3. settings' \in Row
    BY <2>1, <2>2 DEF Row
  <2>4. settings'.api = settings.api /\ settings'.secret = settings.secret
        /\ settings'.access = a /\ settings'.refresh = r
    BY <2>1, <2>2 DEF Row
  <2>5. Stored' \subseteq Stored \cup {a, r}
    BY <1>8, <2>4 DEF Stored
  <2> QED BY <1>2, <1>4, <2>1, <2>3, <2>5, ReturnStep
<1> QED BY <1>5, <1>6, <1>7, <1>8

\* A step that leaves the requests and the file alone.
LEMMA RowStep ==
    ASSUME KeyInv, UNCHANGED << secrets, ensure, stateCookie, req >>,
           settings' \in Row \cup {None}, \A e \in Stored' : e.key = read
    PROVE  KeyInv'
<1>1. read' = read /\ secrets' # << >>
  <2>1. read' = read
    BY DEF read
  <2> QED BY <2>1 DEF KeyInv
<1>2. StoredReadable'
  BY <1>1 DEF StoredReadable
<1>3. TypeOK'
  BY DEF KeyInv, TypeOK, KeyTypeOK
<1>4. \A c \in Caller : RequestOK(req[c])'
  BY <1>1 DEF KeyInv, RequestOK
<1> QED BY <1>2, <1>3, <1>4 DEF KeyInv

\* With a key in the file every step keeps the invariant.
LEMMA KeyNextOK == KeyInv /\ [Next]_vars => KeyInv'
<1> SUFFICES ASSUME KeyInv, [Next]_vars PROVE KeyInv'
  OBVIOUS
<1>1. settings \in Row \cup {None} /\ \A e \in Stored : e.key = read
  BY DEF KeyInv, TypeOK, StoredReadable
<1>2. ASSUME NEW c \in Caller, handleCloudflareDisconnect(c) PROVE KeyInv'
  <2>1. Stored' = {}
    BY <1>2 DEF handleCloudflareDisconnect, Stored
  <2> QED BY <1>2, <2>1, RowStep DEF handleCloudflareDisconnect
<1>3. ASSUME NEW c \in Caller, EnsureStep(c) PROVE KeyInv'
  <2>1. ensure[c] = "read" /\ secrets # << >>
    BY DEF KeyInv
  <2> QED BY <1>3, <2>1 DEF EnsureStep, EnsureMisses, EnsureAppends
<1>4. ASSUME NEW c \in Caller, Abandon(c) PROVE KeyInv'
  <2>1. ensure \in [Caller -> {"read", "append", "reread"}] /\ ensure[c] = "read"
    BY DEF KeyInv, TypeOK, KeyTypeOK
  <2>2. ensure' = [ensure EXCEPT ![c] = "read"] /\ UNCHANGED << secrets, settings, stateCookie >>
        /\ Return(c)
    BY <1>4 DEF Abandon, EnsureFails
  <2>3. UNCHANGED << secrets, ensure >>
    BY <2>1, <2>2
  <2>4. stateCookie' \in [Caller -> Client \cup {None}]
    BY <2>2 DEF KeyInv, TypeOK
  <2> QED BY <2>2, <2>3, <2>4, StoredKept, ReturnStep
<1>5. CASE Expire
  <2>1. settings \in Row /\ settings' = [settings EXCEPT !.expired = TRUE] /\ settings # None
    BY <1>1, <1>5 DEF Expire
  <2>2. settings' \in Row /\ settings'.api = settings.api /\ settings'.secret = settings.secret
        /\ settings'.access = settings.access /\ settings'.refresh = settings.refresh
    BY <2>1 DEF Row
  <2>3. Stored' \subseteq Stored
    BY <2>1, <2>2 DEF Stored
  <2> QED BY <1>1, <1>5, <2>2, <2>3, RowStep DEF Expire
<1>6. CASE UNCHANGED vars
  BY <1>6, StoredKept, RowStep DEF vars
<1> QED BY <1>2, <1>3, <1>4, <1>5, <1>6, HandlerStep, CallbackStep, decryptStep, encryptStep,
           ExchangeStep, WriteStep DEF Next

\* The system starts with a key when it is not at its first use.
LEMMA KeyInitOK == secrets # << >> /\ Init => KeyInv
<1> SUFFICES ASSUME secrets # << >>, Init PROVE KeyInv
  OBVIOUS
<1>1. PICK k \in Key : secrets = << k >>
  BY DEF Init
<1>2. secrets \in Seq(Key) /\ Len(secrets) = 1
  BY <1>1
<1>3. TypeOK
  BY <1>2, IdleOK DEF Init, TypeOK, KeyTypeOK
<1>4. StoredReadable
  BY DEF Init, StoredReadable, Stored
<1> QED BY <1>2, <1>3, <1>4, IdleOK DEF Init, KeyInv

\* Once there is a key in secrets.env Ensure never makes a second one, and every value sealed,
\* in the row or on its way there, was sealed with it: whatever requests overlap and wherever
\* they break off.
THEOREM KeyKept == KeyedSpec => []KeyInv
<1>1. secrets # << >> /\ Init => KeyInv
  BY KeyInitOK
<1>2. KeyInv /\ [Next]_vars => KeyInv'
  BY KeyNextOK
<1> QED BY <1>1, <1>2, PTL DEF KeyedSpec, Spec

\* So whatever the row of cloudflare.Store holds can be decrypted by the next reader.
THEOREM StaysReadable == KeyedSpec => []StoredReadable
<1>1. KeyInv => StoredReadable
  BY DEF KeyInv
<1> QED BY <1>1, KeyKept, PTL

-----------------------------------------------------------------------------
(***************************************************************************)
(* Requests that do not overlap, from an empty key file on.                 *)
(***************************************************************************)

\* No two requests run at once, and only one that has something to decrypt or to encrypt is
\* inside Ensure.
OneAtATime ==
    /\ \A c, d \in Caller : req[c].kind # "idle" /\ req[d].kind # "idle" => c = d
    /\ \A c \in Caller : req[c].kind = "idle" => req[c] = Idle
    /\ \A c \in Caller : req[c].open = << >> /\ req[c].seal = << >> => ensure[c] = "read"

\* There is at most one key, a caller appends one only where there is none, and what is stored
\* or sealed was sealed with it.
SealedOK(e) == secrets # << >> /\ e.key = read

KeyOK ==
    /\ Len(secrets) <= 1
    /\ \A c \in Caller : ensure[c] = "append" => secrets = << >>
    /\ \A e \in Stored : SealedOK(e)

\* The row holds an API token or a client, and tokens only of this client.
RowOK ==
    settings # None =>
        /\ settings.client # None => settings.api = None
        /\ settings.access # None =>
              settings.client # None /\ settings.access.of = settings.client

\* What a request knows of the row: one that will store tokens is about the client of the row,
\* and the first thing it seals is the access token Cloudflare granted to this client.
Serves(q) ==
    /\ q.sealed # << >> => q.open = << >>
    /\ \A i \in 1 .. Len(q.sealed) : SealedOK(q.sealed[i])
    /\ q.kind \in {"client", "authorize", "callback", "refresh"} => q.of \in Client
    /\ q.kind \in {"connect", "client"} => Len(q.seal) + Len(q.sealed) <= 1
    /\ q.kind \in {"callback", "refresh"} =>
          /\ settings \in Row /\ settings.client = q.of
          /\ Len(q.seal) + Len(q.sealed) <= 2
          /\ q.sealed = << >> /\ q.seal # << >> => Head(q.seal) = q.of
          /\ q.sealed # << >> => q.sealed[1].of = q.of

AloneInv ==
    /\ TypeOK /\ OneAtATime /\ KeyOK /\ RowOK
    /\ \A c \in Caller : Serves(req[c])

LEMMA AloneTypes ==
    ASSUME AloneInv
    PROVE  /\ secrets \in Seq(Key) /\ ensure \in [Caller -> {"read", "append", "reread"}]
           /\ settings \in Row \cup {None} /\ stateCookie \in [Caller -> Client \cup {None}]
           /\ req \in [Caller -> Request]
BY DEF AloneInv, TypeOK, KeyTypeOK

LEMMA RowFields ==
    ASSUME NEW row \in Row
    PROVE  /\ row.api \in Sealed \cup {None} /\ row.secret \in Sealed \cup {None}
           /\ row.access \in Sealed \cup {None} /\ row.refresh \in Sealed \cup {None}
           /\ row.client \in Client \cup {None}
BY DEF Row

LEMMA IdleParts ==
    /\ Idle \in Request /\ Idle.kind = "idle" /\ Idle.open = << >> /\ Idle.seal = << >>
    /\ Idle.sealed = << >>
BY IdleOK DEF Idle

LEMMA IdleServes == Serves(Idle)
BY IdleParts DEF Serves

\* While one request runs, or another starts, the others are idle.
LEMMA OthersIdle ==
    ASSUME AloneInv, ~Overlap, NEW c \in Caller, req[c].kind # "idle" \/ CanStart(c)
    PROVE  \A d \in Caller : d # c => req[d] = Idle /\ ensure[d] = "read"
<1>1. \A d \in Caller : req[d] = Idle => ensure[d] = "read"
  BY IdleParts DEF AloneInv, OneAtATime
<1>2. CASE CanStart(c)
  BY <1>1, <1>2 DEF CanStart
<1>3. CASE req[c].kind # "idle"
  BY <1>1, <1>3 DEF AloneInv, OneAtATime
<1> QED BY <1>2, <1>3

\* A step of a request that runs or starts.
LEMMA ActStep ==
    ASSUME AloneInv, NEW c \in Caller, NEW q \in Request,
           \A d \in Caller : d # c => req[d] = Idle /\ ensure[d] = "read",
           req' = [req EXCEPT ![c] = q],
           q.kind = "idle" => q = Idle, q.open = << >> /\ q.seal = << >> => ensure'[c] = "read",
           secrets' \in Seq(Key), ensure' \in [Caller -> {"read", "append", "reread"}],
           \A d \in Caller : d # c => ensure'[d] = ensure[d],
           Len(secrets') <= 1, ensure'[c] = "append" => secrets' = << >>,
           stateCookie' \in [Caller -> Client \cup {None}], settings' \in Row \cup {None},
           \A e \in Stored' : SealedOK(e)', RowOK', Serves(q)'
    PROVE  AloneInv'
<1>1. req' \in [Caller -> Request] /\ req'[c] = q /\ \A d \in Caller : d # c => req'[d] = Idle
  BY AloneTypes
<1>2. TypeOK'
  BY <1>1 DEF TypeOK, KeyTypeOK
<1>3. OneAtATime'
  BY <1>1, IdleParts DEF OneAtATime
<1>4. KeyOK'
  BY DEF KeyOK
<1>5. ASSUME NEW d \in Caller PROVE Serves(req[d])'
  <2>1. CASE d = c
    BY <1>1, <2>1 DEF Serves
  <2>2. CASE d # c
    <3>1. Serves(Idle)'
      BY IdleParts DEF Serves
    <3>2. req'[d] = Idle
      BY <1>1, <2>2
    <3> QED BY <3>1, <3>2 DEF Serves
  <2> QED BY <2>1, <2>2
<1> QED BY <1>2, <1>3, <1>4, <1>5 DEF AloneInv

\* One that leaves the file and the row alone.
LEMMA QuietStep ==
    ASSUME AloneInv, NEW c \in Caller, NEW q \in Request,
           \A d \in Caller : d # c => req[d] = Idle /\ ensure[d] = "read",
           req' = [req EXCEPT ![c] = q], q.kind = "idle" => q = Idle,
           UNCHANGED << secrets, settings >>, ensure' = [ensure EXCEPT ![c] = "read"],
           stateCookie' \in [Caller -> Client \cup {None}], Serves(q)
    PROVE  AloneInv'
<1>1. /\ ensure' \in [Caller -> {"read", "append", "reread"}] /\ ensure'[c] = "read"
      /\ \A d \in Caller : d # c => ensure'[d] = ensure[d]
  BY AloneTypes
<1>2. \A e : SealedOK(e)' <=> SealedOK(e)
  BY DEF SealedOK, read
<1>3. (\A e \in Stored' : SealedOK(e)') /\ RowOK' /\ Len(secrets') <= 1
  BY <1>2 DEF AloneInv, KeyOK, RowOK, Stored
<1>4. Serves(q)'
  BY <1>2 DEF Serves
<1> QED BY <1>1, <1>3, <1>4, ActStep, AloneTypes

\* A request that starts and has sealed nothing.
LEMMA AloneStart ==
    ASSUME AloneInv, ~Overlap, NEW c \in Caller, NEW q \in Request, Start(c, q),
           q.sealed = << >>, q.kind # "idle", UNCHANGED settings,
           q.kind \in {"connect", "client"} => Len(q.seal) = 1,
           stateCookie' \in [Caller -> Client \cup {None}],
           q.kind \in {"client", "authorize", "callback", "refresh"} => q.of \in Client,
           q.kind \in {"callback", "refresh"} =>
              settings \in Row /\ settings.client = q.of /\ q.seal = << >>
    PROVE  AloneInv'
<1>1. \A d \in Caller : d # c => req[d] = Idle /\ ensure[d] = "read"
  BY OthersIdle DEF Start
<1>2. ensure' = [ensure EXCEPT ![c] = "read"]
  <2>1. ensure[c] = "read"
    BY IdleParts DEF Start, CanStart, AloneInv, OneAtATime
  <2> QED BY <2>1, AloneTypes DEF Start
<1>3. Serves(q)
  <2>1. Len(q.sealed) = 0 /\ (q.seal = << >> => Len(q.seal) = 0)
    OBVIOUS
  <2>2. \A i \in 1 .. Len(q.sealed) : SealedOK(q.sealed[i])
    BY <2>1
  <2>3. PICK x, y : x = Len(q.seal) /\ y = Len(q.sealed)
    OBVIOUS
  <2>4. q.kind \in {"connect", "client"} => Len(q.seal) + Len(q.sealed) <= 1
    <3>1. q.kind \in {"connect", "client"} => x = 1 /\ y = 0
      BY <2>1, <2>3
    <3>2. x = 1 /\ y = 0 => x + y <= 1
      OBVIOUS
    <3> QED BY <2>3, <3>1, <3>2
  <2>5. q.kind \in {"callback", "refresh"} => Len(q.seal) + Len(q.sealed) <= 2
    <3>1. q.kind \in {"callback", "refresh"} => x = 0 /\ y = 0
      BY <2>1, <2>3
    <3>2. x = 0 /\ y = 0 => x + y <= 2
      OBVIOUS
    <3> QED BY <2>3, <3>1, <3>2
  <2> QED BY <2>2, <2>4, <2>5 DEF Serves
<1> QED BY <1>1, <1>2, <1>3, QuietStep DEF Start

\* The handlers that read the row.
LEMMA AloneHandlers ==
    ASSUME AloneInv, ~Overlap, NEW c \in Caller,
           \/ Get(c) \/ handleCloudflareConnect(c) \/ handleCloudflareOAuthClientSave(c)
           \/ handleCloudflareAuthorize(c) \/ TokenStored(c) \/ TokenRefresh(c)
    PROVE  AloneInv'
<1>1. /\ UNCHANGED << settings, stateCookie >> /\ stateCookie' \in [Caller -> Client \cup {None}]
      /\ settings # None => settings \in Row
  BY AloneTypes DEF Get, handleCloudflareConnect, handleCloudflareOAuthClientSave,
                    handleCloudflareAuthorize, TokenStored, TokenRefresh
<1>2. ASSUME NEW e \in Sealed, NEW l \in {"get", "token"},
             Start(c, [Idle EXCEPT !.kind = l, !.open = << e >>])
      PROVE  AloneInv'
  <2>1. PICK q : q = [Idle EXCEPT !.kind = l, !.open = << e >>]
    OBVIOUS
  <2>2. << e >> \in Seq(Sealed)
    OBVIOUS
  <2>3. q \in Request /\ q.sealed = << >> /\ q.kind = l
    BY <2>1, <2>2, IdleParts DEF Request
  <2> QED BY <1>1, <1>2, <2>1, <2>3, AloneStart
<1>3. ASSUME NEW s \in ApiToken \cup Client, NEW l \in {"connect", "client"},
             l = "client" => s \in Client,
             Start(c, [Idle EXCEPT !.kind = l, !.of = s, !.seal = << s >>])
      PROVE  AloneInv'
  <2>1. PICK q : q = [Idle EXCEPT !.kind = l, !.of = s, !.seal = << s >>]
    OBVIOUS
  <2>2. << s >> \in Seq(Subject)
    BY DEF Subject
  <2>3. q \in Request /\ q.sealed = << >> /\ q.kind = l /\ q.of = s /\ Len(q.seal) = 1
    BY <2>1, <2>2, IdleParts DEF Request, Subject
  <2> QED BY <1>1, <1>3, <2>1, <2>3, AloneStart
<1>4. CASE handleCloudflareAuthorize(c)
  <2>1. PICK q : q = [Idle EXCEPT !.kind = "authorize", !.of = settings.client,
                         !.open = << settings.secret >>]
    OBVIOUS
  <2>2. settings.client \in Client /\ settings.secret \in Sealed
    BY <1>1, <1>4, RowFields DEF handleCloudflareAuthorize, HasClient
  <2>3. << settings.secret >> \in Seq(Sealed)
    BY <2>2
  <2>4. q \in Request /\ q.sealed = << >> /\ q.kind = "authorize" /\ q.of \in Client
    BY <2>1, <2>2, <2>3, IdleParts DEF Request, Subject
  <2> QED BY <1>1, <1>4, <2>1, <2>4, AloneStart DEF handleCloudflareAuthorize
<1>5. CASE TokenRefresh(c)
  <2>1. PICK q : q = [Idle EXCEPT !.kind = "refresh", !.of = settings.client,
                         !.grant = settings.refresh.of,
                         !.open = << settings.secret, settings.refresh >>]
    OBVIOUS
  <2>2. settings.client \in Client /\ settings.secret \in Sealed /\ settings.refresh \in Sealed
        /\ settings \in Row
    BY <1>1, <1>5, RowFields DEF TokenRefresh, HasClient
  <2>3. settings.refresh.of \in Subject
    BY <2>2 DEF Sealed
  <2>4. << settings.secret, settings.refresh >> \in Seq(Sealed)
    BY <2>2
  <2>5. q \in Request /\ q.sealed = << >> /\ q.kind = "refresh" /\ q.of = settings.client
        /\ q.seal = << >>
    BY <2>1, <2>2, <2>3, <2>4, IdleParts DEF Request, Subject
  <2> QED BY <1>1, <1>5, <2>1, <2>2, <2>5, AloneStart DEF TokenRefresh
<1>6. CASE Get(c)
  BY <1>1, <1>2, <1>6, RowFields DEF Get
<1>7. CASE TokenStored(c)
  BY <1>1, <1>2, <1>7, RowFields DEF TokenStored
<1>8. CASE handleCloudflareConnect(c)
  BY <1>3, <1>8 DEF handleCloudflareConnect
<1>9. CASE handleCloudflareOAuthClientSave(c)
  BY <1>3, <1>9 DEF handleCloudflareOAuthClientSave
<1> QED BY <1>4, <1>5, <1>6, <1>7, <1>8, <1>9

LEMMA AloneCallback ==
    ASSUME AloneInv, ~Overlap, NEW c \in Caller, handleCloudflareCallback(c)
    PROVE  AloneInv'
<1>1. stateCookie' \in [Caller -> Client \cup {None}] /\ UNCHANGED settings
      /\ stateCookie[c] \in Client \cup {None}
  BY AloneTypes DEF handleCloudflareCallback
<1>2. CASE CanStart(c) /\ UNCHANGED << secrets, ensure, req >>
  <2>1. req[c] = Idle /\ ensure[c] = "read"
    BY <1>2, IdleParts DEF CanStart, AloneInv, OneAtATime
  <2>2. req' = [req EXCEPT ![c] = Idle] /\ ensure' = [ensure EXCEPT ![c] = "read"]
    BY <1>2, <2>1, AloneTypes
  <2>3. \A d \in Caller : d # c => req[d] = Idle /\ ensure[d] = "read"
    BY <1>2, OthersIdle
  <2> QED BY <1>1, <1>2, <2>2, <2>3, IdleParts, IdleServes, QuietStep
<1>3. CASE HasClient /\ Start(c, [Idle EXCEPT !.kind = "callback", !.of = settings.client,
                                     !.grant = stateCookie[c], !.open = << settings.secret >>])
  <2>1. PICK q : q = [Idle EXCEPT !.kind = "callback", !.of = settings.client,
                         !.grant = stateCookie[c], !.open = << settings.secret >>]
    OBVIOUS
  <2>2. settings.client \in Client /\ settings.secret \in Sealed /\ settings \in Row
    BY <1>3, AloneTypes, RowFields DEF HasClient
  <2>3. << settings.secret >> \in Seq(Sealed)
    BY <2>2
  <2>4. q \in Request /\ q.sealed = << >> /\ q.kind = "callback" /\ q.of = settings.client
        /\ q.seal = << >>
    BY <1>1, <2>1, <2>2, <2>3, IdleParts DEF Request, Subject
  <2> QED BY <1>1, <1>3, <2>1, <2>2, <2>4, AloneStart
<1> QED BY <1>2, <1>3 DEF handleCloudflareCallback

\* A request that runs returns: nothing of it is left but what it has stored.
LEMMA AloneReturn ==
    ASSUME AloneInv, NEW c \in Caller,
           \A d \in Caller : d # c => req[d] = Idle /\ ensure[d] = "read",
           Return(c), UNCHANGED << secrets, settings >>, ensure' = [ensure EXCEPT ![c] = "read"],
           stateCookie' \in [Caller -> Client \cup {None}]
    PROVE  AloneInv'
BY IdleParts, IdleServes, QuietStep DEF Return, Become

LEMMA AloneDecrypt ==
    ASSUME AloneInv, NEW c \in Caller, decrypt(c),
           \A d \in Caller : d # c => req[d] = Idle /\ ensure[d] = "read"
    PROVE  AloneInv'
<1>1. PICK q \in Request : q = req[c] /\ Serves(q)
  BY AloneTypes DEF AloneInv
<1>2. PICK n : n = [q EXCEPT !.open = Tail(q.open)]
  OBVIOUS
<1>3. q.open \in Seq(Sealed) /\ q.open # << >>
  BY <1>1, RequestParts DEF decrypt
<1>4. Tail(q.open) \in Seq(Sealed)
  BY <1>3
<1>5. /\ n \in Request /\ n.sealed = q.sealed /\ n.seal = q.seal /\ n.kind = q.kind
      /\ n.of = q.of
  BY <1>1, <1>2, <1>4 DEF Request
<1>6. UNCHANGED << secrets, settings >> /\ ensure' = [ensure EXCEPT ![c] = "read"]
  BY DEF decrypt, EnsureReturns
<1>7. q.kind # "idle"
  <2>1. q # Idle
    BY <1>3, IdleParts
  <2> QED BY <1>1, <2>1 DEF AloneInv, OneAtATime
<1>8. stateCookie' \in [Caller -> Client \cup {None}]
  <2>1. CASE stateCookie' = stateCookie
    BY <2>1, AloneTypes
  <2>2. CASE stateCookie' = [stateCookie EXCEPT ![c] = q.of] /\ q.kind = "authorize"
    BY <1>1, <2>2, AloneTypes DEF Serves
  <2> QED BY <1>1, <2>1, <2>2 DEF decrypt
<1>9. CASE Return(c)
  BY <1>6, <1>8, <1>9, AloneReturn
<1>10. CASE Become(c, n)
  <2>1. q.sealed = << >>
    BY <1>1, <1>3 DEF Serves
  <2>2. Serves(n)
    BY <1>1, <1>5, <2>1 DEF Serves
  <2> QED BY <1>5, <1>6, <1>7, <1>8, <1>10, <2>2, QuietStep DEF Become
<1> QED BY <1>1, <1>2, <1>9, <1>10 DEF decrypt, Opened, Return

LEMMA AloneEncrypt ==
    ASSUME AloneInv, NEW c \in Caller, encrypt(c),
           \A d \in Caller : d # c => req[d] = Idle /\ ensure[d] = "read"
    PROVE  AloneInv'
<1>1. PICK q \in Request : q = req[c] /\ Serves(q)
  BY AloneTypes DEF AloneInv
<1>2. PICK k \in Key :
         /\ EnsureReturns(c, k)
         /\ Become(c, [q EXCEPT !.seal = Tail(q.seal),
                         !.sealed = Append(q.sealed, [key |-> k, of |-> Head(q.seal)])])
  BY <1>1 DEF encrypt
<1>3. /\ UNCHANGED << secrets, settings, stateCookie >> /\ k = read /\ secrets # << >>
      /\ ensure' = [ensure EXCEPT ![c] = "read"]
  BY <1>2 DEF encrypt, EnsureReturns
<1>4. q.seal \in Seq(Subject) /\ q.seal # << >> /\ q.sealed \in Seq(Sealed)
  BY <1>1, RequestParts DEF encrypt
<1>5. Head(q.seal) \in Subject /\ Tail(q.seal) \in Seq(Subject)
  BY <1>4
<1>6. PICK e : e = [key |-> k, of |-> Head(q.seal)]
  OBVIOUS
<1>7. e \in Sealed /\ SealedOK(e) /\ e.of = Head(q.seal)
  BY <1>3, <1>5, <1>6 DEF Sealed, SealedOK
<1>8. PICK s : s = Append(q.sealed, e)
  OBVIOUS
<1>9. /\ s \in Seq(Sealed) /\ s # << >> /\ Len(s) = Len(q.sealed) + 1 /\ Len(q.sealed) \in Nat
      /\ s[Len(q.sealed) + 1] = e /\ \A i \in 1 .. Len(q.sealed) : s[i] = q.sealed[i]
  BY <1>4, <1>7, <1>8
<1>10. \A i \in 1 .. Len(s) : SealedOK(s[i])
  <2> SUFFICES ASSUME NEW i \in 1 .. Len(s) PROVE SealedOK(s[i])
    OBVIOUS
  <2>1. CASE i \in 1 .. Len(q.sealed)
    BY <1>1, <1>9, <2>1 DEF Serves
  <2>2. CASE i = Len(q.sealed) + 1
    BY <1>7, <1>9, <2>2
  <2> QED BY <1>9, <2>1, <2>2
<1>11. s[1].of = IF q.sealed = << >> THEN Head(q.seal) ELSE q.sealed[1].of
  <2>1. CASE q.sealed = << >>
    BY <1>7, <1>9, <2>1
  <2>2. CASE q.sealed # << >>
    <3>1. 1 \in 1 .. Len(q.sealed)
      BY <1>4, <2>2
    <3> QED BY <1>9, <2>2, <3>1
  <2> QED BY <2>1, <2>2
<1>12. PICK n : n = [q EXCEPT !.seal = Tail(q.seal), !.sealed = s]
  OBVIOUS
<1>13. n \in Request /\ n.sealed = s /\ n.kind = q.kind /\ n.of = q.of
  BY <1>1, <1>5, <1>9, <1>12 DEF Request
<1>14. Serves(n)
  <2>1. n.seal = Tail(q.seal) /\ Len(Tail(q.seal)) = Len(q.seal) - 1 /\ Len(q.seal) \in Nat
    BY <1>1, <1>4, <1>12 DEF Request
  <2>2. Len(n.seal) + Len(n.sealed) = Len(q.seal) + Len(q.sealed)
    <3>1. PICK x \in Nat, y \in Nat : x = Len(q.seal) /\ y = Len(q.sealed)
      BY <1>9, <2>1
    <3>2. Len(n.seal) = x - 1 /\ Len(n.sealed) = y + 1
      BY <1>9, <1>13, <2>1, <3>1
    <3>3. (x - 1) + (y + 1) = x + y
      OBVIOUS
    <3> QED BY <3>1, <3>2, <3>3
  <2>3. n.open = << >>
    BY <1>1, <1>12 DEF Request, encrypt
  <2>4. n.sealed # << >> /\ \A i \in 1 .. Len(n.sealed) : SealedOK(n.sealed[i])
    BY <1>9, <1>10, <1>13
  <2>5. q.kind \in {"callback", "refresh"} => n.sealed[1].of = q.of
    BY <1>1, <1>4, <1>11, <1>13 DEF Serves
  <2> QED BY <1>1, <1>13, <2>2, <2>3, <2>4, <2>5 DEF Serves
<1>15. q.kind # "idle"
  <2>1. q # Idle
    BY <1>4, IdleParts
  <2> QED BY <1>1, <2>1 DEF AloneInv, OneAtATime
<1> QED BY <1>2, <1>3, <1>6, <1>8, <1>12, <1>13, <1>14, <1>15, QuietStep, AloneTypes DEF Become

LEMMA AloneExchange ==
    ASSUME AloneInv, NEW c \in Caller, Exchange(c),
           \A d \in Caller : d # c => req[d] = Idle /\ ensure[d] = "read"
    PROVE  AloneInv'
<1>1. PICK q \in Request : /\ q = req[c] /\ Serves(q) /\ q.kind \in {"callback", "refresh"}
                           /\ q.sealed = << >>
  BY AloneTypes DEF AloneInv, Exchange
<1>2. /\ UNCHANGED << secrets, settings, stateCookie >>
      /\ ensure' = [ensure EXCEPT ![c] = "read"]
      /\ stateCookie' \in [Caller -> Client \cup {None}]
  BY AloneTypes DEF Exchange, AloneInv, OneAtATime
<1>3. CASE Return(c)
  BY <1>2, <1>3, AloneReturn
<1>4. ASSUME NEW r \in {q.of, Empty}, Become(c, [q EXCEPT !.seal = << q.of, r >>])
      PROVE  AloneInv'
  <2>1. q.of \in Client /\ q.of \in Subject /\ r \in Subject
    BY <1>1, <1>4 DEF Serves, Subject
  <2>2. << q.of, r >> \in Seq(Subject) /\ Head(<< q.of, r >>) = q.of /\ << q.of, r >> # << >>
        /\ Len(<< q.of, r >>) = 2
    BY <2>1
  <2>3. PICK w : w = << q.of, r >>
    OBVIOUS
  <2>4. PICK n : n = [q EXCEPT !.seal = w]
    OBVIOUS
  <2>5. n \in Request /\ n.sealed = << >> /\ n.kind = q.kind /\ n.of = q.of /\ n.seal = w
    BY <1>1, <2>2, <2>3, <2>4 DEF Request
  <2>6. Serves(n)
    <3>1. Len(n.seal) + Len(n.sealed) <= 2
      BY <2>2, <2>3, <2>5
    <3>2. \A i \in 1 .. Len(n.sealed) : SealedOK(n.sealed[i])
      BY <2>5
    <3>3. Head(n.seal) = n.of
      BY <2>2, <2>3, <2>5
    <3> QED BY <1>1, <2>5, <3>1, <3>2, <3>3 DEF Serves
  <2> QED BY <1>1, <1>2, <1>4, <2>3, <2>4, <2>5, <2>6, QuietStep DEF Become
<1> QED BY <1>1, <1>3, <1>4 DEF Exchange

\* The statements that write the row, and end the request.
LEMMA AloneWrite ==
    ASSUME AloneInv, NEW c \in Caller, SetAPIToken(c) \/ SetOAuthClient(c) \/ saveOAuthTokens(c),
           \A d \in Caller : d # c => req[d] = Idle /\ ensure[d] = "read"
    PROVE  AloneInv'
<1>1. PICK q \in Request : q = req[c] /\ Serves(q)
  BY AloneTypes DEF AloneInv
<1>2. /\ UNCHANGED << secrets, ensure, stateCookie >> /\ req' = [req EXCEPT ![c] = Idle]
  BY DEF SetAPIToken, SetOAuthClient, saveOAuthTokens, Return, Become
<1>3. q.seal \in Seq(Subject) /\ q.sealed \in Seq(Sealed)
  BY RequestParts
<1>4. ensure[c] = "read"
  <2>1. Len(q.seal) = 0 /\ q.sealed # << >>
    <3>1. PICK x \in Nat, y \in Nat : x = Len(q.seal) /\ y = Len(q.sealed)
      BY <1>3
    <3>2. \/ q.kind \in {"connect", "client"} /\ y = 1
          \/ q.kind \in {"callback", "refresh"} /\ y = 2
      BY <1>1, <3>1 DEF SetAPIToken, SetOAuthClient, saveOAuthTokens
    <3>3. (y = 1 /\ x + y <= 1) \/ (y = 2 /\ x + y <= 2)
      BY <1>1, <3>1, <3>2 DEF Serves
    <3>4. x = 0 /\ y # 0
      BY <3>3
    <3> QED BY <3>1, <3>4
  <2>2. q.seal = << >> /\ q.open = << >>
    BY <1>1, <1>3, <2>1 DEF Serves
  <2> QED BY <1>1, <2>2 DEF AloneInv, OneAtATime
<1>5. \A i \in 1 .. Len(q.sealed) : q.sealed[i] \in Sealed /\ SealedOK(q.sealed[i])
  BY <1>1, <1>3 DEF Serves
<1>6. \A e : SealedOK(e)' <=> SealedOK(e)
  BY <1>2 DEF SealedOK, read
<1>7. settings \in Row \cup {None} /\ (\A e \in Stored : SealedOK(e)) /\ RowOK
  BY AloneTypes DEF AloneInv, KeyOK
<1>8. Serves(Idle)'
  BY IdleParts DEF Serves
<1>9. ASSUME settings' \in Row \cup {None}, \A e \in Stored' : SealedOK(e), RowOK'
      PROVE  AloneInv'
  <2>1. \A e \in Stored' : SealedOK(e)'
    BY <1>6, <1>9
  <2>2. Len(secrets') <= 1 /\ ensure'[c] = "read"
    BY <1>2, <1>4 DEF AloneInv, KeyOK
  <2> QED BY <1>2, <1>8, <1>9, <2>1, <2>2, IdleParts, ActStep, AloneTypes
<1>10. CASE SetAPIToken(c)
  <2>1. PICK e \in Sealed : SealedOK(e) /\ settings' = ApiRow(e)
    BY <1>1, <1>5, <1>10 DEF SetAPIToken
  <2>2. settings' \in Row /\ Stored' \subseteq {e} /\ settings'.client = None
        /\ settings'.access = None
    BY <2>1 DEF Row, ApiRow, Stored
  <2>3. RowOK'
    BY <2>2 DEF RowOK
  <2> QED BY <1>9, <2>1, <2>2, <2>3
<1>11. CASE SetOAuthClient(c)
  <2>1. PICK e, o : /\ e \in Sealed /\ o \in Client /\ SealedOK(e)
                    /\ settings' = [ApiRow(None) EXCEPT !.client = o, !.secret = e]
    <3>1. q.kind = "client" /\ Len(q.sealed) = 1 /\ q.of \in Client
          /\ settings' = [ApiRow(None) EXCEPT !.client = q.of, !.secret = q.sealed[1]]
      BY <1>1, <1>11 DEF SetOAuthClient, Serves
    <3>2. q.sealed[1] \in Sealed /\ SealedOK(q.sealed[1])
      BY <1>5, <3>1
    <3> QED BY <3>1, <3>2
  <2>2. settings' \in Row /\ Stored' \subseteq {e}
    BY <2>1 DEF Row, ApiRow, Stored
  <2>3. settings'.api = None /\ settings'.access = None
    BY <2>1 DEF ApiRow
  <2>4. RowOK'
    BY <2>3 DEF RowOK
  <2> QED BY <1>9, <2>1, <2>2, <2>4
<1>12. CASE saveOAuthTokens(c)
  <2>1. /\ settings \in Row /\ settings.client = q.of /\ q.of \in Client
        /\ q.sealed[1].of = q.of /\ Len(q.sealed) = 2
    BY <1>1, <1>7, <1>12 DEF saveOAuthTokens, Serves
  <2>2. PICK a, r : a = q.sealed[1] /\ r = q.sealed[2]
    OBVIOUS
  <2>3. a \in Sealed /\ r \in Sealed /\ SealedOK(a) /\ SealedOK(r)
    <3>1. 1 \in 1 .. Len(q.sealed) /\ 2 \in 1 .. Len(q.sealed)
      BY <2>1
    <3> QED BY <1>5, <2>2, <3>1
  <2>4. CASE settings = None
    <3>1. settings' = None
      BY <1>12, <2>4 DEF saveOAuthTokens
    <3> QED BY <1>9, <3>1 DEF Stored, RowOK
  <2>5. CASE settings # None
    <3>1. settings' = [settings EXCEPT !.access = a, !.refresh = r, !.expired = FALSE]
      BY <1>1, <1>12, <2>2, <2>5 DEF saveOAuthTokens
    <3>2. settings' \in Row
      BY <2>1, <2>3, <3>1 DEF Row
    <3>3. /\ settings'.api = settings.api /\ settings'.secret = settings.secret
          /\ settings'.access = a /\ settings'.refresh = r /\ settings'.client = settings.client
      BY <2>1, <3>1 DEF Row
    <3>4. Stored' \subseteq Stored \cup {a, r}
      BY <2>5, <3>3 DEF Stored
    <3>5. settings.client # None /\ settings.api = None
      BY <1>7, <2>1, <2>5, CfNoneAssumption DEF RowOK
    <3>6. RowOK'
      BY <2>1, <2>2, <3>3, <3>5 DEF RowOK
    <3> QED BY <1>7, <1>9, <2>3, <3>2, <3>4, <3>6
  <2> QED BY <2>4, <2>5
<1> QED BY <1>10, <1>11, <1>12

\* A key is only made where there is none, and nothing is stored or sealed before.
LEMMA AloneEnsure ==
    ASSUME AloneInv, NEW c \in Caller, EnsureStep(c),
           \A d \in Caller : d # c => req[d] = Idle /\ ensure[d] = "read"
    PROVE  AloneInv'
<1>1. PICK q \in Request : /\ q = req[c] /\ Serves(q) /\ (q.open # << >> \/ q.seal # << >>)
  BY AloneTypes DEF AloneInv, EnsureStep
<1>2. UNCHANGED << settings, stateCookie >> /\ req' = [req EXCEPT ![c] = q] /\ q.kind # "idle"
  <2>1. q # Idle
    BY <1>1, IdleParts
  <2>2. q.kind # "idle"
    BY <1>1, <2>1 DEF AloneInv, OneAtATime
  <2> QED BY <1>1, <2>2, AloneTypes DEF EnsureStep
<1>3. secrets = << >>
  BY DEF EnsureStep, EnsureMisses, EnsureAppends, AloneInv, KeyOK
<1>4. Stored = {} /\ q.sealed = << >>
  <2>1. Stored = {}
    BY <1>3 DEF AloneInv, KeyOK, SealedOK
  <2>2. ~(1 \in 1 .. Len(q.sealed))
    BY <1>1, <1>3 DEF Serves, SealedOK
  <2>3. q.sealed \in Seq(Sealed)
    BY RequestParts
  <2> QED BY <2>1, <2>2, <2>3
<1>5. /\ Stored' = {} /\ RowOK'
  BY <1>2, <1>4 DEF Stored, AloneInv, RowOK
<1>6. Serves(q)'
  <2>1. \A i \in 1 .. Len(q.sealed) : SealedOK(q.sealed[i])'
    BY <1>4
  <2> QED BY <1>1, <1>2, <2>1 DEF Serves
<1>7. CASE EnsureMisses(c)
  <2>1. UNCHANGED secrets /\ ensure' = [ensure EXCEPT ![c] = "append"]
    BY <1>7 DEF EnsureMisses
  <2>2. /\ ensure' \in [Caller -> {"read", "append", "reread"}]
        /\ \A d \in Caller : d # c => ensure'[d] = ensure[d]
    BY <2>1, AloneTypes
  <2>3. secrets' \in Seq(Key) /\ Len(secrets') <= 1 /\ secrets' = << >>
    BY <1>3, <2>1, AloneTypes
  <2>4. \A e \in Stored' : SealedOK(e)'
    BY <1>5
  <2> QED BY <1>1, <1>2, <1>5, <1>6, <2>2, <2>3, <2>4, ActStep, AloneTypes
<1>8. CASE EnsureAppends(c)
  <2>1. PICK k \in Key : secrets' = << k >>
    BY <1>3, <1>8 DEF EnsureAppends
  <2>2. secrets' \in Seq(Key) /\ Len(secrets') <= 1
    BY <2>1
  <2>3. ensure' = [ensure EXCEPT ![c] = "reread"]
    BY <1>8 DEF EnsureAppends
  <2>4. /\ ensure' \in [Caller -> {"read", "append", "reread"}] /\ ensure'[c] = "reread"
        /\ \A d \in Caller : d # c => ensure'[d] = ensure[d]
    BY <2>3, AloneTypes
  <2>5. \A e \in Stored' : SealedOK(e)'
    BY <1>5
  <2> QED BY <1>1, <1>2, <1>5, <1>6, <2>2, <2>4, <2>5, ActStep, AloneTypes
<1> QED BY <1>7, <1>8 DEF EnsureStep

LEMMA AloneAbandon ==
    ASSUME AloneInv, NEW c \in Caller, Abandon(c),
           \A d \in Caller : d # c => req[d] = Idle /\ ensure[d] = "read"
    PROVE  AloneInv'
<1>1. /\ Return(c) /\ UNCHANGED << secrets, settings, stateCookie >>
      /\ ensure' = [ensure EXCEPT ![c] = "read"]
  BY DEF Abandon, EnsureFails
<1> QED BY <1>1, AloneReturn, AloneTypes

\* Steps of the row alone.
LEMMA AloneDisconnect ==
    ASSUME AloneInv, ~Overlap, NEW c \in Caller, handleCloudflareDisconnect(c)
    PROVE  AloneInv'
<1>1. /\ CanStart(c) /\ settings' = None /\ UNCHANGED << secrets, ensure, stateCookie, req >>
  BY DEF handleCloudflareDisconnect
<1>2. \A d \in Caller : d # c => req[d] = Idle /\ ensure[d] = "read"
  BY <1>1, OthersIdle
<1>3. req[c] = Idle /\ ensure[c] = "read"
  BY <1>1, IdleParts DEF CanStart, AloneInv, OneAtATime
<1>4. req' = [req EXCEPT ![c] = Idle]
  BY <1>1, <1>3, AloneTypes
<1>5. Serves(Idle)' /\ RowOK' /\ Stored' = {} /\ Len(secrets') <= 1
  BY <1>1, IdleParts DEF Serves, RowOK, Stored, AloneInv, KeyOK
<1> QED BY <1>1, <1>2, <1>3, <1>4, <1>5, IdleParts, ActStep, AloneTypes

LEMMA AloneExpire ==
    ASSUME AloneInv, Expire
    PROVE  AloneInv'
<1>1. /\ settings \in Row /\ settings # None /\ settings' = [settings EXCEPT !.expired = TRUE]
      /\ UNCHANGED << secrets, ensure, stateCookie, req >>
  BY AloneTypes DEF Expire
<1>2. /\ settings' \in Row /\ settings'.api = settings.api /\ settings'.secret = settings.secret
      /\ settings'.access = settings.access /\ settings'.refresh = settings.refresh
      /\ settings'.client = settings.client
  BY <1>1 DEF Row
<1>3. \A e : SealedOK(e)' <=> SealedOK(e)
  BY <1>1 DEF SealedOK, read
<1>4. Stored' \subseteq Stored
  BY <1>1, <1>2 DEF Stored
<1>5. TypeOK'
  BY <1>1, <1>2, AloneTypes DEF TypeOK, KeyTypeOK
<1>6. KeyOK'
  BY <1>1, <1>3, <1>4 DEF AloneInv, KeyOK
<1>7. RowOK'
  BY <1>1, <1>2 DEF AloneInv, RowOK
<1>8. \A c \in Caller : Serves(req[c])'
  <2> SUFFICES ASSUME NEW c \in Caller PROVE Serves(req[c])'
    OBVIOUS
  <2> QED BY <1>1, <1>2, <1>3 DEF AloneInv, Serves
<1>9. OneAtATime'
  BY <1>1 DEF AloneInv, OneAtATime
<1> QED BY <1>5, <1>6, <1>7, <1>8, <1>9 DEF AloneInv

LEMMA AloneInit == Init => AloneInv
<1> SUFFICES ASSUME Init PROVE AloneInv
  OBVIOUS
<1>1. req \in [Caller -> Request] /\ \A c \in Caller : req[c] = Idle /\ ensure[c] = "read"
  BY IdleParts DEF Init
<1>2. secrets \in Seq(Key) /\ Len(secrets) <= 1
  <2>1. CASE secrets = << >>
    BY <2>1
  <2>2. ASSUME NEW k \in Key, secrets = << k >> PROVE secrets \in Seq(Key) /\ Len(secrets) <= 1
    BY <2>2
  <2> QED BY <2>1, <2>2 DEF Init
<1>3. ensure \in [Caller -> {"read", "append", "reread"}]
      /\ stateCookie \in [Caller -> Client \cup {None}]
  BY DEF Init
<1>4. TypeOK
  BY <1>1, <1>2, <1>3 DEF Init, TypeOK, KeyTypeOK
<1>5. OneAtATime
  BY <1>1, IdleParts DEF OneAtATime
<1>6. KeyOK /\ RowOK
  BY <1>1, <1>2 DEF Init, KeyOK, RowOK, Stored
<1>7. \A c \in Caller : Serves(req[c])
  BY <1>1, IdleServes
<1> QED BY <1>4, <1>5, <1>6, <1>7 DEF AloneInv

\* The statements of a request are steps of one that runs.
LEMMA RunningStep ==
    ASSUME AloneInv, NEW c \in Caller,
           \/ decrypt(c) \/ encrypt(c) \/ EnsureStep(c) \/ Exchange(c)
           \/ SetAPIToken(c) \/ SetOAuthClient(c) \/ saveOAuthTokens(c) \/ Abandon(c)
    PROVE  req[c].kind # "idle"
<1>1. req[c] # Idle
  BY IdleParts DEF decrypt, encrypt, EnsureStep, Exchange, SetAPIToken, SetOAuthClient,
                   saveOAuthTokens, Abandon
<1> QED BY <1>1 DEF AloneInv, OneAtATime

LEMMA AloneNext ==
    ASSUME ~Overlap, AloneInv, [Next]_vars
    PROVE  AloneInv'
<1>1. CASE UNCHANGED vars
  BY <1>1 DEF vars, AloneInv, TypeOK, KeyTypeOK, OneAtATime, KeyOK, SealedOK, RowOK, Serves,
              Stored, read
<1>2. CASE Expire
  BY <1>2, AloneExpire
<1>3. ASSUME NEW c \in Caller,
             \/ decrypt(c) \/ encrypt(c) \/ EnsureStep(c) \/ Exchange(c)
             \/ SetAPIToken(c) \/ SetOAuthClient(c) \/ saveOAuthTokens(c) \/ Abandon(c)
      PROVE  AloneInv'
  <2>1. \A d \in Caller : d # c => req[d] = Idle /\ ensure[d] = "read"
    BY <1>3, RunningStep, OthersIdle
  <2> QED BY <1>3, <2>1, AloneDecrypt, AloneEncrypt, AloneEnsure, AloneExchange, AloneWrite,
             AloneAbandon
<1>4. ASSUME NEW c \in Caller,
             \/ Get(c) \/ handleCloudflareConnect(c) \/ handleCloudflareOAuthClientSave(c)
             \/ handleCloudflareAuthorize(c) \/ handleCloudflareCallback(c)
             \/ handleCloudflareDisconnect(c) \/ TokenStored(c) \/ TokenRefresh(c)
      PROVE  AloneInv'
  BY <1>4, AloneHandlers, AloneCallback, AloneDisconnect
<1> QED BY <1>1, <1>2, <1>3, <1>4 DEF Next

\* SetAPIToken and SetOAuthClient each clear what the other stores, and saveOAuthTokens stores
\* tokens only of the client its request read: requests that do not overlap never leave an API
\* token in the row that Token passes over, or tokens of a client that is no longer stored.
THEOREM OneConnectionAtATime == ASSUME ~Overlap PROVE Spec => []OneConnection
<1>1. AloneInv /\ [Next]_vars => AloneInv'
  BY AloneNext
<1>2. AloneInv => OneConnection
  BY DEF AloneInv, RowOK, OneConnection
<1> QED BY AloneInit, <1>1, <1>2, PTL DEF Spec

\* The tokens saveOAuthTokens stores were granted to the client whose secret will refresh them,
\* unless another request replaces the client meanwhile.
THEOREM TokensServeTheirClient == ASSUME ~Overlap PROVE Spec => []TokensOfClient
<1>1. AloneInv /\ [Next]_vars => AloneInv'
  BY AloneNext
<1>2. AloneInv => TokensOfClient
  BY DEF AloneInv, RowOK, TokensOfClient
<1> QED BY AloneInit, <1>1, <1>2, PTL DEF Spec

\* Requests that do not overlap agree on one key even while it is being made: what the first of
\* them stores can be decrypted by every later one, whichever of their steps fail.
THEOREM FirstKeyReadable == ASSUME ~Overlap PROVE Spec => []StoredReadable
<1>1. AloneInv /\ [Next]_vars => AloneInv'
  BY AloneNext
<1>2. AloneInv => StoredReadable
  BY DEF AloneInv, KeyOK, SealedOK, StoredReadable
<1> QED BY AloneInit, <1>1, <1>2, PTL DEF Spec
=============================================================================
