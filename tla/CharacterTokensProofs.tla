----------------------- MODULE CharacterTokensProofs -----------------------
(***************************************************************************)
(* Theorems about CharacterTokens, for any number of requests and tokens,  *)
(* and whether or not EVE SSO replaces refresh tokens.  They all rest on   *)
(* one inductive invariant: which tokens there can be, where they can be,  *)
(* and what a request knows of its own tokens at each of its awaits.       *)
(***************************************************************************)
EXTENDS CharacterTokens, TLAPS

(* The tokens of a grant among the first n that were issued.               *)
Known(grant, n) ==
    [grant : {grant}, access : 1 .. n, refresh : 1 .. n] \cup {NoToken}

KnownDocuments(n) ==
    [personal : Known("login", n), corporation : {Corporation, NoCorporation},
     corpTok : Known("corp", n)]

KnownRequests(n) ==
    [at : Stages, kind : Kinds, read : KnownDocuments(n), mine : KnownDocuments(n),
     dirty : SUBSET {"personal", "corpTok"}]

(* What holds of a request between two of its awaits; `refused` are the    *)
(* refresh tokens that EVE SSO does not accept.                            *)
Sound(q, refused) ==
    /\ q.at = "personal" => q.mine = q.read
    /\ q.at \in {"personal", "corp", "persist"} => Exists(q.mine)
    /\ q.at = "signedout" => q.read.personal.refresh \in refused

Refused == rotated \cup revoked

SsoInv ==
    /\ issued \in Serials
    /\ expired \subseteq 1 .. issued
    /\ rotated \subseteq 1 .. issued
    /\ revoked \subseteq 1 .. issued
    /\ lost \subseteq rotated

DocInv ==
    /\ doc \in KnownDocuments(issued)
    /\ Exists(doc) \/ doc = Absent

ReqInv ==
    /\ req \in [Requests -> KnownRequests(issued)]
    /\ \A r \in Requests : Sound(req[r], Refused)

TokenInv == SsoInv /\ DocInv /\ ReqInv

-----------------------------------------------------------------------------
(* More tokens are known later on.                                         *)
LEMMA KnownGrows ==
    ASSUME NEW m \in Nat, NEW n \in Nat, m =< n
    PROVE  KnownDocuments(m) \subseteq KnownDocuments(n) /\ KnownRequests(m) \subseteq KnownRequests(n)
<1>1. \A g : Known(g, m) \subseteq Known(g, n)
  BY DEF Known
<1>2. KnownDocuments(m) \subseteq KnownDocuments(n)
  BY <1>1 DEF KnownDocuments
<1>3. KnownRequests(m) \subseteq KnownRequests(n)
  BY <1>2 DEF KnownRequests
<1>4. QED  BY <1>2, <1>3

(* A request that is under way may be replaced by any sound one; the       *)
(* others stay sound, for what EVE SSO has refused it keeps refusing.      *)
LEMMA SetKeeps ==
    ASSUME SsoInv, ReqInv,
           issued' \in Nat, issued =< issued', Refused \subseteq Refused',
           NEW r \in Requests, NEW q \in KnownRequests(issued'), Sound(q, Refused'),
           Set(r, q)
    PROVE  ReqInv'
<1>1. issued \in Nat
  BY TokensAssumption DEF SsoInv, Serials
<1>2. req \in [Requests -> KnownRequests(issued')]
  BY <1>1, KnownGrows DEF ReqInv
<1>3. req' = [req EXCEPT ![r] = q]
  BY DEF Set
<1>4. req' \in [Requests -> KnownRequests(issued')]
  BY <1>2, <1>3
<1>5. ASSUME NEW s \in Requests PROVE Sound(req'[s], Refused')
  <2>1. CASE s = r
    BY <2>1, <1>2, <1>3
  <2>2. CASE s # r
    <3>1. req'[s] = req[s]
      BY <2>2, <1>2, <1>3
    <3>2. Sound(req[s], Refused)
      BY DEF ReqInv
    <3>3. QED  BY <3>1, <3>2 DEF Sound
  <2>3. QED  BY <2>1, <2>2
<1>6. QED  BY <1>4, <1>5 DEF ReqInv

(* The idle request is one of them.                                        *)
LEMMA IdleIsSound ==
    ASSUME NEW n \in Nat, NEW refused
    PROVE  /\ IdleRequest \in KnownRequests(n) /\ Sound(IdleRequest, refused)
           /\ Absent \in KnownDocuments(n)
BY DEF IdleRequest, RequestOf, DocumentOf, KnownRequests, Sound, Absent, KnownDocuments, Known, Stages, Kinds, NoToken

(* EVE SSO answers with tokens of its next number.                         *)
LEMMA ExchangeKeeps ==
    ASSUME SsoInv, Exchange, UNCHANGED lost
    PROVE  /\ SsoInv' /\ issued' = issued + 1 /\ Refused' = Refused
           /\ Issue("login") \in Known("login", issued') \ {NoToken}
           /\ Issue("corp") \in Known("corp", issued') \ {NoToken}
BY TokensAssumption DEF SsoInv, Exchange, Serials, Issue, Known, NoToken, Refused

LEMMA RefreshKeeps ==
    ASSUME SsoInv, NEW grant \in {"login", "corp"},
           NEW t \in Known(grant, issued) \ {NoToken}, Refresh(t)
    PROVE  /\ issued \in Nat /\ issued' = issued + 1 /\ issued' \in Serials
           /\ expired' \subseteq 1 .. issued'
           /\ rotated' \subseteq 1 .. issued'
           /\ revoked' \subseteq 1 .. issued'
           /\ rotated \subseteq rotated'
           /\ Refused \subseteq Refused'
           /\ Refreshed(t) \in Known(grant, issued') \ {NoToken}
<1>1. t \in [grant : {grant}, access : 1 .. issued, refresh : 1 .. issued]
  BY DEF Known
<1>2. /\ issued \in Nat /\ issued' = issued + 1 /\ issued' \in Serials
      /\ expired' = expired /\ revoked' = revoked
  BY TokensAssumption DEF SsoInv, Refresh, Serials
<1>3. rotated' = rotated \/ rotated' = rotated \cup {t.refresh}
  BY DEF Refresh
<1>4. rotated' \subseteq 1 .. issued' /\ rotated \subseteq rotated'
  <2>1. rotated \subseteq 1 .. issued /\ t.refresh \in 1 .. issued
    BY <1>1 DEF SsoInv
  <2>2. 1 .. issued \subseteq 1 .. issued'
    BY <1>2
  <2>3. QED  BY <1>3, <2>1, <2>2
<1>5. expired' \subseteq 1 .. issued' /\ revoked' \subseteq 1 .. issued'
  BY <1>2 DEF SsoInv
<1>6. Refreshed(t) \in Known(grant, issued') \ {NoToken}
  BY <1>1, <1>2 DEF Refreshed, Known, NoToken
<1>7. QED  BY <1>2, <1>4, <1>5, <1>6 DEF Refused

-----------------------------------------------------------------------------
(* The callbacks of EVE SSO.                                               *)
LEMMA CallbackKeeps ==
    ASSUME TokenInv, NEW r \in Requests,
           \/ LoginExchange(r) \/ LoginStore(r) \/ ConnectExchange(r) \/ ConnectStore(r)
    PROVE  TokenInv'
<1>1. issued \in Nat /\ req[r] \in KnownRequests(issued) /\ doc \in KnownDocuments(issued)
  BY TokensAssumption DEF TokenInv, SsoInv, ReqInv, DocInv, Serials
<1>2. IdleRequest \in KnownRequests(issued) /\ Sound(IdleRequest, Refused')
  BY <1>1, IdleIsSound
<1>3. CASE LoginExchange(r)
  <2>1. /\ SsoInv' /\ issued' = issued + 1 /\ Refused' = Refused
        /\ Issue("login") \in Known("login", issued')
    BY <1>3, ExchangeKeeps DEF LoginExchange, TokenInv
  <2> DEFINE q == RequestOf("login", "page", Absent,
                             DocumentOf(Issue("login"), NoCorporation, NoToken), {})
  <2>2. q \in KnownRequests(issued')
    BY <2>1 DEF KnownRequests, KnownDocuments, RequestOf, DocumentOf, Absent, Kinds, Stages, Known
  <2>3. Sound(q, Refused') /\ Set(r, q)
    BY <1>3 DEF Sound, RequestOf, LoginExchange
  <2>4. ReqInv'
    BY <1>1, <2>1, <2>2, <2>3, SetKeeps DEF TokenInv
  <2>5. DocInv'
    BY <1>1, <1>3, <2>1, KnownGrows DEF DocInv, TokenInv, LoginExchange, Exists, Absent, DocumentOf
  <2>6. QED  BY <2>1, <2>4, <2>5 DEF TokenInv
<1>4. CASE ConnectExchange(r)
  <2>1. /\ SsoInv' /\ issued' = issued + 1 /\ Refused' = Refused
        /\ Issue("corp") \in Known("corp", issued')
    BY <1>4, ExchangeKeeps DEF ConnectExchange, TokenInv
  <2> DEFINE q == RequestOf("connect", "page", Absent,
                             DocumentOf(NoToken, NoCorporation, Issue("corp")), {})
  <2>2. q \in KnownRequests(issued')
    BY <2>1 DEF KnownRequests, KnownDocuments, RequestOf, DocumentOf, Absent, Kinds, Stages, Known
  <2>3. Sound(q, Refused') /\ Set(r, q)
    BY <1>4 DEF Sound, RequestOf, ConnectExchange
  <2>4. ReqInv'
    BY <1>1, <2>1, <2>2, <2>3, SetKeeps DEF TokenInv
  <2>5. DocInv'
    BY <1>1, <1>4, <2>1, KnownGrows DEF DocInv, TokenInv, ConnectExchange, Exists, Absent, DocumentOf
  <2>6. QED  BY <2>1, <2>4, <2>5 DEF TokenInv
<1>5. CASE LoginStore(r)
  <2>1. UNCHANGED <<Sso, lost>> /\ End(r)
    BY <1>5 DEF LoginStore
  <2>2. SsoInv' /\ ReqInv'
    BY <1>1, <1>2, <2>1, SetKeeps DEF TokenInv, SsoInv, Sso, Refused, End
  <2>3. doc' = DocumentOf(req[r].mine.personal, NoCorporation, NoToken)
    BY <1>5 DEF LoginStore
  <2>4. DocInv'
    BY <1>1, <2>1, <2>3 DEF DocInv, KnownRequests, KnownDocuments, Absent, DocumentOf, Exists, Sso, Known, NoToken
  <2>5. QED  BY <2>2, <2>4 DEF TokenInv
<1>6. CASE ConnectStore(r)
  <2>1. UNCHANGED <<Sso, lost>> /\ End(r)
    BY <1>6 DEF ConnectStore
  <2>2. SsoInv' /\ ReqInv'
    BY <1>1, <1>2, <2>1, SetKeeps DEF TokenInv, SsoInv, Sso, Refused, End
  <2>3. doc' = doc \/ (Exists(doc) /\ doc' = DocumentOf(doc.personal, Corporation,
                                                          req[r].mine.corpTok))
    BY <1>6 DEF ConnectStore
  <2>4. DocInv'
    BY <1>1, <2>1, <2>3 DEF DocInv, TokenInv, KnownRequests, KnownDocuments, Absent, DocumentOf, Exists, Sso
  <2>5. QED  BY <2>2, <2>4 DEF TokenInv
<1>7. QED  BY <1>3, <1>4, <1>5, <1>6

-----------------------------------------------------------------------------
(* What a step within ensure_fresh_tokens needs to keep: the document and  *)
(* `lost` stay, the request becomes another sound one.                     *)
LEMMA RefreshStep ==
    ASSUME TokenInv, UNCHANGED <<doc, lost>>,
           issued' \in Serials, issued =< issued', rotated \subseteq rotated',
           Refused \subseteq Refused',
           expired' \subseteq 1 .. issued', rotated' \subseteq 1 .. issued',
           revoked' \subseteq 1 .. issued',
           NEW r \in Requests, NEW q \in KnownRequests(issued'), Sound(q, Refused'),
           Set(r, q)
    PROVE  TokenInv'
<1>1. issued \in Nat /\ issued' \in Nat
  BY TokensAssumption DEF TokenInv, SsoInv, Serials
<1>2. SsoInv'
  BY DEF SsoInv, TokenInv
<1>3. ReqInv'
  BY <1>1, SetKeeps DEF TokenInv
<1>4. DocInv'
  <2>1. KnownDocuments(issued) \subseteq KnownDocuments(issued')
    BY <1>1, KnownGrows
  <2>2. QED  BY <2>1 DEF DocInv, TokenInv, Exists
<1>5. QED  BY <1>2, <1>3, <1>4 DEF TokenInv

(* The same when EVE SSO is not asked.                                     *)
LEMMA QuietStep ==
    ASSUME TokenInv, UNCHANGED <<doc, Sso, lost>>,
           NEW r \in Requests, NEW q \in KnownRequests(issued), Sound(q, Refused), Set(r, q)
    PROVE  TokenInv'
<1>1. /\ issued' = issued /\ expired' = expired /\ rotated' = rotated /\ revoked' = revoked
      /\ Refused' = Refused /\ issued \in Nat
  BY TokensAssumption DEF Sso, Refused, TokenInv, SsoInv, Serials
<1>2. QED  BY <1>1, RefreshStep DEF TokenInv, SsoInv

LEMMA EnsureFreshKeeps ==
    ASSUME TokenInv, NEW r \in Requests, EnsureFresh(r)
    PROVE  TokenInv'
<1> DEFINE q == req[r]
<1>1. /\ issued \in Nat /\ q \in KnownRequests(issued) /\ Sound(q, Refused)
      /\ doc \in KnownDocuments(issued)
      /\ q.read \in KnownDocuments(issued) /\ q.mine \in KnownDocuments(issued)
      /\ q.kind \in Kinds /\ q.dirty \in SUBSET {"personal", "corpTok"}
  BY TokensAssumption DEF TokenInv, SsoInv, ReqInv, DocInv, Serials, KnownRequests
<1>2. CASE SkipPersonal(r)
  <2>1. RequestOf("corp", q.kind, q.read, q.mine, q.dirty) \in KnownRequests(issued)
    BY <1>1 DEF KnownRequests, RequestOf, Stages
  <2>2. Sound(RequestOf("corp", q.kind, q.read, q.mine, q.dirty), Refused)
    BY <1>1, <1>2 DEF Sound, RequestOf, SkipPersonal, At
  <2>3. QED  BY <1>2, <2>1, <2>2, QuietStep DEF SkipPersonal, GoOn
<1>3. CASE RejectPersonal(r)
  <2>1. RequestOf("signedout", q.kind, q.read, q.mine, q.dirty) \in KnownRequests(issued)
    BY <1>1 DEF KnownRequests, RequestOf, Stages
  <2>2. Sound(RequestOf("signedout", q.kind, q.read, q.mine, q.dirty), Refused)
    BY <1>1, <1>3 DEF Sound, RequestOf, RejectPersonal, PersonalNeedsRefresh, At, Accepted, Refused
  <2>3. QED  BY <1>3, <2>1, <2>2, QuietStep DEF RejectPersonal, GoOn
<1>4. CASE SkipCorp(r)
  <2>1. RequestOf("persist", q.kind, q.read, q.mine, q.dirty) \in KnownRequests(issued)
    BY <1>1 DEF KnownRequests, RequestOf, Stages
  <2>2. Sound(RequestOf("persist", q.kind, q.read, q.mine, q.dirty), Refused)
    BY <1>1, <1>4 DEF Sound, RequestOf, SkipCorp, At
  <2>3. QED  BY <1>4, <2>1, <2>2, QuietStep DEF SkipCorp, GoOn
<1>5. CASE RejectCorp(r)
  <2>1. WithCorp(r, NoToken) \in KnownRequests(issued)
    BY <1>1 DEF KnownRequests, KnownDocuments, Known, RequestOf, DocumentOf, Stages, WithCorp
  <2>2. Sound(WithCorp(r, NoToken), Refused)
    BY <1>1, <1>5 DEF Sound, RequestOf, DocumentOf, RejectCorp, CorpNeedsRefresh, At, WithCorp, Exists
  <2>3. QED  BY <1>5, <2>1, <2>2, QuietStep DEF RejectCorp
<1>6. CASE RefreshPersonal(r)
  <2>1. q.mine.personal \in Known("login", issued) \ {NoToken} /\ Refresh(q.mine.personal)
    BY <1>1, <1>6 DEF RefreshPersonal, PersonalNeedsRefresh, At, KnownDocuments, Sound, Exists
  <2> DEFINE t == Refreshed(q.mine.personal)
  <2>2. /\ issued' = issued + 1 /\ issued' \in Serials
        /\ expired' \subseteq 1 .. issued' /\ rotated' \subseteq 1 .. issued'
        /\ revoked' \subseteq 1 .. issued'
        /\ rotated \subseteq rotated' /\ Refused \subseteq Refused'
        /\ t \in Known("login", issued') \ {NoToken}
    BY <2>1, RefreshKeeps DEF TokenInv
  <2>3. q.read \in KnownDocuments(issued') /\ q.mine \in KnownDocuments(issued')
    BY <1>1, <2>2, KnownGrows
  <2>4. WithPersonal(r, t) \in KnownRequests(issued')
    BY <1>1, <2>2, <2>3 DEF KnownRequests, KnownDocuments, RequestOf, DocumentOf, Stages, WithPersonal
  <2>5. Sound(WithPersonal(r, t), Refused')
    BY <2>2 DEF Sound, RequestOf, DocumentOf, WithPersonal, Exists
  <2>6. Set(r, WithPersonal(r, t)) /\ UNCHANGED <<doc, lost>>
    BY <1>6 DEF RefreshPersonal
  <2>7. QED  BY <1>1, <2>2, <2>4, <2>5, <2>6, RefreshStep
<1>7. CASE RefreshCorp(r)
  <2>1. q.mine.corpTok \in Known("corp", issued) \ {NoToken} /\ Refresh(q.mine.corpTok)
    BY <1>1, <1>7 DEF RefreshCorp, CorpNeedsRefresh, KnownDocuments
  <2> DEFINE t == Refreshed(q.mine.corpTok)
  <2>2. /\ issued' = issued + 1 /\ issued' \in Serials
        /\ expired' \subseteq 1 .. issued' /\ rotated' \subseteq 1 .. issued'
        /\ revoked' \subseteq 1 .. issued'
        /\ rotated \subseteq rotated' /\ Refused \subseteq Refused'
        /\ t \in Known("corp", issued') \ {NoToken}
    BY <2>1, RefreshKeeps DEF TokenInv
  <2>3. q.read \in KnownDocuments(issued') /\ q.mine \in KnownDocuments(issued')
    BY <1>1, <2>2, KnownGrows
  <2>4. WithCorp(r, t) \in KnownRequests(issued')
    BY <1>1, <2>2, <2>3 DEF KnownRequests, KnownDocuments, RequestOf, DocumentOf, Stages, WithCorp
  <2>5. Sound(WithCorp(r, t), Refused')
    BY <1>1, <1>7 DEF Sound, RequestOf, DocumentOf, WithCorp, Exists, RefreshCorp, CorpNeedsRefresh, At
  <2>6. Set(r, WithCorp(r, t)) /\ UNCHANGED <<doc, lost>>
    BY <1>7 DEF RefreshCorp
  <2>7. QED  BY <1>1, <2>2, <2>4, <2>5, <2>6, RefreshStep
<1>8. CASE Persist(r)
  <2>1. /\ issued' = issued /\ Refused' = Refused /\ SsoInv'
    BY <1>8 DEF Persist, Sso, Refused, TokenInv, SsoInv
  <2> DEFINE h == RequestOf("handler", q.kind, Absent, Absent, {})
  <2>2. h \in KnownRequests(issued') /\ Sound(h, Refused') /\ Set(r, h)
    BY <1>1, <1>8, <2>1, IdleIsSound DEF KnownRequests, RequestOf, Stages, Sound, Persist
  <2>3. ReqInv'
    BY <1>1, <2>1, <2>2, SetKeeps DEF TokenInv
  <2>4. Updated(r, "personal") \in Known("login", issued) \ {NoToken} \/ ~Exists(doc)
    BY <1>1, <1>8 DEF Updated, Exists, Persist, At, Sound, KnownDocuments
  <2>5. Updated(r, "corpTok") \in Known("corp", issued)
    BY <1>1 DEF Updated, KnownDocuments
  <2>6. doc' = IF Exists(doc) THEN Persisted(r) ELSE doc
    BY <1>8 DEF Persist
  <2>7. DocInv'
    <3>1. CASE Exists(doc)
      <4>1. doc' = DocumentOf(Updated(r, "personal"), doc.corporation, Updated(r, "corpTok"))
        BY <2>6, <3>1 DEF Persisted
      <4>2. doc' \in KnownDocuments(issued)
        BY <1>1, <2>4, <2>5, <3>1, <4>1 DEF DocumentOf, KnownDocuments
      <4>3. Exists(doc')
        BY <2>4, <3>1, <4>1 DEF DocumentOf, Exists
      <4>4. QED  BY <2>1, <4>2, <4>3 DEF DocInv, Exists
    <3>2. CASE ~Exists(doc)
      BY <2>1, <2>6, <3>2 DEF DocInv, TokenInv, Exists
    <3>3. QED  BY <3>1, <3>2
  <2>8. QED  BY <2>1, <2>3, <2>7 DEF TokenInv
<1>9. QED  BY <1>2, <1>3, <1>4, <1>5, <1>6, <1>7, <1>8 DEF EnsureFresh

-----------------------------------------------------------------------------
(* A request starts or ends; the document is kept, cut down or deleted.    *)
LEMMA HandlerKeeps ==
    ASSUME TokenInv, NEW r \in Requests,
           \/ \E kind \in Kinds : Load(r, kind)
           \/ Answer(r) \/ DisconnectCorp(r) \/ ClearData(r)
    PROVE  TokenInv'
<1>1. /\ issued \in Nat /\ doc \in KnownDocuments(issued)
      /\ IdleRequest \in KnownRequests(issued) /\ Sound(IdleRequest, Refused)
      /\ Absent \in KnownDocuments(issued)
  BY TokensAssumption, IdleIsSound DEF TokenInv, SsoInv, DocInv, Serials
<1>2. ASSUME NEW kind \in Kinds, Load(r, kind) PROVE TokenInv'
  <2>1. RequestOf("personal", kind, doc, doc, {}) \in KnownRequests(issued)
    BY <1>1 DEF KnownRequests, RequestOf, Stages
  <2>2. Sound(RequestOf("personal", kind, doc, doc, {}), Refused)
    BY <1>2 DEF Sound, RequestOf, Load
  <2>3. QED  BY <1>2, <2>1, <2>2, QuietStep DEF Load
<1>3. CASE Answer(r)
  BY <1>1, <1>3, QuietStep DEF Answer, End
<1>4. CASE DisconnectCorp(r) \/ ClearData(r)
  <2>1. UNCHANGED <<Sso, lost>> /\ Set(r, IdleRequest)
    BY <1>4 DEF DisconnectCorp, ClearData, End
  <2>2. issued' = issued /\ Refused' = Refused /\ SsoInv'
    BY <2>1 DEF Sso, Refused, TokenInv, SsoInv
  <2>3. ReqInv'
    BY <1>1, <2>1, <2>2, SetKeeps DEF TokenInv
  <2>4. \/ doc' = doc \/ doc' = Absent
        \/ Exists(doc) /\ doc' = DocumentOf(doc.personal, NoCorporation, NoToken)
    BY <1>4 DEF DisconnectCorp, ClearData
  <2>5. DocInv'
    BY <1>1, <2>2, <2>4 DEF DocInv, TokenInv, DocumentOf, KnownDocuments, Known, Exists
  <2>6. QED  BY <2>2, <2>3, <2>5 DEF TokenInv
<1>5. QED  BY <1>2, <1>3, <1>4

(* A request dies, or loses an answer of EVE SSO.                          *)
LEMMA FailureKeeps ==
    ASSUME TokenInv, NEW r \in Requests, Abandon(r) \/ AnswerLost(r)
    PROVE  TokenInv'
<1>1. /\ issued \in Nat /\ doc \in KnownDocuments(issued)
      /\ req[r] \in KnownRequests(issued) /\ Sound(req[r], Refused)
  BY TokensAssumption DEF TokenInv, SsoInv, DocInv, ReqInv, Serials
<1>2. CASE Abandon(r)
  <2>1. UNCHANGED <<doc, Sso>> /\ Set(r, IdleRequest) /\ lost' = lost \cup (Spent(r) \cap rotated)
    BY <1>2 DEF Abandon, End
  <2>2. issued' = issued /\ Refused' = Refused /\ SsoInv'
    BY <2>1 DEF Sso, Refused, TokenInv, SsoInv
  <2>3. IdleRequest \in KnownRequests(issued') /\ Sound(IdleRequest, Refused')
    BY <1>1, <2>2, IdleIsSound
  <2>4. ReqInv'
    BY <1>1, <2>1, <2>2, <2>3, SetKeeps DEF TokenInv
  <2>5. DocInv'
    BY <2>1, <2>2 DEF DocInv, TokenInv, Exists
  <2>6. QED  BY <2>2, <2>4, <2>5 DEF TokenInv
<1>3. CASE AnswerLost(r)
  <2>1. PICK grant \in {"login", "corp"} : \E t \in Known(grant, issued) \ {NoToken} : Refresh(t)
    <3>1. CASE PersonalNeedsRefresh(r) /\ Refresh(req[r].mine.personal)
      <4>1. req[r].mine.personal \in Known("login", issued) \ {NoToken}
        BY <1>1, <3>1 DEF PersonalNeedsRefresh, At, KnownRequests, KnownDocuments, Sound, Exists
      <4>2. QED  BY <3>1, <4>1
    <3>2. CASE CorpNeedsRefresh(r) /\ Refresh(req[r].mine.corpTok)
      <4>1. req[r].mine.corpTok \in Known("corp", issued) \ {NoToken}
        BY <1>1, <3>2 DEF CorpNeedsRefresh, KnownRequests, KnownDocuments
      <4>2. QED  BY <3>2, <4>1
    <3>3. QED  BY <1>3, <3>1, <3>2 DEF AnswerLost
  <2>2. /\ issued' = issued + 1 /\ issued' \in Serials
        /\ expired' \subseteq 1 .. issued' /\ rotated' \subseteq 1 .. issued'
        /\ revoked' \subseteq 1 .. issued'
        /\ rotated \subseteq rotated' /\ Refused \subseteq Refused'
    BY <2>1, RefreshKeeps DEF TokenInv
  <2>3. /\ doc' = doc /\ Set(r, IdleRequest)
        /\ lost' = lost \cup (Spent(r) \cap rotated) \cup (rotated' \ rotated)
    BY <1>3 DEF AnswerLost, End
  <2>4. SsoInv'
    <3>1. lost \subseteq rotated
      BY DEF TokenInv, SsoInv
    <3>2. QED  BY <2>2, <2>3, <3>1 DEF SsoInv
  <2>5. IdleRequest \in KnownRequests(issued') /\ Sound(IdleRequest, Refused')
    BY <1>1, <2>2, IdleIsSound
  <2>6. ReqInv'
    BY <1>1, <2>2, <2>3, <2>5, SetKeeps DEF TokenInv
  <2>7. doc \in KnownDocuments(issued')
    BY <1>1, <2>2, KnownGrows
  <2>8. DocInv'
    BY <2>3, <2>7 DEF DocInv, TokenInv, Exists
  <2>9. QED  BY <2>4, <2>6, <2>8 DEF TokenInv
<1>4. QED  BY <1>2, <1>3

(* Time and the player.                                                    *)
LEMMA WorldKeeps ==
    ASSUME TokenInv, NEW a \in Serials, Expire(a) \/ Revoke(a)
    PROVE  TokenInv'
<1>1. /\ doc.personal \in Known("login", issued) /\ doc.corpTok \in Known("corp", issued)
      /\ issued \in Nat
  BY TokensAssumption DEF TokenInv, SsoInv, DocInv, KnownDocuments, Serials
<1>2. /\ {doc.personal.access, doc.corpTok.access} \ {0} \subseteq 1 .. issued
      /\ {doc.personal.refresh, doc.corpTok.refresh} \ {0} \subseteq 1 .. issued
  BY <1>1 DEF Known, NoToken
<1>3. /\ UNCHANGED <<doc, issued, rotated, req, lost>>
      /\ expired' \subseteq 1 .. issued /\ revoked' \subseteq 1 .. issued
      /\ Refused \subseteq Refused'
  BY <1>2 DEF Expire, Revoke, TokenInv, SsoInv, Refused
<1>4. SsoInv'
  BY <1>3 DEF SsoInv, TokenInv
<1>5. DocInv'
  BY <1>3 DEF DocInv, TokenInv, Exists
<1>6. ReqInv'
  BY <1>3 DEF ReqInv, TokenInv, Sound
<1>7. QED  BY <1>4, <1>5, <1>6 DEF TokenInv

-----------------------------------------------------------------------------
(* The invariant holds at first and every step keeps it.                   *)
THEOREM TokenInvariant == Spec => []TokenInv
<1>1. Init => TokenInv
  <2> SUFFICES ASSUME Init PROVE TokenInv
    OBVIOUS
  <2>1. issued = 0 /\ 0 \in Nat /\ issued \in Serials
    BY TokensAssumption DEF Init, Serials
  <2>2. SsoInv
    BY <2>1 DEF Init, SsoInv
  <2>3. /\ Absent \in KnownDocuments(issued) /\ IdleRequest \in KnownRequests(issued)
        /\ Sound(IdleRequest, Refused)
    BY <2>1, IdleIsSound
  <2>4. DocInv /\ ReqInv
    BY <2>3 DEF Init, DocInv, ReqInv
  <2>5. QED  BY <2>2, <2>4 DEF TokenInv
<1>2. TokenInv /\ [Next]_vars => TokenInv'
  <2> SUFFICES ASSUME TokenInv, [Next]_vars PROVE TokenInv'
    OBVIOUS
  <2>1. CASE UNCHANGED vars
    BY <2>1 DEF vars, TokenInv, SsoInv, DocInv, ReqInv, Sound, Refused, Exists
  <2>2. ASSUME NEW r \in Requests,
               \/ LoginExchange(r) \/ LoginStore(r) \/ ConnectExchange(r) \/ ConnectStore(r)
        PROVE  TokenInv'
    BY <2>2, CallbackKeeps
  <2>3. ASSUME NEW r \in Requests,
               \/ \E kind \in Kinds : Load(r, kind)
               \/ Answer(r) \/ DisconnectCorp(r) \/ ClearData(r)
        PROVE  TokenInv'
    BY <2>3, HandlerKeeps
  <2>4. ASSUME NEW r \in Requests, EnsureFresh(r) PROVE TokenInv'
    BY <2>4, EnsureFreshKeeps
  <2>5. ASSUME NEW r \in Requests, Abandon(r) \/ AnswerLost(r) PROVE TokenInv'
    BY <2>5, FailureKeeps
  <2>6. ASSUME NEW a \in Serials, Expire(a) \/ Revoke(a) PROVE TokenInv'
    BY <2>6, WorldKeeps
  <2>7. QED  BY <2>1, <2>2, <2>3, <2>4, <2>5, <2>6 DEF Next
<1>3. QED  BY <1>1, <1>2, PTL DEF Spec

(* Every variable keeps its type; the document is whole or absent.         *)
THEOREM TypeCorrect == Spec => []TypeOK
<1>1. TokenInv => TypeOK
  <2> SUFFICES ASSUME TokenInv PROVE TypeOK
    OBVIOUS
  <2>1. issued \in Nat /\ 1 .. issued \subseteq Serials \ {0}
    BY TokensAssumption DEF TokenInv, SsoInv, Serials
  <2>2. Known("login", issued) \cup Known("corp", issued) \subseteq Token \cup {NoToken}
    BY <2>1 DEF Known, Token
  <2>3. KnownDocuments(issued) \subseteq Document
    BY <2>2 DEF KnownDocuments, Document
  <2>4. KnownRequests(issued) \subseteq Request
    BY <2>3 DEF KnownRequests, Request
  <2>5. QED  BY <2>3, <2>4 DEF TokenInv, SsoInv, DocInv, ReqInv, TypeOK
<1>2. QED  BY <1>1, TokenInvariant, PTL

(* The tokens of the two grants never change places: not in the document,  *)
(* and not in a request that is refreshing them (character_tokens.py).     *)
THEOREM GrantsKept == Spec => []GrantsKeepTheirPlace
<1>1. TokenInv => GrantsKeepTheirPlace
  <2> SUFFICES ASSUME TokenInv, NEW d \in {doc} \cup {req[r].mine : r \in Requests}
               PROVE  d.personal.grant \in {"login", "none"} /\ d.corpTok.grant \in {"corp", "none"}
    BY DEF GrantsKeepTheirPlace
  <2>1. d \in KnownDocuments(issued)
    BY DEF TokenInv, DocInv, ReqInv, KnownRequests
  <2>2. d.personal \in Known("login", issued) /\ d.corpTok \in Known("corp", issued)
    BY <2>1 DEF KnownDocuments
  <2>3. QED  BY <2>2 DEF Known, NoToken
<1>2. QED  BY <1>1, TokenInvariant, PTL

(* Whoever is signed out by ensure_fresh_tokens held a personal refresh    *)
(* token that EVE SSO does not accept: no failure, and no corporation      *)
(* token, signs a character out.                                           *)
THEOREM SignedOutWasRefused == Spec => []SignedOutOnlyIfRefused
<1>1. TokenInv => SignedOutOnlyIfRefused
  BY DEF TokenInv, ReqInv, Sound, SignedOutOnlyIfRefused, At, Accepted, Refused
<1>2. QED  BY <1>1, TokenInvariant, PTL

(* A deleted document comes back through a login only: whatever requests   *)
(* were under way when clear_character_data ran, they do not restore it.   *)
THEOREM ClearedIsCleared == Spec => ClearedStaysCleared
<1> DEFINE A == ~Exists(doc) /\ Exists(doc') => \E r \in Requests : At(r, "login")
<1>1. TokenInv /\ [Next]_vars => [A]_vars
  <2> SUFFICES ASSUME TokenInv, Next, ~Exists(doc), ~\E r \in Requests : At(r, "login")
               PROVE  ~Exists(doc')
    OBVIOUS
  <2>1. \/ doc' = doc
        \/ doc' = Absent
        \/ \E r \in Requests : LoginStore(r)
    BY DEF Next, EnsureFresh, LoginExchange, ConnectExchange, ConnectStore, Load, SkipPersonal,
           RefreshPersonal, RejectPersonal, SkipCorp, RefreshCorp, RejectCorp, Persist, Answer,
           DisconnectCorp, ClearData, Abandon, AnswerLost, Expire, Revoke
  <2>2. ~\E r \in Requests : LoginStore(r)
    BY DEF LoginStore
  <2>3. QED  BY <2>1, <2>2 DEF Exists, Absent, DocumentOf
<1>2. QED  BY <1>1, TokenInvariant, PTL DEF Spec, ClearedStaysCleared

-----------------------------------------------------------------------------
(* Refresh tokens that EVE SSO replaces.  A request has the tokens it got  *)
(* to itself until it stores them, so that nobody can have had them        *)
(* replaced; and the two grants have no token in common.                   *)
Personals(d) == {d.personal.refresh} \ {0}
Corps(d) == {d.corpTok.refresh} \ {0}
Refreshes(d) == Personals(d) \cup Corps(d)

Got(q) == Refreshes(q.mine) \ Refreshes(q.read)
Seen(q) == Refreshes(q.mine) \cup Refreshes(q.read)
SpentBy(q) == {q.read[f].refresh : f \in {g \in q.dirty : q.mine[g] # NoToken}}

Documents == {doc} \cup {req[r].read : r \in Requests} \cup {req[r].mine : r \in Requests}

Apart == \A d, e \in Documents : Personals(d) \cap Corps(e) = {}

Private ==
    \A r \in Requests :
      /\ Got(req[r]) \cap (rotated \cup Refreshes(doc)) = {}
      /\ \A s \in Requests \ {r} : Got(req[r]) \cap Seen(req[s]) = {}

(* What a request has read, what it holds and what it will write.          *)
Regular(q) ==
    /\ q.at \in {"login", "connect"} => q.dirty = {} /\ q.read = Absent
    /\ q.at = "login" => q.mine.corpTok = NoToken
    /\ q.at \in {"idle", "personal", "signedout", "handler"} => q.dirty = {} /\ q.mine = q.read
    /\ q.at = "corp" => "corpTok" \notin q.dirty
    /\ q.at \in {"corp", "persist"} => \A f \in {"personal", "corpTok"} :
         IF f \in q.dirty THEN q.mine[f] = NoToken \/ q.mine[f].refresh \in Got(q)
                          ELSE q.mine[f] = q.read[f]

RotationInv ==
    /\ Apart
    /\ Private
    /\ \A r \in Requests : Regular(req[r])
    /\ StoredTokenHasSuccessor

(* All tokens there are have numbers up to `issued`.                       *)
LEMMA TokensAreKnown ==
    ASSUME TokenInv
    PROVE  /\ issued \in Nat
           /\ rotated \subseteq 1 .. issued
           /\ Refreshes(doc) \subseteq 1 .. issued
           /\ \A r \in Requests : Seen(req[r]) \subseteq 1 .. issued
<1>1. issued \in Nat /\ rotated \subseteq 1 .. issued
  BY TokensAssumption DEF TokenInv, SsoInv, Serials
<1>2. \A d \in KnownDocuments(issued) : Refreshes(d) \subseteq 1 .. issued
  BY DEF KnownDocuments, Known, NoToken, Refreshes, Personals, Corps
<1>3. doc \in KnownDocuments(issued)
  BY DEF TokenInv, DocInv
<1>4. \A r \in Requests : req[r].read \in KnownDocuments(issued) /\ req[r].mine \in KnownDocuments(issued)
  BY DEF TokenInv, ReqInv, KnownRequests
<1>5. QED  BY <1>1, <1>2, <1>3, <1>4 DEF Seen

(* What any step keeps to: request r becomes q, tokens of fp and fc are    *)
(* new, and only tokens that r has read are replaced.                      *)
Handles(r, q, fp, fc) ==
    /\ req' = [req EXCEPT ![r] = q]
    /\ Regular(q)
    /\ fp \subseteq {issued + 1} /\ fc \subseteq {issued + 1} /\ fp \cap fc = {}
    /\ Personals(doc') \cup Personals(q.read) \cup Personals(q.mine)
         \subseteq Personals(doc) \cup Personals(req[r].read) \cup Personals(req[r].mine) \cup fp
    /\ Corps(doc') \cup Corps(q.read) \cup Corps(q.mine)
         \subseteq Corps(doc) \cup Corps(req[r].read) \cup Corps(req[r].mine) \cup fc
    /\ Refreshes(doc') \subseteq Refreshes(doc) \cup Seen(req[r])
    /\ Got(q) \subseteq Got(req[r]) \cup fp \cup fc
    /\ Got(q) \cap Refreshes(doc') = {}
    /\ rotated' \subseteq rotated \cup Refreshes(req[r].read)
    /\ lost \subseteq lost'
    /\ \A m \in Refreshes(doc') \cap rotated' :
         \/ m \in SpentBy(q) \cup lost'
         \/ m \in Refreshes(doc) \cap rotated /\ m \notin SpentBy(req[r])

LEMMA RotationStep ==
    ASSUME TokenInv, RotationInv, NEW r \in Requests, NEW q, NEW fp, NEW fc, Handles(r, q, fp, fc)
    PROVE  RotationInv'
<1> USE DEF Handles
<1> DEFINE o == req[r]
           n == issued + 1
<1>1. /\ n \notin rotated /\ n \notin Refreshes(doc)
      /\ \A s \in Requests : n \notin Seen(req[s])
  BY TokensAreKnown
<1>2. \A s \in Requests : req'[s] = IF s = r THEN q ELSE req[s]
  BY DEF TokenInv, ReqInv
<1> HIDE DEF n
<1>3. fp \subseteq {n} /\ fc \subseteq {n}
  BY DEF n
<1>4. Apart'
  <2> DEFINE ps == UNION {Personals(d) : d \in Documents}
             cs == UNION {Corps(d) : d \in Documents}
  <2>1. ps \cap cs = {}
    BY DEF RotationInv, Apart
  <2>2. /\ \A s \in Requests : /\ Personals(req[s].read) \subseteq ps
                               /\ Personals(req[s].mine) \subseteq ps
                               /\ Corps(req[s].read) \subseteq cs
                               /\ Corps(req[s].mine) \subseteq cs
        /\ Personals(doc) \subseteq ps /\ Corps(doc) \subseteq cs
    BY DEF Documents
  <2>3. n \notin ps \cup cs
    <3>1. \A d \in Documents : n \notin Personals(d) \cup Corps(d)
      BY <1>1 DEF Documents, Refreshes, Seen
    <3>2. QED  BY <3>1
  <2> HIDE DEF ps, cs
  <2>4. \A d \in Documents' : \/ d = doc' \/ d = q.read \/ d = q.mine
                              \/ \E s \in Requests : d = req[s].read \/ d = req[s].mine
    BY <1>2 DEF Documents
  <2>5. \A d \in Documents' : Personals(d) \subseteq ps \cup fp /\ Corps(d) \subseteq cs \cup fc
    BY <2>2, <2>4
  <2>6. (ps \cup fp) \cap (cs \cup fc) = {}
    BY <1>3, <2>1, <2>3
  <2>7. ASSUME NEW d \in Documents', NEW e \in Documents'
        PROVE  Personals(d) \cap Corps(e) = {}
    <3>1. Personals(d) \subseteq ps \cup fp /\ Corps(e) \subseteq cs \cup fc
      BY <2>5
    <3>2. QED  BY <2>6, <3>1
  <2>8. QED  BY <2>7 DEF Apart, Personals, Corps
<1>5. ASSUME NEW s \in Requests
      PROVE  Got(req'[s]) \cap (rotated' \cup Refreshes(doc')) = {}
  <2>1. CASE s = r
    <3>1. Got(o) \cap Refreshes(o.read) = {} /\ Got(o) \cap rotated = {}
      BY DEF RotationInv, Private, Got
    <3>2. (fp \cup fc) \cap (rotated \cup Refreshes(o.read)) = {}
      BY <1>1, <1>3 DEF Seen
    <3>3. QED  BY <1>2, <2>1, <3>1, <3>2
  <2>2. CASE s # r
    <3>1. Got(req[s]) \cap (rotated \cup Refreshes(doc) \cup Seen(o)) = {}
      BY <2>2 DEF RotationInv, Private
    <3>2. Refreshes(o.read) \subseteq Seen(o)
      BY DEF Seen
    <3>3. QED  BY <1>2, <2>2, <3>1, <3>2
  <2>3. QED  BY <2>1, <2>2
<1>6. ASSUME NEW s \in Requests, NEW t \in Requests \ {s}
      PROVE  Got(req'[s]) \cap Seen(req'[t]) = {}
  <2>1. Got(req[s]) \cap Seen(req[t]) = {} /\ Got(req[s]) \cap Refreshes(doc) = {}
    BY DEF RotationInv, Private
  <2>2. CASE s = r
    <3>1. (fp \cup fc) \cap Seen(req[t]) = {}
      BY <1>1, <1>3
    <3>2. QED  BY <1>2, <2>1, <2>2, <3>1
  <2>3. CASE t = r
    <3>1. Seen(q) \subseteq Refreshes(doc) \cup Seen(o) \cup fp \cup fc
      BY DEF Seen, Refreshes
    <3>2. Got(req[s]) \cap (fp \cup fc) = {}
      BY <1>1, <1>3, ZenonT(30) DEF Got, Seen
    <3>3. QED  BY <1>2, <2>1, <2>3, <3>1, <3>2
  <2>4. CASE s # r /\ t # r
    BY <1>2, <2>1, <2>4
  <2>5. QED  BY <2>2, <2>3, <2>4
<1>7. Private'
  BY <1>5, <1>6 DEF Private
<1>8. (\A s \in Requests : Regular(req[s]))'
  BY <1>2 DEF RotationInv
<1>9. StoredTokenHasSuccessor'
  <2> SUFFICES ASSUME NEW m \in ({doc.personal.refresh, doc.corpTok.refresh} \cap rotated)'
               PROVE  (m \in lost \/ \E s \in Requests : m \in Spent(s))'
    BY DEF StoredTokenHasSuccessor
  <2>1. m # 0
    <3>1. rotated \subseteq 1 .. issued /\ 0 \notin Refreshes(req[r].read)
      BY TokensAreKnown DEF Refreshes, Personals, Corps
    <3>2. m \in rotated \cup Refreshes(req[r].read)
      OBVIOUS
    <3>3. 0 \notin 1 .. issued
      BY TokensAreKnown
    <3>4. QED  BY <3>1, <3>2, <3>3
  <2>2. m \in Refreshes(doc') /\ m \in rotated'
    BY <2>1 DEF Refreshes, Personals, Corps
  <2>3. Spent(r)' = SpentBy(q)
    BY <1>2 DEF Spent, SpentBy
  <2>4. \A s \in Requests \ {r} : Spent(s)' = Spent(s)
    BY <1>2 DEF Spent
  <2>5. CASE m \in SpentBy(q) \cup lost'
    BY <2>3, <2>5
  <2>6. CASE m \in Refreshes(doc) \cap rotated /\ m \notin SpentBy(req[r])
    <3>1. m \in {doc.personal.refresh, doc.corpTok.refresh} \cap rotated
      BY <2>6 DEF Refreshes, Personals, Corps
    <3>2. m \in lost \/ \E s \in Requests : m \in Spent(s)
      BY <3>1 DEF RotationInv, StoredTokenHasSuccessor
    <3>3. m \notin Spent(r)
      BY <2>6 DEF Spent, SpentBy
    <3>4. QED  BY <2>4, <3>2, <3>3
  <2>7. QED  BY <2>2, <2>5, <2>6
<1>10. QED  BY <1>4, <1>7, <1>8, <1>9 DEF RotationInv

(* A request that is over, or has nothing left to write, is regular.       *)
LEMMA NothingLeft ==
    ASSUME NEW kind
    PROVE  /\ Regular(IdleRequest) /\ Got(IdleRequest) = {}
           /\ Refreshes(Absent) = {} /\ Personals(Absent) = {} /\ Corps(Absent) = {}
           /\ IdleRequest.read = Absent /\ IdleRequest.mine = Absent
           /\ LET h == RequestOf("handler", kind, Absent, Absent, {})
              IN  Regular(h) /\ Got(h) = {} /\ h.read = Absent /\ h.mine = Absent
BY DEF IdleRequest, RequestOf, DocumentOf, Absent, NoToken, Regular, Got, Refreshes, Personals, Corps

LEMMA CallbackRotates ==
    ASSUME TokenInv, RotationInv, NEW r \in Requests,
           \/ LoginExchange(r) \/ LoginStore(r) \/ ConnectExchange(r) \/ ConnectStore(r)
    PROVE  RotationInv'
<1> DEFINE o == req[r]
<1>0. /\ Regular(o) /\ Got(o) \cap (rotated \cup Refreshes(doc)) = {}
      /\ Personals(Absent) = {} /\ Corps(Absent) = {} /\ Refreshes(Absent) = {}
      /\ issued \in Nat
  BY NothingLeft, TokensAreKnown DEF RotationInv, Private
<1>1. CASE LoginExchange(r)
  <2> DEFINE d == DocumentOf(Issue("login"), NoCorporation, NoToken)
             q == RequestOf("login", "page", Absent, d, {})
  <2>1. /\ req' = [req EXCEPT ![r] = q] /\ UNCHANGED <<doc, rotated, lost>> /\ o.at = "idle"
    BY <1>1 DEF LoginExchange, Exchange, Set, At
  <2>2. /\ Personals(d) = {issued + 1} /\ Corps(d) = {}
        /\ q.read = Absent /\ q.mine = d /\ q.at = "login" /\ q.dirty = {} /\ d.corpTok = NoToken
    BY <1>0 DEF DocumentOf, Issue, NoToken, Personals, Corps, RequestOf
  <2> HIDE DEF q, d
  <2>3. Regular(q) /\ Got(q) = {issued + 1}
    BY <1>0, <2>2 DEF Regular, Got, Refreshes
  <2>4. issued + 1 \notin Refreshes(doc)
    BY TokensAreKnown
  <2>5. SpentBy(o) = {}
    BY <1>0, <2>1 DEF Regular, SpentBy
  <2>6. Handles(r, q, {issued + 1}, {})
    BY <1>0, <2>1, <2>2, <2>3, <2>4, <2>5 DEF Handles, Refreshes
  <2>7. QED  BY <2>6, RotationStep
<1>2. CASE ConnectExchange(r)
  <2> DEFINE d == DocumentOf(NoToken, NoCorporation, Issue("corp"))
             q == RequestOf("connect", "page", Absent, d, {})
  <2>1. /\ req' = [req EXCEPT ![r] = q] /\ UNCHANGED <<doc, rotated, lost>> /\ o.at = "idle"
    BY <1>2 DEF ConnectExchange, Exchange, Set, At
  <2>2. /\ Personals(d) = {} /\ Corps(d) = {issued + 1}
        /\ q.read = Absent /\ q.mine = d /\ q.at = "connect" /\ q.dirty = {}
    BY <1>0 DEF DocumentOf, Issue, NoToken, Personals, Corps, RequestOf
  <2> HIDE DEF q, d
  <2>3. Regular(q) /\ Got(q) = {issued + 1}
    BY <1>0, <2>2 DEF Regular, Got, Refreshes
  <2>4. issued + 1 \notin Refreshes(doc)
    BY TokensAreKnown
  <2>5. SpentBy(o) = {}
    BY <1>0, <2>1 DEF Regular, SpentBy
  <2>6. Handles(r, q, {}, {issued + 1})
    BY <1>0, <2>1, <2>2, <2>3, <2>4, <2>5 DEF Handles, Refreshes
  <2>7. QED  BY <2>6, RotationStep
<1>3. CASE LoginStore(r)
  <2>1. /\ req' = [req EXCEPT ![r] = IdleRequest] /\ UNCHANGED <<rotated, lost>> /\ o.at = "login"
        /\ doc' = DocumentOf(o.mine.personal, NoCorporation, NoToken)
    BY <1>3 DEF LoginStore, Sso, End, Set, At
  <2>2. Personals(doc') = Personals(o.mine) /\ Corps(doc') = {}
    BY <2>1 DEF DocumentOf, NoToken, Personals, Corps
  <2>3. o.read = Absent /\ o.dirty = {}
    BY <1>0, <2>1 DEF Regular
  <2>4. Refreshes(doc') \subseteq Got(o) /\ Refreshes(doc') \subseteq Seen(o)
    BY <1>0, <2>2, <2>3 DEF Got, Refreshes, Seen
  <2>5. Refreshes(doc') \cap rotated' = {}
    BY <1>0, <2>1, <2>4
  <2>6. Handles(r, IdleRequest, {}, {})
    BY <1>0, <2>1, <2>2, <2>4, <2>5, NothingLeft DEF Handles
  <2>7. QED  BY <2>6, RotationStep
<1>4. CASE ConnectStore(r)
  <2>1. /\ req' = [req EXCEPT ![r] = IdleRequest] /\ UNCHANGED <<rotated, lost>> /\ o.at = "connect"
        /\ doc' = doc \/ doc' = DocumentOf(doc.personal, Corporation, o.mine.corpTok)
    BY <1>4 DEF ConnectStore, Sso, End, Set, At
  <2>2. Personals(doc') = Personals(doc) /\ Corps(doc') \in {Corps(doc), Corps(o.mine)}
    BY <2>1 DEF DocumentOf, Personals, Corps
  <2>3. o.read = Absent /\ o.dirty = {}
    BY <1>0, <2>1 DEF Regular
  <2>4. Refreshes(doc') \subseteq Refreshes(doc) \cup Got(o) /\ Got(o) \subseteq Seen(o)
    BY <1>0, <2>2, <2>3 DEF Got, Refreshes, Seen
  <2>5. SpentBy(o) = {}
    BY <2>3 DEF SpentBy
  <2>6. \A m \in Refreshes(doc') \cap rotated' : m \in Refreshes(doc) \cap rotated /\ m \notin SpentBy(o)
    BY <1>0, <2>1, <2>4, <2>5
  <2>7. Handles(r, IdleRequest, {}, {})
    BY <1>0, <2>1, <2>2, <2>4, <2>6, NothingLeft DEF Handles
  <2>8. QED  BY <2>7, RotationStep
<1>5. QED  BY <1>1, <1>2, <1>3, <1>4

LEMMA HandlerRotates ==
    ASSUME TokenInv, RotationInv, NEW r \in Requests,
           \/ \E kind \in Kinds : Load(r, kind)
           \/ Answer(r) \/ DisconnectCorp(r) \/ ClearData(r) \/ Abandon(r) \/ AnswerLost(r)
    PROVE  RotationInv'
<1> DEFINE o == req[r]
<1>0. /\ Regular(o) /\ Got(o) \cap (rotated \cup Refreshes(doc)) = {}
      /\ Personals(Absent) = {} /\ Corps(Absent) = {} /\ Refreshes(Absent) = {}
  BY NothingLeft DEF RotationInv, Private
<1>1. ASSUME NEW kind \in Kinds, Load(r, kind) PROVE RotationInv'
  <2> DEFINE q == RequestOf("personal", kind, doc, doc, {})
  <2>1. /\ req' = [req EXCEPT ![r] = q] /\ UNCHANGED <<doc, rotated, lost>> /\ o.at = "idle"
    BY <1>1 DEF Load, Sso, Set, At
  <2>2. q.read = doc /\ q.mine = doc /\ q.dirty = {} /\ q.at = "personal"
    BY DEF RequestOf
  <2> HIDE DEF q
  <2>3. Regular(q) /\ Got(q) = {} /\ SpentBy(o) = {}
    BY <1>0, <2>1, <2>2 DEF Regular, Got, SpentBy
  <2>4. Handles(r, q, {}, {})
    BY <1>0, <2>1, <2>2, <2>3 DEF Handles
  <2>5. QED  BY <2>4, RotationStep
<1>2. CASE Answer(r) \/ DisconnectCorp(r) \/ ClearData(r)
  <2>1. /\ req' = [req EXCEPT ![r] = IdleRequest] /\ UNCHANGED <<rotated, lost>>
        /\ o.at \in {"signedout", "handler"}
        /\ \/ doc' = doc \/ doc' = Absent
           \/ doc' = DocumentOf(doc.personal, NoCorporation, NoToken)
    BY <1>2 DEF Answer, DisconnectCorp, ClearData, Sso, End, Set, At
  <2>2. Personals(doc') \subseteq Personals(doc) /\ Corps(doc') \subseteq Corps(doc)
    BY <1>0, <2>1 DEF DocumentOf, NoToken, Personals, Corps
  <2>3. SpentBy(o) = {}
    BY <1>0, <2>1 DEF Regular, SpentBy
  <2>4. Refreshes(doc') \subseteq Refreshes(doc)
    BY <2>2 DEF Refreshes
  <2>5. Handles(r, IdleRequest, {}, {})
    BY <1>0, <2>1, <2>2, <2>3, <2>4, NothingLeft DEF Handles
  <2>6. QED  BY <2>5, RotationStep
<1>3. CASE Abandon(r)
  <2>1. /\ req' = [req EXCEPT ![r] = IdleRequest] /\ UNCHANGED <<doc, rotated>>
        /\ lost' = lost \cup (SpentBy(o) \cap rotated)
    BY <1>3 DEF Abandon, Sso, End, Set, Spent, SpentBy
  <2>2. Handles(r, IdleRequest, {}, {})
    BY <1>0, <2>1, NothingLeft DEF Handles
  <2>3. QED  BY <2>2, RotationStep
<1>4. CASE AnswerLost(r)
  <2>1. /\ req' = [req EXCEPT ![r] = IdleRequest] /\ UNCHANGED doc
        /\ lost' = lost \cup (SpentBy(o) \cap rotated) \cup (rotated' \ rotated)
    BY <1>4 DEF AnswerLost, End, Set, Spent, SpentBy
  <2>2. rotated' \subseteq rotated \cup Refreshes(o.read)
    <3>1. CASE PersonalNeedsRefresh(r) /\ Refresh(o.mine.personal)
      <4>1. o.mine = o.read
        BY <1>0, <3>1 DEF PersonalNeedsRefresh, At, Regular
      <4>2. o.mine.personal.refresh # 0
        BY <3>1 DEF TokenInv, ReqInv, KnownRequests, KnownDocuments, Sound, Known, PersonalNeedsRefresh, At,
                     Exists, NoToken
      <4>3. QED  BY <3>1, <4>1, <4>2 DEF Refresh, Refreshes, Personals
    <3>2. CASE CorpNeedsRefresh(r) /\ Refresh(o.mine.corpTok)
      <4>1. o.mine.corpTok = o.read.corpTok
        BY <1>0, <3>2 DEF CorpNeedsRefresh, At, Regular
      <4>2. o.mine.corpTok.refresh # 0
        BY <3>2 DEF TokenInv, ReqInv, KnownRequests, KnownDocuments, Known, CorpNeedsRefresh, NoToken
      <4>3. QED  BY <3>2, <4>1, <4>2 DEF Refresh, Refreshes, Corps
    <3>3. QED  BY <1>4, <3>1, <3>2 DEF AnswerLost
  <2>3. Handles(r, IdleRequest, {}, {})
    BY <1>0, <2>1, <2>2, NothingLeft DEF Handles
  <2>4. QED  BY <2>3, RotationStep
<1>5. QED  BY <1>1, <1>2, <1>3, <1>4

(* The checks and refreshes of ensure_fresh_tokens, which leave the        *)
(* document alone.                                                         *)
LEMMA RefreshRotates ==
    ASSUME Rotates, TokenInv, RotationInv, NEW r \in Requests,
           \/ SkipPersonal(r) \/ RefreshPersonal(r) \/ RejectPersonal(r)
           \/ SkipCorp(r) \/ RefreshCorp(r) \/ RejectCorp(r)
    PROVE  RotationInv'
<1> DEFINE o == req[r]
           n == issued + 1
<1>0. /\ Regular(o) /\ Got(o) \cap (rotated \cup Refreshes(doc)) = {} /\ UNCHANGED doc
      /\ n \notin rotated \cup Refreshes(doc) \cup Seen(o) /\ n # 0 /\ NoToken.refresh = 0
      /\ o.dirty \subseteq {"personal", "corpTok"}
  <2>1. UNCHANGED doc
    BY DEF SkipPersonal, RefreshPersonal, RejectPersonal, SkipCorp, RefreshCorp, RejectCorp
  <2>2. n \notin rotated \cup Refreshes(doc) \cup Seen(o) /\ n # 0
    BY TokensAreKnown
  <2>3. o.dirty \subseteq {"personal", "corpTok"}
    BY DEF TokenInv, ReqInv, KnownRequests
  <2>4. QED  BY <2>1, <2>2, <2>3 DEF RotationInv, Private, NoToken
<1>1. CASE SkipPersonal(r) \/ RejectPersonal(r) \/ SkipCorp(r)
  <2>1. PICK stage \in {"corp", "signedout", "persist"} :
          /\ req' = [req EXCEPT ![r] = RequestOf(stage, o.kind, o.read, o.mine, o.dirty)]
          /\ UNCHANGED <<rotated, lost>>
          /\ \/ o.at = "personal" /\ stage \in {"corp", "signedout"}
             \/ o.at = "corp" /\ stage = "persist"
    BY <1>1 DEF SkipPersonal, RejectPersonal, SkipCorp, PersonalNeedsRefresh, GoOn, Set, At, Sso
  <2> DEFINE q == RequestOf(stage, o.kind, o.read, o.mine, o.dirty)
  <2>2. q.at = stage /\ q.read = o.read /\ q.mine = o.mine /\ q.dirty = o.dirty
    BY DEF RequestOf
  <2>3. req' = [req EXCEPT ![r] = q]
    BY <2>1
  <2> HIDE DEF q
  <2>4. Got(q) = Got(o) /\ SpentBy(q) = SpentBy(o)
    BY <2>2 DEF Got, SpentBy
  <2>5. Regular(q)
    <3>1. CASE o.at = "personal"
      <4>1. q.dirty = {} /\ q.mine = q.read /\ q.at \in {"corp", "signedout"}
        BY <1>0, <2>1, <2>2, <3>1 DEF Regular
      <4>2. QED  BY <4>1 DEF Regular
    <3>2. CASE o.at = "corp"
      BY <1>0, <2>1, <2>2, <2>4, <3>2 DEF Regular
    <3>3. QED  BY <2>1, <3>1, <3>2
  <2>6. Handles(r, q, {}, {})
    BY <1>0, <2>1, <2>2, <2>3, <2>4, <2>5 DEF Handles
  <2>7. QED  BY <2>6, RotationStep
<1>2. CASE RefreshPersonal(r)
  <2> DEFINE t == Refreshed(o.mine.personal)
             d == DocumentOf(t, o.mine.corporation, o.mine.corpTok)
             q == RequestOf("corp", o.kind, o.read, d, {"personal"})
  <2>1. /\ req' = [req EXCEPT ![r] = q] /\ UNCHANGED lost
        /\ o.at = "personal" /\ rotated' = rotated \cup {o.mine.personal.refresh}
    BY <1>2 DEF RefreshPersonal, PersonalNeedsRefresh, Refresh, WithPersonal, Set, At
  <2>2. o.mine = o.read /\ o.dirty = {}
    BY <1>0, <2>1 DEF Regular
  <2>3. o.mine.personal.refresh # 0
    BY <2>1 DEF TokenInv, ReqInv, KnownRequests, KnownDocuments, Sound, Known, Exists, NoToken
  <2>4. t.refresh = n
    BY DEF Refreshed
  <2>5. /\ Personals(d) = {n} /\ Corps(d) = Corps(o.read) /\ d.personal = t /\ d.corpTok = o.read.corpTok
    BY <1>0, <2>2, <2>4 DEF DocumentOf, Personals, Corps
  <2>6. q.at = "corp" /\ q.read = o.read /\ q.mine = d /\ q.dirty = {"personal"}
    BY DEF RequestOf
  <2> HIDE DEF q, d, t, n
  <2>7. Got(q) = {n}
    BY <1>0, <2>5, <2>6 DEF Got, Refreshes, Seen
  <2>8. Regular(q)
    BY <2>4, <2>5, <2>6, <2>7 DEF Regular
  <2>9. t # NoToken
    BY <1>0, <2>4
  <2>10. SpentBy(q) = {o.read.personal.refresh} /\ SpentBy(o) = {}
    BY <2>2, <2>5, <2>6, <2>9 DEF SpentBy
  <2>11. rotated' \subseteq rotated \cup Refreshes(o.read)
    BY <2>1, <2>2, <2>3 DEF Refreshes, Personals
  <2>12. \A m \in Refreshes(doc') \cap rotated' :
           m \in SpentBy(q) \/ (m \in Refreshes(doc) \cap rotated /\ m \notin SpentBy(o))
    BY <1>0, <2>1, <2>2, <2>10
  <2>13. n = issued + 1
    BY DEF n
  <2>14. Got(q) \cap Refreshes(doc') = {}
    BY <1>0, <2>7
  <2>15. Handles(r, q, {n}, {})
    BY <1>0, <2>1, <2>5, <2>6, <2>7, <2>8, <2>11, <2>12, <2>13, <2>14 DEF Handles
  <2>16. QED  BY <2>15, RotationStep
<1>3. CASE RefreshCorp(r) \/ RejectCorp(r)
  <2>1. PICK t : /\ req' = [req EXCEPT ![r] = WithCorp(r, t)] /\ UNCHANGED lost /\ o.at = "corp"
                 /\ \/ t.refresh = n /\ rotated' = rotated \cup {o.mine.corpTok.refresh}
                    \/ t = NoToken /\ rotated' = rotated
    BY <1>3 DEF RefreshCorp, RejectCorp, CorpNeedsRefresh, Refresh, Refreshed, Set, At, Sso
  <2> DEFINE d == DocumentOf(o.mine.personal, o.mine.corporation, t)
             q == RequestOf("persist", o.kind, o.read, d, o.dirty \cup {"corpTok"})
             new == {t.refresh} \ {0}
  <2>2. req' = [req EXCEPT ![r] = q]
    BY <2>1 DEF WithCorp
  <2>3. o.mine.corpTok = o.read.corpTok /\ "corpTok" \notin o.dirty
    BY <1>0, <2>1 DEF Regular
  <2>4. o.mine.corpTok.refresh # 0
    BY <1>3 DEF TokenInv, ReqInv, KnownRequests, KnownDocuments, Known, RefreshCorp, RejectCorp,
                CorpNeedsRefresh, NoToken
  <2>5. /\ Personals(d) = Personals(o.mine) /\ Corps(d) = new
        /\ d.personal = o.mine.personal /\ d.corpTok = t
    BY DEF DocumentOf, Personals, Corps
  <2>6. q.at = "persist" /\ q.read = o.read /\ q.mine = d /\ q.dirty = o.dirty \cup {"corpTok"}
    BY DEF RequestOf
  <2>7. new \subseteq {n}
    BY <1>0, <2>1
  <2> HIDE DEF q, d, n, new
  <2>8. Got(q) \subseteq Got(o) \cup new
    BY <2>5, <2>6 DEF Got, Refreshes
  <2>9. Regular(q)
    <3>1. new \subseteq Got(q)
      BY <1>0, <2>5, <2>6, <2>7 DEF Got, Refreshes, Seen
    <3>2. t = NoToken \/ t.refresh \in Got(q)
      BY <1>0, <2>1, <3>1 DEF new
    <3>3. IF "personal" \in q.dirty THEN q.mine.personal = NoToken \/ q.mine.personal.refresh \in Got(q)
                                    ELSE q.mine.personal = q.read.personal
      <4>1. IF "personal" \in o.dirty THEN o.mine.personal = NoToken \/ o.mine.personal.refresh \in Got(o)
                                      ELSE o.mine.personal = o.read.personal
        BY <1>0, <2>1 DEF Regular
      <4>2. o.mine.personal.refresh \in Got(o) => o.mine.personal.refresh \in Got(q)
        <5>1. o.mine.personal.refresh \in Got(o) => o.mine.personal.refresh \in Personals(o.mine)
          BY DEF Got, Refreshes, Personals, Corps
        <5>2. Personals(q.mine) = Personals(o.mine) /\ q.read = o.read
          BY <2>5, <2>6
        <5>3. QED  BY <5>1, <5>2 DEF Got, Refreshes
      <4>3. QED  BY <2>5, <2>6, <4>1, <4>2
    <3>4. QED  BY <2>5, <2>6, <3>2, <3>3 DEF Regular
  <2>10. SpentBy(o) \subseteq SpentBy(q)
    BY <1>0, <2>3, <2>5, <2>6 DEF SpentBy
  <2>11. CASE t = NoToken
    <3>1. SpentBy(q) = SpentBy(o)
      <4>1. ASSUME NEW f \in {g \in q.dirty : q.mine[g] # NoToken}
            PROVE  f \in {g \in o.dirty : o.mine[g] # NoToken}
        BY <1>0, <2>5, <2>6, <2>11
      <4>2. QED  BY <2>6, <2>10, <4>1 DEF SpentBy
    <3>2. new = {} /\ rotated' = rotated
      BY <1>0, <2>1, <2>11 DEF new
    <3>3. Got(q) \cap Refreshes(doc') = {} /\ Got(q) \subseteq Got(o)
      BY <1>0, <2>8, <3>2
    <3>4. Handles(r, q, {}, {})
      BY <1>0, <2>1, <2>2, <2>5, <2>6, <2>9, <3>1, <3>2, <3>3 DEF Handles
    <3>5. QED  BY <3>4, RotationStep
  <2>12. CASE t.refresh = n /\ rotated' = rotated \cup {o.mine.corpTok.refresh}
    <3>1. t # NoToken
      BY <1>0, <2>12
    <3>2. o.read.corpTok.refresh \in SpentBy(q)
      BY <2>5, <2>6, <3>1 DEF SpentBy
    <3>3. \A m \in Refreshes(doc') \cap rotated' :
            m \in SpentBy(q) \/ (m \in Refreshes(doc) \cap rotated /\ m \notin SpentBy(o))
      BY <1>0, <2>3, <2>10, <2>12, <3>2
    <3>4. rotated' \subseteq rotated \cup Refreshes(o.read)
      BY <2>3, <2>4, <2>12 DEF Refreshes, Corps
    <3>5. Got(q) \cap Refreshes(doc') = {} /\ Got(q) \subseteq Got(o) \cup {n}
      BY <1>0, <2>7, <2>8
    <3>6. n = issued + 1
      BY DEF n
    <3>7. Handles(r, q, {}, {n})
      BY <1>0, <2>1, <2>2, <2>5, <2>6, <2>7, <2>9, <3>3, <3>4, <3>5, <3>6 DEF Handles
    <3>8. QED  BY <3>7, RotationStep
  <2>13. QED  BY <2>1, <2>11, <2>12
<1>4. QED  BY <1>1, <1>2, <1>3

(* What Persist writes is what the request got for itself; what it leaves  *)
(* in the document is of the other grant, and not what it had replaced.    *)
LEMMA PersistRotates ==
    ASSUME TokenInv, RotationInv, NEW r \in Requests, Persist(r)
    PROVE  RotationInv'
<1> DEFINE o == req[r]
           q == RequestOf("handler", o.kind, Absent, Absent, {})
<1>1. /\ req' = [req EXCEPT ![r] = q] /\ UNCHANGED <<rotated, lost>> /\ o.at = "persist"
      /\ doc' = IF Exists(doc) THEN Persisted(r) ELSE doc
  BY DEF Persist, Set, At, Sso
<1>2. /\ Regular(o) /\ Got(o) \cap (rotated \cup Refreshes(doc)) = {}
      /\ o.dirty \subseteq {"personal", "corpTok"}
  BY DEF RotationInv, Private, TokenInv, ReqInv, KnownRequests
<1>3. /\ Regular(q) /\ Got(q) = {} /\ q.read = Absent /\ q.mine = Absent
      /\ Personals(Absent) = {} /\ Corps(Absent) = {}
  BY NothingLeft
<1>4. /\ doc'.personal \in {doc.personal} \/ ("personal" \in o.dirty /\ doc'.personal = o.mine.personal)
      /\ doc'.corpTok \in {doc.corpTok} \/ ("corpTok" \in o.dirty /\ doc'.corpTok = o.mine.corpTok)
      /\ Exists(doc) => /\ "personal" \in o.dirty => doc'.personal = o.mine.personal
                        /\ "corpTok" \in o.dirty => doc'.corpTok = o.mine.corpTok
  BY <1>1 DEF Persisted, Updated, DocumentOf
<1> HIDE DEF q
<1>5. /\ Personals(doc') \subseteq Personals(doc) \cup Personals(o.mine)
      /\ Corps(doc') \subseteq Corps(doc) \cup Corps(o.mine)
  BY <1>4 DEF Personals, Corps
<1>6. Refreshes(doc') \subseteq Refreshes(doc) \cup Seen(o)
  BY <1>5 DEF Refreshes, Seen
<1>7. ASSUME NEW m \in Refreshes(doc') \cap rotated'
      PROVE  m \in Refreshes(doc) \cap rotated /\ m \notin SpentBy(o)
  <2>1. m # 0 /\ m \in rotated /\ m \notin Got(o) /\ Exists(doc)
    <3>1. m # 0 /\ m \in rotated /\ m \notin Got(o)
      BY <1>1, <1>2 DEF Refreshes, Personals, Corps
    <3>2. ~Exists(doc) => Refreshes(doc') = {}
      BY <1>1, <1>3 DEF TokenInv, DocInv, Refreshes
    <3>3. QED  BY <3>1, <3>2
  <2>2. ASSUME NEW f \in {"personal", "corpTok"}, f \in o.dirty
        PROVE  o.mine[f].refresh # m
    BY <1>1, <1>2, <2>1, <2>2 DEF Regular, NoToken
  <2>3. /\ "personal" \in o.dirty => doc'.personal.refresh # m
        /\ "corpTok" \in o.dirty => doc'.corpTok.refresh # m
    BY <1>4, <2>1, <2>2
  <2>4. m \in {doc'.personal.refresh, doc'.corpTok.refresh}
    BY DEF Refreshes, Personals, Corps
  <2>5. doc \in Documents /\ o.read \in Documents
    BY DEF Documents
  <2>6. CASE m = doc'.personal.refresh /\ "personal" \notin o.dirty
    <3>1. m \in Personals(doc)
      BY <1>4, <2>1, <2>6 DEF Personals
    <3>2. m \notin Corps(o.read)
      BY <2>5, <3>1 DEF RotationInv, Apart
    <3>3. m # o.read.corpTok.refresh
      BY <2>1, <3>2 DEF Corps
    <3>4. QED  BY <1>2, <2>1, <2>6, <3>1, <3>3 DEF SpentBy, Refreshes
  <2>7. CASE m = doc'.corpTok.refresh /\ "corpTok" \notin o.dirty
    <3>1. m \in Corps(doc)
      BY <1>4, <2>1, <2>7 DEF Corps
    <3>2. m \notin Personals(o.read)
      BY <2>5, <3>1 DEF RotationInv, Apart
    <3>3. m # o.read.personal.refresh
      BY <2>1, <3>2 DEF Personals
    <3>4. QED  BY <1>2, <2>1, <2>7, <3>1, <3>3 DEF SpentBy, Refreshes
  <2>8. QED  BY <2>3, <2>4, <2>6, <2>7
<1>8. Handles(r, q, {}, {})
  BY <1>1, <1>3, <1>5, <1>6, <1>7 DEF Handles
<1>9. QED  BY <1>8, RotationStep

(* Where a stored refresh token has been replaced, its successor is with a *)
(* request that is on its way to the update_one of ensure_fresh_tokens, or *)
(* was lost with one: no interleaving of refreshes, logins, connections    *)
(* and deletions leaves a dead token in the document by itself.  If EVE    *)
(* SSO replaces no token there is nothing to show.                         *)
THEOREM SuccessorIsStored == Spec => []StoredTokenHasSuccessor
<1> DEFINE Inv == (Rotates => RotationInv) /\ (~Rotates => rotated = {})
<1>1. Init => Inv
  <2> SUFFICES ASSUME Init PROVE Inv
    OBVIOUS
  <2>1. \A r \in Requests : req[r] = IdleRequest
    BY DEF Init
  <2>2. \A d \in Documents : Personals(d) = {} /\ Corps(d) = {}
    BY <2>1, NothingLeft DEF Init, Documents
  <2>3. QED  BY <2>1, <2>2, NothingLeft DEF Init, RotationInv, Apart, Private, StoredTokenHasSuccessor
<1>2. TokenInv /\ Inv /\ [Next]_vars => Inv'
  <2> SUFFICES ASSUME TokenInv, Inv, [Next]_vars PROVE Inv'
    OBVIOUS
  <2>1. CASE ~Rotates
    <3>1. rotated' = {}
      BY <2>1 DEF Next, EnsureFresh, LoginExchange, LoginStore, ConnectExchange, ConnectStore, Load, SkipPersonal,
           RefreshPersonal, RejectPersonal, SkipCorp, RefreshCorp, RejectCorp, Persist, Answer, DisconnectCorp,
           ClearData, Abandon, AnswerLost, Expire, Revoke, Sso, Exchange, Refresh, vars
    <3>2. QED  BY <2>1, <3>1
  <2>2. CASE Rotates
    <3>1. ASSUME UNCHANGED <<doc, rotated, req, lost>> PROVE RotationInv'
      BY <2>2, <3>1 DEF RotationInv, Apart, Private, Documents, StoredTokenHasSuccessor, Spent
    <3>2. CASE UNCHANGED vars
      BY <2>2, <3>1, <3>2 DEF vars
    <3>3. ASSUME NEW a \in Serials, Expire(a) \/ Revoke(a) PROVE RotationInv'
      BY <3>1, <3>3 DEF Expire, Revoke
    <3>4. ASSUME NEW r \in Requests,
                 \/ LoginExchange(r) \/ LoginStore(r) \/ ConnectExchange(r) \/ ConnectStore(r)
          PROVE  RotationInv'
      BY <2>2, <3>4, CallbackRotates
    <3>5. ASSUME NEW r \in Requests,
                 \/ \E kind \in Kinds : Load(r, kind)
                 \/ Answer(r) \/ DisconnectCorp(r) \/ ClearData(r) \/ Abandon(r) \/ AnswerLost(r)
          PROVE  RotationInv'
      BY <2>2, <3>5, HandlerRotates
    <3>6. ASSUME NEW r \in Requests, EnsureFresh(r) PROVE RotationInv'
      BY <2>2, <3>6, RefreshRotates, PersistRotates DEF EnsureFresh
    <3>7. QED  BY <2>2, <3>2, <3>3, <3>4, <3>5, <3>6 DEF Next
  <2>3. QED  BY <2>1, <2>2
<1>3. Inv => StoredTokenHasSuccessor
  BY DEF RotationInv, StoredTokenHasSuccessor
<1>4. QED  BY <1>1, <1>2, <1>3, TokenInvariant, PTL DEF Spec
=============================================================================
