-------------------------- MODULE CharacterTokens --------------------------
(***************************************************************************)
(* One character's document in `characters`, and the tokens in it: sign-in *)
(* and corporation connection (app/routes/auth.py), the refresh that every *)
(* signed-in request and every worker job goes through before it does      *)
(* anything else (app/deps.py, app/services/character_tokens.py), and the  *)
(* deletion of the document (app/services/character_data.py).              *)
(*                                                                         *)
(* A request reads the document once, talks to EVE SSO, and writes what it *)
(* got later: requests of several browsers, pods and workers overlap.      *)
(* Requests that are refused before they change anything (no session, no   *)
(* document, not on the whitelist) are left out.                           *)
(*                                                                         *)
(* External: a refresh at EVE SSO answers with an access token and the     *)
(* refresh token to use from then on, which the code stores; with Rotates  *)
(* it is a new one and the old one is not accepted any more.               *)
(***************************************************************************)
EXTENDS Integers, FiniteSets

CONSTANTS
    Requests,           \* bound: requests and jobs under way
    Corporation,        \* the character's corporation, as ESI tells it
    NoCorporation,
    Rotates,            \* whether EVE SSO replaces a refresh token when it is used
    MaxTokens           \* bound: answers with tokens from EVE SSO

ASSUME TokensAssumption ==
    /\ Corporation # NoCorporation
    /\ Rotates \in BOOLEAN
    /\ MaxTokens \in Nat

VARIABLES
    doc,                \* the character's document
    issued,             \* tokens issued so far are numbered 1 .. issued
    expired,            \* access tokens past their access_token_expires_at
    rotated,            \* refresh tokens that EVE SSO has replaced
    revoked,            \* refresh tokens that the player has revoked
    req,                \* the requests under way
    lost                \* history: replaced tokens whose successor nobody stored

vars == <<doc, issued, expired, rotated, revoked, req, lost>>

-----------------------------------------------------------------------------
(* What comes and goes together is one token: the access token, its expiry *)
(* and scopes, and the refresh token.  `grant` is the OAuth grant it stems *)
(* from: the base login or "connect corporation data".                     *)
Serials == 0 .. MaxTokens
Token == [grant : {"login", "corp"}, access : Serials \ {0}, refresh : Serials \ {0}]
NoToken == [grant |-> "none", access |-> 0, refresh |-> 0]

(* corporation_id, and the corp_* fields: corpTok # NoToken is the         *)
(* connected flag (corp_refresh_token is not None).                        *)
Document ==
    [personal : Token \cup {NoToken}, corporation : {Corporation, NoCorporation},
     corpTok : Token \cup {NoToken}]
DocumentOf(personal, corporation, corpTok) ==
    [personal |-> personal, corporation |-> corporation, corpTok |-> corpTok]
Absent == DocumentOf(NoToken, NoCorporation, NoToken)
Exists(d) == d.personal # NoToken

(* The routes that a request may be for.  "page" is every page, and every  *)
(* job of tracked_info.py.                                                 *)
Kinds == {"page", "disconnect", "clear"}
Stages == {"idle", "login", "connect", "personal", "corp", "persist", "handler", "signedout"}

(* read: the document as it was read; mine: `document`, updated in place;  *)
(* dirty: what `updates` holds.                                            *)
Request ==
    [at : Stages, kind : Kinds, read : Document, mine : Document,
     dirty : SUBSET {"personal", "corpTok"}]
RequestOf(at, kind, read, mine, dirty) ==
    [at |-> at, kind |-> kind, read |-> read, mine |-> mine, dirty |-> dirty]
IdleRequest == RequestOf("idle", "page", Absent, Absent, {})

TypeOK ==
    /\ doc \in Document
    /\ Exists(doc) \/ doc = Absent
    /\ issued \in Serials
    /\ expired \subseteq 1 .. issued
    /\ rotated \subseteq 1 .. issued
    /\ revoked \subseteq 1 .. issued
    /\ req \in [Requests -> Request]
    /\ lost \subseteq rotated

Init ==
    /\ doc = Absent
    /\ issued = 0
    /\ expired = {} /\ rotated = {} /\ revoked = {} /\ lost = {}
    /\ req = [r \in Requests |-> IdleRequest]

At(r, stage) == req[r].at = stage
Set(r, value) == req' = [req EXCEPT ![r] = value]
End(r) == Set(r, IdleRequest)
GoOn(r, stage) ==
    Set(r, RequestOf(stage, req[r].kind, req[r].read, req[r].mine, req[r].dirty))
Sso == <<issued, expired, rotated, revoked>>

-----------------------------------------------------------------------------
(* EVE SSO.                                                                *)

(* The exchange of a code: a token of a new grant.                         *)
Issue(grant) == [grant |-> grant, access |-> issued + 1, refresh |-> issued + 1]
Exchange ==
    /\ issued < MaxTokens
    /\ issued' = issued + 1
    /\ UNCHANGED <<expired, rotated, revoked>>

Accepted(t) == t.refresh \notin rotated \cup revoked

(* The answer to a refresh with token t.                                   *)
Refreshed(t) ==
    [grant |-> t.grant, access |-> issued + 1,
     refresh |-> IF Rotates THEN issued + 1 ELSE t.refresh]
Refresh(t) ==
    /\ Accepted(t)
    /\ issued < MaxTokens
    /\ issued' = issued + 1
    /\ rotated' = IF Rotates THEN rotated \cup {t.refresh} ELSE rotated
    /\ UNCHANGED <<expired, revoked>>

(* Time passes an access token's expiry.                                   *)
Expire(a) ==
    /\ a \in {doc.personal.access, doc.corpTok.access} \ ({0} \cup expired)
    /\ expired' = expired \cup {a}
    /\ UNCHANGED <<doc, issued, rotated, revoked, req, lost>>

(* The player withdraws the authorization, or is not in the role any more. *)
Revoke(m) ==
    /\ m \in {doc.personal.refresh, doc.corpTok.refresh} \ ({0} \cup revoked)
    /\ revoked' = revoked \cup {m}
    /\ UNCHANGED <<doc, issued, expired, rotated, req, lost>>

-----------------------------------------------------------------------------
(* /auth/callback for a login: the code is exchanged, ...                  *)
LoginExchange(r) ==
    /\ At(r, "idle")
    /\ Exchange
    /\ Set(r, RequestOf("login", "page", Absent,
                        DocumentOf(Issue("login"), NoCorporation, NoToken), {}))
    /\ UNCHANGED <<doc, lost>>

(* ... and, three calls later, the whole document is upserted: the corp_*  *)
(* fields of a new CharacterDocument are None.                             *)
LoginStore(r) ==
    /\ At(r, "login")
    /\ doc' = DocumentOf(req[r].mine.personal, NoCorporation, NoToken)
    /\ End(r)
    /\ UNCHANGED <<Sso, lost>>

(* /auth/callback for a corporation: needs a session, not the document.    *)
ConnectExchange(r) ==
    /\ At(r, "idle")
    /\ Exchange
    /\ Set(r, RequestOf("connect", "page", Absent,
                        DocumentOf(NoToken, NoCorporation, Issue("corp")), {}))
    /\ UNCHANGED <<doc, lost>>

(* A definition whose name ends in _Something is a plausible slip in the   *)
(* definition that follows it; the properties are shown to catch them.     *)
ConnectStore_Upsert(r) ==
    /\ At(r, "connect")
    /\ doc' = DocumentOf(doc.personal, Corporation, req[r].mine.corpTok)
    /\ End(r)
    /\ UNCHANGED <<Sso, lost>>

ConnectStore(r) ==
    /\ At(r, "connect")
    /\ doc' = IF Exists(doc)
              THEN DocumentOf(doc.personal, Corporation, req[r].mine.corpTok)
              ELSE doc
    /\ End(r)
    /\ UNCHANGED <<Sso, lost>>

-----------------------------------------------------------------------------
(* get_current_character and run_refresh_job: read the document, then      *)
(* ensure_fresh_tokens.                                                    *)
Load(r, kind) ==
    /\ At(r, "idle")
    /\ Exists(doc)
    /\ Set(r, RequestOf("personal", kind, doc, doc, {}))
    /\ UNCHANGED <<doc, Sso, lost>>

PersonalNeedsRefresh(r) ==
    At(r, "personal") /\ req[r].mine.personal.access \in expired

SkipPersonal(r) ==
    /\ At(r, "personal")
    /\ ~PersonalNeedsRefresh(r)
    /\ GoOn(r, "corp")
    /\ UNCHANGED <<doc, Sso, lost>>

(* `document` and `updates` with a new token.                              *)
WithPersonal(r, t) ==
    RequestOf("corp", req[r].kind, req[r].read,
              DocumentOf(t, req[r].mine.corporation, req[r].mine.corpTok), {"personal"})

RefreshPersonal_KeepsOld(r) ==
    /\ PersonalNeedsRefresh(r)
    /\ Refresh(req[r].mine.personal)
    /\ Set(r, WithPersonal(r, [Refreshed(req[r].mine.personal) EXCEPT !.refresh =
                              req[r].mine.personal.refresh]))
    /\ UNCHANGED <<doc, lost>>

RefreshPersonal(r) ==
    /\ PersonalNeedsRefresh(r)
    /\ Refresh(req[r].mine.personal)
    /\ Set(r, WithPersonal(r, Refreshed(req[r].mine.personal)))
    /\ UNCHANGED <<doc, lost>>

(* 400 or 401: None, the session is dropped (deps.py) or the job skipped.  *)
RejectPersonal_AnyError(r) ==
    /\ PersonalNeedsRefresh(r)
    /\ GoOn(r, "signedout")
    /\ UNCHANGED <<doc, Sso, lost>>

RejectPersonal(r) ==
    /\ PersonalNeedsRefresh(r)
    /\ ~Accepted(req[r].mine.personal)
    /\ GoOn(r, "signedout")
    /\ UNCHANGED <<doc, Sso, lost>>

CorpNeedsRefresh(r) ==
    /\ At(r, "corp")
    /\ req[r].mine.corpTok # NoToken
    /\ req[r].mine.corpTok.access \in expired

SkipCorp(r) ==
    /\ At(r, "corp")
    /\ ~CorpNeedsRefresh(r)
    /\ GoOn(r, "persist")
    /\ UNCHANGED <<doc, Sso, lost>>

WithCorp(r, t) ==
    RequestOf("persist", req[r].kind, req[r].read,
              DocumentOf(req[r].mine.personal, req[r].mine.corporation, t),
              req[r].dirty \cup {"corpTok"})

RefreshCorp_WithPersonal(r) ==
    /\ CorpNeedsRefresh(r)
    /\ Refresh(req[r].mine.personal)
    /\ Set(r, WithCorp(r, Refreshed(req[r].mine.personal)))
    /\ UNCHANGED <<doc, lost>>

RefreshCorp(r) ==
    /\ CorpNeedsRefresh(r)
    /\ Refresh(req[r].mine.corpTok)
    /\ Set(r, WithCorp(r, Refreshed(req[r].mine.corpTok)))
    /\ UNCHANGED <<doc, lost>>

(* 400 or 401 for the corporation: four of its five fields are cleared.    *)
RejectCorp(r) ==
    /\ CorpNeedsRefresh(r)
    /\ ~Accepted(req[r].mine.corpTok)
    /\ Set(r, WithCorp(r, NoToken))
    /\ UNCHANGED <<doc, Sso, lost>>

(* update_one with what was refreshed, no upsert.  From here on the        *)
(* handler only uses the tokens; nothing of them is written any more.      *)
Updated(r, f) == IF f \in req[r].dirty THEN req[r].mine[f] ELSE doc[f]
Persisted(r) ==
    DocumentOf(Updated(r, "personal"), doc.corporation, Updated(r, "corpTok"))

Persist_Upsert(r) ==
    /\ At(r, "persist")
    /\ doc' = IF req[r].dirty # {} THEN Persisted(r) ELSE doc
    /\ Set(r, RequestOf("handler", req[r].kind, Absent, Absent, {}))
    /\ UNCHANGED <<Sso, lost>>

Persist(r) ==
    /\ At(r, "persist")
    /\ doc' = IF Exists(doc) THEN Persisted(r) ELSE doc
    /\ Set(r, RequestOf("handler", req[r].kind, Absent, Absent, {}))
    /\ UNCHANGED <<Sso, lost>>

-----------------------------------------------------------------------------
(* The handlers that follow.                                               *)

(* A page or a job reads no more of the document; a signed-out request     *)
(* answers.                                                                *)
Answer(r) ==
    /\ At(r, "signedout") \/ (At(r, "handler") /\ req[r].kind = "page")
    /\ End(r)
    /\ UNCHANGED <<doc, Sso, lost>>

(* $unset of the five fields.                                              *)
DisconnectCorp(r) ==
    /\ At(r, "handler") /\ req[r].kind = "disconnect"
    /\ doc' = IF Exists(doc)
              THEN DocumentOf(doc.personal, NoCorporation, NoToken)
              ELSE doc
    /\ End(r)
    /\ UNCHANGED <<Sso, lost>>

(* delete_one, after the cached data of EsiCache.                          *)
ClearData(r) ==
    /\ At(r, "handler") /\ req[r].kind = "clear"
    /\ doc' = Absent
    /\ End(r)
    /\ UNCHANGED <<Sso, lost>>

(* The tokens that r has had replaced and not stored yet.                  *)
Spent(r) ==
    {req[r].read[f].refresh : f \in {g \in req[r].dirty : req[r].mine[g] # NoToken}}

(* A request dies: an exception from EVE SSO or ESI (any status but 400    *)
(* and 401), a failed validation, the end of the pod.                      *)
Abandon(r) ==
    /\ ~At(r, "idle")
    /\ End(r)
    /\ lost' = lost \cup (Spent(r) \cap rotated)
    /\ UNCHANGED <<doc, Sso>>

(* EVE SSO has refreshed, its answer does not arrive.                      *)
AnswerLost(r) ==
    /\ \/ PersonalNeedsRefresh(r) /\ Refresh(req[r].mine.personal)
       \/ CorpNeedsRefresh(r) /\ Refresh(req[r].mine.corpTok)
    /\ End(r)
    /\ lost' = lost \cup (Spent(r) \cap rotated) \cup (rotated' \ rotated)
    /\ UNCHANGED doc

-----------------------------------------------------------------------------
EnsureFresh(r) ==
    \/ SkipPersonal(r) \/ RefreshPersonal(r) \/ RejectPersonal(r)
    \/ SkipCorp(r) \/ RefreshCorp(r) \/ RejectCorp(r)
    \/ Persist(r)

Next ==
    \/ \E r \in Requests :
         \/ LoginExchange(r) \/ LoginStore(r) \/ ConnectExchange(r) \/ ConnectStore(r)
         \/ \E kind \in Kinds : Load(r, kind)
         \/ EnsureFresh(r)
         \/ Answer(r) \/ DisconnectCorp(r) \/ ClearData(r)
         \/ Abandon(r) \/ AnswerLost(r)
    \/ \E a \in Serials : Expire(a) \/ Revoke(a)

Spec == Init /\ [][Next]_vars

-----------------------------------------------------------------------------
(* Tokens stay with their grant: a corporation's token is never stored,    *)
(* nor used, as the character's own, nor the other way round.              *)
GrantsKeepTheirPlace ==
    \A d \in {doc} \cup {req[r].mine : r \in Requests} :
        d.personal.grant \in {"login", "none"} /\ d.corpTok.grant \in {"corp", "none"}

(* A character is signed out only because its own refresh token was        *)
(* refused: not because EVE SSO was down, and not because of the           *)
(* corporation's token (character_tokens.py:15-19).                        *)
SignedOutOnlyIfRefused ==
    \A r \in Requests : At(r, "signedout") => ~Accepted(req[r].read.personal)

(* While requests refresh the same tokens at once, a stored refresh token  *)
(* that EVE SSO has replaced has its successor with a request that is      *)
(* about to store it, unless a request died before it could.               *)
StoredTokenHasSuccessor ==
    \A m \in {doc.personal.refresh, doc.corpTok.refresh} \cap rotated :
        m \in lost \/ \E r \in Requests : m \in Spent(r)

(* "Deletes ... the character document itself, including its stored        *)
(* access/refresh tokens" (character_data.py:412-415): no request that is  *)
(* still under way brings them back, only a new login does.                *)
ClearedStaysCleared ==
    [][ ~Exists(doc) /\ Exists(doc') => \E r \in Requests : At(r, "login") ]_vars

(* models/character.py:17-20: corp_refresh_token being set is the          *)
(* connected flag, and disconnecting nulls all five fields; settings.py    *)
(* and character_data.py take corporation_id for granted when it is set.   *)
ConnectedHasCorporation ==
    doc.corpTok # NoToken => doc.corporation # NoCorporation
=============================================================================
