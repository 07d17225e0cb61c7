------------------------------- MODULE Accounts --------------------------------
(***************************************************************************)
(* Who a request to sentrymcp speaks for (cmd/sentrymcp/oauth.go,          *)
(* tenants.go, main.go): the registry of secrets, the OAuth server with    *)
(* its consent, codes and tokens, and the tenant of a request.             *)
(*                                                                         *)
(* A code lives in RAM and ends with the process; a token is its claims    *)
(* under a key derived from one secret, so it outlives a restart and the   *)
(* registry's entries. A challenge is the hash of one verifier and is      *)
(* written as the verifier; signatures and random codes are taken to be    *)
(* what they are meant to be. A client and its redirect URI are one value. *)
(* Requests to the token endpoint run side by side: a code is taken under  *)
(* oauthProvider.mu and checked afterwards.                                *)
(***************************************************************************)
EXTENDS Naturals, Sequences

CONSTANTS
  Users,            \* clients of the OAuth server, each with a redirect URI and a verifier
  RedirectURI,      \* RedirectURI[u]: its scheme, its host, and whether it names a user
  ExtraHosts,       \* oauthProvider.extraHosts
  Requests,         \* requests to the token endpoint that run side by side
  Secrets,          \* passphrases
  Registries,       \* what the owner's secret and tokens.json may say: sets of entries
  DefaultTenant,    \* the -tenant flag
  CodeTTL, AccessTTL, RefreshTTL,
  MaxTime, MaxCodes, MaxBoots   \* bounds of the model

ASSUME AccountsAssumption ==
  /\ CodeTTL \in Nat /\ AccessTTL \in Nat /\ RefreshTTL \in Nat
  /\ DefaultTenant \in Nat \ {0}
  /\ \A reg \in Registries : \A e \in reg : e.tenant \in Nat

VARIABLES
  now, boot,     \* the clock, and which start of the process this is (0: none yet)
  oauthOn,       \* -oauth-issuer is set
  tokenEntries,  \* tokenRegistry.entries: a set of [secret, tenant]
  codes,         \* oauthProvider.codes: code -> authCode
  asking,        \* asking[r]: what r presented, and the authCode it took
  tokens,        \* the claims of every token signed, and the code it goes back to
  consents,      \* every authCode ever issued
  redeemed,      \* the redemptions that ended in tokens, in order
  served         \* the last request that was given a tenant, and by what

accVars == <<now, boot, oauthOn, tokenEntries, codes, asking, tokens, consents, redeemed, served>>

Nobody == [tenant |-> 0]
Idle == [code |-> 0]

\* From before tokens carried a tenant (jwtClaims.Tnt).
LegacyToken == [kind |-> "access", tenant |-> 0, exp |-> AccessTTL, code |-> 0]

AccInit ==
  /\ now = 0 /\ boot = 0 /\ oauthOn = FALSE /\ tokenEntries = {} /\ codes = << >>
  /\ asking = [r \in Requests |-> Idle] /\ tokens = {LegacyToken}
  /\ consents = << >> /\ redeemed = << >> /\ served = Nobody

-----------------------------------------------------------------------------
\* loadTokenRegistry: a team without a tenant, or a secret of two entries: no start.
Loads(reg) == /\ \A e \in reg : e.tenant # 0
              /\ \A e, f \in reg : e.secret = f.secret => e = f

\* main (the key that signs is the same at each start).
Boot(reg, oauth) ==
  /\ boot < MaxBoots /\ Loads(reg)
  /\ boot' = boot + 1 /\ tokenEntries' = reg /\ oauthOn' = oauth
  /\ codes' = << >> /\ asking' = [r \in Requests |-> Idle] /\ served' = Nobody
  /\ UNCHANGED <<now, tokens, consents, redeemed>>

Pass == /\ now < MaxTime /\ now' = now + 1 /\ served' = Nobody
        /\ UNCHANGED <<boot, oauthOn, tokenEntries, codes, asking, tokens, consents, redeemed>>

-----------------------------------------------------------------------------
(* Consent, codes and tokens *)

Without(f, x) == [y \in DOMAIN f \ {x} |-> f[y]]

AllowedRedirect(uri) ==
  /\ ~uri.user
  /\ \/ uri.scheme = "https" /\ uri.host \in {"claude.ai", "claude.com"} \union ExtraHosts
     \/ uri.scheme \in {"http", "https"} /\ uri.host \in {"localhost", "127.0.0.1", "::1"}

\* POST /authorize: redirect URI, PKCE and passphrase are right: issueCode.
Authorize(u, verifier, secret) ==
  /\ boot > 0 /\ oauthOn /\ AllowedRedirect(RedirectURI[u]) /\ Len(consents) < MaxCodes
  /\ \E e \in tokenEntries :
       /\ e.secret = secret
       /\ consents' = Append(consents, [client |-> u, challenge |-> verifier, tenant |-> e.tenant,
                                        expiry |-> now + CodeTTL, boot |-> boot])
  /\ LET code == Len(consents')
     IN  codes' = [x \in DOMAIN codes \union {code} |-> consents'[x]]
  /\ served' = Nobody
  /\ UNCHANGED <<now, boot, oauthOn, tokenEntries, asking, tokens, redeemed>>

\* Mutant: the code stays in the map until its tokens are out.
Taken_kept(code) == codes
Taken(code) == Without(codes, code)

\* consumeCode, for whoever presents the code; one that is too old goes as well.
Consume(r, u, verifier, code) ==
  /\ boot > 0 /\ oauthOn /\ asking[r] = Idle /\ code \in DOMAIN codes
  /\ codes' = Taken(code)
  /\ asking' = IF now > codes[code].expiry THEN asking
               ELSE [asking EXCEPT ![r] = [code |-> code, client |-> u, verifier |-> verifier,
                                           at |-> now, boot |-> boot, grant |-> codes[code]]]
  /\ served' = Nobody
  /\ UNCHANGED <<now, boot, oauthOn, tokenEntries, tokens, consents, redeemed>>

EmitTokens(tenant, code) ==
  tokens \union {[kind |-> "access", tenant |-> tenant, exp |-> now + AccessTTL, code |-> code],
                 [kind |-> "refresh", tenant |-> tenant, exp |-> now + RefreshTTL, code |-> code]}

\* The rest of the handler: client and redirect URI, then verifyPKCE, then tokens.
Redeem(r) ==
  LET a == asking[r] IN
  /\ a # Idle /\ asking' = [asking EXCEPT ![r] = Idle]
  /\ IF a.client = a.grant.client /\ a.verifier = a.grant.challenge
     THEN tokens' = EmitTokens(a.grant.tenant, a.code) /\ redeemed' = Append(redeemed, a)
     ELSE UNCHANGED <<tokens, redeemed>>
  /\ served' = Nobody
  /\ UNCHANGED <<now, boot, oauthOn, tokenEntries, codes, consents>>

\* Mutant: a token's kind is not looked at.
VerifyToken_anyKind(tok, kind) == tok \in tokens /\ now < tok.exp
VerifyToken(tok, kind) == tok \in tokens /\ tok.kind = kind /\ now < tok.exp

\* POST /token, refresh_token.
Refresh(tok) ==
  /\ boot > 0 /\ oauthOn /\ VerifyToken(tok, "refresh")
  /\ tokens' = EmitTokens(tok.tenant, tok.code) /\ served' = Nobody
  /\ UNCHANGED <<now, boot, oauthOn, tokenEntries, codes, asking, consents, redeemed>>

-----------------------------------------------------------------------------
\* resolveTenant, for a request with a bearer credential or with none: the
\* registry first, then the token, then open mode.
Bearer(secret) == [kind |-> "secret", secret |-> secret]
ByRegistry(cred) == {e.tenant : e \in {f \in tokenEntries : Bearer(f.secret) = cred}}
ByToken(cred) ==
  IF oauthOn /\ VerifyToken(cred, "access")
  THEN {IF cred.tenant = 0 THEN DefaultTenant ELSE cred.tenant} ELSE {}
Resolved(cred) ==
  CASE ByRegistry(cred) # {} -> ByRegistry(cred)
    [] ByRegistry(cred) = {} /\ ByToken(cred) # {} -> ByToken(cred)
    [] OTHER -> IF tokenEntries = {} /\ ~oauthOn THEN {DefaultTenant} ELSE {}

\* Any handler behind it: a request that resolves to no tenant is refused.
Serve(cred) ==
  /\ boot > 0
  /\ \E t \in Resolved(cred) : served' = [cred |-> cred, tenant |-> t]
  /\ UNCHANGED <<now, boot, oauthOn, tokenEntries, codes, asking, tokens, consents, redeemed>>

AccNext ==
  \/ \E reg \in Registries, oauth \in BOOLEAN : Boot(reg, oauth)
  \/ Pass
  \/ \E u, v \in Users, secret \in Secrets : Authorize(u, v, secret)
  \/ \E r \in Requests, u, v \in Users, code \in DOMAIN codes : Consume(r, u, v, code)
  \/ \E r \in Requests : Redeem(r)
  \/ \E tok \in tokens : Refresh(tok) \/ Serve(tok)
  \/ \E secret \in Secrets : Serve(Bearer(secret))

AccSpec == AccInit /\ [][AccNext]_accVars

-----------------------------------------------------------------------------
(* Properties *)

\* A consent is turned into tokens at most once, by the client it was given to,
\* with the verifier of its challenge, in its time and by the process that gave
\* it, whatever requests race for it or spoil it (handleToken, consumeCode).
RedeemedAsAgreed ==
  \A i \in DOMAIN redeemed :
    LET d == redeemed[i]
        c == consents[d.code]
    IN  /\ \A j \in DOMAIN redeemed : redeemed[j].code = d.code => i = j
        /\ d.client = c.client /\ d.verifier = c.challenge
        /\ d.at <= c.expiry /\ d.boot = c.boot

\* A request is given a tenant only by a secret registered for it now, by a live
\* access token that goes back, over any refreshes and restarts, to a redeemed
\* consent of that tenant's own secret, or in open mode (resolveTenant).
SpeaksFor ==
  served # Nobody =>
    \/ \E e \in tokenEntries : served = [cred |-> Bearer(e.secret), tenant |-> e.tenant]
    \/ /\ oauthOn /\ served.cred \in tokens /\ now < served.cred.exp /\ served.cred.kind = "access"
       /\ \/ served.cred = LegacyToken /\ served.tenant = DefaultTenant
          \/ \E i \in DOMAIN redeemed : /\ redeemed[i].code = served.cred.code
                                        /\ consents[served.cred.code].tenant = served.tenant
    \/ tokenEntries = {} /\ ~oauthOn /\ served.tenant = DefaultTenant
===============================================================================
