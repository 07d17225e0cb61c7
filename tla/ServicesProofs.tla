---------------------------- MODULE ServicesProofs -----------------------------
(***************************************************************************)
(* What MCServices checks side by side, for any values of the constants;   *)
(* VectorIndexProofs has the index, and the lemmas on numbers and sequences *)
(* that these proofs cite.                                                 *)
(*                                                                         *)
(* Accounts: neither property is inductive. RedeemedAsAgreed needs to know *)
(* where a code is (with its consent, with one request, or used up: never  *)
(* at two of them), SpeaksFor that every token goes back to a redeemed     *)
(* consent of its tenant.                                                  *)
(*                                                                         *)
(* Prediction: TierInv says what the policies are (LRU orders without      *)
(* repeats, a table of uses, none over Capacity) beside what is counted of *)
(* them; Learned that the counts are the tallies of the stream, from which *)
(* the guess at any earlier place can be said again.                       *)
(*                                                                         *)
(* Reflect: HookInv knows what a hook under way has counted, and that the  *)
(* transcript only grows: K uses lie after a number that was kept. The     *)
(* windows are followed block by block (Fine) to compare the two counts.   *)
(*                                                                         *)
(* Memory: the table that Remember and Forget keep and the one that New's  *)
(* two scans rebuild are both the list of what is live (Lists, LiveIn), as *)
(* long as no id is given out twice; OfRecords holds without that.         *)
(*                                                                         *)
(* AccessLog: what a start reads back is what the process before it knew   *)
(* only because nothing in the journal comes after a counted record of a   *)
(* path (LastStays), because whatever the process knows stands in the      *)
(* journal (KnownPaths), and because no id that counts is above the highest *)
(* id in RAM (Bounded), while one that was refused too late may be, by one. *)
(***************************************************************************)
EXTENDS Accounts, AccessLog, Prediction, Reflect, Memory, VectorIndexProofs

-----------------------------------------------------------------------------
(***************************************************************************)
(* Accounts.                                                               *)
(***************************************************************************)
Grants == [client : Users, challenge : Users, tenant : Nat \ {0}, expiry : Nat, boot : Nat]

Presented == [code : Nat \ {0}, client : Users, verifier : Users, at : Nat, boot : Nat, grant : Grants]

AccTypeOK ==
  /\ now \in Nat /\ boot \in Nat
  /\ \A e \in tokenEntries : e.tenant \in Nat \ {0}
  /\ consents \in Seq(Grants) /\ redeemed \in Seq(Presented)
  /\ asking \in [Requests -> Presented \union {Idle}]

\* A code in the map stands for its consent, to this process.
CodesAgree ==
  \A c \in DOMAIN codes : c \in DOMAIN consents /\ codes[c] = consents[c] /\ codes[c].boot = boot

\* What a request holds, or held when it got its tokens.
Held(a) ==
  /\ a.code \in DOMAIN consents \ DOMAIN codes
  /\ a.grant = consents[a.code] /\ a.at <= a.grant.expiry /\ a.boot = a.grant.boot

AskedOnce ==
  \A r \in Requests : asking[r] # Idle =>
    /\ Held(asking[r])
    /\ \A s \in Requests \ {r} : asking[s].code # asking[r].code
    /\ \A i \in DOMAIN redeemed : redeemed[i].code # asking[r].code

RedeemedOnce ==
  \A i \in DOMAIN redeemed :
    /\ Held(redeemed[i])
    /\ redeemed[i].client = redeemed[i].grant.client
    /\ redeemed[i].verifier = redeemed[i].grant.challenge
    /\ \A j \in DOMAIN redeemed : redeemed[j].code = redeemed[i].code => i = j

\* A token's tenant is that of the redeemed consent it goes back to.
Traced(tok) ==
  \E i \in DOMAIN redeemed : /\ redeemed[i].code = tok.code
                             /\ consents[tok.code].tenant = tok.tenant
TokensTraced == \A tok \in tokens : tok = LegacyToken \/ (Traced(tok) /\ tok.tenant # 0)

AccIInv == AccTypeOK /\ CodesAgree /\ AskedOnce /\ RedeemedOnce /\ TokensTraced /\ SpeaksFor

-----------------------------------------------------------------------------
(* Facts used by several actions *)

\* The record of a request that holds nothing has a code no consent has.
LEMMA IdleIsNone == Idle \notin Presented /\ Idle.code = 0
  BY DEF Idle, Presented

\* What was held stays held when codes only go and consents only come.
LEMMA HeldStays ==
  ASSUME AccTypeOK, NEW a, Held(a),
         consents' \in Seq(Grants), Len(consents') >= Len(consents),
         \A c \in DOMAIN consents : consents'[c] = consents[c],
         \A c \in DOMAIN consents : c \in DOMAIN codes' => c \in DOMAIN codes
  PROVE  Held(a)'
  BY DEF AccTypeOK, Held

\* As long as tokens, consents and redemptions stay, so do the traces.
LEMMA TracesStay ==
  ASSUME TokensTraced, UNCHANGED <<tokens, consents, redeemed>>
  PROVE  TokensTraced'
  BY DEF TokensTraced, Traced

-----------------------------------------------------------------------------
(* One lemma per action *)

LEMMA InitHolds == AccInit => AccIInv
<1> SUFFICES ASSUME AccInit PROVE AccIInv
  OBVIOUS
<1>1. AccTypeOK
  BY DEF AccInit, AccTypeOK
<1>2. CodesAgree /\ AskedOnce /\ RedeemedOnce
  BY DEF AccInit, CodesAgree, AskedOnce, RedeemedOnce
<1>3. TokensTraced /\ SpeaksFor
  BY DEF AccInit, TokensTraced, SpeaksFor
<1> QED
  BY <1>1, <1>2, <1>3 DEF AccIInv

LEMMA BootKeeps ==
  ASSUME AccIInv, NEW reg \in Registries, NEW oauth \in BOOLEAN, Boot(reg, oauth)
  PROVE  AccIInv'
<1>1. AccTypeOK'
  BY AccountsAssumption DEF AccIInv, AccTypeOK, Boot, Loads
<1>2. CodesAgree' /\ AskedOnce'
  BY DEF Boot, CodesAgree, AskedOnce
<1>3. RedeemedOnce'
  <2>1. \A i \in DOMAIN redeemed : Held(redeemed[i])'
    BY HeldStays DEF AccIInv, AccTypeOK, RedeemedOnce, Boot
  <2> QED
    BY <2>1 DEF AccIInv, RedeemedOnce, Boot
<1>4. TokensTraced' /\ SpeaksFor'
  BY TracesStay DEF AccIInv, Boot, SpeaksFor
<1> QED
  BY <1>1, <1>2, <1>3, <1>4 DEF AccIInv

LEMMA PassKeeps == ASSUME AccIInv, Pass PROVE AccIInv'
<1>1. AccTypeOK'
  BY DEF AccIInv, AccTypeOK, Pass
<1>2. CodesAgree' /\ AskedOnce' /\ RedeemedOnce'
  BY DEF AccIInv, Pass, CodesAgree, AskedOnce, RedeemedOnce, Held
<1>3. TokensTraced' /\ SpeaksFor'
  BY TracesStay DEF AccIInv, Pass, SpeaksFor
<1> QED
  BY <1>1, <1>2, <1>3 DEF AccIInv

LEMMA AuthorizeKeeps ==
  ASSUME AccIInv, NEW u \in Users, NEW v \in Users, NEW secret, Authorize(u, v, secret)
  PROVE  AccIInv'
<1> DEFINE code == Len(consents) + 1
<1>1. PICK e \in tokenEntries :
        consents' = Append(consents, [client |-> u, challenge |-> v, tenant |-> e.tenant,
                                      expiry |-> now + CodeTTL, boot |-> boot])
  BY DEF Authorize
<1> DEFINE grant == [client |-> u, challenge |-> v, tenant |-> e.tenant,
                     expiry |-> now + CodeTTL, boot |-> boot]
<1>2. grant \in Grants
  BY AccountsAssumption DEF AccIInv, AccTypeOK, Grants
<1>3. /\ consents' \in Seq(Grants) /\ Len(consents') = code /\ consents'[code] = grant
      /\ DOMAIN consents' = DOMAIN consents \union {code} /\ code \notin DOMAIN consents
      /\ \A c \in DOMAIN consents : consents'[c] = consents[c]
  BY <1>1, <1>2 DEF AccIInv, AccTypeOK
<1>4. /\ DOMAIN codes' = DOMAIN codes \union {code}
      /\ \A c \in DOMAIN codes' : codes'[c] = consents'[c]
  BY <1>3 DEF Authorize
<1>5. AccTypeOK'
  BY <1>3 DEF AccIInv, AccTypeOK, Authorize
<1>6. CodesAgree'
  BY <1>3, <1>4 DEF AccIInv, CodesAgree, Authorize
<1>7. \A a : Held(a) => Held(a)'
  BY <1>3, <1>4, HeldStays DEF AccIInv, AccTypeOK
<1>8. AskedOnce' /\ RedeemedOnce'
  BY <1>7 DEF AccIInv, AskedOnce, RedeemedOnce, Authorize
<1>9. TokensTraced'
  <2>1. \A tok : Traced(tok) => Traced(tok)'
    BY <1>3 DEF AccIInv, RedeemedOnce, Held, Traced, Authorize
  <2> QED
    BY <2>1 DEF AccIInv, TokensTraced, Authorize
<1>10. SpeaksFor'
  BY DEF Authorize, SpeaksFor
<1> QED
  BY <1>5, <1>6, <1>8, <1>9, <1>10 DEF AccIInv

LEMMA ConsumeKeeps ==
  ASSUME AccIInv, NEW r \in Requests, NEW u \in Users, NEW v \in Users,
         NEW code \in DOMAIN codes, Consume(r, u, v, code)
  PROVE  AccIInv'
<1>0. PICK a : a = [code |-> code, client |-> u, verifier |-> v,
                   at |-> now, boot |-> boot, grant |-> codes[code]]
  OBVIOUS
<1>1. /\ DOMAIN codes' = DOMAIN codes \ {code}
      /\ \A c \in DOMAIN codes' : codes'[c] = codes[c]
  BY DEF Consume, Taken, Without
<1>2. /\ code \in DOMAIN consents /\ code \in Nat \ {0}
      /\ codes[code] = consents[code] /\ codes[code] \in Grants /\ codes[code].boot = boot
  BY DEF AccIInv, AccTypeOK, CodesAgree
<1>3. UNCHANGED <<now, boot, oauthOn, tokenEntries, tokens, consents, redeemed>> /\ served' = Nobody
  BY DEF Consume
<1>4. \A b : Held(b) => Held(b)' /\ b.code # code
  BY <1>1, <1>3, HeldStays DEF AccIInv, AccTypeOK, Held
<1>5. CodesAgree'
  BY <1>1, <1>3 DEF AccIInv, CodesAgree
<1>6. RedeemedOnce'
  BY <1>3, <1>4 DEF AccIInv, RedeemedOnce
<1>7. TokensTraced' /\ SpeaksFor'
  BY <1>3, TracesStay DEF AccIInv, SpeaksFor
<1>8. AccTypeOK' /\ AskedOnce'
  <2>1. CASE now > codes[code].expiry
    <3>1. asking' = asking
      BY <2>1 DEF Consume
    <3> QED
      BY <1>3, <1>4, <3>1 DEF AccIInv, AccTypeOK, AskedOnce
  <2>2. CASE ~(now > codes[code].expiry)
    <3>1. asking' = [asking EXCEPT ![r] = a]
      BY <1>0, <2>2 DEF Consume
    <3>2. a \in Presented
      BY <1>0, <1>2 DEF AccIInv, AccTypeOK, Presented
    <3>3. AccTypeOK'
      BY <1>3, <3>1, <3>2 DEF AccIInv, AccTypeOK
    <3>4. Held(a)'
      <4>1. now <= codes[code].expiry
        BY <1>2, <2>2 DEF AccIInv, AccTypeOK, Grants
      <4> QED
        BY <1>0, <1>1, <1>2, <1>3, <4>1 DEF Held
    <3>5. asking \in [Requests -> Presented \union {Idle}]
      BY DEF AccIInv, AccTypeOK
    <3>6. \A s \in Requests : asking[s].code # code
      BY <1>2, <1>4, IdleIsNone DEF AccIInv, AskedOnce
    <3>7. \A i \in DOMAIN redeemed : redeemed[i].code # code
      BY <1>4 DEF AccIInv, RedeemedOnce
    <3>8. AskedOnce'
      <4> SUFFICES ASSUME NEW q \in Requests, asking'[q] # Idle
                   PROVE  /\ Held(asking[q])'
                          /\ \A s \in Requests \ {q} : asking'[s].code # asking'[q].code
                          /\ \A i \in DOMAIN redeemed : redeemed[i].code # asking'[q].code
        BY <1>3 DEF AskedOnce
      <4>1. CASE q = r
        BY <1>0, <3>1, <3>4, <3>5, <3>6, <3>7, <4>1
      <4>2. CASE q # r
        <5>1. asking'[q] = asking[q] /\ asking'[r] = a
          BY <3>1, <3>5, <4>2
        <5>2. \A s \in Requests \ {q} : asking'[s].code # asking'[q].code
          BY <1>0, <3>1, <3>5, <3>6, <5>1 DEF AccIInv, AskedOnce
        <5> QED
          BY <1>4, <5>1, <5>2 DEF AccIInv, AskedOnce
      <4> QED
        BY <4>1, <4>2
    <3> QED
      BY <3>3, <3>8
  <2> QED
    BY <2>1, <2>2
<1> QED
  BY <1>5, <1>6, <1>7, <1>8 DEF AccIInv

LEMMA RedeemKeeps ==
  ASSUME AccIInv, NEW r \in Requests, Redeem(r)
  PROVE  AccIInv'
<1>1. PICK a : a = asking[r]
  OBVIOUS
<1>2. /\ a \in Presented /\ Held(a) /\ a.code \in Nat \ {0}
      /\ \A s \in Requests \ {r} : asking[s].code # a.code
      /\ \A i \in DOMAIN redeemed : redeemed[i].code # a.code
  BY <1>1 DEF AccIInv, AccTypeOK, AskedOnce, Redeem, Presented
<1>3. /\ asking' = [asking EXCEPT ![r] = Idle] /\ served' = Nobody
      /\ UNCHANGED <<now, boot, oauthOn, tokenEntries, codes, consents>>
  BY DEF Redeem
<1>4. \A b : Held(b) => Held(b)'
  BY <1>3, HeldStays DEF AccIInv, AccTypeOK
<1>5. CodesAgree' /\ SpeaksFor'
  BY <1>3 DEF AccIInv, CodesAgree, SpeaksFor
<1>6. \A s \in Requests : asking'[s] # Idle => s # r /\ asking'[s] = asking[s]
  BY <1>3 DEF AccIInv, AccTypeOK
<1>7. CASE a.client = a.grant.client /\ a.verifier = a.grant.challenge
  <2>1. tokens' = EmitTokens(a.grant.tenant, a.code) /\ redeemed' = Append(redeemed, a)
    BY <1>1, <1>7 DEF Redeem
  <2>2. /\ redeemed' \in Seq(Presented)
        /\ DOMAIN redeemed' = DOMAIN redeemed \union {Len(redeemed) + 1}
        /\ Len(redeemed) + 1 \notin DOMAIN redeemed
        /\ redeemed'[Len(redeemed) + 1] = a
        /\ \A i \in DOMAIN redeemed : redeemed'[i] = redeemed[i]
    BY <1>2, <2>1 DEF AccIInv, AccTypeOK
  <2>3. AccTypeOK'
    BY <1>3, <2>2 DEF AccIInv, AccTypeOK
  <2>4. AskedOnce'
    <3> SUFFICES ASSUME NEW s \in Requests, asking'[s] # Idle
                 PROVE  /\ Held(asking[s])'
                        /\ \A q \in Requests \ {s} : asking'[q].code # asking'[s].code
                        /\ \A i \in DOMAIN redeemed' : redeemed'[i].code # asking'[s].code
      BY DEF AskedOnce
    <3>1. s # r /\ asking'[s] = asking[s] /\ asking[s] # Idle
      BY <1>6
    <3>2. Held(asking[s])'
      BY <1>4, <3>1 DEF AccIInv, AskedOnce
    <3>3. \A q \in Requests \ {s} : asking'[q].code # asking'[s].code
      <4>1. asking[s].code # 0
        BY <3>1 DEF AccIInv, AccTypeOK, Presented
      <4> QED
        BY <1>3, <3>1, <4>1, IdleIsNone DEF AccIInv, AccTypeOK, AskedOnce
    <3>4. \A i \in DOMAIN redeemed' : redeemed'[i].code # asking'[s].code
      BY <1>2, <2>2, <3>1 DEF AccIInv, AskedOnce
    <3> QED
      BY <3>2, <3>3, <3>4
  <2>5. RedeemedOnce'
    <3> SUFFICES ASSUME NEW i \in DOMAIN redeemed'
                 PROVE  /\ Held(redeemed[i])'
                        /\ redeemed'[i].client = redeemed'[i].grant.client
                        /\ redeemed'[i].verifier = redeemed'[i].grant.challenge
                        /\ \A j \in DOMAIN redeemed' : redeemed'[j].code = redeemed'[i].code => i = j
      BY DEF RedeemedOnce
    <3>1. CASE i \in DOMAIN redeemed
      BY <1>2, <1>4, <2>2, <3>1 DEF AccIInv, RedeemedOnce
    <3>2. CASE i = Len(redeemed) + 1
      BY <1>2, <1>4, <1>7, <2>2, <3>2 DEF AccIInv, RedeemedOnce
    <3> QED
      BY <2>2, <3>1, <3>2
  <2>6. TokensTraced'
    <3> SUFFICES ASSUME NEW tok \in tokens', tok # LegacyToken
                 PROVE  Traced(tok)' /\ tok.tenant # 0
      BY DEF TokensTraced
    <3>1. CASE tok \in tokens
      BY <1>3, <2>2, <3>1 DEF AccIInv, TokensTraced, Traced
    <3>2. CASE tok \notin tokens
      <4>1. tok.code = a.code /\ tok.tenant = a.grant.tenant
        BY <2>1, <3>2 DEF EmitTokens
      <4>2. a.grant = consents[a.code] /\ a.grant.tenant # 0
        BY <1>2 DEF Held, Presented, Grants
      <4> QED
        BY <1>3, <2>2, <4>1, <4>2 DEF Traced
    <3> QED
      BY <3>1, <3>2
  <2> QED
    BY <1>5, <2>3, <2>4, <2>5, <2>6 DEF AccIInv
<1>8. CASE ~(a.client = a.grant.client /\ a.verifier = a.grant.challenge)
  <2>1. UNCHANGED <<tokens, redeemed>>
    BY <1>1, <1>8 DEF Redeem
  <2>2. AccTypeOK' /\ RedeemedOnce' /\ TokensTraced'
    BY <1>3, <1>4, <2>1, TracesStay DEF AccIInv, AccTypeOK, RedeemedOnce
  <2>3. AskedOnce'
    <3> SUFFICES ASSUME NEW s \in Requests, asking'[s] # Idle
                 PROVE  /\ Held(asking[s])'
                        /\ \A q \in Requests \ {s} : asking'[q].code # asking'[s].code
                        /\ \A i \in DOMAIN redeemed : redeemed[i].code # asking'[s].code
      BY <2>1 DEF AskedOnce
    <3>1. s # r /\ asking'[s] = asking[s] /\ asking[s].code # 0
      BY <1>6 DEF AccIInv, AccTypeOK, Presented
    <3> QED
      BY <1>3, <1>4, <1>6, <3>1, IdleIsNone DEF AccIInv, AccTypeOK, AskedOnce
  <2> QED
    BY <1>5, <2>2, <2>3 DEF AccIInv
<1> QED
  BY <1>7, <1>8

LEMMA RefreshKeeps ==
  ASSUME AccIInv, NEW tok \in tokens, Refresh(tok)
  PROVE  AccIInv'
<1>1. /\ served' = Nobody /\ tokens' = EmitTokens(tok.tenant, tok.code)
      /\ UNCHANGED <<now, boot, oauthOn, tokenEntries, codes, asking, consents, redeemed>>
  BY DEF Refresh
<1>2. AccTypeOK' /\ CodesAgree' /\ SpeaksFor'
  BY <1>1 DEF AccIInv, AccTypeOK, CodesAgree, SpeaksFor
<1>3. AskedOnce' /\ RedeemedOnce'
  BY <1>1 DEF AccIInv, AskedOnce, RedeemedOnce, Held
<1>4. TokensTraced'
  <2>1. tok # LegacyToken
    BY DEF Refresh, VerifyToken, LegacyToken
  <2>2. Traced(tok) /\ tok.tenant # 0
    BY <2>1 DEF AccIInv, TokensTraced
  <2>3. \A x \in tokens' \ tokens : x.code = tok.code /\ x.tenant = tok.tenant
    BY <1>1 DEF EmitTokens
  <2> QED
    BY <1>1, <2>2, <2>3 DEF AccIInv, TokensTraced, Traced
<1> QED
  BY <1>2, <1>3, <1>4 DEF AccIInv

LEMMA ServeKeeps ==
  ASSUME AccIInv, NEW cred, Serve(cred)
  PROVE  AccIInv'
<1>1. UNCHANGED <<now, boot, oauthOn, tokenEntries, codes, asking, tokens, consents, redeemed>>
  BY DEF Serve
<1>2. AccTypeOK' /\ CodesAgree' /\ TokensTraced'
  BY <1>1, TracesStay DEF AccIInv, AccTypeOK, CodesAgree
<1>3. AskedOnce' /\ RedeemedOnce'
  BY <1>1 DEF AccIInv, AskedOnce, RedeemedOnce, Held
<1>4. PICK t \in Resolved(cred) : served' = [cred |-> cred, tenant |-> t]
  BY DEF Serve
<1>5. served'.cred = cred /\ served'.tenant = t
  BY <1>4
<1>6. SpeaksFor'
  <2>1. CASE ByRegistry(cred) # {}
    <3>1. \E e \in tokenEntries : Bearer(e.secret) = cred /\ e.tenant = t
      BY <1>4, <2>1 DEF Resolved, ByRegistry
    <3> QED
      BY <1>1, <1>4, <3>1 DEF SpeaksFor
  <2>2. CASE ByRegistry(cred) = {} /\ ByToken(cred) # {}
    <3>1. /\ oauthOn /\ cred \in tokens /\ cred.kind = "access" /\ now < cred.exp
          /\ t = IF cred.tenant = 0 THEN DefaultTenant ELSE cred.tenant
      BY <1>4, <2>2 DEF Resolved, ByToken, VerifyToken
    <3>2. CASE cred = LegacyToken
      BY <1>1, <1>5, <3>1, <3>2 DEF SpeaksFor, LegacyToken
    <3>3. CASE cred # LegacyToken
      <4>1. Traced(cred) /\ cred.tenant # 0
        BY <3>1, <3>3 DEF AccIInv, TokensTraced
      <4> QED
        BY <1>1, <1>5, <3>1, <4>1 DEF SpeaksFor, Traced
    <3> QED
      BY <3>2, <3>3
  <2>3. CASE ByRegistry(cred) = {} /\ ByToken(cred) = {}
    <3>1. tokenEntries = {} /\ ~oauthOn /\ t = DefaultTenant
      BY <1>4, <2>3 DEF Resolved
    <3> QED
      BY <1>1, <1>5, <3>1 DEF SpeaksFor
  <2> QED
    BY <2>1, <2>2, <2>3
<1> QED
  BY <1>2, <1>3, <1>6 DEF AccIInv

-----------------------------------------------------------------------------
(* The theorems *)

LEMMA StepKeeps == AccIInv /\ [AccNext]_accVars => AccIInv'
<1> SUFFICES ASSUME AccIInv, [AccNext]_accVars PROVE AccIInv'
  OBVIOUS
<1>1. CASE UNCHANGED accVars
  BY <1>1 DEF AccIInv, AccTypeOK, CodesAgree, AskedOnce, RedeemedOnce, Held, TokensTraced,
              Traced, SpeaksFor, accVars
<1>2. CASE \E reg \in Registries, oauth \in BOOLEAN : Boot(reg, oauth)
  BY <1>2, BootKeeps
<1>3. CASE Pass
  BY <1>3, PassKeeps
<1>4. CASE \E u, v \in Users, secret \in Secrets : Authorize(u, v, secret)
  BY <1>4, AuthorizeKeeps
<1>5. CASE \E r \in Requests, u, v \in Users, code \in DOMAIN codes : Consume(r, u, v, code)
  BY <1>5, ConsumeKeeps
<1>6. CASE \E r \in Requests : Redeem(r)
  BY <1>6, RedeemKeeps
<1>7. CASE \E tok \in tokens : Refresh(tok) \/ Serve(tok)
  BY <1>7, RefreshKeeps, ServeKeeps
<1>8. CASE \E secret \in Secrets : Serve(Bearer(secret))
  BY <1>8, ServeKeeps
<1> QED
  BY <1>1, <1>2, <1>3, <1>4, <1>5, <1>6, <1>7, <1>8 DEF AccNext

LEMMA Inductive == AccSpec => []AccIInv
  BY InitHolds, StepKeeps, PTL DEF AccSpec

\* Whatever requests race for a consent or spoil it: it becomes tokens at most
\* once, for its client and its verifier, in time and in the process that gave it
\* (handleToken, consumeCode).
THEOREM ConsentsAreKept == AccSpec => []RedeemedAsAgreed
<1>1. AccIInv => RedeemedAsAgreed
  BY DEF AccIInv, RedeemedOnce, Held, RedeemedAsAgreed
<1> QED
  BY <1>1, Inductive, PTL

\* No request is ever given a tenant but by a registered secret, a live access
\* token that goes back to a redeemed consent of that tenant, or open mode
\* (resolveTenant).
THEOREM TenantsAreKept == AccSpec => []SpeaksFor
<1>1. AccIInv => SpeaksFor
  BY DEF AccIInv
<1> QED
  BY <1>1, Inductive, PTL

-----------------------------------------------------------------------------
(***************************************************************************)
(* The policies and the tier.                                              *)
(***************************************************************************)
IsOrder(order) == order \in Seq(ToSet(order)) /\ Len(order) <= Capacity

LEMMA OrderOf ==
  ASSUME NEW n \in Nat, n <= Capacity, NEW order, order = [i \in 1 .. n |-> order[i]]
  PROVE  IsOrder(order) /\ Len(order) = n
<1>1. order \in [1 .. n -> ToSet(order)]
  BY DEF ToSet
<1>2. order \in Seq(ToSet(order))
  BY <1>1, SeqDef
<1>3. DOMAIN order = 1 .. n /\ DOMAIN order = 1 .. Len(order) /\ Len(order) \in Nat
  BY <1>1, <1>2, LenProperties
<1>4. Len(order) = n
  BY <1>3
<1>. QED
  BY <1>2, <1>4 DEF IsOrder

LEMMA OrderIsSmall ==
  ASSUME NEW order, IsOrder(order), Capacity \in Nat
  PROVE  IsFiniteSet(ToSet(order)) /\ Cardinality(ToSet(order)) <= Capacity
<1>1. Len(order) \in Nat /\ order \in [1 .. Len(order) -> ToSet(order)]
  BY LenProperties DEF IsOrder
<1>2. order \in Surjection(1 .. Len(order), ToSet(order))
  BY <1>1 DEF Surjection, ToSet
<1>3. IsFiniteSet(1 .. Len(order)) /\ Cardinality(1 .. Len(order)) = Len(order)
  BY <1>1, FS_Interval
<1>4. IsFiniteSet(ToSet(order)) /\ Cardinality(ToSet(order)) <= Len(order)
  BY <1>2, <1>3, FS_Surjection
<1>. QED
  BY <1>1, <1>4, FS_CardinalityType DEF IsOrder

\* What an admission leaves of an order.
LEMMA Admits ==
  ASSUME Capacity \in Nat \ {0}, NEW order, IsOrder(order), NEW x, NEW a, a = Admit(order, x)
  PROVE  /\ IsOrder(a) /\ a # <<>> /\ a[1] = x /\ x \in ToSet(a)
         /\ ToSet(a) \subseteq ToSet(order) \union {x}
         /\ order # <<>> /\ Capacity > 1 => order[1] \in ToSet(a)
<1>. PICK n : n = Len(order)
  OBVIOUS
<1>1. n \in 0 .. Capacity /\ DOMAIN order = 1 .. n /\ (order # <<>> => n > 0)
  BY LenProperties, EmptySeq DEF IsOrder
<1>2. CASE x \in ToSet(order)
  <2>. PICK at : at = CHOOSE i \in DOMAIN order : order[i] = x
    OBVIOUS
  <2>1. at \in 1 .. n /\ order[at] = x
    BY <1>1, <1>2 DEF ToSet
  <2>2. a = [i \in 1 .. n |-> IF i = 1 THEN x ELSE IF i <= at THEN order[i - 1] ELSE order[i]]
    BY <1>1, <1>2 DEF Admit, Touch
  <2>3. a = [i \in 1 .. n |-> a[i]] /\ DOMAIN a = 1 .. n
    BY <2>2
  <2>4. IsOrder(a) /\ Len(a) = n
    BY <1>1, <2>3, OrderOf
  <2>5. n > 0 /\ a[1] = x
    BY <1>1, <2>1, <2>2
  <2>6. ASSUME NEW i \in 1 .. n PROVE a[i] \in ToSet(order) \union {x}
    BY <1>1, <2>1, <2>2, SMTT(30) DEF ToSet
  <2>7. order[1] \in ToSet(a)
    <3>1. CASE at = 1
      BY <2>1, <2>3, <2>5, <3>1 DEF ToSet
    <3>2. CASE at # 1
      <4>1. 2 \in 1 .. n /\ a[2] = order[1]
        BY <1>1, <2>1, <2>2, <3>2
      <4>. QED
        BY <2>3, <4>1 DEF ToSet
    <3>. QED
      BY <3>1, <3>2
  <2>8. x \in ToSet(a) /\ ToSet(a) \subseteq ToSet(order) \union {x}
    BY <2>3, <2>5, <2>6 DEF ToSet
  <2>9. a # <<>>
    BY <1>1, <2>4, <2>5
  <2>. QED
    BY <2>4, <2>5, <2>7, <2>8, <2>9
<1>3. CASE x \notin ToSet(order)
  <2>. PICK m : m = IF n < Capacity THEN n + 1 ELSE Capacity
    OBVIOUS
  <2>1. m \in 1 .. Capacity /\ m <= n + 1 /\ (n > 0 /\ Capacity > 1 => m > 1)
    BY <1>1
  <2>2. a = [i \in 1 .. m |-> IF i = 1 THEN x ELSE order[i - 1]]
    BY <1>3 DEF Admit
  <2>3. a = [i \in 1 .. m |-> a[i]] /\ DOMAIN a = 1 .. m
    BY <2>2
  <2>4. IsOrder(a) /\ Len(a) = m
    BY <2>1, <2>3, OrderOf
  <2>5. a[1] = x
    BY <2>1, <2>2
  <2>6. ASSUME NEW i \in 1 .. m PROVE a[i] \in ToSet(order) \union {x}
    <3>1. i = 1 \/ i - 1 \in DOMAIN order
      BY <1>1, <2>1
    <3>. QED
      BY <2>2, <3>1 DEF ToSet
  <2>7. order # <<>> /\ Capacity > 1 => order[1] \in ToSet(a)
    <3>1. SUFFICES ASSUME order # <<>>, Capacity > 1 PROVE order[1] \in ToSet(a)
      OBVIOUS
    <3>2. 2 \in 1 .. m /\ a[2] = order[1]
      BY <1>1, <2>1, <2>2, <3>1
    <3>. QED
      BY <2>3, <3>2 DEF ToSet
  <2>8. x \in ToSet(a) /\ ToSet(a) \subseteq ToSet(order) \union {x}
    <3>. PICK T : T = ToSet(order) \union {x}
      OBVIOUS
    <3>1. 1 \in DOMAIN a /\ \A i \in DOMAIN a : a[i] \in T
      BY <2>1, <2>3, <2>6
    <3>. QED
      BY <2>5, <3>1 DEF ToSet
  <2>9. a # <<>>
    BY <2>1, <2>4
  <2>. QED
    BY <2>4, <2>5, <2>7, <2>8, <2>9
<1>. QED
  BY <1>2, <1>3

\* A table of counts has exactly one most frequent, exactly one least used key.
\* The table of an LFU cache, and what a use leaves of it.
IsTable(freq) ==
  /\ DOMAIN freq \subseteq Nat /\ \A i \in DOMAIN freq : freq[i] \in Nat
  /\ IsFiniteSet(DOMAIN freq) /\ Cardinality(DOMAIN freq) <= Capacity

LEMMA UsesRoom ==
  ASSUME Capacity \in Nat \ {0}, NEW freq, IsTable(freq), NEW x \in Nat, NEW u, u = Uses(freq, x)
  PROVE  IsTable(u) /\ x \in DOMAIN u /\ DOMAIN u \subseteq DOMAIN freq \union {x}
<1>. PICK room : room = IF x \in DOMAIN freq \/ Cardinality(DOMAIN freq) < Capacity THEN freq ELSE Evict(freq)
  OBVIOUS
<1>0. Cardinality(DOMAIN freq) \in Nat
  BY FS_CardinalityType DEF IsTable
<1>1. /\ DOMAIN room \subseteq DOMAIN freq /\ \A i \in DOMAIN room : room[i] \in Nat
      /\ IsFiniteSet(DOMAIN room) /\ Cardinality(DOMAIN room) <= Capacity
      /\ x \in DOMAIN room \/ Cardinality(DOMAIN room) < Capacity
  <2>1. CASE x \in DOMAIN freq \/ Cardinality(DOMAIN freq) < Capacity
    BY <2>1 DEF IsTable
  <2>2. CASE ~ (x \in DOMAIN freq \/ Cardinality(DOMAIN freq) < Capacity)
    <3>. PICK out : out = CHOOSE i \in DOMAIN freq : \A j \in DOMAIN freq \ {i} :
                            freq[i] < freq[j] \/ (freq[i] = freq[j] /\ i < j)
      OBVIOUS
    <3>1. DOMAIN freq # {}
      BY <1>0, <2>2, FS_EmptySet
    <3>2. out \in DOMAIN freq
      <4>1. \E i \in DOMAIN freq : \A j \in DOMAIN freq \ {i} :
              freq[i] < freq[j] \/ (freq[i] = freq[j] /\ i < j)
        BY <3>1, LeastUsed DEF IsTable
      <4>. QED
        BY <4>1, Zenon
    <3>3. room = [i \in DOMAIN freq \ {out} |-> freq[i]]
      BY <2>2 DEF Evict
    <3>4. IsFiniteSet(DOMAIN freq \ {out}) /\ Cardinality(DOMAIN freq \ {out}) = Cardinality(DOMAIN freq) - 1
      BY <3>2, FS_RemoveElement DEF IsTable
    <3>. QED
      BY <1>0, <3>3, <3>4 DEF IsTable
  <2>. QED
    BY <2>1, <2>2
<1>2. u = [i \in DOMAIN room \union {x} |-> (IF i \in DOMAIN room THEN room[i] ELSE 0) + Count(i = x)]
  BY DEF Uses
<1>3. DOMAIN u = DOMAIN room \union {x}
  BY <1>2
<1>4. ASSUME NEW i \in DOMAIN u PROVE u[i] \in Nat
  <2>1. Count(i = x) \in Nat
    BY DEF Count
  <2>2. (IF i \in DOMAIN room THEN room[i] ELSE 0) \in Nat
    BY <1>1
  <2>. QED
    BY <1>2, <1>3, <2>1, <2>2
<1>5. IsFiniteSet(DOMAIN u) /\ Cardinality(DOMAIN u) <= Capacity
  <2>1. /\ IsFiniteSet(DOMAIN u)
        /\ Cardinality(DOMAIN u) = IF x \in DOMAIN room THEN Cardinality(DOMAIN room) ELSE Cardinality(DOMAIN room) + 1
    BY <1>1, <1>3, FS_AddElement
  <2>2. Cardinality(DOMAIN room) \in Nat
    BY <1>1, FS_CardinalityType
  <2>. QED
    BY <1>1, <2>1, <2>2
<1>. QED
  BY <1>1, <1>3, <1>4, <1>5 DEF IsTable

\* What came in is the item, when it was not there.
LEMMA LoadedOne ==
  ASSUME NEW old, NEW new, NEW x, new \subseteq old \union {x}, x \in new
  PROVE  Cardinality(new \ old) = Count(x \notin old)
<1>1. CASE x \in old
  <2>1. new \ old = {}
    BY <1>1
  <2>. QED
    BY <1>1, <2>1, FS_EmptySet DEF Count
<1>2. CASE x \notin old
  <2>1. new \ old = {x}
    BY <1>2
  <2>. QED
    BY <1>2, <2>1, FS_Singleton DEF Count
<1>. QED
  BY <1>1, <1>2

LEMMA LoadedTwo ==
  ASSUME NEW old, NEW seen, NEW new, NEW x, NEW g,
         seen \subseteq old \union {x}, new \subseteq seen \union {g}
  PROVE  Cardinality(new \ old) \in Nat /\ Cardinality(new \ old) <= Count(x \notin old) + Count(g \notin seen)
<1>. DEFINE A == IF x \notin old THEN {x} ELSE {}
            B == IF g \notin seen THEN {g} ELSE {}
<1>1. new \ old \subseteq A \union B
  OBVIOUS
<1>2. IsFiniteSet(A) /\ Cardinality(A) = Count(x \notin old)
  BY FS_EmptySet, FS_Singleton DEF Count
<1>3. IsFiniteSet(A \union B) /\ Cardinality(A \union B) <= Count(x \notin old) + Count(g \notin seen)
  <2>1. CASE g \in seen
    <3>1. A \union B = A
      BY <2>1
    <3>2. Count(g \notin seen) = 0 /\ Count(x \notin old) \in Nat
      BY <2>1 DEF Count
    <3>. QED
      BY <1>2, <3>1, <3>2
  <2>2. CASE g \notin seen
    <3>1. A \union B = A \union {g} /\ Count(g \notin seen) = 1 /\ Count(x \notin old) \in Nat
      BY <2>2 DEF Count
    <3>. HIDE DEF A, B
    <3>2. /\ IsFiniteSet(A \union {g})
          /\ Cardinality(A \union {g}) = IF g \in A THEN Cardinality(A) ELSE Cardinality(A) + 1
      BY <1>2, FS_AddElement
    <3>3. Cardinality(A \union {g}) <= Count(x \notin old) + 1
      BY ONLY <1>2, <3>1, <3>2
    <3>. QED
      BY ONLY <3>1, <3>2, <3>3
  <2>. QED
    BY <2>1, <2>2
<1>. HIDE DEF A, B
<1>4. Cardinality(A \union B) \in Nat /\ Count(x \notin old) \in Nat /\ Count(g \notin seen) \in Nat
  BY <1>3, FS_CardinalityType DEF Count
<1>. QED
  BY <1>1, <1>3, <1>4, FS_Subset, FS_CardinalityType

\* The policies are what they must be for the next access to be counted right.
PoliciesOK ==
  /\ stream \in Seq(Items)
  /\ IsOrder(lru) /\ IsTable(lfu) /\ IsOrder(prefetch)
  /\ loads \in Nat /\ misses \in [Policies -> Nat] /\ fetches \in [Policies -> Nat]
  /\ vecs = [p \in Policies |-> Members(p)]

TierInv == PoliciesOK /\ TierMirrors

LEMMA TierInitially == ASSUME PredictionAssumption, PredInit PROVE TierInv
<1>1. lru = <<>> /\ prefetch = <<>> /\ DOMAIN lfu = {} /\ stream = <<>>
  BY DEF PredInit
<1>2. \A p \in Policies : Members(p) = {}
  BY <1>1 DEF Members, Policies, ToSet
<1>3. Capacity \in Nat \ {0} /\ Cardinality({}) = 0 /\ IsFiniteSet({})
  BY FS_EmptySet DEF PredictionAssumption
<1>4. <<>> \in Seq(Items) /\ \A S : <<>> \in Seq(S) /\ Len(<<>>) = 0
  BY EmptySeq
<1>5. IsOrder(lru) /\ IsOrder(prefetch) /\ IsTable(lfu)
  BY <1>1, <1>3, <1>4 DEF IsOrder, IsTable
<1>6. vecs = [p \in Policies |-> Members(p)]
  BY <1>2 DEF PredInit
<1>7. PoliciesOK
  BY <1>1, <1>4, <1>5, <1>6 DEF PredInit, PoliciesOK
<1>8. TierMirrors
  <2>1. ASSUME NEW p \in Policies
        PROVE  /\ Cardinality(Members(p)) <= Capacity
               /\ fetches[p] = 0 /\ misses[p] = 0 /\ loads = 0
    <3>1. fetches[p] = 0 /\ misses[p] = 0 /\ loads = 0
      BY DEF PredInit
    <3>2. Members(p) = {}
      BY <1>2
    <3>. QED
      BY <1>3, <3>1, <3>2
  <2>. QED
    BY <1>1, <2>1 DEF TierMirrors
<1>. QED
  BY <1>7, <1>8 DEF TierInv

LEMMA TierStep == ASSUME PredictionAssumption, TierInv, [PredNext]_predVars PROVE TierInv'
<1>. USE DEF TierInv
<1>0. Capacity \in Nat \ {0} /\ Items \subseteq Nat
  BY DEF PredictionAssumption
<1>1. CASE UNCHANGED predVars
  <2>1. /\ stream' = stream /\ lru' = lru /\ lfu' = lfu /\ prefetch' = prefetch
        /\ loads' = loads /\ misses' = misses /\ fetches' = fetches /\ vecs' = vecs
    BY <1>1 DEF predVars
  <2>2. \A p : Members(p)' = Members(p)
    BY <2>1 DEF Members
  <2>3. PoliciesOK'
    BY <2>1, <2>2 DEF PoliciesOK, IsOrder, IsTable
  <2>4. TierMirrors'
    BY <2>1, <2>2 DEF TierMirrors
  <2>. QED
    BY <2>3, <2>4
<1>2. CASE PredNext
  <2>1. PICK item \in Items : Access(item)
    BY <1>2 DEF PredNext
  <2>. PICK seen : seen = Admit(prefetch, item)
    OBVIOUS
  <2>. PICK guess : guess = Predict(counts', item)
    OBVIOUS
  <2>2. /\ stream' = Append(stream, item)
        /\ lru' = Admit(lru, item) /\ lfu' = Uses(lfu, item)
        /\ prefetch' = Prefetched(seen, guess) /\ loads' = loads + Count(IsLoad(seen, guess))
        /\ misses' = [p \in Policies |-> misses[p] + Count(item \notin Members(p))]
        /\ vecs' = [p \in Policies |-> Members(p)']
        /\ fetches' = [p \in Policies |-> fetches[p] + Cardinality(Members(p)' \ vecs[p])]
    BY <2>1 DEF Access
  <2>3. stream' \in Seq(Items) /\ Last(stream') = item
    BY <2>2, AppendProperties DEF PoliciesOK, Last
  <2>4. IsOrder(lru') /\ item \in ToSet(lru') /\ ToSet(lru') \subseteq ToSet(lru) \union {item}
    BY <1>0, <2>2, Admits DEF PoliciesOK
  <2>5. IsTable(lfu') /\ item \in DOMAIN lfu' /\ DOMAIN lfu' \subseteq DOMAIN lfu \union {item}
    BY <1>0, <2>2, UsesRoom DEF PoliciesOK
  <2>6. /\ IsOrder(seen) /\ seen # <<>> /\ seen[1] = item /\ item \in ToSet(seen)
        /\ ToSet(seen) \subseteq ToSet(prefetch) \union {item}
    BY <1>0, Admits DEF PoliciesOK
  <2>7. /\ IsOrder(prefetch') /\ (Capacity > 1 => item \in ToSet(prefetch'))
        /\ Cardinality(ToSet(prefetch') \ ToSet(prefetch)) \in Nat
        /\ Cardinality(ToSet(prefetch') \ ToSet(prefetch))
             <= Count(item \notin ToSet(prefetch)) + Count(IsLoad(seen, guess))
    <3>1. CASE guess = {}
      <4>1. prefetch' = seen /\ Count(IsLoad(seen, guess)) = 0
        BY <2>2, <3>1 DEF Prefetched, IsLoad, Count
      <4>2. /\ Cardinality(ToSet(seen) \ ToSet(prefetch)) = Count(item \notin ToSet(prefetch))
            /\ Count(item \notin ToSet(prefetch)) \in Nat
        BY <2>6, LoadedOne DEF Count
      <4>. QED
        BY <2>6, <4>1, <4>2
    <3>2. CASE guess # {}
      <4>1. PICK g : guess = {g}
        BY <3>2 DEF Predict
      <4>2. prefetch' = Admit(seen, g)
        BY <2>2, <4>1 DEF Prefetched
      <4>3. IsLoad(seen, guess) <=> g \notin ToSet(seen)
        BY <4>1 DEF IsLoad
      <4>4. /\ IsOrder(prefetch') /\ ToSet(prefetch') \subseteq ToSet(seen) \union {g}
            /\ (Capacity > 1 => item \in ToSet(prefetch'))
        BY <1>0, <2>6, <4>2, Admits
      <4>5. /\ Cardinality(ToSet(prefetch') \ ToSet(prefetch)) \in Nat
            /\ Cardinality(ToSet(prefetch') \ ToSet(prefetch))
                 <= Count(item \notin ToSet(prefetch)) + Count(g \notin ToSet(seen))
        <5>. PICK old, mid, new : old = ToSet(prefetch) /\ mid = ToSet(seen) /\ new = ToSet(prefetch')
          OBVIOUS
        <5>1. mid \subseteq old \union {item} /\ new \subseteq mid \union {g}
          BY <2>6, <4>4
        <5>2. /\ Cardinality(new \ old) \in Nat
              /\ Cardinality(new \ old) <= Count(item \notin old) + Count(g \notin mid)
          BY ONLY <5>1, LoadedTwo
        <5>. QED
          BY <5>2
      <4>6. Count(IsLoad(seen, guess)) = Count(g \notin ToSet(seen))
        BY <4>3 DEF Count
      <4>. QED
        BY <4>4, <4>5, <4>6
    <3>. QED
      BY <3>1, <3>2
  <2>8. /\ Members("lru") = ToSet(lru) /\ Members("lfu") = DOMAIN lfu /\ Members("markov") = ToSet(prefetch)
        /\ Members("lru")' = ToSet(lru') /\ Members("lfu")' = DOMAIN lfu' /\ Members("markov")' = ToSet(prefetch')
    BY DEF Members
  <2>9. /\ Cardinality(ToSet(lru') \ ToSet(lru)) = Count(item \notin ToSet(lru))
        /\ Cardinality(DOMAIN lfu' \ DOMAIN lfu) = Count(item \notin DOMAIN lfu)
    BY <2>4, <2>5, LoadedOne
  <2>10. /\ Count(item \notin ToSet(lru)) \in Nat /\ Count(item \notin DOMAIN lfu) \in Nat
         /\ Count(item \notin ToSet(prefetch)) \in Nat /\ Count(IsLoad(seen, guess)) \in Nat
    BY DEF Count
  <2>11. vecs["lru"] = ToSet(lru) /\ vecs["lfu"] = DOMAIN lfu /\ vecs["markov"] = ToSet(prefetch)
    BY <2>8 DEF PoliciesOK, Policies
  <2>12. ASSUME NEW p \in Policies
         PROVE  /\ Members(p) = vecs[p] /\ Count(item \notin Members(p)) \in Nat
                /\ Cardinality(Members(p)' \ vecs[p]) \in Nat
                /\ Cardinality(Members(p)' \ vecs[p])
                     <= Count(item \notin Members(p)) + (IF p = "markov" THEN Count(IsLoad(seen, guess)) ELSE 0)
                /\ p # "markov" => Cardinality(Members(p)' \ vecs[p]) = Count(item \notin Members(p))
                /\ Cardinality(Members(p)') <= Capacity
                /\ p # "markov" \/ Capacity > 1 => item \in Members(p)'
    <3>1. CASE p = "lru"
      <4>1. Members(p) = ToSet(lru) /\ vecs[p] = ToSet(lru) /\ Members(p)' = ToSet(lru')
        BY <2>8, <2>11, <3>1
      <4>2. Cardinality(ToSet(lru')) <= Capacity
        BY <1>0, <2>4, OrderIsSmall
      <4>. PICK old, new : old = ToSet(lru) /\ new = ToSet(lru')
        OBVIOUS
      <4>3. Members(p) = old /\ vecs[p] = old /\ Members(p)' = new
        BY <4>1
      <4>4. /\ Count(item \notin old) \in Nat /\ Cardinality(new \ old) = Count(item \notin old)
            /\ item \in new /\ Cardinality(new) <= Capacity
        BY <2>4, <2>9, <2>10, <4>2
      <4>. QED
        BY <3>1, <4>3, <4>4
    <3>2. CASE p = "lfu"
      BY <2>5, <2>8, <2>9, <2>10, <2>11, <3>2, SMTT(30) DEF IsTable
    <3>3. CASE p = "markov"
      BY <1>0, <2>7, <2>8, <2>10, <2>11, <3>3, OrderIsSmall
    <3>. QED
      BY <3>1, <3>2, <3>3 DEF Policies
  <2>13. loads' \in Nat /\ loads \in Nat
    BY <2>2, <2>10 DEF PoliciesOK
  <2>14. ASSUME NEW p \in Policies
         PROVE  /\ misses'[p] = misses[p] + Count(item \notin Members(p))
                /\ fetches'[p] = fetches[p] + Cardinality(Members(p)' \ vecs[p])
                /\ misses'[p] \in Nat /\ fetches'[p] \in Nat /\ misses[p] \in Nat /\ fetches[p] \in Nat
    <3>1. misses[p] \in Nat /\ fetches[p] \in Nat
      BY DEF PoliciesOK
    <3>2. misses'[p] = misses[p] + Count(item \notin Members(p))
      BY <2>2
    <3>3. fetches'[p] = fetches[p] + Cardinality(Members(p)' \ vecs[p])
      BY <2>2
    <3>. QED
      BY <2>12, <3>1, <3>2, <3>3
  <2>15. PoliciesOK'
    <3>1. misses' \in [Policies -> Nat] /\ fetches' \in [Policies -> Nat]
      BY <2>2, <2>14
    <3>. QED
      BY <2>2, <2>3, <2>4, <2>5, <2>7, <2>13, <3>1 DEF PoliciesOK
  <2>16. ASSUME NEW p \in Policies
         PROVE  /\ fetches'[p] <= misses'[p] + (IF p = "markov" THEN loads' ELSE 0)
                /\ p # "markov" => fetches'[p] = misses'[p]
    <3>. PICK n, c : n = Cardinality(Members(p)' \ vecs[p]) /\ c = Count(item \notin Members(p))
      OBVIOUS
    <3>1. /\ fetches[p] <= misses[p] + (IF p = "markov" THEN loads ELSE 0)
          /\ p # "markov" => fetches[p] = misses[p]
      BY DEF TierMirrors
    <3>2. /\ n \in Nat /\ c \in Nat /\ misses'[p] = misses[p] + c /\ fetches'[p] = fetches[p] + n
          /\ misses[p] \in Nat /\ fetches[p] \in Nat
          /\ n <= c + (IF p = "markov" THEN Count(IsLoad(seen, guess)) ELSE 0)
          /\ p # "markov" => n = c
      BY <2>12, <2>14
    <3>3. loads' = loads + Count(IsLoad(seen, guess)) /\ Count(IsLoad(seen, guess)) \in Nat
      BY <2>2, <2>10
    <3>. QED
      BY <2>13, <3>1, <3>2, <3>3
  <2>17. TierMirrors'
    BY <2>3, <2>12, <2>16 DEF TierMirrors
  <2>. QED
    BY <2>15, <2>17
<1>. QED
  BY <1>1, <1>2

-----------------------------------------------------------------------------
(***************************************************************************)
(* The lift.                                                               *)
(***************************************************************************)
\* Where b came right after a in the first n items of a stream.
Pairs(s, a, b, n) == {i \in 1 .. n - 1 : s[i] = a /\ s[i + 1] = b}

\* The model has counted the transitions of the first n items.
Learned(s, c, n) ==
  /\ \A e \in DOMAIN c : \E a, b \in Items : e = <<a, b>>
  /\ \A a, b \in Items :
       /\ Times(c, a, b) = Cardinality(Pairs(s, a, b, n))
       /\ <<a, b>> \in DOMAIN c => Pairs(s, a, b, n) # {}

LEMMA PairsAreFew ==
  ASSUME NEW s, NEW a, NEW b, NEW n \in Nat
  PROVE  /\ IsFiniteSet(Pairs(s, a, b, n)) /\ Cardinality(Pairs(s, a, b, n)) \in 0 .. n
         /\ Pairs(s, a, b, n) # {} <=> Cardinality(Pairs(s, a, b, n)) > 0
<1>1. IsFiniteSet(1 .. n - 1) /\ Cardinality(1 .. n - 1) <= n
  BY FS_Interval, SMTT(30)
<1>2. Pairs(s, a, b, n) \in SUBSET (1 .. n - 1)
  BY DEF Pairs
<1>. PICK P : P = Pairs(s, a, b, n)
  OBVIOUS
<1>3. IsFiniteSet(P) /\ Cardinality(P) <= Cardinality(1 .. n - 1)
  BY <1>1, <1>2, FS_Subset
<1>4. Cardinality(P) \in Nat /\ Cardinality(1 .. n - 1) \in Nat
  BY <1>1, <1>3, FS_CardinalityType
<1>5. Cardinality(P) = 0 <=> P = {}
  BY <1>3, FS_EmptySet
<1>. QED
  BY <1>1, <1>3, <1>4, <1>5

\* Observing the next transition keeps the model right.
LEMMA LearnsOn ==
  ASSUME NEW s, NEW c, NEW n \in Nat \ {0}, Learned(s, c, n), s[n] \in Items, s[n + 1] \in Items
  PROVE  Learned(s, Observe(c, s[n], s[n + 1]), n + 1)
<1>. PICK from, to : from = s[n] /\ to = s[n + 1]
  OBVIOUS
<1>. PICK d : d = Observe(c, from, to)
  OBVIOUS
<1>1. DOMAIN d = DOMAIN c \union {<<from, to>>}
  BY DEF Observe
<1>2. \A e \in DOMAIN d : \E a, b \in Items : e = <<a, b>>
  BY <1>1 DEF Learned
<1>3. ASSUME NEW a \in Items, NEW b \in Items
      PROVE  /\ Times(d, a, b) = Cardinality(Pairs(s, a, b, n + 1))
             /\ <<a, b>> \in DOMAIN d => Pairs(s, a, b, n + 1) # {}
  <2>. PICK P : P = Pairs(s, a, b, n)
    OBVIOUS
  <2>1. /\ Times(c, a, b) = Cardinality(P) /\ IsFiniteSet(P) /\ Cardinality(P) \in Nat
        /\ <<a, b>> \in DOMAIN c => P # {}
    BY PairsAreFew DEF Learned
  <2>2. CASE <<a, b>> = <<from, to>>
    <3>1. a = from /\ b = to
      BY <2>2
    <3>2. Times(d, a, b) = Times(c, a, b) + 1
      <4>1. d[<<a, b>>] = Times(c, <<a, b>>[1], <<a, b>>[2]) + 1
        BY <2>2 DEF Observe
      <4>2. <<a, b>>[1] = a /\ <<a, b>>[2] = b
        OBVIOUS
      <4>. QED
        BY <1>1, <2>2, <4>1, <4>2 DEF Times
    <3>3. Pairs(s, a, b, n + 1) = P \union {n} /\ n \notin P
      BY <3>1 DEF Pairs
    <3>. QED
      BY <2>1, <3>2, <3>3, FS_AddElement
  <2>3. CASE <<a, b>> # <<from, to>>
    <3>1. ~ (a = from /\ b = to)
      BY <2>3
    <3>2. Times(d, a, b) = Times(c, a, b)
      <4>1. CASE <<a, b>> \in DOMAIN c
        <5>1. d[<<a, b>>] = Times(c, <<a, b>>[1], <<a, b>>[2]) + 0
          BY <2>3, <4>1 DEF Observe
        <5>2. <<a, b>>[1] = a /\ <<a, b>>[2] = b
          OBVIOUS
        <5>. QED
          BY <1>1, <2>1, <4>1, <5>1, <5>2 DEF Times
      <4>2. CASE <<a, b>> \notin DOMAIN c
        BY <1>1, <2>3, <4>2 DEF Times
      <4>. QED
        BY <4>1, <4>2
    <3>3. Pairs(s, a, b, n + 1) = P
      BY <3>1 DEF Pairs
    <3>. QED
      BY <1>1, <2>1, <2>3, <3>2, <3>3
  <2>. QED
    BY <2>2, <2>3
<1>. QED
  BY <1>2, <1>3 DEF Learned

\* Only the first n items matter.
LEMMA LearnedPrefix ==
  ASSUME NEW s, NEW t, NEW c, NEW n \in Nat, Learned(s, c, n), \A i \in 1 .. n : t[i] = s[i]
  PROVE  Learned(t, c, n)
<1>1. \A a, b : Pairs(t, a, b, n) = Pairs(s, a, b, n)
  BY DEF Pairs
<1>. QED
  BY <1>1 DEF Learned

LEMMA MostUsed ==
  ASSUME NEW table, DOMAIN table \subseteq Nat, DOMAIN table # {},
         NEW m \in Nat, \A i \in DOMAIN table : table[i] \in 0 .. m
  PROVE  \E i \in DOMAIN table : \A j \in DOMAIN table \ {i} :
           table[j] < table[i] \/ (table[j] = table[i] /\ i < j)
<1>. PICK lack : lack = [i \in DOMAIN table |-> m - table[i]]
  OBVIOUS
<1>1. DOMAIN lack = DOMAIN table /\ \A i \in DOMAIN table : lack[i] = m - table[i] /\ lack[i] \in Nat
  OBVIOUS
<1>2. PICK i \in DOMAIN table : \A j \in DOMAIN table \ {i} :
        lack[i] < lack[j] \/ (lack[i] = lack[j] /\ i < j)
  BY <1>1, LeastUsed
<1>3. ASSUME NEW j \in DOMAIN table \ {i} PROVE table[j] < table[i] \/ (table[j] = table[i] /\ i < j)
  BY <1>1, <1>2
<1>. QED
  BY <1>3

\* What the model says next is what the definition of a guess says.
LEMMA GuessIsPredicted ==
  ASSUME PredictionAssumption, stream \in Seq(Items), NEW t \in 2 .. Len(stream), NEW c, Learned(stream, c, t - 1)
  PROVE  Predict(c, stream[t - 1]) = IF Guessable(t) THEN {Guess(t)} ELSE {}
<1>0. Items \subseteq Nat /\ t \in Nat /\ Len(stream) \in Nat /\ \A i \in 1 .. Len(stream) : stream[i] \in Items
  BY LenProperties, ElementOfSeq DEF PredictionAssumption
<1>. PICK n, from : n = t - 1 /\ from = stream[n]
  OBVIOUS
<1>1. n \in 1 .. Len(stream) /\ from \in Items /\ n \in Nat /\ Learned(stream, c, n) /\ from = stream[t - 1]
  BY <1>0
<1>9. PICK H : H = [b \in Items |-> Cardinality(Pairs(stream, from, b, n))]
  OBVIOUS
<1>2. \A b \in Items : H[b] = Followed(stream[t - 1], b, t - 1)
  BY <1>1, <1>9 DEF Followed, Pairs
<1>3. \A b \in Items : H[b] \in 0 .. n /\ (H[b] > 0 <=> Pairs(stream, from, b, n) # {})
  BY <1>1, <1>9, PairsAreFew
<1>10. PICK R : R = {e[2] : e \in {d \in DOMAIN c : d[1] = from}}
  OBVIOUS
<1>4. \A b : b \in R <=> b \in Items /\ H[b] > 0
  <2>1. ASSUME NEW b \in R PROVE b \in Items /\ H[b] > 0
    <3>1. PICK e \in DOMAIN c : e[1] = from /\ e[2] = b
      BY <1>10
    <3>2. PICK x \in Items, y \in Items : e = <<x, y>>
      BY <1>1, <3>1 DEF Learned
    <3>3. x = from /\ y = b
      BY <3>1, <3>2
    <3>4. Pairs(stream, from, b, n) # {}
      BY <1>1, <3>1, <3>2, <3>3 DEF Learned
    <3>. QED
      BY <1>3, <3>2, <3>3, <3>4
  <2>2. ASSUME NEW b \in Items, H[b] > 0 PROVE b \in R
    <3>1. Times(c, from, b) = H[b]
      BY <1>1, <1>9 DEF Learned
    <3>2. <<from, b>> \in DOMAIN c
      BY <1>3, <2>2, <3>1 DEF Times
    <3>3. <<from, b>>[1] = from /\ <<from, b>>[2] = b
      OBVIOUS
    <3>. QED
      BY <1>10, <3>2, <3>3
  <2>. QED
    BY <2>1, <2>2
<1>11. PICK row : row = [to \in R |-> c[<<from, to>>]]
  OBVIOUS
<1>5. DOMAIN row = R /\ \A b \in R : row[b] = H[b]
  <2>1. ASSUME NEW b \in R PROVE c[<<from, b>>] = H[b]
    <3>1. b \in Items /\ H[b] > 0 /\ Times(c, from, b) = H[b]
      BY <1>1, <1>4, <1>9 DEF Learned
    <3>2. <<from, b>> \in DOMAIN c
      BY <1>3, <3>1 DEF Times
    <3>. QED
      BY <3>1, <3>2 DEF Times
  <2>. QED
    BY <1>11, <2>1
<1>6. Predict(c, stream[t - 1]) = IF R = {} THEN {} ELSE {MostFrequent(row)}
  BY <1>1, <1>5, <1>10, <1>11 DEF Predict
<1>7. Guessable(t) <=> R # {}
  <2>1. ASSUME NEW i \in 1 .. t - 2, stream[i] = stream[t - 1] PROVE R # {}
    <3>1. i \in 1 .. n - 1 /\ i + 1 \in 1 .. Len(stream)
      BY <1>0, <1>1
    <3>2. stream[i + 1] \in Items /\ i \in Pairs(stream, from, stream[i + 1], n)
      BY <1>0, <1>1, <2>1, <3>1 DEF Pairs
    <3>. QED
      BY <1>3, <1>4, <3>2
  <2>2. ASSUME NEW b \in R PROVE Guessable(t)
    <3>1. PICK i \in Pairs(stream, from, b, n) : TRUE
      BY <1>3, <1>4
    <3>2. i \in 1 .. t - 2 /\ stream[i] = stream[t - 1]
      BY <1>0, <1>1, <3>1 DEF Pairs
    <3>. QED
      BY <3>2 DEF Guessable
  <2>. QED
    BY <2>1, <2>2 DEF Guessable
<1>8. ASSUME R # {} PROVE MostFrequent(row) = Guess(t)
  <2>. DEFINE Over(b, x) == H[x] < H[b] \/ (H[x] = H[b] /\ b < x)
  <2>1. \E i \in DOMAIN row : \A j \in DOMAIN row \ {i} :
          row[j] < row[i] \/ (row[j] = row[i] /\ i < j)
    BY <1>0, <1>1, <1>3, <1>4, <1>5, <1>8, MostUsed
  <2>. PICK x : x = MostFrequent(row)
    OBVIOUS
  <2>2. x \in DOMAIN row /\ \A j \in DOMAIN row \ {x} : row[j] < row[x] \/ (row[j] = row[x] /\ x < j)
    BY <2>1, Zenon DEF MostFrequent
  <2>3. x \in Items /\ \A b \in Items \ {x} : Over(x, b)
    <3>1. x \in R /\ x \in Items /\ H[x] > 0 /\ H[x] \in Nat
      <4>1. x \in R
        BY <1>5, <2>2
      <4>2. x \in Items /\ H[x] > 0
        BY <1>4, <4>1
      <4>. QED
        BY <1>1, <1>3, <4>1, <4>2
    <3>2. ASSUME NEW b \in Items, b # x PROVE Over(x, b)
      <4>1. CASE b \in R
        <5>1. row[b] < row[x] \/ (row[b] = row[x] /\ x < b)
          BY <1>5, <2>2, <3>2, <4>1
        <5>. QED
          BY <1>5, <3>1, <4>1, <5>1
      <4>2. CASE b \notin R
        <5>1. H[b] = 0
          BY <1>1, <1>3, <1>4, <4>2
        <5>. QED
          BY <3>1, <5>1
      <4>. QED
        BY <4>1, <4>2
    <3>. QED
      BY <3>1, <3>2
  <2>. PICK g : g = Guess(t)
    OBVIOUS
  <2>. DEFINE Most(b, y) ==
         \/ Followed(stream[t - 1], y, t - 1) < Followed(stream[t - 1], b, t - 1)
         \/ /\ Followed(stream[t - 1], y, t - 1) = Followed(stream[t - 1], b, t - 1)
            /\ b < y
  <2>4. \A b, y \in Items : Over(b, y) <=> Most(b, y)
    BY <1>2
  <2>7. g = CHOOSE b \in Items : \A y \in Items \ {b} : Most(b, y)
    BY DEF Guess
  <2>5. g \in Items /\ \A b \in Items \ {g} : Over(g, b)
    <3>. HIDE DEF Over, Most
    <3>1. \A y \in Items \ {x} : Most(x, y)
      BY <2>3, <2>4
    <3>2. g \in Items /\ \A b \in Items \ {g} : Most(g, b)
      BY <2>3, <2>7, <3>1, Zenon
    <3>. QED
      BY <2>4, <3>2
  <2>6. x = g
    <3>1. SUFFICES ASSUME x # g PROVE FALSE
      OBVIOUS
    <3>2. Over(x, g) /\ Over(g, x)
      BY <2>3, <2>5, <3>1
    <3>. QED
      BY <1>0, <1>3, <2>3, <2>5, <3>2
  <2>. QED
    BY <2>6
<1>. QED
  BY <1>6, <1>7, <1>8

LEMMA LiftFunction ==
  ASSUME NEW items, NEW m \in Nat
  PROVE  \E f : f = [t \in 0 .. m |-> IF t < 2 THEN NoLift ELSE LiftStep(f[t - 1], items[t - 1], items[t])]
<1>. DEFINE Step(f, i) == IF i < 2 THEN NoLift ELSE LiftStep(f[i - 1], items[i - 1], items[i])
            Good == {n \in Nat : \E f : f = [i \in 0 .. n |-> Step(f, i)]}
<1>1. 0 \in Good
  <2>1. [i \in 0 .. 0 |-> NoLift] = [i \in 0 .. 0 |-> Step([j \in 0 .. 0 |-> NoLift], i)]
    OBVIOUS
  <2>. QED
    BY <2>1
<1>2. ASSUME NEW n \in Good, n \in Nat PROVE n + 1 \in Good
  <2>1. PICK f : f = [i \in 0 .. n |-> Step(f, i)]
    BY <1>2
  <2>. DEFINE g == [i \in 0 .. n + 1 |-> IF i <= n THEN f[i] ELSE Step(f, i)]
  <2>2. ASSUME NEW i \in 0 .. n + 1 PROVE g[i] = Step(g, i)
    <3>1. i # 0 => i - 1 \in 0 .. n /\ g[i - 1] = f[i - 1]
      BY <1>2
    <3>2. g[i] = Step(f, i)
      <4>1. CASE i <= n
        <5>1. g[i] = f[i] /\ i \in 0 .. n
          BY <1>2, <4>1
        <5>. HIDE DEF g
        <5>. QED
          BY <2>1, <5>1
      <4>2. CASE i = n + 1
        BY <1>2, <4>2
      <4>. QED
        BY <1>2, <4>1, <4>2
    <3>. HIDE DEF g
    <3>. QED
      BY <3>1, <3>2
  <2>3. g = [i \in 0 .. n + 1 |-> Step(g, i)]
    BY <2>2
  <2>. HIDE DEF g
  <2>. QED
    BY <1>2, <2>3
<1>. HIDE DEF Good
<1>3. Nat \subseteq Good
  BY <1>1, <1>2, Induction
<1>. QED
  BY <1>3 DEF Good

LEMMA OneMore ==
  ASSUME NEW S, NEW n \in Nat \ {0}
  PROVE  /\ Cardinality((2 .. n) \cap S) \in Nat
         /\ Cardinality((2 .. n + 1) \cap S) = Cardinality((2 .. n) \cap S) + Count(n + 1 \in S)
<1>. PICK T : T = (2 .. n) \cap S
  OBVIOUS
<1>1. IsFiniteSet(2 .. n) /\ T \in SUBSET (2 .. n)
  BY FS_Interval
<1>2. IsFiniteSet(T) /\ Cardinality(T) \in Nat
  BY <1>1, FS_Subset, FS_CardinalityType
<1>3. CASE n + 1 \in S
  <2>1. (2 .. n + 1) \cap S = T \union {n + 1} /\ n + 1 \notin T
    BY <1>3
  <2>. QED
    BY <1>2, <1>3, <2>1, FS_AddElement DEF Count
<1>4. CASE n + 1 \notin S
  <2>1. (2 .. n + 1) \cap S = T
    BY <1>4
  <2>. QED
    BY <1>2, <1>4, <2>1 DEF Count
<1>. QED
  BY <1>3, <1>4

\* StreamLift is the definition of the lift, run along the stream.
LEMMA LiftHolds ==
  ASSUME PredictionAssumption, stream \in Seq(Items)
  PROVE  LET l == StreamLift(stream)
             steps == {t \in 2 .. Len(stream) : Guessable(t)}
         IN  /\ l.predictable = Cardinality(steps)
             /\ l.markovHits = Cardinality({t \in steps : Guess(t) = stream[t]})
<1>. DEFINE f[t \in 0 .. Len(stream)] ==
       IF t < 2 THEN NoLift ELSE LiftStep(f[t - 1], stream[t - 1], stream[t])
<1>1. Len(stream) \in Nat /\ \A i \in 1 .. Len(stream) : stream[i] \in Items
  BY LenProperties, ElementOfSeq
<1>2. f = [t \in 0 .. Len(stream) |-> IF t < 2 THEN NoLift ELSE LiftStep(f[t - 1], stream[t - 1], stream[t])]
  <2>1. \E g : g = [t \in 0 .. Len(stream) |->
                      IF t < 2 THEN NoLift ELSE LiftStep(g[t - 1], stream[t - 1], stream[t])]
    BY <1>1, LiftFunction
  <2>. QED
    BY <2>1, Zenon
<1>. DEFINE w == f[Len(stream)]
<1>3. StreamLift(stream) = [predictable |-> w.predictable, markovHits |-> w.markovHits,
                            marginalHits |-> IF w.predictable = 0 THEN 0 ELSE w.marginalHits]
  BY DEF StreamLift
<1>. HIDE DEF f
<1>. DEFINE S == {t \in Nat : Guessable(t)}
            R == {t \in Nat : Guessable(t) /\ Guess(t) = stream[t]}
            Fine(n) == /\ Learned(stream, f[n].counts, n)
                       /\ f[n].predictable = Cardinality((2 .. n) \cap S)
                       /\ f[n].markovHits = Cardinality((2 .. n) \cap R)
            Good == {n \in Nat : n + 1 <= Len(stream) => Fine(n + 1)}
<1>4. ASSUME Len(stream) >= 1 PROVE Fine(1)
  <2>1. f[1] = NoLift
    BY <1>1, <1>2, <1>4
  <2>2. (2 .. 1) = {}
    OBVIOUS
  <2>3. Cardinality((2 .. 1) \cap S) = 0 /\ Cardinality((2 .. 1) \cap R) = 0
    BY <2>2, FS_EmptySet
  <2>4. Learned(stream, << >>, 1)
    <3>1. \A a, b : Pairs(stream, a, b, 1) = {}
      BY DEF Pairs
    <3>. QED
      BY <3>1, FS_EmptySet DEF Learned, Times
  <2>. QED
    BY <2>1, <2>3, <2>4 DEF NoLift
<1>5. ASSUME NEW n \in Nat \ {0}, n + 1 <= Len(stream), Fine(n) PROVE Fine(n + 1)
  <2>. PICK l : l = f[n]
    OBVIOUS
  <2>. PICK prev, curr : prev = stream[n] /\ curr = stream[n + 1]
    OBVIOUS
  <2>1. f[n + 1] = LiftStep(l, prev, curr)
    <3>1. n + 1 \in 0 .. Len(stream) /\ ~ (n + 1 < 2) /\ n + 1 - 1 = n
      BY <1>1, <1>5
    <3>2. f[n + 1] = LiftStep(f[n], stream[n], stream[n + 1])
      BY ONLY <1>2, <3>1
    <3>. QED
      BY <3>2
  <2>2. /\ f[n + 1].counts = Observe(l.counts, prev, curr)
        /\ f[n + 1].predictable = l.predictable + Count(Predict(l.counts, prev) # {})
        /\ f[n + 1].markovHits = l.markovHits + Count(curr \in Predict(l.counts, prev))
    BY <2>1 DEF LiftStep
  <2>3. prev \in Items /\ curr \in Items
    BY <1>1, <1>5
  <2>4. Learned(stream, f[n + 1].counts, n + 1)
    BY <1>5, <2>2, <2>3, LearnsOn
  <2>. PICK t : t = n + 1
    OBVIOUS
  <2>5. Predict(l.counts, prev) = IF Guessable(t) THEN {Guess(t)} ELSE {}
    <3>1. t \in 2 .. Len(stream) /\ t - 1 = n /\ Learned(stream, l.counts, t - 1)
      BY <1>1, <1>5
    <3>. QED
      BY <3>1, GuessIsPredicted
  <2>6. /\ Count(Predict(l.counts, prev) # {}) = Count(t \in S)
        /\ Count(curr \in Predict(l.counts, prev)) = Count(t \in R)
    <3>1. Predict(l.counts, prev) # {} <=> t \in S
      BY <1>5, <2>5
    <3>2. curr \in Predict(l.counts, prev) <=> t \in R
      BY <1>5, <2>5
    <3>. QED
      BY <3>1, <3>2 DEF Count
  <2>7. /\ Cardinality((2 .. n + 1) \cap S) = Cardinality((2 .. n) \cap S) + Count(t \in S)
        /\ Cardinality((2 .. n + 1) \cap R) = Cardinality((2 .. n) \cap R) + Count(t \in R)
    BY <1>5, OneMore
  <2>. QED
    BY <1>5, <2>2, <2>4, <2>6, <2>7
<1>. HIDE DEF Fine
<1>6. 0 \in Good /\ \A n \in Good : n \in Nat => n + 1 \in Good
  BY <1>4, <1>5
<1>. HIDE DEF Good
<1>7. Nat \subseteq Good
  BY <1>6, Induction
<1>8. /\ (2 .. Len(stream)) \cap S = {t \in 2 .. Len(stream) : Guessable(t)}
      /\ (2 .. Len(stream)) \cap R = {t \in {u \in 2 .. Len(stream) : Guessable(u)} : Guess(t) = stream[t]}
  BY <1>1
<1>9. CASE Len(stream) = 0
  <2>1. w = NoLift
    BY <1>2, <1>9
  <2>2. (2 .. Len(stream)) = {}
    BY <1>9
  <2>3. {t \in 2 .. Len(stream) : Guessable(t)} = {}
    BY <2>2
  <2>4. {t \in {u \in 2 .. Len(stream) : Guessable(u)} : Guess(t) = stream[t]} = {}
    BY <2>2
  <2>5. w.predictable = 0 /\ w.markovHits = 0
    BY <2>1 DEF NoLift
  <2>6. StreamLift(stream).predictable = 0 /\ StreamLift(stream).markovHits = 0
    BY <1>3, <2>5
  <2>. QED
    BY <2>3, <2>4, <2>6, FS_EmptySet
<1>10. CASE Len(stream) # 0
  <2>. PICK m : m = Len(stream) - 1
    OBVIOUS
  <2>1. m \in Nat /\ m + 1 = Len(stream)
    BY <1>1, <1>10
  <2>2. Fine(Len(stream))
    BY <1>7, <2>1 DEF Good
  <2>3. w.predictable = Cardinality((2 .. Len(stream)) \cap S) /\ w.markovHits = Cardinality((2 .. Len(stream)) \cap R)
    BY <2>2 DEF Fine
  <2>. HIDE DEF w, S, R
  <2>4. StreamLift(stream).predictable = w.predictable /\ StreamLift(stream).markovHits = w.markovHits
    BY <1>3
  <2>. QED
    BY <1>8, <2>3, <2>4
<1>. QED
  BY <1>9, <1>10

\* What both reports and the prefetcher stand on.
ReportInv == TierInv /\ Learned(stream, counts, Len(stream))

LEMMA ReportStep == ASSUME PredictionAssumption, ReportInv, [PredNext]_predVars PROVE ReportInv'
<1>. USE DEF ReportInv
<1>1. TierInv'
  BY TierStep
<1>2. CASE UNCHANGED predVars
  <2>1. stream' = stream /\ counts' = counts
    BY <1>2 DEF predVars
  <2>. QED
    BY <1>1, <2>1
<1>3. CASE PredNext
  <2>1. PICK item \in Items : Access(item)
    BY <1>3 DEF PredNext
  <2>2. /\ stream' = Append(stream, item)
        /\ counts' = IF stream = <<>> THEN counts ELSE Observe(counts, Last(stream), item)
    BY <2>1 DEF Access
  <2>. PICK n : n = Len(stream)
    OBVIOUS
  <2>3. stream \in Seq(Items) /\ n \in Nat /\ (stream # <<>> => n # 0) /\ \A i \in 1 .. n : stream[i] \in Items
    BY LenProperties, EmptySeq, ElementOfSeq DEF TierInv, PoliciesOK
  <2>4. Len(stream') = n + 1 /\ stream'[n + 1] = item /\ \A i \in 1 .. n : stream'[i] = stream[i]
    BY <2>2, <2>3, AppendProperties
  <2>. PICK t : t = stream'
    OBVIOUS
  <2>5. Learned(t, counts, n)
    BY <2>3, <2>4, LearnedPrefix
  <2>6. CASE stream = <<>>
    <3>1. n = 0
      BY <2>6
    <3>2. \A a, b : Pairs(t, a, b, 1) = Pairs(t, a, b, n)
      BY <3>1 DEF Pairs
    <3>3. Learned(t, counts, 1)
      BY ONLY <2>5, <3>2 DEF Learned
    <3>. QED
      BY <1>1, <2>2, <2>4, <2>6, <3>1, <3>3
  <2>7. CASE stream # <<>>
    <3>1. n \in Nat \ {0} /\ t[n] \in Items /\ t[n + 1] = item
      BY <2>3, <2>4, <2>7
    <3>2. Learned(t, Observe(counts, t[n], t[n + 1]), n + 1)
      BY <2>5, <3>1, LearnsOn
    <3>3. Last(stream) = t[n]
      BY <2>4, <3>1 DEF Last
    <3>. QED
      BY <1>1, <2>2, <2>4, <2>7, <3>1, <3>2, <3>3
  <2>. QED
    BY <2>6, <2>7
<1>. QED
  BY <1>2, <1>3

\* Whatever is accessed: the report counts what can be guessed from the past
\* alone, and the tier loads what its policy's misses and prefetches account for
\* (refine.StreamLift, cache.ExactTier).
THEOREM ReportsAreRight ==
  ASSUME PredictionAssumption
  PROVE  PredInit /\ [][PredNext]_predVars => []ReportsHold
<1>1. PredInit => ReportInv
  <2>1. SUFFICES ASSUME PredInit PROVE ReportInv
    OBVIOUS
  <2>2. stream = <<>> /\ counts = << >> /\ Len(stream) = 0
    BY <2>1, EmptySeq DEF PredInit
  <2>3. \A a, b : Pairs(stream, a, b, 0) = {}
    BY DEF Pairs
  <2>4. Learned(stream, counts, Len(stream))
    BY <2>2, <2>3, FS_EmptySet DEF Learned, Times
  <2>. QED
    BY <2>1, <2>4, TierInitially DEF ReportInv
<1>2. ReportInv /\ [PredNext]_predVars => ReportInv'
  BY ReportStep
<1>3. ReportInv => ReportsHold
  <2>1. SUFFICES ASSUME ReportInv PROVE ReportsHold
    OBVIOUS
  <2>2. stream \in Seq(Items) /\ Learned(stream, counts, Len(stream)) /\ TierMirrors
    BY <2>1 DEF ReportInv, TierInv, PoliciesOK
  <2>3. \A a, b \in Items : Times(counts, a, b) = Followed(a, b, Len(stream))
    BY <2>2 DEF Learned, Followed, Pairs
  <2>4. LiftIsCausal
    BY <2>2, <2>3, LiftHolds DEF LiftIsCausal
  <2>. QED
    BY <2>2, <2>4 DEF ReportsHold
<1>. QED
  BY <1>1, <1>2, <1>3, PTL

-----------------------------------------------------------------------------
(***************************************************************************)
(* The windows and the count.                                              *)
(***************************************************************************)
ToolsUpTo(bs, n) == {i \in 1 .. n : bs[i] = "tool"}

\* Every closed window has k uses, the open one fewer, and with c none is lost.
Filled(w, c, k) ==
  /\ w = [closed |-> w.closed, tu |-> w.tu, text |-> w.text]
  /\ w.closed \in Seq(Nat) /\ w.tu \in 0 .. k - 1
  /\ \A i \in 1 .. Len(w.closed) : w.closed[i] = k
  /\ c = k * Len(w.closed) + w.tu

LEMMA WindowFills ==
  ASSUME NEW k \in Nat \ {0}, NEW c \in Nat, NEW w, Filled(w, c, k), NEW b
  PROVE  Filled(Window(w, b, k), IF b = "tool" THEN c + 1 ELSE c, k)
<1>. DEFINE next == Window(w, b, k)
<1>1. CASE b = "text"
  <2>1. next = [closed |-> w.closed, tu |-> w.tu, text |-> TRUE]
    BY <1>1 DEF Window, Filled
  <2>2. Filled([closed |-> w.closed, tu |-> w.tu, text |-> TRUE], c, k)
    BY DEF Filled
  <2>. QED
    BY <1>1, <2>1, <2>2
<1>2. CASE b # "text" /\ b # "tool"
  BY <1>2 DEF Window
<1>3. CASE b = "tool" /\ w.tu + 1 < k
  <2>1. next = [closed |-> w.closed, tu |-> w.tu + 1, text |-> w.text]
    <3>1. [w EXCEPT !.tu = @ + 1] = [closed |-> w.closed, tu |-> w.tu + 1, text |-> w.text]
      BY DEF Filled
    <3>2. ~ (w.tu + 1 >= k)
      BY <1>3 DEF Filled
    <3>. QED
      BY <1>3, <3>1, <3>2 DEF Window
  <2>2. Len(w.closed) \in Nat
    BY LenProperties DEF Filled
  <2>3. k * Len(w.closed) \in Nat
    BY <2>2
  <2>4. c + 1 = k * Len(w.closed) + (w.tu + 1)
    BY <2>3 DEF Filled
  <2>. QED
    BY <1>3, <2>1, <2>4 DEF Filled
<1>4. CASE b = "tool" /\ w.tu + 1 >= k
  <2>1. w.tu + 1 = k
    BY <1>4 DEF Filled
  <2>2. next = [closed |-> Append(w.closed, k), tu |-> 0, text |-> FALSE]
    BY <1>4, <2>1 DEF Window, Closed, Filled
  <2>3. /\ Append(w.closed, k) \in Seq(Nat) /\ Len(Append(w.closed, k)) = Len(w.closed) + 1
        /\ \A i \in 1 .. Len(w.closed) + 1 : Append(w.closed, k)[i] = k
    <3>. PICK cl : cl = w.closed
      OBVIOUS
    <3>1. cl \in Seq(Nat) /\ \A i \in 1 .. Len(cl) : cl[i] = k
      BY DEF Filled
    <3>. QED
      BY <3>1, AppendProperties, LenProperties
  <2>4. Len(w.closed) \in Nat
    BY LenProperties DEF Filled
  <2>5. k * (Len(w.closed) + 1) = k * Len(w.closed) + k /\ k * Len(w.closed) \in Nat
    BY <2>4
  <2>6. c + 1 = k * (Len(w.closed) + 1) + 0
    BY <2>1, <2>5 DEF Filled
  <2>7. Filled([closed |-> Append(w.closed, k), tu |-> 0, text |-> FALSE], c + 1, k)
    BY <2>3, <2>6 DEF Filled
  <2>. QED
    BY <1>4, <2>2, <2>7
<1>. QED
  BY <1>1, <1>2, <1>3, <1>4 DEF Filled

LEMMA CountedFrom ==
  ASSUME NEW bs, NEW n \in Nat, IsFiniteSet(ToolsUpTo(bs, n))
  PROVE  /\ IsFiniteSet(ToolsUpTo(bs, n + 1)) /\ Cardinality(ToolsUpTo(bs, n)) \in Nat
         /\ Cardinality(ToolsUpTo(bs, n + 1)) = IF bs[n + 1] = "tool" THEN Cardinality(ToolsUpTo(bs, n)) + 1
                                                                       ELSE Cardinality(ToolsUpTo(bs, n))
<1>1. n + 1 \notin ToolsUpTo(bs, n)
  BY DEF ToolsUpTo
<1>2. CASE bs[n + 1] = "tool"
  <2>1. ToolsUpTo(bs, n + 1) = ToolsUpTo(bs, n) \union {n + 1}
    BY <1>2 DEF ToolsUpTo
  <2>. QED
    BY <1>1, <1>2, <2>1, FS_AddElement, FS_CardinalityType
<1>3. CASE bs[n + 1] # "tool"
  <2>1. ToolsUpTo(bs, n + 1) = ToolsUpTo(bs, n)
    BY <1>3 DEF ToolsUpTo
  <2>. QED
    BY <1>3, <2>1, FS_CardinalityType
<1>. QED
  BY <1>2, <1>3

\* The windows after each of the first m blocks of a line.
IsWindowed(f, w, line, k, m) == f = [i \in 0 .. m |-> IF i = 0 THEN w ELSE Window(f[i - 1], line[i], k)]

LEMMA LineFunction ==
  ASSUME NEW w, NEW line, NEW k, NEW m \in Nat
  PROVE  \E f : IsWindowed(f, w, line, k, m)
<1>. DEFINE Step(f, i) == IF i = 0 THEN w ELSE Window(f[i - 1], line[i], k)
            Good == {n \in Nat : \E f : f = [i \in 0 .. n |-> Step(f, i)]}
<1>1. 0 \in Good
  <2>1. [i \in 0 .. 0 |-> w] = [i \in 0 .. 0 |-> Step([j \in 0 .. 0 |-> w], i)]
    OBVIOUS
  <2>. QED
    BY <2>1
<1>2. ASSUME NEW n \in Good, n \in Nat PROVE n + 1 \in Good
  <2>1. PICK f : f = [i \in 0 .. n |-> Step(f, i)]
    BY <1>2
  <2>. DEFINE g == [i \in 0 .. n + 1 |-> IF i <= n THEN f[i] ELSE Step(f, i)]
  <2>2. ASSUME NEW i \in 0 .. n + 1 PROVE g[i] = Step(g, i)
    <3>1. i # 0 => i - 1 \in 0 .. n /\ g[i - 1] = f[i - 1]
      BY <1>2
    <3>2. g[i] = Step(f, i)
      <4>1. CASE i <= n
        <5>1. g[i] = f[i] /\ i \in 0 .. n
          BY <1>2, <4>1
        <5>. HIDE DEF g
        <5>. QED
          BY <2>1, <5>1
      <4>2. CASE i = n + 1
        BY <1>2, <4>2
      <4>. QED
        BY <1>2, <4>1, <4>2
    <3>. HIDE DEF g
    <3>. QED
      BY <3>1, <3>2
  <2>3. g = [i \in 0 .. n + 1 |-> Step(g, i)]
    BY <2>2
  <2>. HIDE DEF g
  <2>. QED
    BY <1>2, <2>3
<1>. HIDE DEF Good
<1>3. Nat \subseteq Good
  BY <1>1, <1>2, Induction
<1>. QED
  BY <1>3 DEF Good, IsWindowed

\* A line closes the windows its uses fill.
LEMMA LineFills ==
  ASSUME NEW line, Len(line) \in Nat, DOMAIN line = 1 .. Len(line),
         NEW k \in Nat \ {0}, NEW c \in Nat, NEW w, Filled(w, c, k)
  PROVE  ToolsOf(line) \in Nat /\ Filled(Through(w, line, k), c + ToolsOf(line), k)
<1>0. \E g : g = [i \in 0 .. Len(line) |-> IF i = 0 THEN w ELSE Window(g[i - 1], line[i], k)]
  <2>1. \E g : IsWindowed(g, w, line, k, Len(line))
    BY LineFunction
  <2>. QED
    BY <2>1 DEF IsWindowed
<1>. DEFINE f[i \in 0 .. Len(line)] == IF i = 0 THEN w ELSE Window(f[i - 1], line[i], k)
            Fine(i) == IsFiniteSet(ToolsUpTo(line, i)) /\ Filled(f[i], c + Cardinality(ToolsUpTo(line, i)), k)
            Good == {i \in Nat : i <= Len(line) => Fine(i)}
<1>1. f = [i \in 0 .. Len(line) |-> IF i = 0 THEN w ELSE Window(f[i - 1], line[i], k)]
  BY <1>0, Zenon
<1>2. Through(w, line, k) = f[Len(line)]
  BY DEF Through
<1>3. ToolsOf(line) = Cardinality(ToolsUpTo(line, Len(line)))
  BY DEF ToolsOf, ToolsUpTo
<1>. HIDE DEF f
<1>4. Fine(0)
  <2>1. f[0] = w
    BY <1>1
  <2>2. ToolsUpTo(line, 0) = {}
    BY DEF ToolsUpTo
  <2>. QED
    BY <2>1, <2>2, FS_EmptySet
<1>5. ASSUME NEW i \in Nat, i + 1 <= Len(line), Fine(i) PROVE Fine(i + 1)
  <2>1. f[i + 1] = Window(f[i], line[i + 1], k)
    BY <1>1, <1>5
  <2>2. /\ IsFiniteSet(ToolsUpTo(line, i + 1)) /\ Cardinality(ToolsUpTo(line, i)) \in Nat
        /\ Cardinality(ToolsUpTo(line, i + 1)) = IF line[i + 1] = "tool" THEN Cardinality(ToolsUpTo(line, i)) + 1
                                                                          ELSE Cardinality(ToolsUpTo(line, i))
    BY <1>5, CountedFrom
  <2>. PICK d : d = c + Cardinality(ToolsUpTo(line, i))
    OBVIOUS
  <2>3. d \in Nat /\ Filled(f[i], d, k)
    BY <1>5, <2>2
  <2>4. Filled(f[i + 1], IF line[i + 1] = "tool" THEN d + 1 ELSE d, k)
    BY <2>1, <2>3, WindowFills
  <2>5. (IF line[i + 1] = "tool" THEN d + 1 ELSE d) = c + Cardinality(ToolsUpTo(line, i + 1))
    BY <2>2
  <2>. QED
    BY <2>2, <2>4, <2>5
<1>. HIDE DEF Fine
<1>6. 0 \in Good /\ \A i \in Good : i \in Nat => i + 1 \in Good
  BY <1>4, <1>5
<1>. HIDE DEF Good
<1>7. Len(line) \in Good
  BY <1>6, Induction
<1>8. Fine(Len(line))
  BY <1>7 DEF Good
<1>. QED
  BY <1>2, <1>3, <1>8, FS_CardinalityType DEF Fine

\* The running count of tool uses over the first m lines.
IsCount(f, read, m) == f = [n \in 0 .. m |-> IF n = 0 THEN 0 ELSE f[n - 1] + ToolsOf(read[n])]

LEMMA UsesFunction ==
  ASSUME NEW read, NEW m \in Nat
  PROVE  \E f : IsCount(f, read, m)
<1>. DEFINE Step(f, i) == IF i = 0 THEN 0 ELSE f[i - 1] + ToolsOf(read[i])
            Good == {n \in Nat : \E f : f = [i \in 0 .. n |-> Step(f, i)]}
<1>1. 0 \in Good
  <2>1. [i \in 0 .. 0 |-> 0] = [i \in 0 .. 0 |-> Step([j \in 0 .. 0 |-> 0], i)]
    OBVIOUS
  <2>. QED
    BY <2>1
<1>2. ASSUME NEW n \in Good, n \in Nat PROVE n + 1 \in Good
  <2>1. PICK f : f = [i \in 0 .. n |-> Step(f, i)]
    BY <1>2
  <2>. DEFINE g == [i \in 0 .. n + 1 |-> IF i <= n THEN f[i] ELSE Step(f, i)]
  <2>2. ASSUME NEW i \in 0 .. n + 1 PROVE g[i] = Step(g, i)
    <3>1. i # 0 => i - 1 \in 0 .. n /\ g[i - 1] = f[i - 1]
      BY <1>2
    <3>2. g[i] = Step(f, i)
      <4>1. CASE i <= n
        <5>1. g[i] = f[i] /\ i \in 0 .. n
          BY <1>2, <4>1
        <5>. HIDE DEF g
        <5>. QED
          BY <2>1, <5>1
      <4>2. CASE i = n + 1
        BY <1>2, <4>2
      <4>. QED
        BY <1>2, <4>1, <4>2
    <3>. HIDE DEF g
    <3>. QED
      BY <3>1, <3>2
  <2>3. g = [i \in 0 .. n + 1 |-> Step(g, i)]
    BY <2>2
  <2>. HIDE DEF g
  <2>. QED
    BY <1>2, <2>3
<1>. HIDE DEF Good
<1>3. Nat \subseteq Good
  BY <1>1, <1>2, Induction
<1>. QED
  BY <1>3 DEF Good, IsCount

\* The windows after each of the first m lines.
AreWindowed(f, read, k, m) == f = [n \in 0 .. m |-> IF n = 0 THEN NoWindow ELSE Through(f[n - 1], read[n], k)]

LEMMA LinesFunction ==
  ASSUME NEW read, NEW k, NEW m \in Nat
  PROVE  \E f : AreWindowed(f, read, k, m)
<1>. DEFINE Step(f, i) == IF i = 0 THEN NoWindow ELSE Through(f[i - 1], read[i], k)
            Good == {n \in Nat : \E f : f = [i \in 0 .. n |-> Step(f, i)]}
<1>1. 0 \in Good
  <2>1. [i \in 0 .. 0 |-> NoWindow] = [i \in 0 .. 0 |-> Step([j \in 0 .. 0 |-> NoWindow], i)]
    OBVIOUS
  <2>. QED
    BY <2>1
<1>2. ASSUME NEW n \in Good, n \in Nat PROVE n + 1 \in Good
  <2>1. PICK f : f = [i \in 0 .. n |-> Step(f, i)]
    BY <1>2
  <2>. DEFINE g == [i \in 0 .. n + 1 |-> IF i <= n THEN f[i] ELSE Step(f, i)]
  <2>2. ASSUME NEW i \in 0 .. n + 1 PROVE g[i] = Step(g, i)
    <3>1. i # 0 => i - 1 \in 0 .. n /\ g[i - 1] = f[i - 1]
      BY <1>2
    <3>2. g[i] = Step(f, i)
      <4>1. CASE i <= n
        <5>1. g[i] = f[i] /\ i \in 0 .. n
          BY <1>2, <4>1
        <5>. HIDE DEF g
        <5>. QED
          BY <2>1, <5>1
      <4>2. CASE i = n + 1
        BY <1>2, <4>2
      <4>. QED
        BY <1>2, <4>1, <4>2
    <3>. HIDE DEF g
    <3>. QED
      BY <3>1, <3>2
  <2>3. g = [i \in 0 .. n + 1 |-> Step(g, i)]
    BY <2>2
  <2>. HIDE DEF g
  <2>. QED
    BY <1>2, <2>3
<1>. HIDE DEF Good
<1>3. Nat \subseteq Good
  BY <1>1, <1>2, Induction
<1>. QED
  BY <1>3 DEF Good, AreWindowed

LEMMA CountIs ==
  ASSUME NEW lines, NEW read, read = Scannable(lines), NEW m \in Nat, m = Len(read)
  PROVE  \E f : IsCount(f, read, m) /\ CountToolUses(lines) = f[m]
<1>. DEFINE u[n \in 0 .. m] == IF n = 0 THEN 0 ELSE u[n - 1] + ToolsOf(read[n])
<1>1. PICK g : IsCount(g, read, m)
  BY UsesFunction
<1>2. u = [n \in 0 .. m |-> IF n = 0 THEN 0 ELSE u[n - 1] + ToolsOf(read[n])]
  <2>1. g = [n \in 0 .. m |-> IF n = 0 THEN 0 ELSE g[n - 1] + ToolsOf(read[n])]
    BY <1>1 DEF IsCount
  <2>. QED
    BY <2>1, Zenon
<1>3. CountToolUses(lines) = u[m]
  BY DEF CountToolUses
<1>. HIDE DEF u
<1>. QED
  BY <1>2, <1>3 DEF IsCount

LEMMA LineShape ==
  /\ \A l \in Lines : Len(l) \in Nat /\ DOMAIN l = 1 .. Len(l)
  /\ \A l \in Lines : ToolsOf(l) \in Nat
<1>1. ASSUME NEW l \in Lines PROVE Len(l) \in Nat /\ DOMAIN l = 1 .. Len(l)
  BY DEF Lines, Huge
<1>2. ASSUME NEW l \in Lines PROVE ToolsOf(l) \in Nat
  <2>1. IsFiniteSet(1 .. Len(l))
    BY <1>1, FS_Interval
  <2>2. IsFiniteSet({i \in DOMAIN l : l[i] = "tool"})
    BY <1>1, <2>1, FS_Subset
  <2>. QED
    BY <2>2, FS_CardinalityType DEF ToolsOf
<1>. QED
  BY <1>1, <1>2

\* What is counted is what the windows hold, k in each but the last.
LEMMA WindowsHold ==
  ASSUME NEW lines, Scannable(lines) \in Seq(Lines), NEW k \in Nat \ {0}
  PROVE  LET w == Windows(lines, k)
         IN  /\ CountToolUses(lines) = IF w = <<>> THEN 0 ELSE k * (Len(w) - 1) + w[Len(w)]
             /\ \A i \in DOMAIN w : IF i < Len(w) THEN w[i] = k ELSE w[i] <= k
<1>. PICK read : read = Scannable(lines)
  OBVIOUS
<1>1. Len(read) \in Nat /\ \A n \in 1 .. Len(read) : read[n] \in Lines
  BY LenProperties, ElementOfSeq
<1>2. PICK u : IsCount(u, read, Len(read)) /\ CountToolUses(lines) = u[Len(read)]
  BY <1>1, CountIs
<1>0. \E g : g = [n \in 0 .. Len(read) |-> IF n = 0 THEN NoWindow ELSE Through(g[n - 1], read[n], k)]
  <2>1. \E g : AreWindowed(g, read, k, Len(read))
    BY <1>1, LinesFunction
  <2>. QED
    BY <2>1 DEF AreWindowed
<1>. DEFINE f[n \in 0 .. Len(read)] == IF n = 0 THEN NoWindow ELSE Through(f[n - 1], read[n], k)
<1>3. f = [n \in 0 .. Len(read) |-> IF n = 0 THEN NoWindow ELSE Through(f[n - 1], read[n], k)]
  BY <1>0, Zenon
<1>. DEFINE w == f[Len(read)]
<1>5. Windows(lines, k) = (IF w.tu > 0 \/ w.text THEN Closed(w) ELSE w).closed
  BY DEF Windows
<1>. HIDE DEF f
<1>. DEFINE Fine(n) == u[n] \in Nat /\ Filled(f[n], u[n], k)
            Good == {n \in Nat : n <= Len(read) => Fine(n)}
<1>6. Fine(0)
  <2>1. Filled(NoWindow, 0, k)
    BY DEF NoWindow, Filled
  <2>. QED
    BY <1>1, <1>2, <1>3, <2>1 DEF IsCount
<1>7. ASSUME NEW n \in Nat, n + 1 <= Len(read), Fine(n) PROVE Fine(n + 1)
  <2>1. f[n + 1] = Through(f[n], read[n + 1], k) /\ u[n + 1] = u[n] + ToolsOf(read[n + 1])
    BY <1>1, <1>2, <1>3, <1>7 DEF IsCount
  <2>2. read[n + 1] \in Lines
    BY <1>1, <1>7
  <2>. PICK line : line = read[n + 1]
    OBVIOUS
  <2>3. Len(line) \in Nat /\ DOMAIN line = 1 .. Len(line)
    BY <2>2, LineShape
  <2>4. ToolsOf(line) \in Nat /\ Filled(Through(f[n], line, k), u[n] + ToolsOf(line), k)
    BY <1>7, <2>3, LineFills
  <2>. QED
    BY <1>7, <2>1, <2>4
<1>. HIDE DEF Fine
<1>8. 0 \in Good /\ \A n \in Good : n \in Nat => n + 1 \in Good
  BY <1>6, <1>7
<1>. HIDE DEF Good
<1>9. Len(read) \in Good
  BY <1>1, <1>8, Induction
<1>10. Filled(w, u[Len(read)], k) /\ u[Len(read)] \in Nat
  BY <1>1, <1>9 DEF Good, Fine
<1>. HIDE DEF w
<1>. PICK cl, tu : cl = w.closed /\ tu = w.tu
  OBVIOUS
<1>. PICK c : c = u[Len(read)]
  OBVIOUS
<1>11. /\ cl \in Seq(Nat) /\ tu \in 0 .. k - 1 /\ c = k * Len(cl) + tu
       /\ \A i \in 1 .. Len(cl) : cl[i] = k
       /\ w = [closed |-> cl, tu |-> tu, text |-> w.text]
  BY <1>10 DEF Filled
<1>12. Len(cl) \in Nat /\ DOMAIN cl = 1 .. Len(cl)
  BY <1>11, LenProperties
<1>13. CASE ~ (w.tu > 0 \/ w.text)
  <2>1. Windows(lines, k) = cl
    BY <1>5, <1>13
  <2>2. tu = 0
    BY <1>11, <1>13
  <2>3. c = IF cl = <<>> THEN 0 ELSE k * (Len(cl) - 1) + cl[Len(cl)]
    <3>1. CASE cl = <<>>
      BY <1>11, <2>2, <3>1
    <3>2. CASE cl # <<>>
      <4>1. Len(cl) \in Nat \ {0}
        BY <1>11, <1>12, <3>2, EmptySeq
      <4>2. cl[Len(cl)] = k
        BY <1>11, <4>1, SMTT(30)
      <4>3. k * Len(cl) = k * (Len(cl) - 1) + k
        BY <4>1
      <4>. QED
        BY <1>11, <2>2, <3>2, <4>2, <4>3
    <3>. QED
      BY <3>1, <3>2
  <2>4. \A i \in DOMAIN cl : IF i < Len(cl) THEN cl[i] = k ELSE cl[i] <= k
    BY <1>11, <1>12
  <2>. QED
    BY <1>2, <2>1, <2>3, <2>4
<1>14. CASE w.tu > 0 \/ w.text
  <2>. PICK last : last = Append(cl, tu)
    OBVIOUS
  <2>1. Windows(lines, k) = last
    BY <1>5, <1>14 DEF Closed
  <2>2. /\ last \in Seq(Nat) /\ Len(last) = Len(cl) + 1 /\ last[Len(cl) + 1] = tu
        /\ \A i \in 1 .. Len(cl) : last[i] = cl[i]
    BY <1>11, AppendProperties
  <2>3. DOMAIN last = 1 .. Len(cl) + 1 /\ last # <<>>
    BY <1>12, <2>2, LenProperties
  <2>4. c = k * (Len(last) - 1) + last[Len(last)]
    <3>1. Len(last) - 1 = Len(cl)
      BY <1>12, <2>2
    <3>. QED
      BY <1>11, <2>2, <3>1
  <2>5. \A i \in DOMAIN last : IF i < Len(last) THEN last[i] = k ELSE last[i] <= k
    BY <1>11, <1>12, <2>2, <2>3
  <2>. QED
    BY <1>2, <2>1, <2>3, <2>4, <2>5
<1>. QED
  BY <1>13, <1>14

-----------------------------------------------------------------------------
(***************************************************************************)
(* The hook.                                                               *)
(***************************************************************************)
\* What is readable has n tool uses, or a line at which the hook gives up.
Enough(n) == Huge \in ToSet(Readable) \/ CountToolUses(Readable) >= n

HookTypeOK ==
  /\ script \in Seq(Lines) /\ torn \in BOOLEAN /\ (torn => script # <<>>)
  /\ counter \in Nat \union {Absent}
  /\ hook \in [step : {"off", "opened", "due", "stored"}, active : BOOLEAN, count : Nat, kept : BOOLEAN]
  /\ blocks \in Seq([at : Nat, kept : BOOLEAN, active : BOOLEAN])

\* The last block's number stands in the file, or K uses have come since.
LastKept ==
  blocks # <<>> /\ blocks[Len(blocks)].kept =>
    ReadCount >= blocks[Len(blocks)].at \/ Enough(blocks[Len(blocks)].at + K)

\* The hook that is going to block has counted K uses since the last block.
NextSpaced ==
  hook.step \in {"due", "stored"} =>
    /\ ~hook.active /\ Enough(hook.count)
    /\ blocks # <<>> /\ blocks[Len(blocks)].kept => hook.count >= blocks[Len(blocks)].at + K
    /\ hook.step = "stored" /\ hook.kept => counter = hook.count

BlocksSpaced ==
  \A i \in DOMAIN blocks :
    /\ ~blocks[i].active
    /\ i > 1 /\ blocks[i - 1].kept => blocks[i].at - blocks[i - 1].at >= K

HookInv == HookTypeOK /\ LastKept /\ NextSpaced /\ BlocksSpaced

\* The first m lines are the same.
SameTo(s, t, m) == \A i \in 1 .. m : s[i] = t[i]

LEMMA UsesStay ==
  ASSUME NEW s, NEW t, NEW m \in Nat, NEW n \in Nat, m <= n, NEW f, NEW g,
         IsCount(f, s, m),
         IsCount(g, t, n),
         SameTo(s, t, m)
  PROVE  f[m] = g[m]
<1>. DEFINE Good == {i \in Nat : i <= m => f[i] = g[i]}
<1>1. 0 \in Good
  BY DEF IsCount
<1>2. ASSUME NEW i \in Good, i \in Nat PROVE i + 1 \in Good
  <2>1. SUFFICES ASSUME i + 1 <= m PROVE f[i + 1] = g[i + 1]
    BY <1>2
  <2>2. f[i] = g[i] /\ s[i + 1] = t[i + 1]
    BY <1>2, <2>1 DEF SameTo
  <2>3. f[i + 1] = f[i] + ToolsOf(s[i + 1]) /\ g[i + 1] = g[i] + ToolsOf(t[i + 1])
    BY <1>2, <2>1 DEF IsCount
  <2>. QED
    BY <2>2, <2>3
<1>. HIDE DEF Good
<1>3. m \in Good
  BY <1>1, <1>2, Induction
<1>. QED
  BY <1>3 DEF Good

\* A line more does not take a use away.
LEMMA CountGrows ==
  ASSUME NEW s \in Seq(Lines), NEW l \in Lines
  PROVE  /\ Huge \in ToSet(s) => Huge \in ToSet(Append(s, l))
         /\ Huge \notin ToSet(s) => CountToolUses(s) \in Nat
         /\ Huge \notin ToSet(Append(s, l)) =>
              Huge \notin ToSet(s) /\ CountToolUses(Append(s, l)) >= CountToolUses(s)
<1>. PICK t : t = Append(s, l)
  OBVIOUS
<1>1. /\ Len(s) \in Nat /\ Len(t) = Len(s) + 1 /\ t[Len(s) + 1] = l
      /\ \A i \in 1 .. Len(s) : t[i] = s[i] /\ s[i] \in Lines
      /\ DOMAIN s = 1 .. Len(s) /\ DOMAIN t = 1 .. Len(s) + 1
  <2>1. t \in Seq(Lines) /\ Len(t) = Len(s) + 1
    BY AppendProperties
  <2>. QED
    BY <2>1, AppendProperties, LenProperties, ElementOfSeq
<1>2. ToSet(s) \subseteq ToSet(t)
  BY <1>1 DEF ToSet
<1>. PICK n : n = Len(s)
  OBVIOUS
<1>. PICK p : p = Len(t)
  OBVIOUS
<1>3. n \in Nat /\ p \in Nat /\ p = n + 1
  BY <1>1
<1>4. PICK f : IsCount(f, s, n) /\ (Huge \notin ToSet(s) => CountToolUses(s) = f[n])
  <2>1. CASE Huge \in ToSet(s)
    BY <1>3, <2>1, UsesFunction
  <2>2. CASE Huge \notin ToSet(s)
    BY <1>3, <2>2, CountIs DEF Scannable
  <2>. QED
    BY <2>1, <2>2
<1>5. PICK g : IsCount(g, t, p) /\ (Huge \notin ToSet(t) => CountToolUses(t) = g[p])
  <2>1. CASE Huge \in ToSet(t)
    BY <1>3, <2>1, UsesFunction
  <2>2. CASE Huge \notin ToSet(t)
    BY <1>3, <2>2, CountIs DEF Scannable
  <2>. QED
    BY <2>1, <2>2
<1>7. f[n] \in Nat
  <2>. DEFINE Good == {i \in Nat : i <= n => f[i] \in Nat}
  <2>1. 0 \in Good
    BY <1>4 DEF IsCount
  <2>2. ASSUME NEW i \in Good, i \in Nat PROVE i + 1 \in Good
    <3>1. SUFFICES ASSUME i + 1 <= n PROVE f[i + 1] \in Nat
      BY <2>2
    <3>2. f[i] \in Nat /\ ToolsOf(s[i + 1]) \in Nat
      BY <1>1, <2>2, <3>1, LineShape
    <3>3. f[i + 1] = f[i] + ToolsOf(s[i + 1])
      BY <1>3, <1>4, <2>2, <3>1 DEF IsCount
    <3>. QED
      BY <3>2, <3>3
  <2>. HIDE DEF Good
  <2>3. n \in Good
    BY <1>3, <2>1, <2>2, Induction
  <2>. QED
    BY <2>3 DEF Good
<1>8. g[p] = f[n] + ToolsOf(l)
  <2>1. f[n] = g[n]
    <3>1. /\ n \in Nat /\ p \in Nat /\ n <= p
          /\ IsCount(f, s, n) /\ IsCount(g, t, p) /\ SameTo(s, t, n)
      BY <1>1, <1>3, <1>4, <1>5 DEF SameTo
    <3>2. \A x, y : IsCount(f, s, n) /\ IsCount(g, t, p) /\ SameTo(s, t, n) => f[n] = g[n]
      BY <3>1, UsesStay
    <3>. QED
      BY <3>1, <3>2
  <2>2. g[n + 1] = g[n] + ToolsOf(t[n + 1])
    BY <1>3, <1>5 DEF IsCount
  <2>. QED
    BY <1>1, <1>3, <2>1, <2>2
<1>9. ToolsOf(l) \in Nat
  BY LineShape
<1>. QED
  BY <1>2, <1>4, <1>5, <1>7, <1>8, <1>9

LEMMA ScannableType ==
  ASSUME NEW s \in Seq(Lines)
  PROVE  Scannable(s) \in Seq(Lines)
<1>1. CASE Huge \notin ToSet(s)
  BY <1>1 DEF Scannable
<1>2. CASE Huge \in ToSet(s)
  <2>. DEFINE I == {i \in 1 .. Len(s) : s[i] = Huge}
  <2>1. Len(s) \in Nat /\ DOMAIN s = 1 .. Len(s)
    BY LenProperties
  <2>2. I # {} /\ I \in SUBSET Nat
    BY <1>2, <2>1 DEF ToSet
  <2>. PICK n : n = SelectInSeq(s, LAMBDA l : l = Huge)
    OBVIOUS
  <2>3. n = Min(I)
    BY <2>2 DEF SelectInSeq
  <2>4. n \in I
    <3>1. \E m \in I : \A k \in I : m <= k
      BY <2>2, LeastNumber
    <3>. HIDE DEF I
    <3>. QED
      BY <2>3, <3>1 DEF Min
  <2>5. Scannable(s) = SubSeq(s, 1, n - 1)
    BY <1>2 DEF Scannable
  <2>6. n - 1 \in 0 .. Len(s)
    BY <2>1, <2>4
  <2>. PICK m : m = n - 1
    OBVIOUS
  <2>. PICK L : L = Lines
    OBVIOUS
  <2>7. SubSeq(s, 1, m) \in Seq(L)
    <3>1. s \in Seq(L) /\ m \in 0 .. Len(s) /\ Len(s) \in Nat
      BY <2>1, <2>6
    <3>. QED
      BY ONLY <3>1, SubSeqProperties
  <2>. QED
    BY <2>5, <2>7
<1>. QED
  BY <1>1, <1>2

\* What was enough stays enough while the transcript grows, and while it does not.
LEMMA EnoughStays ==
  ASSUME HookTypeOK, [ReflectNext]_reflectVars
  PROVE  /\ script' \in Seq(Lines) /\ torn' \in BOOLEAN /\ (torn' => script' # <<>>)
         /\ \A n \in Nat : Enough(n) => Enough(n)'
<1>1. CASE UNCHANGED <<script, torn>>
  BY <1>1 DEF HookTypeOK, Enough, Readable
<1>2. CASE Grow /\ torn
  <2>1. script' = script /\ torn' = FALSE
    BY <1>2 DEF Grow
  <2>2. Readable = Front(script) /\ Readable' = script
    BY <1>2, <2>1 DEF Readable
  <2>3. Len(script) \in Nat \ {0} /\ \A i \in 1 .. Len(script) : script[i] \in Lines
    BY <1>2, LenProperties, EmptySeq, ElementOfSeq DEF HookTypeOK
  <2>4. Front(script) \in Seq(Lines) /\ script = Append(Front(script), script[Len(script)])
    <3>1. Front(script) = SubSeq(script, 1, Len(script) - 1)
      BY DEF Front
    <3>2. /\ Front(script) \in Seq(Lines) /\ Len(Front(script)) = Len(script) - 1
          /\ \A i \in 1 .. Len(script) - 1 : Front(script)[i] = script[i]
      <4>. PICK m : m = Len(script) - 1
        OBVIOUS
      <4>. PICK L : L = Lines
        OBVIOUS
      <4>1. script \in Seq(L) /\ m \in 0 .. Len(script) /\ Len(script) \in Nat
        BY <2>3 DEF HookTypeOK
      <4>2. /\ SubSeq(script, 1, m) \in Seq(L) /\ Len(SubSeq(script, 1, m)) = m
            /\ \A i \in 1 .. m : SubSeq(script, 1, m)[i] = script[i]
        BY ONLY <4>1, SubSeqProperties
      <4>. QED
        BY <3>1, <4>2
    <3>. PICK t : t = Append(Front(script), script[Len(script)])
      OBVIOUS
    <3>3. /\ t \in Seq(Lines) /\ Len(t) = Len(script)
          /\ \A i \in 1 .. Len(script) : t[i] = script[i]
      BY <2>3, <3>2, AppendProperties
    <3>4. t = script
      BY <3>3, SeqEqual DEF HookTypeOK
    <3>. QED
      BY <3>2, <3>4
  <2>5. \A n \in Nat : Enough(n) => Enough(n)'
    <3>. PICK s, l : s = Front(script) /\ l = script[Len(script)]
      OBVIOUS
    <3>1. s \in Seq(Lines) /\ l \in Lines /\ script = Append(s, l)
      BY <2>3, <2>4
    <3>2. /\ Huge \in ToSet(s) => Huge \in ToSet(script)
          /\ Huge \notin ToSet(s) => CountToolUses(s) \in Nat
          /\ Huge \notin ToSet(script) => Huge \notin ToSet(s) /\ CountToolUses(script) >= CountToolUses(s)
          /\ Huge \notin ToSet(script) => CountToolUses(script) \in Nat
      BY <3>1, CountGrows DEF HookTypeOK
    <3>. QED
      BY <2>2, <3>2 DEF Enough
  <2>. QED
    BY <2>1, <2>5 DEF HookTypeOK
<1>3. CASE Grow /\ ~torn
  <2>1. PICK l \in Lines : script' = Append(script, l)
    BY <1>3 DEF Grow
  <2>2. torn' \in BOOLEAN
    BY <1>3 DEF Grow
  <2>3. /\ script' \in Seq(Lines) /\ Len(script') = Len(script) + 1 /\ Len(script) \in Nat
        /\ \A i \in 1 .. Len(script) : script'[i] = script[i]
    BY <2>1, AppendProperties, LenProperties DEF HookTypeOK
  <2>4. Front(script') = script
    <3>1. Front(script') = SubSeq(script', 1, Len(script))
      BY <2>3 DEF Front
    <3>2. /\ Front(script') \in Seq(Lines) /\ Len(Front(script')) = Len(script)
          /\ \A i \in 1 .. Len(script) : Front(script')[i] = script'[i]
      BY <2>3, <3>1, SubSeqProperties
    <3>. QED
      BY <2>3, <3>2, SeqEqual DEF HookTypeOK
  <2>5. Readable = script /\ Readable' = IF torn' THEN script ELSE Append(script, l)
    BY <1>3, <2>1, <2>4 DEF Readable
  <2>6. \A n \in Nat : Enough(n) => Enough(n)'
    <3>. PICK t : t = Append(script, l)
      OBVIOUS
    <3>1. t \in Seq(Lines)
      BY <2>1, <2>3
    <3>2. /\ Huge \in ToSet(script) => Huge \in ToSet(t)
          /\ Huge \notin ToSet(script) => CountToolUses(script) \in Nat
          /\ Huge \notin ToSet(t) => Huge \notin ToSet(script) /\ CountToolUses(t) >= CountToolUses(script)
          /\ Huge \notin ToSet(t) => CountToolUses(t) \in Nat
      BY <3>1, CountGrows DEF HookTypeOK
    <3>. QED
      BY <2>5, <3>2 DEF Enough
  <2>7. script' # <<>>
    BY <2>3, EmptySeq
  <2>. QED
    BY <2>2, <2>3, <2>6, <2>7
<1>. QED
  BY <1>1, <1>2, <1>3 DEF ReflectNext, reflectVars, Grow, StopHook, Decide, WriteCount, Block, Killed, Lost

LEMMA CountIsNat ==
  ASSUME HookTypeOK
  PROVE  Readable \in Seq(Lines) /\ (Huge \notin ToSet(Readable) => CountToolUses(Readable) \in Nat)
<1>1. Readable \in Seq(Lines)
  <2>1. CASE ~torn
    BY <2>1 DEF Readable, HookTypeOK
  <2>2. CASE torn
    <3>1. Len(script) \in Nat \ {0}
      BY <2>2, LenProperties, EmptySeq DEF HookTypeOK
    <3>. QED
      BY <2>2, <3>1, SubSeqProperties DEF Readable, Front, HookTypeOK
  <2>. QED
    BY <2>1, <2>2
<1>2. PICK l : l \in Lines
  BY DEF Lines
<1>. QED
  BY <1>1, <1>2, CountGrows

LEMMA HookInitially == ReflectInit => HookInv
<1>. SUFFICES ASSUME ReflectInit PROVE HookInv
  OBVIOUS
<1>1. HookTypeOK
  BY EmptySeq DEF ReflectInit, HookTypeOK, Off
<1>. QED
  BY <1>1 DEF ReflectInit, HookInv, LastKept, NextSpaced, BlocksSpaced, Off

LEMMA HookStep ==
  ASSUME HookInv, ReflectAssumption, [ReflectNext]_reflectVars
  PROVE  HookInv'
<1>. USE DEF HookInv
<1>1. /\ script' \in Seq(Lines) /\ torn' \in BOOLEAN /\ (torn' => script' # <<>>)
      /\ \A n \in Nat : Enough(n) => Enough(n)'
  BY EnoughStays
<1>2. K \in Nat \ {0}
  BY DEF ReflectAssumption
<1>3. /\ Len(blocks) \in Nat /\ DOMAIN blocks = 1 .. Len(blocks)
      /\ \A i \in DOMAIN blocks : blocks[i] \in [at : Nat, kept : BOOLEAN, active : BOOLEAN]
      /\ blocks # <<>> => Len(blocks) \in DOMAIN blocks
  <2>. PICK B : B = [at : Nat, kept : BOOLEAN, active : BOOLEAN]
    OBVIOUS
  <2>1. blocks \in Seq(B)
    BY DEF HookTypeOK
  <2>2. /\ Len(blocks) \in Nat /\ DOMAIN blocks = 1 .. Len(blocks)
        /\ \A i \in 1 .. Len(blocks) : blocks[i] \in B
        /\ blocks # <<>> => Len(blocks) # 0
    BY ONLY <2>1, LenProperties, ElementOfSeq, EmptySeq
  <2>. QED
    BY <2>2
<1>. PICK B : B = [at : Nat, kept : BOOLEAN, active : BOOLEAN]
  OBVIOUS
<1>4. ReadCount \in Nat
  BY DEF ReadCount, HookTypeOK, Absent
<1>5. CASE UNCHANGED <<counter, hook, blocks>>
  <2>1. HookTypeOK'
    BY <1>1, <1>5 DEF HookTypeOK
  <2>2. LastKept'
    BY <1>1, <1>2, <1>3, <1>5 DEF LastKept, ReadCount
  <2>3. NextSpaced'
    BY <1>1, <1>5 DEF NextSpaced, HookTypeOK
  <2>4. BlocksSpaced'
    BY <1>5 DEF BlocksSpaced
  <2>. QED
    BY <2>1, <2>2, <2>3, <2>4
<1>6. CASE StopHook \/ Killed
  <2>1. UNCHANGED <<counter, blocks>>
    BY <1>6 DEF StopHook, Killed
  <2>2. HookTypeOK' /\ hook'.step \in {"off", "opened"}
    <3>1. PICK st \in {"off", "opened"}, a \in BOOLEAN :
            hook' = [step |-> st, active |-> a, count |-> 0, kept |-> TRUE]
      <4>1. CASE Killed
        BY <4>1 DEF Killed, Off
      <4>2. CASE StopHook
        <5>1. PICK a \in BOOLEAN : hook' = [Off EXCEPT !.step = "opened", !.active = a]
          BY <4>2 DEF StopHook
        <5>2. hook' = [step |-> "opened", active |-> a, count |-> 0, kept |-> TRUE]
          BY <5>1 DEF Off
        <5>. QED
          BY <5>2
      <4>. QED
        BY <1>6, <4>1, <4>2
    <3>2. hook' \in [step : {"off", "opened", "due", "stored"}, active : BOOLEAN, count : Nat, kept : BOOLEAN]
      BY <3>1
    <3>. QED
      BY <1>1, <2>1, <3>1, <3>2 DEF HookTypeOK
  <2>3. LastKept'
    BY <1>1, <1>2, <1>3, <2>1 DEF LastKept, ReadCount
  <2>4. NextSpaced' /\ BlocksSpaced'
    BY <2>1, <2>2 DEF NextSpaced, BlocksSpaced
  <2>. QED
    BY <2>2, <2>3, <2>4
<1>7. CASE Decide
  <2>1. UNCHANGED <<script, torn, counter, blocks>> /\ hook.step = "opened"
    BY <1>7 DEF Decide
  <2>. PICK n : n = CountToolUses(Readable)
    OBVIOUS
  <2>2. LastKept' /\ BlocksSpaced'
    BY <1>1, <1>2, <1>3, <2>1 DEF LastKept, ReadCount, BlocksSpaced
  <2>3. CASE hook' = Off
    BY <1>1, <2>1, <2>2, <2>3 DEF HookTypeOK, NextSpaced, Off
  <2>4. CASE hook' # Off
    <3>1. /\ Huge \notin ToSet(Readable) /\ ~hook.active /\ n - ReadCount >= K
          /\ hook' = [hook EXCEPT !.step = "due", !.count = n]
      BY <1>7, <2>4 DEF Decide, ShouldReflect
    <3>2. n \in Nat
      BY <3>1, CountIsNat
    <3>3. hook' = [step |-> "due", active |-> hook.active, count |-> n, kept |-> hook.kept]
      BY <3>1 DEF HookTypeOK
    <3>4. HookTypeOK'
      BY <1>1, <2>1, <3>2, <3>3 DEF HookTypeOK
    <3>5. Enough(n)'
      BY <1>1, <3>1, <3>2 DEF Enough
    <3>6. blocks # <<>> /\ blocks[Len(blocks)].kept => n >= blocks[Len(blocks)].at + K
      BY <1>2, <1>3, <1>4, <3>1, <3>2 DEF LastKept, Enough
    <3>7. NextSpaced'
      BY <2>1, <3>1, <3>3, <3>5, <3>6 DEF NextSpaced
    <3>. QED
      BY <2>2, <3>4, <3>7
  <2>. QED
    BY <2>3, <2>4
<1>8. CASE WriteCount
  <2>1. UNCHANGED <<script, torn, blocks>> /\ hook.step = "due"
    BY <1>8 DEF WriteCount
  <2>2. /\ ~hook.active /\ Enough(hook.count)
        /\ blocks # <<>> /\ blocks[Len(blocks)].kept => hook.count >= blocks[Len(blocks)].at + K
    BY <2>1 DEF NextSpaced
  <2>. PICK v : v = hook.kept
    OBVIOUS
  <2>3. \/ /\ counter' = hook.count
           /\ hook' = [step |-> "stored", active |-> hook.active, count |-> hook.count, kept |-> v]
        \/ /\ counter' \in {counter, 0}
           /\ hook' = [step |-> "stored", active |-> hook.active, count |-> hook.count, kept |-> FALSE]
    BY <1>8 DEF WriteCount, HookTypeOK
  <2>4. hook.count \in Nat /\ v \in BOOLEAN /\ hook.active \in BOOLEAN
    BY DEF HookTypeOK
  <2>5. HookTypeOK'
    <3>1. PICK a, c, w : /\ hook' = [step |-> "stored", active |-> a, count |-> c, kept |-> w]
                         /\ a = hook.active /\ c = hook.count /\ (w = v \/ w = FALSE)
      BY <2>3
    <3>2. a \in BOOLEAN /\ c \in Nat /\ w \in BOOLEAN
      BY <2>4, <3>1
    <3>3. hook' \in [step : {"off", "opened", "due", "stored"}, active : BOOLEAN, count : Nat, kept : BOOLEAN]
      BY <3>1, <3>2
    <3>4. counter' \in Nat \union {Absent}
      BY <2>3, <2>4 DEF HookTypeOK
    <3>. QED
      BY <1>1, <2>1, <3>3, <3>4 DEF HookTypeOK
  <2>6. blocks # <<>> /\ blocks[Len(blocks)].kept => Enough(blocks[Len(blocks)].at + K)
    <3>1. SUFFICES ASSUME blocks # <<>>, blocks[Len(blocks)].kept
                   PROVE  Enough(blocks[Len(blocks)].at + K)
      OBVIOUS
    <3>2. hook.count >= blocks[Len(blocks)].at + K /\ blocks[Len(blocks)].at \in Nat
      BY <1>3, <2>2, <3>1
    <3>. QED
      BY <1>2, <2>2, <2>4, <3>2, CountIsNat DEF Enough
  <2>7. LastKept'
    <3>1. SUFFICES ASSUME blocks # <<>>, blocks[Len(blocks)].kept
                   PROVE  Enough(blocks[Len(blocks)].at + K)'
      BY <2>1 DEF LastKept
    <3>. PICK n : n = blocks[Len(blocks)].at + K
      OBVIOUS
    <3>2. n \in Nat /\ Enough(n)
      BY <1>2, <1>3, <2>6, <3>1
    <3>3. Enough(n)'
      BY <1>1, <3>2
    <3>. QED
      BY <2>1, <3>3
  <2>8. NextSpaced'
    <3>1. Enough(hook.count)'
      <4>. PICK n : n = hook.count
        OBVIOUS
      <4>1. Enough(n)'
        BY <1>1, <2>2, <2>4
      <4>. QED
        BY <2>3, <4>1 DEF Enough
    <3>. QED
      BY <2>1, <2>2, <2>3, <3>1 DEF NextSpaced, Enough
  <2>. QED
    BY <2>1, <2>5, <2>7, <2>8 DEF BlocksSpaced
<1>9. CASE Block
  <2>1. UNCHANGED <<script, torn, counter>> /\ hook.step = "stored" /\ hook' = Off
    BY <1>9 DEF Block
  <2>. PICK b : b = [at |-> hook.count, kept |-> hook.kept, active |-> hook.active]
    OBVIOUS
  <2>2. blocks' = Append(blocks, b)
    BY <1>9 DEF Block
  <2>3. b \in [at : Nat, kept : BOOLEAN, active : BOOLEAN]
    BY DEF HookTypeOK
  <2>4. /\ blocks' \in Seq([at : Nat, kept : BOOLEAN, active : BOOLEAN])
        /\ Len(blocks') = Len(blocks) + 1 /\ blocks'[Len(blocks) + 1] = b
        /\ \A i \in 1 .. Len(blocks) : blocks'[i] = blocks[i]
    BY <2>2, <2>3, AppendProperties DEF HookTypeOK
  <2>5. DOMAIN blocks' = 1 .. Len(blocks) + 1
    BY <1>3, <2>4, LenProperties
  <2>6. HookTypeOK'
    BY <1>1, <2>1, <2>4 DEF HookTypeOK, Off
  <2>7. LastKept'
    <3>1. SUFFICES ASSUME b.kept PROVE ReadCount' >= b.at
      BY <2>4 DEF LastKept
    <3>2. counter = hook.count /\ hook.count \in Nat /\ b.at = hook.count
      BY <2>1, <3>1 DEF NextSpaced, HookTypeOK
    <3>. QED
      BY <2>1, <3>2 DEF ReadCount, Absent
  <2>8. NextSpaced'
    BY <2>1 DEF NextSpaced, Off
  <2>9. BlocksSpaced'
    <3>1. SUFFICES ASSUME NEW i \in 1 .. Len(blocks) + 1
                   PROVE  /\ ~blocks'[i].active
                          /\ i > 1 /\ blocks'[i - 1].kept => blocks'[i].at - blocks'[i - 1].at >= K
      BY <2>5 DEF BlocksSpaced
    <3>2. CASE i <= Len(blocks)
      <4>1. i \in DOMAIN blocks /\ blocks'[i] = blocks[i] /\ (i > 1 => blocks'[i - 1] = blocks[i - 1])
        BY <1>3, <2>4, <3>2
      <4>. QED
        BY <4>1 DEF BlocksSpaced
    <3>3. CASE i = Len(blocks) + 1
      <4>1. blocks'[i] = b /\ ~b.active /\ b.at = hook.count /\ hook.count \in Nat
        BY <2>1, <2>4, <3>3 DEF NextSpaced, HookTypeOK
      <4>2. ASSUME i > 1, blocks'[i - 1].kept PROVE b.at - blocks'[i - 1].at >= K
        <5>1. blocks # <<>> /\ blocks'[i - 1] = blocks[Len(blocks)] /\ blocks[Len(blocks)].at \in Nat
          BY <1>3, <2>4, <3>3, <4>2
        <5>2. hook.count >= blocks[Len(blocks)].at + K
          BY <2>1, <4>2, <5>1 DEF NextSpaced
        <5>. QED
          BY <1>2, <4>1, <5>1, <5>2
      <4>. QED
        BY <4>1, <4>2
    <3>. QED
      BY <1>3, <3>2, <3>3
  <2>. QED
    BY <2>6, <2>7, <2>8, <2>9
<1>10. CASE Lost
  <2>1. /\ UNCHANGED <<script, torn>> /\ counter' = Absent
        /\ blocks' = [i \in DOMAIN blocks |-> [blocks[i] EXCEPT !.kept = FALSE]]
        /\ hook' = IF hook.step = "stored" THEN [hook EXCEPT !.kept = FALSE] ELSE hook
    BY <1>10 DEF Lost
  <2>2. \A i \in DOMAIN blocks : blocks'[i] = [at |-> blocks[i].at, kept |-> FALSE, active |-> blocks[i].active]
    BY <1>3, <2>1
  <2>. DEFINE At(i) == blocks[i].active
  <2>. DEFINE NowAt(i) == blocks'[i].active
  <2>. DEFINE NowKept(i) == blocks'[i].kept
  <2>9. \A i \in DOMAIN blocks : NowKept(i) = FALSE /\ NowAt(i) = At(i)
    <3>1. ASSUME NEW i \in DOMAIN blocks PROVE NowKept(i) = FALSE /\ NowAt(i) = At(i)
      <4>. PICK n, a, x : n = blocks[i].at /\ a = blocks[i].active /\ x = blocks'[i]
        OBVIOUS
      <4>1. x = [at |-> n, kept |-> FALSE, active |-> a]
        BY <2>2
      <4>2. x.kept = FALSE /\ x.active = a
        BY ONLY <4>1
      <4>. QED
        BY <4>2
    <3>. QED
      BY <3>1
  <2>. HIDE DEF At, NowAt, NowKept
  <2>3. blocks' \in Seq([at : Nat, kept : BOOLEAN, active : BOOLEAN])
    <3>1. ASSUME NEW i \in DOMAIN blocks PROVE blocks'[i] \in B
      <4>. PICK n, a : n = blocks[i].at /\ a = blocks[i].active
        OBVIOUS
      <4>1. n \in Nat /\ a \in BOOLEAN
        BY <1>3
      <4>2. blocks'[i] = [at |-> n, kept |-> FALSE, active |-> a]
        BY <2>2
      <4>. QED
        BY <4>1, <4>2
    <3>3. blocks' = [i \in 1 .. Len(blocks) |-> blocks'[i]]
      BY <1>3, <2>1
    <3>4. blocks' \in Seq(B)
      BY ONLY <1>3, <3>1, <3>3, IsASeq
    <3>. QED
      BY <3>4
  <2>4. DOMAIN blocks' = 1 .. Len(blocks) /\ Len(blocks') = Len(blocks)
    <3>1. DOMAIN blocks' = 1 .. Len(blocks)
      BY <1>3, <2>1
    <3>. QED
      BY <1>3, <2>3, <3>1, LenProperties
  <2>5. HookTypeOK'
    BY <1>1, <2>1, <2>3 DEF HookTypeOK
  <2>6. LastKept'
    <3>1. blocks' # <<>> => Len(blocks') \in DOMAIN blocks
      BY <1>3, <2>3, <2>4, EmptySeq
    <3>2. ASSUME blocks' # <<>> PROVE ~ blocks'[Len(blocks')].kept
      <4>. PICK b : b = blocks'[Len(blocks')]
        OBVIOUS
      <4>1. b.kept = FALSE
        BY <2>9, <3>1, <3>2 DEF NowKept
      <4>. QED
        BY <4>1
    <3>. QED
      BY <3>2 DEF LastKept
  <2>7. NextSpaced'
    <3>1. CASE hook.step = "stored"
      <4>1. hook' = [step |-> "stored", active |-> hook.active, count |-> hook.count, kept |-> FALSE]
        BY <2>1, <3>1 DEF HookTypeOK
      <4>2. \A n \in Nat : Enough(n) => Enough(n)'
        BY <1>1
      <4>3. hook.count \in Nat /\ Enough(hook.count) /\ ~hook.active
        BY <3>1 DEF HookTypeOK, NextSpaced
      <4>4. blocks' # <<>> => ~ blocks'[Len(blocks')].kept
        BY <1>3, <2>2, <2>3, <2>4, EmptySeq
      <4>. QED
        BY <2>1, <4>1, <4>3, <4>4 DEF NextSpaced, Enough, Readable
    <3>2. CASE hook.step # "stored"
      <4>1. hook' = hook
        BY <2>1, <3>2
      <4>2. blocks' # <<>> => ~ blocks'[Len(blocks')].kept
        BY <1>3, <2>2, <2>3, <2>4, EmptySeq
      <4>. QED
        BY <2>1, <3>2, <4>1, <4>2 DEF NextSpaced, Enough, Readable
    <3>. QED
      BY <3>1, <3>2
  <2>8. BlocksSpaced'
    <3>1. SUFFICES ASSUME NEW i \in 1 .. Len(blocks)
                   PROVE  ~blocks'[i].active /\ (i > 1 => ~blocks'[i - 1].kept)
      BY <2>4 DEF BlocksSpaced
    <3>2. i \in DOMAIN blocks /\ (i > 1 => i - 1 \in DOMAIN blocks)
      BY <1>3
    <3>3. NowAt(i) = At(i) /\ (i > 1 => NowKept(i - 1) = FALSE)
      BY <2>9, <3>2
    <3>. QED
      BY <3>2, <3>3 DEF BlocksSpaced, NowAt, At, NowKept
  <2>. QED
    BY <2>5, <2>6, <2>7, <2>8
<1>. QED
  BY <1>5, <1>6, <1>7, <1>8, <1>9, <1>10 DEF ReflectNext, reflectVars, Grow

\* Blocks of a session are K tool uses apart, whatever happens between them, and
\* the hook counts as the measurement does (decide, CountToolUses, Windows).
THEOREM BlocksAreSpaced ==
  ASSUME ReflectAssumption
  PROVE  ReflectInit /\ [][ReflectNext]_reflectVars => []ReflectSpaced
<1>1. ReflectInit => HookInv
  BY HookInitially
<1>2. HookInv /\ [ReflectNext]_reflectVars => HookInv'
  BY HookStep
<1>3. HookInv => ReflectSpaced
  <2>1. SUFFICES ASSUME HookInv PROVE ReflectSpaced
    OBVIOUS
  <2>2. Scannable(script) \in Seq(Lines) /\ K \in Nat \ {0}
    BY <2>1, ScannableType DEF HookInv, HookTypeOK, ReflectAssumption
  <2>. QED
    BY <2>1, <2>2, WindowsHold DEF HookInv, BlocksSpaced, ReflectSpaced
<1>. QED
  BY <1>1, <1>2, <1>3, PTL

-----------------------------------------------------------------------------
(***************************************************************************)
(* The table.                                                              *)
(***************************************************************************)
LEMMA Removed ==
  ASSUME NEW s, IsSeq(s), NEW i \in DOMAIN s, NEW t, t = RemoveAt(s, i)
  PROVE  /\ IsSeq(t) /\ Len(t) = Len(s) - 1 /\ DOMAIN t = 1 .. Len(s) - 1
         /\ \A k \in 1 .. Len(s) - 1 : t[k] = IF k < i THEN s[k] ELSE s[k + 1]
         /\ ToSet(t) \subseteq ToSet(s)
<1>. PICK S : S = ToSet(s)
  OBVIOUS
<1>. PICK n : n = Len(s)
  OBVIOUS
<1>1. s \in Seq(S) /\ n \in Nat /\ DOMAIN s = 1 .. n /\ i \in 1 .. n /\ \A k \in 1 .. n : s[k] \in S
  BY SeqShape DEF IsSeq
<1>0. PICK a, b : a = SubSeq(s, 1, i - 1) /\ b = SubSeq(s, i + 1, n)
  OBVIOUS
<1>2. a \in Seq(S) /\ Len(a) = i - 1 /\ \A k \in 1 .. i - 1 : a[k] = s[k]
  <2>. PICK m : m = i - 1
    OBVIOUS
  <2>1. m \in Int /\ \A k \in 1 .. m : s[k] \in S
    BY <1>1
  <2>2. /\ SubSeq(s, 1, m) \in Seq(S) /\ Len(SubSeq(s, 1, m)) = (IF 1 <= m THEN m - 1 + 1 ELSE 0)
        /\ \A k \in 1 .. m - 1 + 1 : SubSeq(s, 1, m)[k] = s[1 + k - 1]
    BY <2>1, SubSeqProperties
  <2>. QED
    BY <1>0, <1>1, <2>2
<1>3. b \in Seq(S) /\ Len(b) = n - i /\ \A k \in 1 .. n - i : b[k] = s[i + k]
  <2>. PICK m : m = i + 1
    OBVIOUS
  <2>1. m \in Int /\ \A k \in m .. n : s[k] \in S
    BY <1>1
  <2>2. /\ SubSeq(s, m, n) \in Seq(S) /\ Len(SubSeq(s, m, n)) = (IF m <= n THEN n - m + 1 ELSE 0)
        /\ \A k \in 1 .. n - m + 1 : SubSeq(s, m, n)[k] = s[m + k - 1]
    BY <1>1, <2>1, SubSeqProperties
  <2>. QED
    BY <1>0, <1>1, <2>2
<1>4. t = a \o b
  BY <1>0 DEF RemoveAt
<1>5. /\ t \in Seq(S) /\ Len(t) = Len(a) + Len(b)
      /\ \A k \in 1 .. Len(a) + Len(b) : t[k] = IF k <= Len(a) THEN a[k] ELSE b[k - Len(a)]
  BY ONLY <1>2, <1>3, <1>4, ConcatProperties
<1>6. Len(t) = n - 1 /\ DOMAIN t = 1 .. n - 1
  <2>1. DOMAIN t = 1 .. Len(t)
    BY ONLY <1>5, LenProperties
  <2>. QED
    BY ONLY <1>1, <1>2, <1>3, <1>5, <2>1
<1>7. ASSUME NEW k \in 1 .. n - 1 PROVE t[k] = IF k < i THEN s[k] ELSE s[k + 1]
  <2>1. CASE k < i
    BY ONLY <1>1, <1>2, <1>3, <1>5, <2>1, k \in 1 .. n - 1
  <2>2. CASE ~ (k < i)
    <3>1. k - (i - 1) \in 1 .. n - i /\ i + (k - (i - 1)) = k + 1
      BY <1>1, <2>2
    <3>2. t[k] = b[k - (i - 1)]
      BY ONLY <1>1, <1>2, <1>3, <1>5, <2>2, k \in 1 .. n - 1
    <3>. QED
      BY <1>3, <2>2, <3>1, <3>2
  <2>. QED
    BY <2>1, <2>2
<1>8. ToSet(t) \subseteq S
  <2>1. \A k \in 1 .. n - 1 : t[k] \in S
    BY <1>1, <1>7
  <2>. QED
    BY <1>6, <2>1 DEF ToSet
<1>. QED
  BY <1>5, <1>6, <1>7, <1>8, SeqIs

\* The place an entry is dropped from, if there is one.
PlacesOf(es, t, id) == {i \in DOMAIN es : es[i].tenant = t /\ es[i].id = id}

LEMMA DropsFirst ==
  ASSUME NEW es, IsSeq(es), NEW t, NEW id
  PROVE  \/ PlacesOf(es, t, id) = {} /\ DropEntry(es, t, id) = es
         \/ \E i \in PlacesOf(es, t, id) : DropEntry(es, t, id) = RemoveAt(es, i)
<1>. PICK at : at = PlacesOf(es, t, id)
  OBVIOUS
<1>1. DropEntry(es, t, id) = IF at = {} THEN es ELSE RemoveAt(es, CHOOSE i \in at : \A j \in at : i <= j)
  BY DEF DropEntry, PlacesOf
<1>2. CASE at # {}
  <2>1. at \in SUBSET Nat
    BY SeqShape DEF PlacesOf
  <2>2. \E m \in at : \A k \in at : m <= k
    BY <1>2, <2>1, LeastNumber
  <2>. PICK i : i = CHOOSE m \in at : \A j \in at : m <= j
    OBVIOUS
  <2>3. i \in at
    BY <2>2, Zenon
  <2>. QED
    BY <1>1, <1>2, <2>3
<1>. QED
  BY <1>1, <1>2

LEMMA DropsSeq ==
  ASSUME NEW es, IsSeq(es), NEW t, NEW id
  PROVE  IsSeq(DropEntry(es, t, id))
<1>1. ASSUME NEW i \in PlacesOf(es, t, id) PROVE IsSeq(RemoveAt(es, i))
  BY Removed DEF PlacesOf
<1>. QED
  BY <1>1, DropsFirst

\* Every entry is that of a memory in the journal.
OfRecords(js, es) ==
  /\ IsSeq(es)
  /\ \A e \in ToSet(es) : \E i \in DOMAIN js : js[i].type = "memory" /\ e = EntryOf(js[i])

LEMMA StoredDrop ==
  ASSUME NEW js, NEW es, OfRecords(js, es), NEW t, NEW id
  PROVE  OfRecords(js, DropEntry(es, t, id)) /\ ToSet(DropEntry(es, t, id)) \subseteq ToSet(es)
<1>1. CASE DropEntry(es, t, id) = es
  BY <1>1
<1>2. ASSUME NEW i \in PlacesOf(es, t, id), DropEntry(es, t, id) = RemoveAt(es, i)
      PROVE  OfRecords(js, DropEntry(es, t, id)) /\ ToSet(DropEntry(es, t, id)) \subseteq ToSet(es)
  <2>1. i \in DOMAIN es /\ IsSeq(es)
    BY DEF PlacesOf, OfRecords
  <2>2. IsSeq(RemoveAt(es, i)) /\ ToSet(RemoveAt(es, i)) \subseteq ToSet(es)
    BY <2>1, Removed
  <2>. QED
    BY <1>2, <2>2 DEF OfRecords
<1>. QED
  BY <1>1, <1>2, DropsFirst DEF OfRecords

LEMMA StoredAppend ==
  ASSUME NEW js, NEW es, OfRecords(js, es), NEW i \in DOMAIN js, js[i].type = "memory"
  PROVE  OfRecords(js, Append(es, EntryOf(js[i])))
<1>. PICK e, t : e = EntryOf(js[i]) /\ t = Append(es, e)
  OBVIOUS
<1>1. IsSeq(t) /\ ToSet(t) = ToSet(es) \union {e}
  BY Appended DEF OfRecords
<1>. QED
  BY <1>1 DEF OfRecords

LEMMA ListsSame ==
  ASSUME NEW js, NEW ks, NEW es, NEW S, Lists(js, es, S), \A i \in S : js[i] = ks[i]
  PROVE  Lists(ks, es, S)
<1>1. PICK of \in [DOMAIN es -> S] :
        /\ \A m, n \in DOMAIN es : m < n => of[m] < of[n]
        /\ \A i \in S : \E n \in DOMAIN es : of[n] = i
        /\ \A n \in DOMAIN es : es[n] = EntryOf(js[of[n]])
  BY Zenon DEF Lists
<1>2. \A n \in DOMAIN es : js[of[n]] = ks[of[n]]
  OBVIOUS
<1>3. \A n \in DOMAIN es : es[n] = EntryOf(ks[of[n]])
  BY <1>1, <1>2, Zenon
<1>. QED
  BY <1>1, <1>3, Zenon DEF Lists

LEMMA ListsNothing ==
  ASSUME NEW js
  PROVE  Lists(js, <<>>, {})
<1>. PICK of : of = [n \in {} |-> 0]
  OBVIOUS
<1>1. of \in [DOMAIN <<>> -> {}] /\ DOMAIN <<>> = {}
  OBVIOUS
<1>. QED
  BY <1>1 DEF Lists

LEMMA ListsAppend ==
  ASSUME NEW js, NEW es, IsSeq(es), NEW n \in Nat, NEW S \in SUBSET (1 .. n), Lists(js, es, S)
  PROVE  Lists(js, Append(es, EntryOf(js[n + 1])), S \union {n + 1})
<1>1. PICK of \in [DOMAIN es -> S] :
        /\ \A k, m \in DOMAIN es : k < m => of[k] < of[m]
        /\ \A i \in S : \E m \in DOMAIN es : of[m] = i
        /\ \A m \in DOMAIN es : es[m] = EntryOf(js[of[m]])
  BY Zenon DEF Lists
<1>. PICK e, l : e = EntryOf(js[n + 1]) /\ l = Len(es)
  OBVIOUS
<1>2. PICK t : t = Append(es, e)
  OBVIOUS
<1>3. /\ l \in Nat /\ DOMAIN es = 1 .. l /\ DOMAIN t = 1 .. l + 1
      /\ t[l + 1] = e /\ \A i \in 1 .. l : t[i] = es[i]
  BY <1>2, SeqShape, Appended
<1>12. \A m \in 1 .. l : of[m] \in S
  BY <1>3
<1>13. \A k, m \in 1 .. l : k < m => of[k] < of[m]
  BY <1>1, <1>3
<1>14. \A i \in S : \E m \in 1 .. l : of[m] = i
  BY <1>1, <1>3
<1>15. \A m \in 1 .. l : es[m] = EntryOf(js[of[m]])
  BY <1>1, <1>3
<1>4. PICK og : og = [m \in 1 .. l + 1 |-> IF m = l + 1 THEN n + 1 ELSE of[m]]
  OBVIOUS
<1>5. \A m \in 1 .. l : og[m] = of[m] /\ of[m] \in S /\ of[m] \in 1 .. n
  <2>1. \A m \in 1 .. l : m \in 1 .. l + 1 /\ m # l + 1
    BY <1>3
  <2>2. \A m \in 1 .. l : og[m] = of[m]
    BY ONLY <1>4, <2>1
  <2>3. \A m \in 1 .. l : of[m] \in 1 .. n
    BY <1>12
  <2>. QED
    BY <1>12, <2>2, <2>3
<1>6. og[l + 1] = n + 1
  BY <1>3, <1>4
<1>7. og \in [DOMAIN t -> S \union {n + 1}]
  BY <1>3, <1>4, <1>5
<1>8. \A k, m \in DOMAIN t : k < m => og[k] < og[m]
  <2>. SUFFICES ASSUME NEW k \in 1 .. l + 1, NEW m \in 1 .. l + 1, k < m
                PROVE  og[k] < og[m]
    BY <1>3
  <2>1. k \in 1 .. l /\ og[k] \in 1 .. n
    BY <1>3, <1>5
  <2>2. CASE m = l + 1
    BY <1>6, <2>1, <2>2
  <2>3. CASE m # l + 1
    <3>1. m \in 1 .. l
      BY <1>3, <2>3
    <3>. QED
      BY <1>5, <1>13, <2>1, <3>1
  <2>. QED
    BY <2>2, <2>3
<1>9. \A i \in S \union {n + 1} : \E m \in DOMAIN t : og[m] = i
  <2>. SUFFICES ASSUME NEW i \in S \union {n + 1}
                PROVE  \E m \in 1 .. l + 1 : og[m] = i
    BY <1>3
  <2>1. CASE i = n + 1
    BY <1>3, <1>6, <2>1
  <2>2. CASE i \in S
    <3>1. PICK m \in 1 .. l : of[m] = i
      BY <1>14, <2>2
    <3>. QED
      BY <1>3, <1>5, <3>1
  <2>. QED
    BY <2>1, <2>2
<1>10. \A m \in DOMAIN t : t[m] = EntryOf(js[og[m]])
  <2>. SUFFICES ASSUME NEW m \in 1 .. l + 1
                PROVE  t[m] = EntryOf(js[og[m]])
    BY <1>3
  <2>1. CASE m = l + 1
    BY <1>3, <1>6, <2>1
  <2>2. CASE m # l + 1
    <3>1. m \in 1 .. l
      BY <1>3, <2>2
    <3>2. t[m] = es[m] /\ es[m] = EntryOf(js[of[m]]) /\ og[m] = of[m]
      BY <1>3, <1>5, <1>15, <3>1
    <3>. QED
      BY <3>2
  <2>. QED
    BY <2>1, <2>2
<1>11. Lists(js, t, S \union {n + 1})
  BY <1>7, <1>8, <1>9, <1>10, Zenon DEF Lists
<1>. QED
  BY <1>2, <1>11

Named(js, S, t, id) == {i \in S : js[i].tenant = t /\ js[i].id = id}

LEMMA ListsDrop ==
  ASSUME NEW js, NEW es, IsSeq(es), NEW S \in SUBSET Nat, Lists(js, es, S), NEW t, NEW id,
         \A i, j \in Named(js, S, t, id) : i = j
  PROVE  Lists(js, DropEntry(es, t, id), S \ Named(js, S, t, id))
<1>1. PICK of \in [DOMAIN es -> S] :
        /\ \A k, m \in DOMAIN es : k < m => of[k] < of[m]
        /\ \A i \in S : \E m \in DOMAIN es : of[m] = i
        /\ \A m \in DOMAIN es : es[m] = EntryOf(js[of[m]])
  BY Zenon DEF Lists
<1>2. \A m \in DOMAIN es : m \in PlacesOf(es, t, id) <=> of[m] \in Named(js, S, t, id)
  <2>. SUFFICES ASSUME NEW m \in DOMAIN es
                PROVE  m \in PlacesOf(es, t, id) <=> of[m] \in Named(js, S, t, id)
    OBVIOUS
  <2>1. es[m].tenant = js[of[m]].tenant /\ es[m].id = js[of[m]].id /\ of[m] \in S
    BY <1>1 DEF EntryOf
  <2>. QED
    BY <2>1 DEF PlacesOf, Named
<1>3. CASE PlacesOf(es, t, id) = {} /\ DropEntry(es, t, id) = es
  <2>1. ASSUME NEW i \in Named(js, S, t, id) PROVE FALSE
    <3>1. PICK m \in DOMAIN es : of[m] = i
      BY <1>1 DEF Named
    <3>. QED
      BY <1>2, <1>3, <2>1, <3>1
  <2>. QED
    BY <1>3, <2>1
<1>4. ASSUME NEW p \in PlacesOf(es, t, id), DropEntry(es, t, id) = RemoveAt(es, p)
      PROVE  Lists(js, DropEntry(es, t, id), S \ Named(js, S, t, id))
  <2>1. PICK l, z : l = Len(es) /\ z = of[p]
    OBVIOUS
  <2>2. l \in Nat /\ DOMAIN es = 1 .. l /\ p \in 1 .. l /\ p \in DOMAIN es
    BY <2>1, SeqShape DEF PlacesOf
  <2>3. z \in S /\ z \in Named(js, S, t, id) /\ Named(js, S, t, id) = {z}
    BY <1>2, <2>1, <2>2
  <2>4. PICK d : d = RemoveAt(es, p)
    OBVIOUS
  <2>5. /\ DOMAIN d = 1 .. l - 1
        /\ \A k \in 1 .. l - 1 : d[k] = IF k < p THEN es[k] ELSE es[k + 1]
    BY <2>1, <2>2, <2>4, Removed
  <2>6. PICK R : R = S \ {z}
    OBVIOUS
  <2>7. \A k \in 1 .. l : of[k] \in S /\ of[k] \in Nat /\ (k # p => of[k] \in R)
    <3>1. \A k \in 1 .. l : of[k] \in S /\ of[k] \in Nat
      BY <2>2
    <3>2. \A k, m \in 1 .. l : k < m => of[k] < of[m]
      BY <1>1, <2>2
    <3>3. \A k \in 1 .. l : k # p => of[k] # z
      BY <2>1, <2>2, <3>1, <3>2
    <3>. QED
      BY <2>6, <3>1, <3>3
  <2>8. PICK og : og = [k \in 1 .. l - 1 |-> IF k < p THEN of[k] ELSE of[k + 1]]
    OBVIOUS
  <2>9. \A k \in 1 .. l - 1 : og[k] = IF k < p THEN of[k] ELSE of[k + 1]
    BY <2>8
  <2>10. \A k \in 1 .. l - 1 : og[k] \in R
    BY <2>2, <2>7, <2>9
  <2>11. og \in [DOMAIN d -> R]
    BY <2>5, <2>8, <2>10
  <2>12. \A k, m \in DOMAIN d : k < m => og[k] < og[m]
    <3>. SUFFICES ASSUME NEW k \in 1 .. l - 1, NEW m \in 1 .. l - 1, k < m
                  PROVE  og[k] < og[m]
      BY <2>5
    <3>1. CASE m < p
      BY <1>1, <2>2, <2>9, <3>1
    <3>2. CASE ~ (m < p)
      <4>1. og[m] = of[m + 1] /\ m + 1 \in 1 .. l
        BY <2>2, <2>9, <3>2
      <4>2. CASE k < p
        BY <1>1, <2>2, <2>9, <4>1, <4>2
      <4>3. CASE ~ (k < p)
        <5>1. og[k] = of[k + 1] /\ k + 1 \in 1 .. l /\ k + 1 < m + 1
          BY <2>2, <2>9, <4>3
        <5>. QED
          BY <1>1, <2>2, <4>1, <5>1
      <4>. QED
        BY <4>2, <4>3
    <3>. QED
      BY <3>1, <3>2
  <2>13. \A i \in R : \E m \in DOMAIN d : og[m] = i
    <3>. SUFFICES ASSUME NEW i \in R
                  PROVE  \E m \in 1 .. l - 1 : og[m] = i
      BY <2>5
    <3>1. PICK m \in 1 .. l : of[m] = i
      BY <1>1, <2>2, <2>6
    <3>2. m # p
      BY <2>1, <2>6, <3>1
    <3>3. CASE m < p
      BY <2>2, <2>9, <3>1, <3>3
    <3>4. CASE m > p
      <4>1. m - 1 \in 1 .. l - 1 /\ ~ (m - 1 < p) /\ m - 1 + 1 = m
        BY <2>2, <3>4
      <4>. QED
        BY <2>9, <3>1, <4>1
    <3>. QED
      BY <2>2, <3>2, <3>3, <3>4
  <2>14. \A m \in DOMAIN d : d[m] = EntryOf(js[og[m]])
    <3>. SUFFICES ASSUME NEW m \in 1 .. l - 1
                  PROVE  d[m] = EntryOf(js[og[m]])
      BY <2>5
    <3>1. m \in 1 .. l /\ m + 1 \in 1 .. l
      BY <2>2
    <3>2. es[m] = EntryOf(js[of[m]]) /\ es[m + 1] = EntryOf(js[of[m + 1]])
      BY <1>1, <2>2, <3>1
    <3>. QED
      BY <2>5, <2>9, <3>2
  <2>15. Lists(js, d, R)
    BY <2>11, <2>12, <2>13, <2>14, Zenon DEF Lists
  <2>. QED
    BY <1>4, <2>3, <2>4, <2>6, <2>15
<1>. QED
  BY <1>3, <1>4, DropsFirst

(***************************************************************************)
(* The two passes over the journal.                                        *)
(***************************************************************************)
\* The tables after each of the first m records.
IsScan(f, es, type, m) ==
  f = [n \in 0 .. m |-> IF n = 0 THEN es
                        ELSE IF mjournal[n].type = type THEN Replay(f[n - 1], mjournal[n]) ELSE f[n - 1]]

LEMMA ScanFunction ==
  ASSUME NEW es, NEW type, NEW m \in Nat
  PROVE  \E f : IsScan(f, es, type, m)
<1>. DEFINE Step(f, i) == IF i = 0 THEN es
                          ELSE IF mjournal[i].type = type THEN Replay(f[i - 1], mjournal[i]) ELSE f[i - 1]
            Good == {n \in Nat : \E f : f = [i \in 0 .. n |-> Step(f, i)]}
<1>1. 0 \in Good
  <2>1. [i \in 0 .. 0 |-> es] = [i \in 0 .. 0 |-> Step([j \in 0 .. 0 |-> es], i)]
    OBVIOUS
  <2>. QED
    BY <2>1
<1>2. ASSUME NEW n \in Good, n \in Nat PROVE n + 1 \in Good
  <2>1. PICK f : f = [i \in 0 .. n |-> Step(f, i)]
    BY <1>2
  <2>. DEFINE g == [i \in 0 .. n + 1 |-> IF i <= n THEN f[i] ELSE Step(f, i)]
  <2>2. ASSUME NEW i \in 0 .. n + 1 PROVE g[i] = Step(g, i)
    <3>1. i # 0 => i - 1 \in 0 .. n /\ g[i - 1] = f[i - 1]
      BY <1>2
    <3>2. g[i] = Step(f, i)
      <4>1. CASE i <= n
        <5>1. g[i] = f[i] /\ i \in 0 .. n
          BY <1>2, <4>1
        <5>. HIDE DEF g
        <5>. QED
          BY <2>1, <5>1
      <4>2. CASE i = n + 1
        BY <1>2, <4>2
      <4>. QED
        BY <1>2, <4>1, <4>2
    <3>. HIDE DEF g
    <3>. QED
      BY <3>1, <3>2
  <2>3. g = [i \in 0 .. n + 1 |-> Step(g, i)]
    BY <2>2
  <2>. HIDE DEF g
  <2>. QED
    BY <1>2, <2>3
<1>. HIDE DEF Good
<1>3. Nat \subseteq Good
  BY <1>1, <1>2, Induction
<1>. QED
  BY <1>3 DEF Good, IsScan

LEMMA ScanIs ==
  ASSUME NEW es, NEW type, NEW m \in Nat, m = Len(mjournal)
  PROVE  \E f : IsScan(f, es, type, m) /\ Scan(es, type) = f[m]
<1>1. \E g : g = [n \in 0 .. m |-> IF n = 0 THEN es
                        ELSE IF mjournal[n].type = type THEN Replay(g[n - 1], mjournal[n]) ELSE g[n - 1]]
  <2>1. \E g : IsScan(g, es, type, m)
    BY ScanFunction
  <2>. QED
    BY <2>1 DEF IsScan
<1>. DEFINE after[n \in 0 .. m] ==
        IF n = 0 THEN es
        ELSE IF mjournal[n].type = type THEN Replay(after[n - 1], mjournal[n]) ELSE after[n - 1]
<1>2. after = [n \in 0 .. m |-> IF n = 0 THEN es
                        ELSE IF mjournal[n].type = type THEN Replay(after[n - 1], mjournal[n]) ELSE after[n - 1]]
  BY <1>1, Zenon
<1>3. Scan(es, type) = after[m]
  BY DEF Scan
<1>. HIDE DEF after
<1>. QED
  BY <1>2, <1>3 DEF IsScan

LEMMA ScanSteps ==
  ASSUME NEW f, NEW es, NEW type, NEW m \in Nat, IsScan(f, es, type, m)
  PROVE  /\ f[0] = es
         /\ \A n \in 0 .. m - 1 : f[n + 1] = IF mjournal[n + 1].type = type
                                             THEN Replay(f[n], mjournal[n + 1]) ELSE f[n]
<1>1. \A n \in 0 .. m : f[n] = IF n = 0 THEN es
                        ELSE IF mjournal[n].type = type THEN Replay(f[n - 1], mjournal[n]) ELSE f[n - 1]
  BY DEF IsScan
<1>2. f[0] = es
  BY <1>1
<1>3. ASSUME NEW n \in 0 .. m - 1
      PROVE  f[n + 1] = IF mjournal[n + 1].type = type THEN Replay(f[n], mjournal[n + 1]) ELSE f[n]
  <2>1. n + 1 \in 0 .. m /\ n + 1 # 0 /\ n + 1 - 1 = n
    OBVIOUS
  <2>. QED
    BY <1>1, <2>1
<1>. QED
  BY <1>2, <1>3

\* What the table of a start holds, whatever the ids are.
LEMMA ScanStored ==
  ASSUME NEW es, IsSeq(mjournal), OfRecords(mjournal, es), NEW type \in {"memory", "forget"}
  PROVE  OfRecords(mjournal, Scan(es, type))
<1>. PICK m : m = Len(mjournal)
  OBVIOUS
<1>1. m \in Nat /\ DOMAIN mjournal = 1 .. m
  BY SeqShape
<1>2. PICK f : IsScan(f, es, type, m) /\ Scan(es, type) = f[m]
  BY <1>1, ScanIs
<1>3. /\ f[0] = es
      /\ \A n \in 0 .. m - 1 : f[n + 1] = IF mjournal[n + 1].type = type
                                          THEN Replay(f[n], mjournal[n + 1]) ELSE f[n]
  BY ONLY <1>1, <1>2, ScanSteps
<1>. DEFINE Good == {n \in Nat : n <= m => OfRecords(mjournal, f[n])}
<1>4. 0 \in Good
  BY <1>3
<1>5. ASSUME NEW n \in Good, n \in Nat PROVE n + 1 \in Good
  <2>. SUFFICES ASSUME n + 1 <= m PROVE OfRecords(mjournal, f[n + 1])
    BY <1>5
  <2>1. OfRecords(mjournal, f[n]) /\ n \in 0 .. m - 1 /\ n + 1 \in DOMAIN mjournal
    BY <1>1, <1>5
  <2>. HIDE DEF Good
  <2>2. CASE mjournal[n + 1].type # type
    BY <1>3, <2>1, <2>2
  <2>3. CASE mjournal[n + 1].type = type
    <3>1. f[n + 1] = Replay(f[n], mjournal[n + 1])
      BY <1>3, <2>1, <2>3
    <3>2. CASE type = "memory"
      <4>1. OfRecords(mjournal, Append(f[n], EntryOf(mjournal[n + 1])))
        BY <2>1, <2>3, <3>2, StoredAppend
      <4>. QED
        BY <2>3, <3>1, <3>2, <4>1, StoredDrop DEF Replay
    <3>3. CASE type = "forget"
      BY <2>1, <2>3, <3>1, <3>3, StoredDrop DEF Replay
    <3>. QED
      BY <3>2, <3>3
  <2>. QED
    BY <2>2, <2>3
<1>6. m \in Good
  <2>. HIDE DEF Good
  <2>. QED
    BY <1>1, <1>4, <1>5, Induction
<1>. QED
  BY <1>1, <1>2, <1>6

LEMMA RebuiltStored ==
  ASSUME IsSeq(mjournal)
  PROVE  OfRecords(mjournal, Rebuilt)
<1>1. IsSeq(<<>>) /\ ToSet(<<>>) = {}
  BY EmptySeq DEF IsSeq, ToSet
<1>2. OfRecords(mjournal, <<>>)
  BY <1>1 DEF OfRecords
<1>3. OfRecords(mjournal, Scan(<<>>, "memory"))
  BY <1>2, ScanStored
<1>. QED
  BY <1>3, ScanStored DEF Rebuilt

\* The id that a record takes from the table.
Ended(r) == IF r.type = "memory" THEN r.sup ELSE r.id

\* Record j of js ends what record i says.
EndsIn(js, j, i) ==
  /\ j > i /\ js[j].tenant = js[i].tenant
  /\ js[i].id = IF js[j].type = "memory" THEN js[j].sup ELSE js[j].id

LiveIn(js, C) == {i \in C : js[i].type = "memory" /\ \A j \in C : ~ EndsIn(js, j, i)}

\* An earlier record stored the memory that record i names.
Earlier(js, i, id) ==
  \E j \in DOMAIN js : j < i /\ js[j].type = "memory" /\ js[j].tenant = js[i].tenant /\ js[j].id = id

JournalOK(js) ==
  /\ IsSeq(js)
  /\ \A i \in DOMAIN js :
       /\ js[i].type \in {"memory", "forget"}
       /\ js[i].type = "memory" =>
            js[i].id \in Nat \ {0} /\ js[i].text \in Texts /\ (js[i].sup = 0 \/ Earlier(js, i, js[i].sup))
       /\ js[i].type = "forget" => Earlier(js, i, js[i].id)

Unique(js) ==
  \A i, j \in DOMAIN js :
    js[i].type = "memory" /\ js[j].type = "memory" /\ js[i].tenant = js[j].tenant /\ js[i].id = js[j].id => i = j

\* What the table holds after the first n records of the first and of the second pass.
Kept(js, n) ==
  {i \in 1 .. n : js[i].type = "memory" /\ \A j \in 1 .. n : js[j].type = "memory" => ~ EndsIn(js, j, i)}

Left(js, n) ==
  {i \in Kept(js, Len(js)) : \A j \in 1 .. n : js[j].type = "forget" => ~ EndsIn(js, j, i)}

LEMMA NamedOnce ==
  ASSUME NEW js, Unique(js), NEW S \in SUBSET DOMAIN js, \A i \in S : js[i].type = "memory", NEW t, NEW id
  PROVE  \A i, j \in Named(js, S, t, id) : i = j
BY DEF Unique, Named

\* Whom a record that supersedes or forgets ends is the one that it names.
LEMMA EndsNamed ==
  ASSUME NEW js, JournalOK(js), Unique(js), NEW i \in DOMAIN js, NEW j \in DOMAIN js,
         js[i].type = "memory", NEW id, id = IF js[j].type = "memory" THEN js[j].sup ELSE js[j].id
  PROVE  EndsIn(js, j, i) <=> js[i].tenant = js[j].tenant /\ js[i].id = id
<1>1. js[j].type \in {"memory", "forget"} /\ js[i].id # 0
  BY DEF JournalOK
<1>2. ASSUME js[i].tenant = js[j].tenant, js[i].id = id
      PROVE  j > i
  <2>1. Earlier(js, j, id)
    BY <1>1, <1>2 DEF JournalOK
  <2>2. PICK k \in DOMAIN js : k < j /\ js[k].type = "memory" /\ js[k].tenant = js[j].tenant /\ js[k].id = id
    BY <2>1 DEF Earlier
  <2>3. k = i
    BY <1>2, <2>2 DEF Unique
  <2>4. i \in Nat /\ j \in Nat
    BY SeqShape DEF JournalOK
  <2>. QED
    BY <2>2, <2>3, <2>4
<1>. QED
  BY <1>2 DEF EndsIn

LEMMA KeptStep ==
  ASSUME NEW js, JournalOK(js), Unique(js), NEW n \in Nat, n + 1 \in DOMAIN js
  PROVE  Kept(js, n + 1) =
           IF js[n + 1].type = "memory"
           THEN (Kept(js, n) \union {n + 1})
                  \ Named(js, Kept(js, n) \union {n + 1}, js[n + 1].tenant, js[n + 1].sup)
           ELSE Kept(js, n)
<1>. PICK l : l = Len(js)
  OBVIOUS
<1>1. l \in Nat /\ DOMAIN js = 1 .. l /\ n + 1 \in 1 .. l
  BY SeqShape DEF JournalOK
<1>2. \A i : i \in 1 .. n + 1 <=> i \in 1 .. n \/ i = n + 1
  OBVIOUS
<1>3. \A i \in 1 .. n + 1 : i \in DOMAIN js
  BY <1>1
<1>4. CASE js[n + 1].type # "memory"
  <2>1. \A i : i \in Kept(js, n + 1) <=> i \in Kept(js, n)
    BY <1>2, <1>4 DEF Kept
  <2>. QED
    BY <1>4, <2>1
<1>5. CASE js[n + 1].type = "memory"
  <2>. PICK t, id : t = js[n + 1].tenant /\ id = js[n + 1].sup
    OBVIOUS
  <2>1. \A j \in 1 .. n : ~ EndsIn(js, j, n + 1)
    BY DEF EndsIn
  <2>2. \A i \in 1 .. n + 1 : js[i].type = "memory" =>
          (EndsIn(js, n + 1, i) <=> js[i].tenant = t /\ js[i].id = id)
    BY <1>3, <1>5, EndsNamed
  <2>3. \A i : i \in Kept(js, n + 1) <=>
          (i \in Kept(js, n) \/ i = n + 1) /\ ~ EndsIn(js, n + 1, i)
    BY <1>2, <1>5, <2>1 DEF Kept
  <2>4. \A i \in Kept(js, n) \union {n + 1} : i \in 1 .. n + 1 /\ js[i].type = "memory"
    BY <1>2, <1>5 DEF Kept
  <2>5. \A i : i \in Kept(js, n + 1) <=>
          i \in (Kept(js, n) \union {n + 1}) \ Named(js, Kept(js, n) \union {n + 1}, t, id)
    BY <2>2, <2>3, <2>4 DEF Named
  <2>. QED
    BY <1>5, <2>5
<1>. QED
  BY <1>4, <1>5

LEMMA LeftStep ==
  ASSUME NEW js, JournalOK(js), Unique(js), NEW n \in Nat, n + 1 \in DOMAIN js
  PROVE  Left(js, n + 1) =
           IF js[n + 1].type = "forget"
           THEN Left(js, n) \ Named(js, Left(js, n), js[n + 1].tenant, js[n + 1].id)
           ELSE Left(js, n)
<1>. PICK l : l = Len(js)
  OBVIOUS
<1>1. l \in Nat /\ DOMAIN js = 1 .. l /\ n + 1 \in 1 .. l
  BY SeqShape DEF JournalOK
<1>2. \A i : i \in 1 .. n + 1 <=> i \in 1 .. n \/ i = n + 1
  OBVIOUS
<1>4. CASE js[n + 1].type # "forget"
  <2>1. \A i : i \in Left(js, n + 1) <=> i \in Left(js, n)
    BY <1>2, <1>4 DEF Left
  <2>. QED
    BY <1>4, <2>1
<1>5. CASE js[n + 1].type = "forget"
  <2>. PICK t, id : t = js[n + 1].tenant /\ id = js[n + 1].id
    OBVIOUS
  <2>1. \A i \in Left(js, n) : i \in DOMAIN js /\ js[i].type = "memory"
    BY <1>1 DEF Left, Kept
  <2>2. \A i \in Left(js, n) : EndsIn(js, n + 1, i) <=> js[i].tenant = t /\ js[i].id = id
    BY <1>5, <2>1, EndsNamed
  <2>3. \A i : i \in Left(js, n + 1) <=> i \in Left(js, n) /\ ~ EndsIn(js, n + 1, i)
    BY <1>2, <1>5 DEF Left
  <2>4. \A i : i \in Left(js, n + 1) <=> i \in Left(js, n) \ Named(js, Left(js, n), t, id)
    BY <2>2, <2>3 DEF Named
  <2>. QED
    BY <1>5, <2>4
<1>. QED
  BY <1>4, <1>5

LEMMA LeftAll ==
  ASSUME NEW js, JournalOK(js)
  PROVE  /\ Kept(js, 0) = {} /\ Left(js, 0) = Kept(js, Len(js))
         /\ Left(js, Len(js)) = LiveIn(js, DOMAIN js)
<1>. PICK l : l = Len(js)
  OBVIOUS
<1>1. l \in Nat /\ DOMAIN js = 1 .. l
  BY SeqShape DEF JournalOK
<1>2. \A j \in 1 .. l : js[j].type \in {"memory", "forget"}
  BY <1>1 DEF JournalOK
<1>3. \A i : i \in Left(js, l) <=> i \in LiveIn(js, 1 .. l)
  BY <1>2 DEF Left, Kept, LiveIn
<1>4. 1 .. 0 = {}
  OBVIOUS
<1>5. Kept(js, 0) = {} /\ Left(js, 0) = Kept(js, l)
  BY <1>4 DEF Kept, Left
<1>. QED
  BY <1>1, <1>3, <1>5

\* The tables of the first pass.
LEMMA FirstScan ==
  ASSUME JournalOK(mjournal), Unique(mjournal)
  PROVE  /\ IsSeq(Scan(<<>>, "memory"))
         /\ Lists(mjournal, Scan(<<>>, "memory"), Kept(mjournal, Len(mjournal)))
<1>. PICK m : m = Len(mjournal)
  OBVIOUS
<1>1. m \in Nat /\ DOMAIN mjournal = 1 .. m
  BY SeqShape DEF JournalOK
<1>2. PICK f : IsScan(f, <<>>, "memory", m) /\ Scan(<<>>, "memory") = f[m]
  BY <1>1, ScanIs
<1>3. /\ f[0] = <<>>
      /\ \A n \in 0 .. m - 1 : f[n + 1] = IF mjournal[n + 1].type = "memory"
                                          THEN Replay(f[n], mjournal[n + 1]) ELSE f[n]
  BY ONLY <1>1, <1>2, ScanSteps
<1>. DEFINE Good == {n \in Nat : n <= m => IsSeq(f[n]) /\ Lists(mjournal, f[n], Kept(mjournal, n))}
<1>4. 0 \in Good
  <2>1. IsSeq(<<>>)
    BY EmptySeq DEF IsSeq, ToSet
  <2>2. Lists(mjournal, <<>>, Kept(mjournal, 0))
    BY ListsNothing, LeftAll
  <2>. QED
    BY <1>3, <2>1, <2>2
<1>5. ASSUME NEW n \in Good, n \in Nat PROVE n + 1 \in Good
  <2>. SUFFICES ASSUME n + 1 <= m
                PROVE  IsSeq(f[n + 1]) /\ Lists(mjournal, f[n + 1], Kept(mjournal, n + 1))
    BY <1>5
  <2>1. /\ IsSeq(f[n]) /\ Lists(mjournal, f[n], Kept(mjournal, n))
        /\ n \in 0 .. m - 1 /\ n + 1 \in DOMAIN mjournal
    BY <1>1, <1>5
  <2>. HIDE DEF Good
  <2>2. CASE mjournal[n + 1].type # "memory"
    <3>1. Kept(mjournal, n + 1) = Kept(mjournal, n) /\ f[n + 1] = f[n]
      BY <1>3, <1>5, <2>1, <2>2, KeptStep
    <3>. QED
      BY <2>1, <3>1
  <2>3. CASE mjournal[n + 1].type = "memory"
    <3>. PICK r : r = mjournal[n + 1]
      OBVIOUS
    <3>. PICK S : S = Kept(mjournal, n) \union {n + 1}
      OBVIOUS
    <3>. PICK es : es = Append(f[n], EntryOf(r))
      OBVIOUS
    <3>1. f[n + 1] = DropEntry(es, r.tenant, r.sup)
      BY <1>3, <2>1, <2>3 DEF Replay
    <3>2. Kept(mjournal, n + 1) = S \ Named(mjournal, S, r.tenant, r.sup)
      BY <1>5, <2>1, <2>3, KeptStep
    <3>3. Kept(mjournal, n) \in SUBSET (1 .. n)
      BY DEF Kept
    <3>4. IsSeq(es) /\ Lists(mjournal, es, S)
      BY <1>5, <2>1, <3>3, Appended, ListsAppend
    <3>5. S \in SUBSET DOMAIN mjournal /\ S \in SUBSET Nat /\ \A i \in S : mjournal[i].type = "memory"
      BY <1>1, <1>5, <2>1, <2>3, <3>3 DEF Kept
    <3>6. \A i, j \in Named(mjournal, S, r.tenant, r.sup) : i = j
      BY <3>5, NamedOnce
    <3>7. Lists(mjournal, DropEntry(es, r.tenant, r.sup), S \ Named(mjournal, S, r.tenant, r.sup))
      BY <3>4, <3>5, <3>6, ListsDrop
    <3>8. IsSeq(DropEntry(es, r.tenant, r.sup))
      BY <3>4, DropsSeq
    <3>. QED
      BY <3>1, <3>2, <3>7, <3>8
  <2>. QED
    BY <2>2, <2>3
<1>6. m \in Good
  <2>. HIDE DEF Good
  <2>. QED
    BY <1>1, <1>4, <1>5, Induction
<1>. QED
  BY <1>1, <1>2, <1>6

LEMMA RebuiltLists ==
  ASSUME JournalOK(mjournal), Unique(mjournal)
  PROVE  Lists(mjournal, Rebuilt, LiveIn(mjournal, DOMAIN mjournal))
<1>. PICK m : m = Len(mjournal)
  OBVIOUS
<1>. PICK es : es = Scan(<<>>, "memory")
  OBVIOUS
<1>1. m \in Nat /\ DOMAIN mjournal = 1 .. m
  BY SeqShape DEF JournalOK
<1>2. PICK f : IsScan(f, es, "forget", m) /\ Scan(es, "forget") = f[m]
  BY <1>1, ScanIs
<1>3. /\ f[0] = es
      /\ \A n \in 0 .. m - 1 : f[n + 1] = IF mjournal[n + 1].type = "forget"
                                          THEN Replay(f[n], mjournal[n + 1]) ELSE f[n]
  BY ONLY <1>1, <1>2, ScanSteps
<1>. DEFINE Good == {n \in Nat : n <= m => IsSeq(f[n]) /\ Lists(mjournal, f[n], Left(mjournal, n))}
<1>4. 0 \in Good
  <2>1. IsSeq(es) /\ Lists(mjournal, es, Kept(mjournal, m))
    BY FirstScan
  <2>2. Left(mjournal, 0) = Kept(mjournal, m)
    BY LeftAll
  <2>. QED
    BY <1>3, <2>1, <2>2
<1>5. ASSUME NEW n \in Good, n \in Nat PROVE n + 1 \in Good
  <2>. SUFFICES ASSUME n + 1 <= m
                PROVE  IsSeq(f[n + 1]) /\ Lists(mjournal, f[n + 1], Left(mjournal, n + 1))
    BY <1>5
  <2>1. /\ IsSeq(f[n]) /\ Lists(mjournal, f[n], Left(mjournal, n))
        /\ n \in 0 .. m - 1 /\ n + 1 \in DOMAIN mjournal
    BY <1>1, <1>5
  <2>. HIDE DEF Good
  <2>2. CASE mjournal[n + 1].type # "forget"
    <3>1. Left(mjournal, n + 1) = Left(mjournal, n) /\ f[n + 1] = f[n]
      BY <1>3, <1>5, <2>1, <2>2, LeftStep
    <3>. QED
      BY <2>1, <3>1
  <2>3. CASE mjournal[n + 1].type = "forget"
    <3>. PICK r : r = mjournal[n + 1]
      OBVIOUS
    <3>. PICK S : S = Left(mjournal, n)
      OBVIOUS
    <3>1. f[n + 1] = DropEntry(f[n], r.tenant, r.id)
      BY <1>3, <2>1, <2>3 DEF Replay
    <3>2. Left(mjournal, n + 1) = S \ Named(mjournal, S, r.tenant, r.id)
      BY <1>5, <2>1, <2>3, LeftStep
    <3>3. S \in SUBSET DOMAIN mjournal /\ S \in SUBSET Nat /\ \A i \in S : mjournal[i].type = "memory"
      BY <1>1 DEF Left, Kept
    <3>4. \A i, j \in Named(mjournal, S, r.tenant, r.id) : i = j
      BY <3>3, NamedOnce
    <3>5. Lists(mjournal, DropEntry(f[n], r.tenant, r.id), S \ Named(mjournal, S, r.tenant, r.id))
      BY <2>1, <3>3, <3>4, ListsDrop
    <3>6. IsSeq(DropEntry(f[n], r.tenant, r.id))
      BY <2>1, DropsSeq
    <3>. QED
      BY <3>1, <3>2, <3>5, <3>6
  <2>. QED
    BY <2>2, <2>3
<1>6. m \in Good
  <2>. HIDE DEF Good
  <2>. QED
    BY <1>1, <1>4, <1>5, Induction
<1>7. Left(mjournal, m) = LiveIn(mjournal, DOMAIN mjournal)
  BY LeftAll
<1>8. Lists(mjournal, f[m], Left(mjournal, m))
  BY <1>1, <1>6
<1>. QED
  BY <1>2, <1>7, <1>8 DEF Rebuilt

(***************************************************************************)
(* The next id is above those in use.                                      *)
(***************************************************************************)
LEMMA IdsBounded ==
  ASSUME NEW js, JournalOK(js)
  PROVE  \E b \in Nat : \A i \in DOMAIN js : js[i].type = "memory" => js[i].id <= b
<1>. PICK m : m = Len(js)
  OBVIOUS
<1>1. m \in Nat /\ DOMAIN js = 1 .. m /\ \A i \in 1 .. m : js[i].type = "memory" => js[i].id \in Nat
  BY SeqShape DEF JournalOK
<1>. DEFINE Bounded(n) == \E b \in Nat : \A i \in 1 .. n : js[i].type = "memory" => js[i].id <= b
            Good == {n \in Nat : n <= m => Bounded(n)}
<1>2. 0 \in Good
  OBVIOUS
<1>3. ASSUME NEW n \in Good, n \in Nat PROVE n + 1 \in Good
  <2>. HIDE DEF Bounded
  <2>. SUFFICES ASSUME n + 1 <= m PROVE Bounded(n + 1)
    BY <1>3
  <2>0. Bounded(n)
    BY <1>3
  <2>. USE DEF Bounded
  <2>1. PICK b \in Nat : \A i \in 1 .. n : js[i].type = "memory" => js[i].id <= b
    BY <2>0
  <2>2. \A i \in 1 .. n + 1 : i \in 1 .. n \/ i = n + 1
    BY <1>3
  <2>3. CASE js[n + 1].type = "memory"
    <3>1. js[n + 1].id \in Nat
      BY <1>1, <1>3, <2>3
    <3>. PICK c : c = IF js[n + 1].id > b THEN js[n + 1].id ELSE b
      OBVIOUS
    <3>2. c \in Nat /\ b <= c /\ js[n + 1].id <= c
      BY <3>1
    <3>3. ASSUME NEW i \in 1 .. n + 1, js[i].type = "memory" PROVE js[i].id <= c
      <4>1. js[i].id \in Nat
        BY <1>1, <1>3, <3>3
      <4>. QED
        BY <2>1, <2>2, <3>2, <3>3, <4>1
    <3>. QED
      BY <3>2, <3>3
  <2>4. CASE js[n + 1].type # "memory"
    BY <2>1, <2>2, <2>4
  <2>. QED
    BY <2>3, <2>4
<1>4. m \in Good
  <2>. HIDE DEF Good
  <2>. QED
    BY <1>1, <1>2, <1>3, Induction
<1>5. \E b \in Nat : \A i \in 1 .. m : js[i].type = "memory" => js[i].id <= b
  <2>. HIDE DEF Bounded
  <2>1. Bounded(m)
    BY <1>1, <1>4
  <2>. QED
    BY <2>1 DEF Bounded
<1>. QED
  BY <1>1, <1>5, Zenon

LEMMA NextIDAbove ==
  ASSUME JournalOK(mjournal)
  PROVE  /\ NextID \in Nat \ {0}
         /\ \A i \in DOMAIN mjournal : mjournal[i].type = "memory" => mjournal[i].id < NextID
<1>1. PICK ids : ids = {mjournal[i].id : i \in {j \in DOMAIN mjournal : mjournal[j].type = "memory"}}
  OBVIOUS
<1>2. \A i \in DOMAIN mjournal : mjournal[i].type = "memory" => mjournal[i].id \in ids /\ mjournal[i].id \in Nat
  BY <1>1 DEF JournalOK
<1>3. ids \in SUBSET Nat
  BY <1>1 DEF JournalOK
<1>4. PICK b \in Nat : \A i \in DOMAIN mjournal : mjournal[i].type = "memory" => mjournal[i].id <= b
  BY IdsBounded
<1>5. \A x \in ids : x <= b
  BY <1>1, <1>4
<1>6. NextID = IF ids = {} THEN 1 ELSE Max(ids) + 1
  BY <1>1 DEF NextID
<1>7. CASE ids = {}
  BY <1>2, <1>6, <1>7
<1>8. CASE ids # {}
  <2>1. Max(ids) \in ids /\ \A x \in ids : x <= Max(ids)
    BY <1>3, <1>5, <1>8, GreatestNumber
  <2>. PICK g : g = Max(ids)
    OBVIOUS
  <2>2. g \in Nat /\ NextID = g + 1
    BY <1>3, <1>6, <1>8, <2>1
  <2>3. ASSUME NEW i \in DOMAIN mjournal, mjournal[i].type = "memory"
        PROVE  mjournal[i].id < NextID
    BY <1>2, <2>1, <2>2, <2>3
  <2>. QED
    BY <2>2, <2>3
<1>. QED
  BY <1>7, <1>8

(***************************************************************************)
(* A record more.                                                          *)
(***************************************************************************)
\* The journal holds a memory of that name.
Remembered(js, t, id) == \E j \in DOMAIN js : js[j].type = "memory" /\ js[j].tenant = t /\ js[j].id = id

RecordOK(js, r) ==
  /\ r.type \in {"memory", "forget"}
  /\ r.type = "memory" =>
       r.id \in Nat \ {0} /\ r.text \in Texts /\ (r.sup = 0 \/ Remembered(js, r.tenant, r.sup))
  /\ r.type = "forget" => Remembered(js, r.tenant, r.id)

LEMMA JournalGrows ==
  ASSUME NEW js, JournalOK(js), NEW r, RecordOK(js, r), NEW ks, ks = Append(js, r)
  PROVE  JournalOK(ks)
<1>. PICK m : m = Len(js)
  OBVIOUS
<1>1. /\ m \in Nat /\ IsSeq(ks) /\ DOMAIN js = 1 .. m /\ DOMAIN ks = 1 .. m + 1
      /\ ks[m + 1] = r /\ \A i \in 1 .. m : ks[i] = js[i]
  <2>1. IsSeq(js)
    BY DEF JournalOK
  <2>2. Len(js) \in Nat /\ DOMAIN js = 1 .. Len(js)
    BY <2>1, SeqShape
  <2>3. /\ IsSeq(ks) /\ DOMAIN ks = 1 .. Len(js) + 1
        /\ ks[Len(js) + 1] = r /\ \A i \in 1 .. Len(js) : ks[i] = js[i]
    <3>1. IsSeq(ks) /\ DOMAIN ks = 1 .. Len(js) + 1
      BY <2>1, Appended
    <3>2. ks[Len(js) + 1] = r
      BY <2>1, Appended
    <3>3. \A i \in 1 .. Len(js) : ks[i] = js[i]
      BY <2>1, Appended
    <3>. QED
      BY <3>1, <3>2, <3>3
  <2>. QED
    BY <2>2, <2>3
<1>2. ASSUME NEW id, Remembered(js, r.tenant, id) PROVE Earlier(ks, m + 1, id)
  BY <1>1, <1>2 DEF Remembered, Earlier
<1>3. ASSUME NEW i \in 1 .. m, NEW id, Earlier(js, i, id) PROVE Earlier(ks, i, id)
  BY <1>1, <1>3 DEF Earlier
<1>4. ASSUME NEW i \in DOMAIN ks
      PROVE  /\ ks[i].type \in {"memory", "forget"}
             /\ ks[i].type = "memory" =>
                  ks[i].id \in Nat \ {0} /\ ks[i].text \in Texts /\ (ks[i].sup = 0 \/ Earlier(ks, i, ks[i].sup))
             /\ ks[i].type = "forget" => Earlier(ks, i, ks[i].id)
  <2>1. CASE i = m + 1
    BY <1>1, <1>2, <2>1 DEF RecordOK
  <2>2. CASE i \in 1 .. m
    <3>1. ks[i] = js[i] /\ i \in DOMAIN js
      BY <1>1, <2>2
    <3>. QED
      BY <1>3, <2>2, <3>1 DEF JournalOK
  <2>. QED
    BY <1>1, <2>1, <2>2
<1>. QED
  BY <1>1, <1>4 DEF JournalOK

LEMMA UniqueBefore ==
  ASSUME NEW js, IsSeq(js), NEW r, NEW ks, ks = Append(js, r), Unique(ks)
  PROVE  Unique(js)
<1>1. DOMAIN js \subseteq DOMAIN ks /\ \A i \in DOMAIN js : ks[i] = js[i]
  BY SeqShape, Appended
<1>. QED
  BY <1>1 DEF Unique

LEMMA LiveSame ==
  ASSUME NEW js, NEW ks, NEW C, \A i \in C : ks[i] = js[i]
  PROVE  LiveIn(ks, C) = LiveIn(js, C)
<1>1. \A i, j \in C : EndsIn(ks, j, i) <=> EndsIn(js, j, i)
  BY DEF EndsIn
<1>2. \A i : i \in LiveIn(ks, C) <=> i \in LiveIn(js, C)
  BY <1>1 DEF LiveIn
<1>. QED
  BY <1>2

\* What is live after one more record.
LEMMA LiveGrows ==
  ASSUME NEW js, NEW r, JournalOK(js), JournalOK(Append(js, r)), Unique(Append(js, r)),
         NEW C \in SUBSET DOMAIN js
  PROVE  \A i : i \in LiveIn(Append(js, r), C \union {Len(js) + 1}) <=>
           \/ i \in LiveIn(js, C) /\ i \notin Named(js, LiveIn(js, C), r.tenant, Ended(r))
           \/ i = Len(js) + 1 /\ r.type = "memory"
<1>. PICK ks, n, id : ks = Append(js, r) /\ n = Len(js) + 1 /\ id = Ended(r)
  OBVIOUS
<1>1. /\ Len(js) \in Nat /\ DOMAIN js = 1 .. Len(js) /\ DOMAIN ks = 1 .. n
      /\ ks[n] = r /\ \A i \in DOMAIN js : ks[i] = js[i]
  BY SeqShape, Appended DEF JournalOK
<1>2. \A i \in C : i \in DOMAIN ks /\ n \in DOMAIN ks /\ i < n /\ ks[i] = js[i]
  BY <1>1
<1>3. \A i \in C : js[i].type = "memory" =>
        (EndsIn(ks, n, i) <=> js[i].tenant = r.tenant /\ js[i].id = id)
  <2>. SUFFICES ASSUME NEW i \in C, js[i].type = "memory"
                PROVE  EndsIn(ks, n, i) <=> js[i].tenant = r.tenant /\ js[i].id = id
    OBVIOUS
  <2>1. i \in DOMAIN ks /\ n \in DOMAIN ks /\ ks[i] = js[i] /\ ks[n] = r
    BY <1>1, <1>2
  <2>2. id = IF ks[n].type = "memory" THEN ks[n].sup ELSE ks[n].id
    BY <2>1 DEF Ended
  <2>3. EndsIn(ks, n, i) <=> ks[i].tenant = ks[n].tenant /\ ks[i].id = id
    BY <2>1, <2>2, EndsNamed
  <2>. QED
    BY <2>1, <2>3
<1>4. \A j \in C \union {n} : ~ EndsIn(ks, j, n)
  BY <1>1, <1>2 DEF EndsIn
<1>5. LiveIn(ks, C) = LiveIn(js, C)
  BY <1>2, LiveSame
<1>6. \A i \in C : i \in LiveIn(ks, C \union {n}) <=> i \in LiveIn(ks, C) /\ ~ EndsIn(ks, n, i)
  BY DEF LiveIn
<1>7. n \in LiveIn(ks, C \union {n}) <=> r.type = "memory"
  BY <1>1, <1>4 DEF LiveIn
<1>8. n \notin C
  BY <1>1
<1>9. \A i \in LiveIn(js, C) : i \in C /\ js[i].type = "memory"
  BY DEF LiveIn
<1>10. \A i : i \in Named(js, LiveIn(js, C), r.tenant, id) <=>
         i \in LiveIn(js, C) /\ js[i].tenant = r.tenant /\ js[i].id = id
  BY DEF Named
<1>11. \A i \in LiveIn(ks, C \union {n}) : i \in C \union {n}
  BY DEF LiveIn
<1>. PICK A, L, N : A = LiveIn(ks, C \union {n}) /\ L = LiveIn(js, C) /\ N = Named(js, LiveIn(js, C), r.tenant, id)
  OBVIOUS
<1>12. \A i \in C : i \in A <=> i \in L /\ i \notin N
  BY <1>3, <1>5, <1>6, <1>9, <1>10
<1>13. \A i : i \in A <=> (i \in L /\ i \notin N) \/ (i = n /\ r.type = "memory")
  BY <1>7, <1>8, <1>9, <1>11, <1>12
<1>. QED
  BY <1>13

(***************************************************************************)
(* The table while the process runs.                                       *)
(***************************************************************************)
TableOK ==
  up /\ dim # 0 =>
    /\ \A i \in Memories : mjournal[i].id < memNextID
    /\ \A e \in ToSet(entries) : e.dim = dim
    /\ Unique(mjournal) => Lists(mjournal, entries, LiveIn(mjournal, Counted))

MemInv ==
  /\ JournalOK(mjournal) /\ refused \subseteq DOMAIN mjournal
  /\ memNextID \in Nat \ {0} /\ dim \in Dims \union {0}
  /\ OfRecords(mjournal, entries) /\ TableOK

LEMMA EmptySeqIs == IsSeq(<<>>) /\ ToSet(<<>>) = {} /\ DOMAIN <<>> = {}
BY EmptySeq DEF IsSeq, ToSet

LEMMA MemInitially == ASSUME MemInit PROVE MemInv
<1>1. mjournal = <<>> /\ entries = <<>> /\ refused = {} /\ memNextID = 1 /\ dim = 0
  BY DEF MemInit
<1>2. JournalOK(mjournal) /\ OfRecords(mjournal, entries)
  BY <1>1, EmptySeqIs DEF JournalOK, OfRecords
<1>. QED
  BY <1>1, <1>2 DEF MemInv, TableOK

\* An entry names a memory of the journal.
LEMMA EntryRemembered ==
  ASSUME NEW js, NEW es, OfRecords(js, es), NEW i \in DOMAIN es
  PROVE  Remembered(js, es[i].tenant, es[i].id)
<1>1. es[i] \in ToSet(es)
  BY DEF ToSet
<1>2. PICK j \in DOMAIN js : js[j].type = "memory" /\ es[i] = EntryOf(js[j])
  BY <1>1 DEF OfRecords
<1>3. es[i].tenant = js[j].tenant /\ es[i].id = js[j].id
  BY <1>2 DEF EntryOf
<1>. QED
  BY <1>2, <1>3 DEF Remembered

LEMMA StoredGrows ==
  ASSUME NEW js, IsSeq(js), NEW es, OfRecords(js, es), NEW r, NEW ks, ks = Append(js, r)
  PROVE  OfRecords(ks, es)
<1>1. \A i \in DOMAIN js : i \in DOMAIN ks /\ ks[i] = js[i]
  BY SeqShape, Appended
<1>. QED
  BY <1>1 DEF OfRecords

LEMMA MemStart == ASSUME MemoryAssumption, MemInv, NEW d \in Dims \union {0}, Start(d) PROVE MemInv'
<1>1. /\ mjournal' = mjournal /\ refused' = {} /\ up' = TRUE /\ dim' = d
      /\ entries' = IF d = 0 THEN <<>> ELSE Rebuilt
      /\ memNextID' = IF d = 0 THEN 1 ELSE NextID
      /\ d # 0 => \A i \in DOMAIN mjournal : mjournal[i].type = "memory" => mjournal[i].dim = d
  BY DEF Start
<1>2. JournalOK(mjournal) /\ IsSeq(mjournal)
  BY DEF MemInv, JournalOK
<1>3. OfRecords(mjournal, entries')
  <2>1. OfRecords(mjournal, <<>>)
    BY EmptySeqIs DEF OfRecords
  <2>. QED
    BY <1>1, <1>2, <2>1, RebuiltStored
<1>4. memNextID' \in Nat \ {0}
  BY <1>1, <1>2, NextIDAbove
<1>5. ASSUME d # 0
      PROVE  /\ \A i \in Memories' : mjournal[i].id < memNextID'
             /\ \A e \in ToSet(entries') : e.dim = d
             /\ Unique(mjournal) => Lists(mjournal, entries', LiveIn(mjournal, Counted'))
  <2>1. Counted' = DOMAIN mjournal
    BY <1>1 DEF Counted
  <2>2. \A i \in Memories' : i \in DOMAIN mjournal /\ mjournal[i].type = "memory"
    BY <1>1, <2>1 DEF Memories
  <2>3. \A i \in Memories' : mjournal[i].id < memNextID'
    BY <1>1, <1>2, <1>5, <2>2, NextIDAbove
  <2>4. ASSUME NEW e \in ToSet(entries') PROVE e.dim = d
    <3>1. PICK i \in DOMAIN mjournal : mjournal[i].type = "memory" /\ e = EntryOf(mjournal[i])
      BY <1>3 DEF OfRecords
    <3>2. e.dim = mjournal[i].dim
      BY <3>1 DEF EntryOf
    <3>. QED
      BY <1>1, <1>5, <3>1, <3>2
  <2>5. Unique(mjournal) => Lists(mjournal, entries', LiveIn(mjournal, Counted'))
    BY <1>1, <1>2, <1>5, <2>1, RebuiltLists
  <2>. QED
    BY <2>3, <2>4, <2>5
<1>6. TableOK'
  BY <1>1, <1>5 DEF TableOK
<1>. QED
  BY <1>1, <1>2, <1>3, <1>4, <1>6 DEF MemInv

LEMMA MemStop == ASSUME MemInv, Stop PROVE MemInv'
<1>1. /\ mjournal' = mjournal /\ refused' = refused /\ memNextID' = memNextID /\ dim' = dim
      /\ up' = FALSE /\ entries' = <<>>
  BY DEF Stop
<1>2. OfRecords(mjournal, entries')
  BY <1>1, EmptySeqIs DEF OfRecords
<1>3. TableOK'
  BY <1>1 DEF TableOK
<1>. QED
  BY <1>1, <1>2, <1>3 DEF MemInv

\* A record and what it does to the table.
LEMMA MemPersist ==
  ASSUME MemInv, up, dim # 0, NEW r, RecordOK(mjournal, r), NEW es, NEW next \in Nat \ {0}, Persist(r, es, next),
         r.type = "memory" => r.id < next /\ r.dim = dim, memNextID <= next,
         es = IF r.type = "memory" THEN Append(DropEntry(entries, r.tenant, r.sup), EntryOf(r))
                                   ELSE DropEntry(entries, r.tenant, r.id)
  PROVE  MemInv'
<1>. PICK js, ks : js = mjournal /\ ks = mjournal'
  OBVIOUS
<1>. PICK m, n : m = Len(js) /\ n = Len(js) + 1
  OBVIOUS
<1>. PICK C : C = Counted
  OBVIOUS
<1>1. /\ ks = Append(js, r) /\ dim' = dim /\ up' = up
      /\ \/ entries' = es /\ memNextID' = next /\ refused' = refused
         \/ refused' = refused \union {n} /\ entries' = entries /\ memNextID' = memNextID
  BY DEF Persist
<1>2. JournalOK(js) /\ JournalOK(ks) /\ IsSeq(js) /\ OfRecords(js, entries)
  BY <1>1, JournalGrows DEF MemInv, JournalOK
<1>3. /\ m \in Nat /\ DOMAIN js = 1 .. m /\ n = m + 1 /\ DOMAIN ks = 1 .. n
      /\ ks[n] = r /\ \A i \in 1 .. m : ks[i] = js[i]
  BY <1>1, <1>2, SeqShape, Appended
<1>4. OfRecords(ks, entries)
  BY <1>1, <1>2, StoredGrows
<1>5. C \in SUBSET DOMAIN js /\ n \notin C /\ \A i \in C : ks[i] = js[i]
  BY <1>3 DEF Counted
<1>6. ASSUME Unique(ks)
      PROVE  /\ Lists(js, entries, LiveIn(js, C)) /\ IsSeq(entries) /\ LiveIn(js, C) \in SUBSET (1 .. m)
             /\ \A t, id : \A i, j \in Named(js, LiveIn(js, C), t, id) : i = j
  <2>1. Unique(js)
    BY <1>1, <1>2, <1>6, UniqueBefore
  <2>2. LiveIn(js, C) \in SUBSET DOMAIN js /\ \A i \in LiveIn(js, C) : js[i].type = "memory"
    BY <1>5 DEF LiveIn
  <2>. QED
    BY <1>3, <2>1, <2>2, NamedOnce DEF MemInv, TableOK, OfRecords
<1>7. CASE refused' = refused \union {n} /\ entries' = entries /\ memNextID' = memNextID
  <2>1. Counted' = C
    BY <1>3, <1>5, <1>7 DEF Counted, MemInv
  <2>2. \A i \in Memories' : i \in Memories /\ ks[i] = js[i]
    BY <1>5, <2>1 DEF Memories
  <2>3. \A i \in Memories' : ks[i].id < memNextID'
    BY <1>7, <2>2 DEF MemInv, TableOK
  <2>4. ASSUME Unique(ks) PROVE Lists(ks, entries, LiveIn(ks, C))
    <3>1. \A i \in LiveIn(js, C) : js[i] = ks[i]
      BY <1>5 DEF LiveIn
    <3>2. LiveIn(ks, C) = LiveIn(js, C)
      BY <1>5, LiveSame
    <3>. QED
      BY <1>6, <2>4, <3>1, <3>2, ListsSame
  <2>5. TableOK'
    BY <1>1, <1>7, <2>1, <2>3, <2>4 DEF MemInv, TableOK
  <2>. QED
    BY <1>1, <1>2, <1>3, <1>4, <1>7, <2>5 DEF MemInv
<1>8. CASE entries' = es /\ memNextID' = next /\ refused' = refused
  <2>1. Counted' = C \union {n}
    BY <1>3, <1>5, <1>8 DEF Counted, MemInv
  <2>2. ASSUME NEW i \in Memories' PROVE ks[i].id < next
    <3>1. CASE i = n
      BY <1>3, <2>1, <2>2, <3>1 DEF Memories
    <3>2. CASE i \in C
      <4>1. i \in Memories /\ ks[i] = js[i] /\ i \in DOMAIN js
        BY <1>5, <3>2 DEF Memories
      <4>2. js[i].id < memNextID /\ js[i].id \in Nat /\ memNextID \in Nat
        BY <1>2, <4>1 DEF MemInv, TableOK, JournalOK, Memories
      <4>. QED
        BY <4>1, <4>2
    <3>. QED
      BY <2>1, <3>1, <3>2 DEF Memories
  <2>. PICK id : id = IF r.type = "memory" THEN r.sup ELSE r.id
    OBVIOUS
  <2>. PICK d : d = DropEntry(entries, r.tenant, id)
    OBVIOUS
  <2>3. OfRecords(js, d) /\ IsSeq(d) /\ ToSet(d) \subseteq ToSet(entries) /\ OfRecords(ks, d)
    BY <1>1, <1>2, StoredDrop, StoredGrows DEF OfRecords
  <2>4. es = IF r.type = "memory" THEN Append(d, EntryOf(r)) ELSE d
    OBVIOUS
  <2>5. OfRecords(ks, es) /\ \A e \in ToSet(es) : e \in ToSet(entries) \/ (r.type = "memory" /\ e = EntryOf(r))
    <3>1. CASE r.type = "memory"
      <4>1. n \in DOMAIN ks /\ ks[n].type = "memory" /\ EntryOf(ks[n]) = EntryOf(r)
        BY <1>3, <3>1
      <4>2. OfRecords(ks, Append(d, EntryOf(ks[n])))
        BY <2>3, <4>1, StoredAppend
      <4>3. ToSet(Append(d, EntryOf(r))) = ToSet(d) \union {EntryOf(r)}
        <5>. PICK e, t : e = EntryOf(r) /\ t = Append(d, e)
          OBVIOUS
        <5>0. t = Append(d, e)
          OBVIOUS
        <5>1. ToSet(t) = ToSet(d) \union {e}
          BY ONLY <2>3, <5>0, Appended
        <5>. QED
          BY <5>1
      <4>. QED
        BY <2>3, <2>4, <3>1, <4>1, <4>2, <4>3
    <3>2. CASE r.type # "memory"
      BY <2>3, <2>4, <3>2
    <3>. QED
      BY <3>1, <3>2
  <2>6. ASSUME NEW e \in ToSet(es) PROVE e.dim = dim
    <3>1. CASE e \in ToSet(entries)
      BY <3>1 DEF MemInv, TableOK
    <3>2. CASE r.type = "memory" /\ e = EntryOf(r)
      BY <3>2 DEF EntryOf
    <3>. QED
      BY <2>5, <3>1, <3>2
  <2>7. ASSUME Unique(ks) PROVE Lists(ks, es, LiveIn(ks, C \union {n}))
    <3>8. PICK L : L = LiveIn(js, C)
      OBVIOUS
    <3>9. PICK R : R = L \ Named(js, L, r.tenant, id)
      OBVIOUS
    <3>1. LiveIn(ks, C \union {n}) = R \union (IF r.type = "memory" THEN {n} ELSE {})
      <4>1. n = Len(js) + 1 /\ id = IF r.type = "memory" THEN r.sup ELSE r.id
        OBVIOUS
      <4>2. \A i : i \in LiveIn(ks, C \union {n}) <=>
              \/ i \in LiveIn(js, C) /\ i \notin Named(js, LiveIn(js, C), r.tenant, id)
              \/ i = n /\ r.type = "memory"
        <5>1. ks = Append(js, r) /\ JournalOK(js) /\ JournalOK(ks) /\ Unique(ks) /\ C \in SUBSET DOMAIN js
          BY <1>1, <1>2, <1>5, <2>7
        <5>2. id = Ended(r) /\ n = Len(js) + 1
          BY <4>1 DEF Ended
        <5>. QED
          BY ONLY <5>1, <5>2, LiveGrows
      <4>. QED
        BY ONLY <3>8, <3>9, <4>2
    <3>2. /\ L \in SUBSET Nat /\ L \in SUBSET (1 .. m) /\ IsSeq(entries) /\ Lists(js, entries, L)
          /\ \A i, j \in Named(js, L, r.tenant, id) : i = j
      BY <1>6, <2>7, <3>8
    <3>3. Lists(js, d, R)
      <4>1. d = DropEntry(entries, r.tenant, id)
        OBVIOUS
      <4>2. Lists(js, DropEntry(entries, r.tenant, id), L \ Named(js, L, r.tenant, id))
        BY ONLY <3>2, ListsDrop
      <4>. QED
        BY ONLY <3>9, <4>1, <4>2
    <3>4. \A i \in R : js[i] = ks[i]
      BY <1>3, <3>2, <3>9
    <3>5. Lists(ks, d, R)
      BY <3>3, <3>4, ListsSame
    <3>6. CASE r.type = "memory"
      <4>1. R \in SUBSET (1 .. m)
        BY <3>2, <3>9
      <4>2. Lists(ks, Append(d, EntryOf(ks[m + 1])), R \union {m + 1})
        BY <1>3, <2>3, <3>5, <4>1, ListsAppend
      <4>. QED
        BY <1>3, <2>4, <3>1, <3>6, <4>2
    <3>7. CASE r.type # "memory"
      BY <2>4, <3>1, <3>5, <3>7
    <3>. QED
      BY <3>6, <3>7
  <2>8. TableOK'
    BY <1>1, <1>8, <2>1, <2>2, <2>6, <2>7 DEF TableOK
  <2>9. refused' \subseteq DOMAIN ks
    BY <1>3, <1>8 DEF MemInv
  <2>. QED
    BY <1>1, <1>2, <1>8, <2>5, <2>8, <2>9 DEF MemInv
<1>. QED
  BY <1>1, <1>7, <1>8

LEMMA MemRemember ==
  ASSUME MemInv, NEW t, NEW x \in Texts, NEW raw, NEW sup \in Nat, NEW force, Remember(t, x, raw, sup, force)
  PROVE  MemInv'
<1>1. PICK s : s = IF HasEntry(t, sup) THEN sup ELSE 0
  OBVIOUS
<1>2. PICK r : r = MemoryRecord(t, x, NormalizeTags(raw), s)
  OBVIOUS
<1>3. /\ up /\ dim # 0
      /\ Persist(r, Append(DropEntry(entries, t, r.sup), EntryOf(r)), memNextID + 1)
  BY <1>1, <1>2 DEF Remember
<1>4. /\ r.type = "memory" /\ r.tenant = t /\ r.id = memNextID /\ r.text = x /\ r.sup = s /\ r.dim = dim
  BY <1>2 DEF MemoryRecord
<1>5. s = 0 \/ Remembered(mjournal, t, s)
  <2>. SUFFICES ASSUME HasEntry(t, sup) PROVE Remembered(mjournal, t, sup)
    BY <1>1
  <2>1. PICK i \in DOMAIN entries : entries[i].tenant = t /\ entries[i].id = sup
    BY DEF HasEntry
  <2>. QED
    BY <2>1, EntryRemembered DEF MemInv
<1>6. memNextID \in Nat \ {0}
  BY DEF MemInv
<1>7. RecordOK(mjournal, r)
  BY <1>4, <1>5, <1>6 DEF RecordOK
<1>. PICK es, next : es = Append(DropEntry(entries, t, r.sup), EntryOf(r)) /\ next = memNextID + 1
  OBVIOUS
<1>8. next \in Nat \ {0} /\ r.id < next /\ memNextID <= next /\ Persist(r, es, next)
  BY <1>3, <1>4, <1>6
<1>9. es = IF r.type = "memory" THEN Append(DropEntry(entries, r.tenant, r.sup), EntryOf(r))
                                ELSE DropEntry(entries, r.tenant, r.id)
  BY <1>4
<1>. QED
  BY <1>3, <1>4, <1>7, <1>8, <1>9, MemPersist

LEMMA MemForget ==
  ASSUME MemInv, NEW t, NEW id, Forget(t, id)
  PROVE  MemInv'
<1>1. PICK r : r = [type |-> "forget", tenant |-> t, id |-> id]
  OBVIOUS
<1>2. r.type = "forget" /\ r.type # "memory" /\ r.tenant = t /\ r.id = id
  BY <1>1
<1>3. up /\ dim # 0 /\ HasEntry(t, id) /\ Persist(r, DropEntry(entries, t, id), memNextID)
  BY <1>1 DEF Forget
<1>4. PICK i \in DOMAIN entries : entries[i].tenant = t /\ entries[i].id = id
  BY <1>3 DEF HasEntry
<1>5. Remembered(mjournal, t, id)
  BY <1>4, EntryRemembered DEF MemInv
<1>6. RecordOK(mjournal, r)
  BY <1>2, <1>5 DEF RecordOK
<1>7. memNextID \in Nat \ {0} /\ memNextID <= memNextID
  BY DEF MemInv
<1>. PICK es : es = DropEntry(entries, t, id)
  OBVIOUS
<1>8. es = IF r.type = "memory" THEN Append(DropEntry(entries, r.tenant, r.sup), EntryOf(r))
                                ELSE DropEntry(entries, r.tenant, r.id)
  BY <1>2
<1>9. Persist(r, es, memNextID)
  BY <1>3
<1>. QED
  BY <1>2, <1>3, <1>6, <1>7, <1>8, <1>9, MemPersist

LEMMA MemQuiet ==
  ASSUME MemInv, UNCHANGED <<mjournal, refused, entries, memNextID, dim, up>>
  PROVE  MemInv'
BY DEF MemInv, TableOK, Memories, Counted

LEMMA MemStepInv == ASSUME MemoryAssumption, MemInv, [MemNext]_memVars PROVE MemInv'
<1>1. CASE UNCHANGED memVars
  BY <1>1, MemQuiet DEF memVars
<1>2. CASE Reply
  BY <1>2, MemQuiet DEF Reply
<1>3. ASSUME NEW d \in Dims \union {0}, Start(d) PROVE MemInv'
  BY <1>3, MemStart
<1>4. CASE Stop
  BY <1>4, MemStop
<1>5. ASSUME NEW t \in MemTenants, NEW x \in Texts, NEW raw \in RawTags, NEW sup \in 0 .. memNextID,
             NEW force \in BOOLEAN, Remember(t, x, raw, sup, force)
      PROVE  MemInv'
  <2>1. sup \in Nat
    BY DEF MemInv
  <2>. QED
    BY <1>5, <2>1, MemRemember
<1>6. ASSUME NEW t \in MemTenants, NEW id \in 1 .. memNextID, Forget(t, id) PROVE MemInv'
  BY <1>6, MemForget
<1>7. ASSUME NEW t \in MemTenants, NEW q \in Texts, NEW k \in Ks, Recall(t, q, k) PROVE MemInv'
  BY <1>7, MemQuiet DEF Recall
<1>. QED
  BY <1>1, <1>2, <1>3, <1>4, <1>5, <1>6, <1>7 DEF MemNext, MemStep

LEMMA MemTruth == ASSUME MemInv PROVE TruthKept
<1>. SUFFICES ASSUME up, dim # 0, \A i \in DOMAIN mjournal : mjournal[i].type = "memory" => ~ Shared(i)
              PROVE  LET live == {i \in Memories : \A j \in Counted : ~ Ends(j, i)}
                     IN  /\ Lists(mjournal, entries, live)
                         /\ \A i \in Memories : mjournal[i].id < memNextID
                         /\ \A e \in ToSet(entries) : e.dim = dim
  BY DEF TruthKept
<1>1. Unique(mjournal)
  BY DEF Unique, Shared
<1>2. \A i : i \in {j \in Memories : \A n \in Counted : ~ Ends(n, j)} <=> i \in LiveIn(mjournal, Counted)
  BY DEF LiveIn, Memories, Ends, EndsIn
<1>3. {j \in Memories : \A n \in Counted : ~ Ends(n, j)} = LiveIn(mjournal, Counted)
  BY <1>2
<1>. QED
  BY <1>1, <1>3 DEF MemInv, TableOK

\* The table is, in every reachable state in which the memory tools work, the
\* memories stored and not taken back, in their order: New's two passes and
\* what Remember and Forget do to it come to the same.
THEOREM TableIsTheTruth == MemInit /\ [][MemNext]_memVars => []TruthKept
<1>1. MemInit => MemInv
  BY MemInitially
<1>2. MemInv /\ [MemNext]_memVars => MemInv'
  BY MemoryAssumption, MemStepInv
<1>3. MemInv => TruthKept
  BY MemTruth
<1>. QED
  BY <1>1, <1>2, <1>3, PTL

-----------------------------------------------------------------------------
(***************************************************************************)
(* What a recall finds.                                                    *)
(***************************************************************************)
LEMMA LeastMin ==
  ASSUME NEW S \in SUBSET Nat, S # {}
  PROVE  Min(S) \in S /\ \A x \in S : Min(S) <= x
<1>1. \E m \in S : \A x \in S : m <= x
  BY LeastNumber
<1>2. Min(S) = CHOOSE m \in S : \A x \in S : m <= x
  BY DEF Min
<1>. QED
  BY <1>1, <1>2, Zenon

LEMMA CutShape ==
  ASSUME MemoryAssumption, NEW S, NEW s \in Seq(S), \A x \in S : x.score \in Nat
  PROVE  /\ CutAtCliff(s) \in Seq(S) /\ Len(CutAtCliff(s)) \in Nat /\ Len(s) \in Nat
         /\ Len(CutAtCliff(s)) <= Len(s) /\ (Len(s) >= 1 => Len(CutAtCliff(s)) >= 1)
         /\ \A i \in 1 .. Len(CutAtCliff(s)) : CutAtCliff(s)[i] = s[i]
         /\ Gap > 1 => \A i \in 2 .. Len(CutAtCliff(s)) : s[i].score <= s[i - 1].score * Gap
         /\ Len(CutAtCliff(s)) < Len(s) =>
              /\ Gap > 1 /\ Len(CutAtCliff(s)) >= 1
              /\ s[Len(CutAtCliff(s)) + 1].score > s[Len(CutAtCliff(s))].score * Gap
<1>. PICK h : h = CutAtCliff(s)
  OBVIOUS
<1>. PICK l : l = Len(s)
  OBVIOUS
<1>1. l \in Nat /\ DOMAIN s = 1 .. l /\ \A i \in 1 .. l : s[i] \in S /\ s[i].score \in Nat
  BY LenProperties, ElementOfSeq
<1>2. Gap \in Nat
  BY DEF MemoryAssumption
<1>3. PICK cs : cs = Cliffs(s)
  OBVIOUS
<1>4. \A i \in 2 .. l : s[i].score \in Nat /\ s[i - 1].score \in Nat /\ s[i - 1].score * Gap \in Nat
  BY <1>1, <1>2
<1>5. cs \in SUBSET (2 .. l) /\ \A i \in 2 .. l : i \in cs <=> s[i].score > s[i - 1].score * Gap
  BY <1>3 DEF Cliffs
<1>6. CASE Gap <= 1 \/ cs = {}
  <2>1. h = s
    BY <1>3, <1>6 DEF CutAtCliff
  <2>2. ASSUME Gap > 1, NEW i \in 2 .. l PROVE s[i].score <= s[i - 1].score * Gap
    BY <1>2, <1>4, <1>5, <1>6, <2>2
  <2>. QED
    BY <1>1, <2>1, <2>2
<1>7. CASE ~ (Gap <= 1 \/ cs = {})
  <2>1. PICK m : m = Min(cs)
    OBVIOUS
  <2>2. m \in cs /\ \A i \in cs : m <= i
    <3>1. cs \in SUBSET Nat /\ cs # {}
      BY <1>5, <1>7
    <3>. QED
      BY <2>1, <3>1, LeastMin
  <2>3. m \in 2 .. l /\ Gap > 1
    BY <1>2, <1>5, <1>7, <2>2
  <2>4. PICK n : n = m - 1
    OBVIOUS
  <2>5. n \in Nat /\ n >= 1 /\ n < l /\ m = n + 1
    BY <1>1, <2>3, <2>4
  <2>6. h = SubSeq(s, 1, n)
    BY <1>3, <1>7, <2>1, <2>4 DEF CutAtCliff
  <2>7. h \in Seq(S) /\ Len(h) = n /\ \A i \in 1 .. n : h[i] = s[i]
    <3>1. \A i \in 1 .. n : s[i] \in S
      BY <1>1, <2>5
    <3>2. /\ SubSeq(s, 1, n) \in Seq(S) /\ Len(SubSeq(s, 1, n)) = (IF 1 <= n THEN n - 1 + 1 ELSE 0)
          /\ \A i \in 1 .. n - 1 + 1 : SubSeq(s, 1, n)[i] = s[1 + i - 1]
      BY <2>5, <3>1, SubSeqProperties
    <3>3. n - 1 + 1 = n /\ 1 <= n /\ \A i \in 1 .. n : 1 + i - 1 = i
      BY <2>5
    <3>. QED
      BY <2>6, <3>2, <3>3
  <2>8. ASSUME NEW i \in 2 .. n PROVE s[i].score <= s[i - 1].score * Gap
    <3>1. i \in 2 .. l /\ i \notin cs
      BY <1>1, <2>2, <2>5
    <3>. QED
      BY <1>4, <1>5, <3>1
  <2>9. s[n + 1].score > s[n].score * Gap
    <3>1. s[m].score > s[m - 1].score * Gap
      BY <1>5, <2>2, <2>3
    <3>. QED
      BY <2>4, <2>5, <3>1
  <2>. QED
    BY <1>1, <2>3, <2>5, <2>7, <2>8, <2>9
<1>. QED
  BY <1>6, <1>7

\* What can be ranked: every place is scored by numbers.
Scorable(q, own) == \A i \in own : Scored(q, i).score \in Nat /\ Scored(q, i).id \in Nat

LEMMA NearestOf ==
  ASSUME NEW q, NEW own, own # {}, Scorable(q, own)
  PROVE  \E x \in own : \A y \in own : ~ Nearer(Scored(q, y), Scored(q, x))
<1>1. PICK a \in own : \A y \in own : Scored(q, a).score <= Scored(q, y).score
  <2>1. PICK A : A = {Scored(q, i).score : i \in own}
    OBVIOUS
  <2>2. A \in SUBSET Nat /\ A # {}
    BY <2>1 DEF Scorable
  <2>3. PICK m \in A : \A k \in A : m <= k
    BY <2>2, LeastNumber
  <2>. QED
    BY <2>1, <2>3
<1>2. PICK B : B = {i \in own : Scored(q, i).score = Scored(q, a).score}
  OBVIOUS
<1>3. PICK b \in B : \A y \in B : Scored(q, b).id <= Scored(q, y).id
  <2>1. PICK A : A = {Scored(q, i).id : i \in B}
    OBVIOUS
  <2>2. A \in SUBSET Nat /\ A # {}
    BY <1>2, <2>1 DEF Scorable
  <2>3. PICK m \in A : \A k \in A : m <= k
    BY <2>2, LeastNumber
  <2>. QED
    BY <2>1, <2>3
<1>4. b \in own /\ Scored(q, b).score = Scored(q, a).score
  BY <1>2
<1>5. ASSUME NEW y \in own, Nearer(Scored(q, y), Scored(q, b)) PROVE FALSE
  <2>1. /\ Scored(q, y).score \in Nat /\ Scored(q, b).score \in Nat
        /\ Scored(q, y).id \in Nat /\ Scored(q, b).id \in Nat
    BY <1>4 DEF Scorable
  <2>2. Scored(q, b).score <= Scored(q, y).score
    BY <1>1, <1>4
  <2>3. y \in B => Scored(q, b).id <= Scored(q, y).id
    BY <1>3
  <2>4. y \in B <=> Scored(q, y).score = Scored(q, b).score
    BY <1>2, <1>4
  <2>. PICK v, w : v = Scored(q, y) /\ w = Scored(q, b)
    OBVIOUS
  <2>. QED
    BY <1>5, <2>1, <2>2, <2>3, <2>4 DEF Nearer
<1>. QED
  BY <1>4, <1>5

\* rank orders the places of own.
Orders(q, own, c, rank) ==
  /\ rank \in [1 .. c -> own]
  /\ \A i \in own : \E n \in 1 .. c : rank[n] = i
  /\ \A m, n \in 1 .. c : m < n => ~ Nearer(Scored(q, rank[n]), Scored(q, rank[m]))

LEMMA OrderExists ==
  ASSUME NEW q, NEW all, Scorable(q, all), IsFiniteSet(all)
  PROVE  \E rank : Orders(q, all, Cardinality(all), rank)
<1>. DEFINE Good == {n \in Nat : \A own \in SUBSET all : Cardinality(own) = n => \E rank : Orders(q, own, n, rank)}
<1>1. 0 \in Good
  <2>. SUFFICES ASSUME NEW own \in SUBSET all, Cardinality(own) = 0
                PROVE  \E rank : Orders(q, own, 0, rank)
    OBVIOUS
  <2>1. own = {}
    BY FS_Subset, FS_EmptySet
  <2>2. PICK rank : rank = [n \in {} |-> 0]
    OBVIOUS
  <2>3. 1 .. 0 = {} /\ rank \in [1 .. 0 -> own]
    BY <2>2
  <2>. QED
    BY <2>1, <2>3 DEF Orders
<1>2. ASSUME NEW n \in Good, n \in Nat PROVE n + 1 \in Good
  <2>. SUFFICES ASSUME NEW own \in SUBSET all, Cardinality(own) = n + 1
                PROVE  \E rank : Orders(q, own, n + 1, rank)
    BY <1>2
  <2>1. IsFiniteSet(own) /\ own # {}
    <3>1. IsFiniteSet(own)
      BY FS_Subset
    <3>2. Cardinality({}) = 0
      BY FS_EmptySet
    <3>. QED
      BY <1>2, <3>1, <3>2
  <2>2. Scorable(q, own)
    BY DEF Scorable
  <2>3. PICK x \in own : \A y \in own : ~ Nearer(Scored(q, y), Scored(q, x))
    BY <2>1, <2>2, NearestOf
  <2>4. PICK rest : rest = own \ {x}
    OBVIOUS
  <2>5. rest \in SUBSET all /\ Cardinality(rest) = n
    <3>1. Cardinality(own \ {x}) = Cardinality(own) - 1
      BY <2>1, FS_RemoveElement
    <3>. QED
      BY <1>2, <2>4, <3>1
  <2>6. PICK g : Orders(q, rest, n, g)
    BY <1>2, <2>5
  <2>. HIDE DEF Good
  <2>7. /\ \A m \in 1 .. n : g[m] \in rest
        /\ \A i \in rest : \E m \in 1 .. n : g[m] = i
        /\ \A l, m \in 1 .. n : l < m => ~ Nearer(Scored(q, g[m]), Scored(q, g[l]))
    BY <2>6 DEF Orders
  <2>8. PICK h : h = [m \in 1 .. n + 1 |-> IF m = 1 THEN x ELSE g[m - 1]]
    OBVIOUS
  <2>9. h[1] = x /\ \A m \in 2 .. n + 1 : h[m] = g[m - 1] /\ m - 1 \in 1 .. n
    <3>1. 1 \in 1 .. n + 1
      BY <1>2
    <3>2. \A m \in 2 .. n + 1 : m \in 1 .. n + 1 /\ m # 1 /\ m - 1 \in 1 .. n
      BY <1>2
    <3>. QED
      BY <2>8, <3>1, <3>2
  <2>10. \A m \in 1 .. n + 1 : m = 1 \/ m \in 2 .. n + 1
    BY <1>2
  <2>11. \A m \in 1 .. n + 1 : h[m] \in own
    BY <2>4, <2>7, <2>9, <2>10
  <2>12. h \in [1 .. n + 1 -> own]
    BY <2>8, <2>11
  <2>13. ASSUME NEW i \in own PROVE \E m \in 1 .. n + 1 : h[m] = i
    <3>1. CASE i = x
      BY <1>2, <2>9, <3>1
    <3>2. CASE i # x
      <4>1. PICK m \in 1 .. n : g[m] = i
        BY <2>4, <2>7, <3>2
      <4>2. m + 1 \in 2 .. n + 1 /\ m + 1 - 1 = m /\ m + 1 \in 1 .. n + 1
        BY <1>2
      <4>. QED
        BY <2>9, <4>1, <4>2
    <3>. QED
      BY <3>1, <3>2
  <2>14. ASSUME NEW l \in 1 .. n + 1, NEW m \in 1 .. n + 1, l < m
         PROVE  ~ Nearer(Scored(q, h[m]), Scored(q, h[l]))
    <3>1. CASE l = 1
      BY <2>3, <2>9, <2>11, <3>1
    <3>2. CASE l # 1
      <4>1. l \in 2 .. n + 1 /\ m \in 2 .. n + 1 /\ l - 1 < m - 1
        BY <1>2, <2>14, <3>2
      <4>2. h[l] = g[l - 1] /\ h[m] = g[m - 1] /\ l - 1 \in 1 .. n /\ m - 1 \in 1 .. n
        BY <2>9, <4>1
      <4>. QED
        BY <2>7, <4>1, <4>2
    <3>. QED
      BY <3>1, <3>2
  <2>15. Orders(q, own, n + 1, h)
    BY <2>12, <2>13, <2>14 DEF Orders
  <2>. QED
    BY <2>15
<1>. HIDE DEF Good
<1>3. Nat \subseteq Good
  BY <1>1, <1>2, Induction
<1>4. Cardinality(all) \in Good
  BY <1>3, FS_CardinalityType
<1>. QED
  BY <1>4 DEF Good

LEMMA RankedOrders ==
  ASSUME NEW q, NEW own, Scorable(q, own), IsFiniteSet(own)
  PROVE  Orders(q, own, Cardinality(own), Ranked(q, own))
<1>1. PICK c : c = Cardinality(own)
  OBVIOUS
<1>2. PICK g : Orders(q, own, c, g)
  BY <1>1, OrderExists
<1>3. \E rank \in [1 .. c -> own] :
        /\ \A i \in own : \E n \in DOMAIN rank : rank[n] = i
        /\ \A m, n \in DOMAIN rank : m < n => ~ Nearer(Scored(q, rank[n]), Scored(q, rank[m]))
  <2>1. DOMAIN g = 1 .. c
    BY <1>2 DEF Orders
  <2>. QED
    BY <1>2, <2>1 DEF Orders
<1>4. Ranked(q, own) = CHOOSE rank \in [1 .. c -> own] :
        /\ \A i \in own : \E n \in DOMAIN rank : rank[n] = i
        /\ \A m, n \in DOMAIN rank : m < n => ~ Nearer(Scored(q, rank[n]), Scored(q, rank[m]))
  BY <1>1 DEF Ranked
<1>5. PICK r : r = Ranked(q, own)
  OBVIOUS
<1>6. /\ r \in [1 .. c -> own]
      /\ \A i \in own : \E n \in DOMAIN r : r[n] = i
      /\ \A m, n \in DOMAIN r : m < n => ~ Nearer(Scored(q, r[n]), Scored(q, r[m]))
  BY <1>3, <1>4, <1>5, Zenon
<1>7. DOMAIN r = 1 .. c
  BY <1>6
<1>. QED
  BY <1>1, <1>5, <1>6, <1>7 DEF Orders

\* What RecallIsNearest says of a table and of a recall that was answered from it.
OwnIn(es, a) == {es[i] : i \in {j \in DOMAIN es : es[j].tenant = a.tenant}}
IdsIn(a) == {a.hits[i].id : i \in DOMAIN a.hits}
LeftIn(es, a) == {Dist[a.query][e.text] : e \in {o \in OwnIn(es, a) : o.id \notin IdsIn(a)}}

Closest(own, ids, left, a) ==
  LET last == a.hits[Len(a.hits)].score
  IN  /\ ids \subseteq {e.id : e \in own} /\ Len(a.hits) <= a.k
      /\ \A i, j \in DOMAIN a.hits : i < j => a.hits[i].score <= a.hits[j].score
      /\ own # {} => a.hits # <<>> /\ \A d \in left : d >= last
      /\ own # {} /\ Gap > 1 =>
           \A i \in 2 .. Len(a.hits) : a.hits[i].score <= a.hits[i - 1].score * Gap
      /\ own # {} /\ left # {} /\ Len(a.hits) < a.k => Min(left) > last * Gap

LEMMA NearestIs ==
  /\ RecallIsNearest <=> (asked # NoRecall => Closest(OwnIn(entries, asked), IdsIn(asked), LeftIn(entries, asked), asked))
  /\ RecallIsNearest' <=>
       (asked' # NoRecall => Closest(OwnIn(entries', asked'), IdsIn(asked'), LeftIn(entries', asked'), asked'))
BY DEF RecallIsNearest, Closest, OwnIn, IdsIn, LeftIn, List, NoRecall

LEMMA RecallFinds ==
  ASSUME MemoryAssumption, MemInv, NEW t, NEW q \in Texts, NEW k \in Nat \ {0},
         NEW a, a = [tenant |-> t, query |-> q, k |-> k, hits |-> Hits(t, q, k)]
  PROVE  Closest(OwnIn(entries, a), IdsIn(a), LeftIn(entries, a), a)
<1>1. a.tenant = t /\ a.query = q /\ a.k = k /\ a.hits = Hits(t, q, k)
  OBVIOUS
<1>2. PICK L : L = List(t)
  OBVIOUS
<1>3. PICK own : own = OwnIn(entries, a)
  OBVIOUS
<1>4. \A e : e \in own <=> \E i \in L : e = entries[i]
  BY <1>1, <1>2, <1>3 DEF OwnIn, List
<1>5. \A i \in L : i \in DOMAIN entries /\ entries[i].id \in Nat /\ entries[i].text \in Texts
  <2>. SUFFICES ASSUME NEW i \in L
                PROVE  i \in DOMAIN entries /\ entries[i].id \in Nat /\ entries[i].text \in Texts
    OBVIOUS
  <2>1. i \in DOMAIN entries /\ entries[i] \in ToSet(entries)
    BY <1>2 DEF List, ToSet
  <2>2. PICK j \in DOMAIN mjournal : mjournal[j].type = "memory" /\ entries[i] = EntryOf(mjournal[j])
    BY <2>1 DEF MemInv, OfRecords
  <2>3. entries[i].id = mjournal[j].id /\ entries[i].text = mjournal[j].text
    BY <2>2 DEF EntryOf
  <2>. QED
    BY <2>1, <2>2, <2>3 DEF MemInv, JournalOK
<1>6. \A i \in L : Dist[q][entries[i].text] \in Nat
  BY <1>5 DEF MemoryAssumption
<1>7. \A i : Scored(q, i).score = Dist[q][entries[i].text] /\ Scored(q, i).id = entries[i].id
  BY DEF Scored
<1>8. Scorable(q, L) /\ IsFiniteSet(L)
  <2>1. Scorable(q, L)
    BY <1>5, <1>6, <1>7 DEF Scorable
  <2>2. IsSeq(entries)
    BY DEF MemInv, OfRecords
  <2>3. Len(entries) \in Nat /\ DOMAIN entries = 1 .. Len(entries)
    BY <2>2, SeqShape
  <2>4. IsFiniteSet(1 .. Len(entries)) /\ L \subseteq 1 .. Len(entries)
    BY <1>5, <2>3, FS_Interval
  <2>. QED
    BY <2>1, <2>4, FS_Subset
<1>9. PICK c, rank : c = Cardinality(L) /\ rank = Ranked(q, L)
  OBVIOUS
<1>10. c \in Nat /\ (L # {} => c >= 1)
  <2>1. c \in Nat
    BY <1>8, <1>9, FS_CardinalityType
  <2>2. L # {} => c # 0
    BY <1>8, <1>9, FS_EmptySet
  <2>. QED
    BY <2>1, <2>2
<1>11. Orders(q, L, c, rank)
  BY <1>8, <1>9, RankedOrders
<1>12. /\ \A n \in 1 .. c : rank[n] \in L
       /\ \A i \in L : \E n \in 1 .. c : rank[n] = i
       /\ \A m, n \in 1 .. c : m < n => Scored(q, rank[m]).score <= Scored(q, rank[n]).score
  <2>1. /\ \A n \in 1 .. c : rank[n] \in L
        /\ \A i \in L : \E n \in 1 .. c : rank[n] = i
        /\ \A m, n \in 1 .. c : m < n => ~ Nearer(Scored(q, rank[n]), Scored(q, rank[m]))
    BY <1>11 DEF Orders
  <2>2. ASSUME NEW m \in 1 .. c, NEW n \in 1 .. c, m < n
        PROVE  Scored(q, rank[m]).score <= Scored(q, rank[n]).score
    <3>. PICK v, w : v = Scored(q, rank[m]) /\ w = Scored(q, rank[n])
      OBVIOUS
    <3>1. v.score \in Nat /\ w.score \in Nat
      BY <1>8, <2>1 DEF Scorable
    <3>2. ~ Nearer(w, v)
      BY <2>1, <2>2
    <3>. QED
      BY <3>1, <3>2 DEF Nearer
  <2>. QED
    BY <2>1, <2>2
<1>13. PICK l : l = IF c > k THEN k ELSE c
  OBVIOUS
<1>14. l \in Nat /\ l <= c /\ l <= k /\ (L # {} => l >= 1) /\ (l < k => l = c)
  BY <1>10, <1>13
<1>15. PICK s : s = [n \in 1 .. l |-> Scored(q, rank[n])]
  OBVIOUS
<1>16. PICK h : h = CutAtCliff(s)
  OBVIOUS
<1>17. a.hits = h
  BY <1>1, <1>2, <1>9, <1>13, <1>15, <1>16 DEF Hits
<1>18. PICK S : S = {Scored(q, i) : i \in L}
  OBVIOUS
<1>19. s \in Seq(S) /\ Len(s) = l /\ (\A n \in 1 .. l : s[n] = Scored(q, rank[n])) /\ \A x \in S : x.score \in Nat
  <2>1. \A n \in 1 .. l : s[n] = Scored(q, rank[n]) /\ s[n] \in S
    <3>1. \A m \in 1 .. l : s[m] = Scored(q, rank[m])
      BY <1>15
    <3>2. \A m \in 1 .. l : m \in 1 .. c
      BY <1>10, <1>14
    <3>3. \A m \in 1 .. l : rank[m] \in L
      BY <1>12, <3>2
    <3>. QED
      BY <1>18, <3>1, <3>3
  <2>2. s \in [1 .. l -> S]
    BY <1>15, <2>1
  <2>3. s \in Seq(S)
    BY <1>14, <2>2, SeqDef
  <2>4. Len(s) = l
    BY <1>14, <2>2, <2>3, LenProperties
  <2>5. \A x \in S : x.score \in Nat
    BY <1>8, <1>18 DEF Scorable
  <2>. QED
    BY <2>1, <2>3, <2>4, <2>5
<1>20. PICK n : n = Len(h)
  OBVIOUS
<1>21. /\ h \in Seq(S) /\ n \in Nat /\ n <= l /\ (l >= 1 => n >= 1)
       /\ \A i \in 1 .. n : h[i] = s[i]
       /\ Gap > 1 => \A i \in 2 .. n : s[i].score <= s[i - 1].score * Gap
       /\ n < l => Gap > 1 /\ n >= 1 /\ s[n + 1].score > s[n].score * Gap
  <2>1. /\ CutAtCliff(s) \in Seq(S) /\ Len(CutAtCliff(s)) \in Nat
        /\ Len(CutAtCliff(s)) <= Len(s) /\ (Len(s) >= 1 => Len(CutAtCliff(s)) >= 1)
        /\ \A i \in 1 .. Len(CutAtCliff(s)) : CutAtCliff(s)[i] = s[i]
        /\ Gap > 1 => \A i \in 2 .. Len(CutAtCliff(s)) : s[i].score <= s[i - 1].score * Gap
        /\ Len(CutAtCliff(s)) < Len(s) =>
             /\ Gap > 1 /\ Len(CutAtCliff(s)) >= 1
             /\ s[Len(CutAtCliff(s)) + 1].score > s[Len(CutAtCliff(s))].score * Gap
    BY ONLY MemoryAssumption, <1>19, CutShape
  <2>. QED
    BY ONLY <1>16, <1>19, <1>20, <2>1
<1>38. n \in Nat /\ n <= l /\ (l >= 1 => n >= 1)
  BY <1>21
<1>22. DOMAIN h = 1 .. n
  BY ONLY <1>20, <1>21, LenProperties
<1>23. \A i \in 1 .. n : h[i] = Scored(q, rank[i]) /\ h[i].score \in Nat /\ rank[i] \in L /\ i \in 1 .. c
  <2>1. \A i \in 1 .. n : i \in 1 .. l /\ i \in 1 .. c
    BY ONLY <1>10, <1>14, <1>38
  <2>. QED
    BY <1>8, <1>12, <1>19, <1>21, <2>1 DEF Scorable
<1>24. PICK ids : ids = IdsIn(a)
  OBVIOUS
<1>25. \A x : x \in ids <=> \E i \in 1 .. n : x = h[i].id
  BY <1>17, <1>22, <1>24 DEF IdsIn
<1>26. PICK left : left = LeftIn(entries, a)
  OBVIOUS
<1>27. \A d \in left : \E i \in L : entries[i].id \notin ids /\ d = Scored(q, i).score
  BY <1>1, <1>3, <1>4, <1>7, <1>24, <1>26 DEF LeftIn
\* What is left stands behind what was returned.
<1>28. ASSUME NEW d \in left
       PROVE  d \in Nat /\ \E m \in n + 1 .. c : d = Scored(q, rank[m]).score
  <2>1. PICK i \in L : entries[i].id \notin ids /\ d = Scored(q, i).score
    BY <1>27
  <2>2. PICK m \in 1 .. c : rank[m] = i
    BY <1>12
  <2>3. m \notin 1 .. n
    BY <1>7, <1>23, <1>25, <2>1, <2>2
  <2>4. m \in n + 1 .. c
    BY <1>10, <1>21, <2>3
  <2>. QED
    BY <1>8, <2>1, <2>2, <2>4 DEF Scorable
<1>29. L # {} <=> own # {}
  BY <1>4
<1>30. ids \subseteq {e.id : e \in own} /\ n <= k
  <2>1. n <= k
    BY <1>14, <1>21
  <2>2. ASSUME NEW x \in ids PROVE \E e \in own : x = e.id
    <3>1. PICK i \in 1 .. n : x = h[i].id
      BY <1>25
    <3>2. x = entries[rank[i]].id /\ rank[i] \in L
      BY <1>7, <1>23, <3>1
    <3>. QED
      BY <1>4, <3>2
  <2>. QED
    BY <2>1, <2>2
<1>31. \A i, j \in 1 .. n : i < j => h[i].score <= h[j].score
  BY <1>12, <1>23
<1>32. L # {} => n >= 1
  BY <1>14, <1>21
<1>33. ASSUME L # {}, NEW d \in left PROVE d >= h[n].score
  <2>1. PICK m \in n + 1 .. c : d = Scored(q, rank[m]).score
    BY <1>28
  <2>2. n \in 1 .. n /\ n \in 1 .. c /\ m \in 1 .. c /\ n < m
    BY <1>10, <1>14, <1>21, <1>32, <1>33
  <2>3. Scored(q, rank[n]).score <= d
    BY <1>12, <2>1, <2>2
  <2>4. h[n].score = Scored(q, rank[n]).score /\ h[n].score \in Nat /\ d \in Nat
    BY <1>23, <1>28, <2>2
  <2>. QED
    BY <2>3, <2>4
<1>34. ASSUME Gap > 1, NEW i \in 2 .. n PROVE h[i].score <= h[i - 1].score * Gap
  <2>1. s[i].score <= s[i - 1].score * Gap
    BY <1>21, <1>34
  <2>2. i \in 1 .. n /\ i - 1 \in 1 .. n
    BY <1>21
  <2>3. h[i] = s[i] /\ h[i - 1] = s[i - 1]
    BY <1>21, <2>2
  <2>. QED
    BY <2>1, <2>3
<1>35. ASSUME left # {}, n < k PROVE Min(left) > h[n].score * Gap
  <2>1. left \in SUBSET Nat
    BY <1>28
  <2>2. Min(left) \in left
    BY <1>35, <2>1, LeastMin
  <2>3. PICK d : d = Min(left)
    OBVIOUS
  <2>4. PICK m \in n + 1 .. c : d = Scored(q, rank[m]).score
    BY <1>28, <2>2, <2>3
  <2>5. n < l
    BY <1>10, <1>14, <1>21, <1>35, <2>4
  <2>6. n >= 1 /\ s[n + 1].score > s[n].score * Gap
    BY <1>21, <2>5
  <2>7. n + 1 \in 1 .. l /\ n \in 1 .. n /\ n + 1 \in 1 .. c /\ m \in 1 .. c
    <3>1. n >= 1
      BY <2>6
    <3>. QED
      BY ONLY <1>10, <1>14, <1>38, <2>5, <3>1, m \in n + 1 .. c
  <2>8. s[n + 1] = Scored(q, rank[n + 1]) /\ s[n] = h[n]
    BY <1>19, <1>21, <2>7
  <2>9. s[n + 1].score <= d
    <3>1. CASE m = n + 1
      <4>1. d = s[n + 1].score /\ d \in Nat
        BY <1>28, <2>2, <2>3, <2>4, <2>8, <3>1
      <4>. QED
        BY <4>1
    <3>2. CASE m # n + 1
      <4>1. n + 1 < m
        BY <1>21, <2>4, <3>2
      <4>. QED
        BY <1>12, <2>4, <2>7, <2>8, <4>1
    <3>. QED
      BY <3>1, <3>2
  <2>10. d \in Nat /\ s[n + 1].score \in Nat /\ s[n].score \in Nat /\ Gap \in Nat
    <3>1. d \in Nat /\ Gap \in Nat
      BY <1>28, <2>2, <2>3 DEF MemoryAssumption
    <3>2. s[n + 1].score \in Nat
      BY <1>8, <1>12, <2>7, <2>8 DEF Scorable
    <3>3. s[n].score \in Nat
      BY <1>23, <2>7, <2>8
    <3>. QED
      BY <3>1, <3>2, <3>3
  <2>11. PICK g : g = s[n].score * Gap
    OBVIOUS
  <2>12. g \in Nat
    BY <2>10, <2>11
  <2>13. d > g
    BY <2>6, <2>9, <2>10, <2>11, <2>12
  <2>. QED
    BY <2>3, <2>8, <2>11, <2>13
<1>36. own # {} => h # <<>>
  BY <1>20, <1>29, <1>32, EmptySeq
<1>37. Closest(own, ids, left, a)
  <2>1. Len(a.hits) = n /\ DOMAIN a.hits = 1 .. n /\ a.hits = h /\ a.k = k
    BY <1>1, <1>17, <1>20, <1>22
  <2>. QED
    BY <1>29, <1>30, <1>31, <1>33, <1>34, <1>35, <1>36, <2>1 DEF Closest
<1>. QED
  BY <1>3, <1>24, <1>26, <1>37

RecallInv == MemInv /\ RecallIsNearest

LEMMA RecallStep == ASSUME MemoryAssumption, RecallInv, [MemNext]_memVars PROVE RecallIsNearest'
<1>1. CASE UNCHANGED <<asked, entries>>
  BY <1>1, NearestIs DEF RecallInv
<1>2. CASE asked' = NoRecall
  BY <1>2, NearestIs
<1>3. ASSUME NEW t \in MemTenants, NEW q \in Texts, NEW k \in Ks, Recall(t, q, k) PROVE RecallIsNearest'
  <2>1. PICK a : a = [tenant |-> t, query |-> q, k |-> k, hits |-> Hits(t, q, k)]
    OBVIOUS
  <2>2. asked' = a /\ entries' = entries
    BY <1>3, <2>1 DEF Recall
  <2>3. k \in Nat \ {0}
    BY DEF MemoryAssumption
  <2>4. Closest(OwnIn(entries, a), IdsIn(a), LeftIn(entries, a), a)
    BY <2>1, <2>3, RecallFinds DEF RecallInv
  <2>. QED
    BY <2>2, <2>4, NearestIs
<1>4. CASE UNCHANGED memVars
  BY <1>1, <1>4 DEF memVars
<1>5. CASE Reply
  BY <1>2, <1>5 DEF Reply
<1>6. CASE asked = NoRecall /\ asked' = asked
  BY <1>2, <1>6
<1>7. ASSUME asked = NoRecall, NEW d \in Dims \union {0}, Start(d) PROVE RecallIsNearest'
  BY <1>6, <1>7 DEF Start
<1>8. CASE Stop
  BY <1>2, <1>8 DEF Stop
<1>9. ASSUME asked = NoRecall, NEW r, NEW es, NEW next, Persist(r, es, next) PROVE RecallIsNearest'
  BY <1>6, <1>9 DEF Persist
<1>10. ASSUME asked = NoRecall, NEW t \in MemTenants, NEW x \in Texts, NEW raw \in RawTags, NEW sup \in 0 .. memNextID,
              NEW force \in BOOLEAN, Remember(t, x, raw, sup, force)
       PROVE  RecallIsNearest'
  BY <1>9, <1>10 DEF Remember
<1>11. ASSUME asked = NoRecall, NEW t \in MemTenants, NEW id \in 1 .. memNextID, Forget(t, id) PROVE RecallIsNearest'
  BY <1>9, <1>11 DEF Forget
<1>. QED
  BY <1>3, <1>4, <1>5, <1>7, <1>8, <1>10, <1>11 DEF MemNext, MemStep

\* A recall's answer is, in every reachable state, the tenant's nearest: what
\* sort.Slice, the limit and the cut at the cliff leave is all that is nearer
\* than anything left out.
THEOREM RecallsAreNearest == MemInit /\ [][MemNext]_memVars => []RecallIsNearest
<1>1. MemInit => RecallInv
  BY MemInitially DEF RecallInv, MemInit, RecallIsNearest
<1>2. RecallInv /\ [MemNext]_memVars => RecallInv'
  BY MemoryAssumption, MemStepInv, RecallStep DEF RecallInv
<1>3. RecallInv => RecallIsNearest
  BY DEF RecallInv
<1>. QED
  BY <1>1, <1>2, <1>3, PTL

-----------------------------------------------------------------------------
(***************************************************************************)
(* The log of accesses.                                                    *)
(***************************************************************************)
\* Those of a tenant's records whose Append reported no error.
CountedMaps(t) == MapRecords(t) \ refusedAt

Backed(t, p, id) == \E i \in PathRecords(t, p) : log[i].id = id

LogShape ==
  /\ log \in Seq({log[i] : i \in DOMAIN log}) /\ refusedAt \subseteq DOMAIN log
  /\ pathIDs = [t \in AccTenants |-> pathIDs[t]] /\ topID \in [AccTenants -> Nat]
  /\ \A i \in DOMAIN log : log[i].type = "map" => log[i].id \in Nat \ {0}
  /\ work # NoWork =>
       /\ work = [tenant |-> work.tenant, todo |-> work.todo, at |-> work.at, ids |-> work.ids]
       /\ work.tenant \in AccTenants

KnownPaths ==
  \A t \in AccTenants : \A p \in DOMAIN pathIDs[t] : \E i \in PathRecords(t, p) : log[i].id = pathIDs[t][p]

LastStays ==
  \A t \in AccTenants : \A p : \A i \in PathRecords(t, p) \ refusedAt :
    /\ p \in DOMAIN pathIDs[t] /\ pathIDs[t][p] = log[i].id
    /\ \A j \in PathRecords(t, p) : j <= i

Bounded ==
  \A t \in AccTenants :
    /\ \A i \in MapRecords(t) : log[i].id <= topID[t] + 1
    /\ \A i \in CountedMaps(t) : log[i].id <= topID[t]

\* Two ids that count are two.
Apart == \A t \in AccTenants : \A i, j \in CountedMaps(t) : log[i].id = log[j].id => i = j

\* What clients were told, or will be by the request under way.
ToldBacked ==
  /\ \A e \in told : e[1] \in AccTenants /\ Backed(e[1], e[2], e[3])
  /\ work # NoWork =>
       /\ \A e \in work.ids : e[1] \in AccTenants /\ Backed(e[1], e[2], e[3])
       /\ work.at = "access" => Head(work.todo) \in DOMAIN pathIDs[work.tenant]

AccessTraced ==
  \A i \in DOMAIN log : log[i].type = "access" /\ ~log[i].item =>
    \E j \in MapsOf(log[i].tenant, log[i].id) : j < i

LogInv == LogShape /\ KnownPaths /\ LastStays /\ Bounded /\ Apart /\ ToldBacked /\ AccessTraced

-------------------------------------------------------------------------------
\* The last record of a path that has one.
LEMMA LastRecord ==
  ASSUME LogShape, NEW t, NEW p, PathRecords(t, p) # {}
  PROVE  /\ Max(PathRecords(t, p)) \in PathRecords(t, p)
         /\ \A i \in PathRecords(t, p) : i <= Max(PathRecords(t, p))
<1>1. DOMAIN log = 1 .. Len(log) /\ Len(log) \in Nat
  BY LenProperties DEF LogShape
<1>2. PathRecords(t, p) \in SUBSET Nat /\ \A i \in PathRecords(t, p) : i <= Len(log)
  BY <1>1 DEF PathRecords, MapRecords
<1>. QED
  BY <1>1, <1>2, GreatestNumber

-------------------------------------------------------------------------------
(***************************************************************************)
(* Appending to the log: what was there stays where it was.                *)
(***************************************************************************)
LEMMA Appending ==
  ASSUME LogShape, NEW r, log' = Append(log, r)
  PROVE  /\ Len(log) \in Nat /\ DOMAIN log = 1 .. Len(log) /\ DOMAIN log' = 1 .. Len(log) + 1
         /\ log' \in Seq({log'[i] : i \in DOMAIN log'})
         /\ \A i \in 1 .. Len(log) : log'[i] = log[i]
         /\ log'[Len(log) + 1] = r
<1>. DEFINE V == {log[i] : i \in DOMAIN log} \union {r}
<1>1. log \in Seq(V) /\ r \in V
  BY DEF LogShape
<1>2. /\ Append(log, r) \in Seq(V) /\ Len(Append(log, r)) = Len(log) + 1
      /\ \A i \in 1 .. Len(log) : Append(log, r)[i] = log[i]
      /\ Append(log, r)[Len(log) + 1] = r
  BY <1>1, AppendProperties
<1>3. Len(log) \in Nat /\ DOMAIN log = 1 .. Len(log)
  BY <1>1, LenProperties
<1>4. DOMAIN log' = 1 .. Len(log) + 1
  BY <1>2, LenProperties
<1>5. log' \in Seq({log'[i] : i \in DOMAIN log'})
  <2>1. V \subseteq {log'[i] : i \in DOMAIN log'}
    BY <1>2, <1>3, <1>4
  <2>. QED
    BY <1>2, <2>1
<1>. QED
  BY <1>2, <1>3, <1>4, <1>5

LEMMA RecordsAfter ==
  ASSUME LogShape, NEW r, log' = Append(log, r), NEW n, n = Len(log) + 1
  PROVE  /\ \A t : MapRecords(t)' = MapRecords(t) \union {i \in {n} : r.type = "map" /\ r.tenant = t}
         /\ \A t, p : PathRecords(t, p)' =
              PathRecords(t, p) \union {i \in {n} : r.type = "map" /\ r.tenant = t /\ r.path = p}
         /\ \A t, id : MapsOf(t, id)' =
              MapsOf(t, id) \union {i \in {n} : r.type = "map" /\ r.tenant = t /\ r.id = id}
         /\ \A t : \A i \in MapRecords(t) : i \in 1 .. n - 1 /\ log'[i] = log[i]
         /\ log'[n] = r
         /\ \A t, p, id : Backed(t, p, id) => Backed(t, p, id)'
<1>1. /\ n - 1 \in Nat /\ DOMAIN log = 1 .. n - 1 /\ DOMAIN log' = 1 .. n
      /\ \A i \in 1 .. n - 1 : log'[i] = log[i]
      /\ log'[n] = r
  BY Appending
<1>2. DOMAIN log' = DOMAIN log \union {n} /\ n \notin DOMAIN log
  BY <1>1
<1>3. \A t : MapRecords(t)' = MapRecords(t) \union {i \in {n} : r.type = "map" /\ r.tenant = t}
  BY <1>1, <1>2 DEF MapRecords
<1>4. \A t : \A i \in MapRecords(t) : i \in 1 .. n - 1 /\ log'[i] = log[i] /\ i # n
  BY <1>1, <1>2 DEF MapRecords
<1>5. \A t, p : PathRecords(t, p)' =
              PathRecords(t, p) \union {i \in {n} : r.type = "map" /\ r.tenant = t /\ r.path = p}
  BY <1>1, <1>3, <1>4 DEF PathRecords
<1>6. \A t, id : MapsOf(t, id)' =
              MapsOf(t, id) \union {i \in {n} : r.type = "map" /\ r.tenant = t /\ r.id = id}
  BY <1>1, <1>3, <1>4 DEF MapsOf
<1>7. \A t, p : \A i \in PathRecords(t, p) : i \in PathRecords(t, p)' /\ log'[i] = log[i]
  <2>1. \A t, p : \A i \in PathRecords(t, p) : i \in PathRecords(t, p)'
    BY <1>5
  <2>2. \A t, p : \A i \in PathRecords(t, p) : log'[i] = log[i]
    BY <1>4 DEF PathRecords
  <2>. QED
    BY <2>1, <2>2
<1>8. \A t, p, id : Backed(t, p, id) => Backed(t, p, id)'
  BY <1>7 DEF Backed
<1>. QED
  BY <1>1, <1>3, <1>4, <1>5, <1>6, <1>8

\* An append that maps nothing leaves what the records say.
LEMMA OtherRecord ==
  ASSUME LogInv, NEW r, log' = Append(log, r), r.type # "map", refusedAt' \in {refusedAt, refusedAt \union {Len(log) + 1}},
         UNCHANGED <<pathIDs, topID>>
  PROVE  /\ KnownPaths' /\ LastStays' /\ Bounded' /\ Apart'
         /\ \A t \in AccTenants : MapRecords(t)' = MapRecords(t) /\ CountedMaps(t)' = CountedMaps(t)
<1>. USE DEF LogInv
<1>1. \A t : MapRecords(t)' = MapRecords(t) /\ \A i \in MapRecords(t) : i \in 1 .. Len(log) /\ log'[i] = log[i]
  <2>. DEFINE n == Len(log) + 1
  <2>1. /\ \A t : MapRecords(t)' = MapRecords(t) \union {i \in {n} : r.type = "map" /\ r.tenant = t}
        /\ \A t : \A i \in MapRecords(t) : i \in 1 .. n - 1 /\ log'[i] = log[i]
    BY RecordsAfter
  <2>2. n - 1 = Len(log)
    BY Appending
  <2>. HIDE DEF n
  <2>. QED
    BY <2>1, <2>2
<1>2. \A t, p : PathRecords(t, p)' = PathRecords(t, p)
  <2>. DEFINE n == Len(log) + 1
  <2>1. \A t, p : PathRecords(t, p)' =
              PathRecords(t, p) \union {i \in {n} : r.type = "map" /\ r.tenant = t /\ r.path = p}
    BY RecordsAfter
  <2>. HIDE DEF n
  <2>. QED
    BY <2>1
<1>3. Len(log) \in Nat
  BY Appending
<1>4. \A t : CountedMaps(t)' = CountedMaps(t)
  BY <1>1, <1>3 DEF CountedMaps
<1>5. KnownPaths'
  <2>1. \A t, p : \A i \in PathRecords(t, p) : log'[i] = log[i]
    BY <1>1 DEF PathRecords
  <2>. SUFFICES ASSUME NEW t \in AccTenants, NEW p \in DOMAIN pathIDs'[t]
                PROVE  \E i \in PathRecords(t, p)' : log'[i].id = pathIDs'[t][p]
    BY DEF KnownPaths
  <2>3. PICK i \in PathRecords(t, p) : log[i].id = pathIDs[t][p]
    BY DEF KnownPaths
  <2>. QED
    BY <1>2, <2>1, <2>3
<1>6. \A t : \A i \in CountedMaps(t) : log'[i] = log[i]
  BY <1>1 DEF CountedMaps
<1>7. LastStays'
  <2>1. \A t, p : \A i \in PathRecords(t, p) : log'[i] = log[i] /\ i # Len(log) + 1
    BY <1>1, <1>3 DEF PathRecords
  <2>. SUFFICES ASSUME NEW t \in AccTenants, NEW p, NEW i \in (PathRecords(t, p) \ refusedAt)'
                PROVE  /\ p \in DOMAIN pathIDs'[t] /\ pathIDs'[t][p] = log'[i].id
                       /\ \A j \in PathRecords(t, p)' : j <= i
    BY DEF LastStays
  <2>2. i \in PathRecords(t, p) \ refusedAt
    BY <1>2, <2>1
  <2>3. /\ p \in DOMAIN pathIDs[t] /\ pathIDs[t][p] = log[i].id
        /\ \A j \in PathRecords(t, p) : j <= i
    BY <2>2 DEF LastStays
  <2>. QED
    BY <2>1, <2>2, <2>3, <1>2
<1>8. Bounded'
  BY <1>1, <1>4, <1>6 DEF Bounded
<1>9. Apart'
  <2>. SUFFICES ASSUME NEW t \in AccTenants, NEW i \in CountedMaps(t)', NEW j \in CountedMaps(t)', (log[i].id = log[j].id)'
                PROVE  i = j
    BY DEF Apart
  <2>. QED
    BY <1>4, <1>6 DEF Apart
<1>. QED
  BY <1>1, <1>4, <1>5, <1>7, <1>8, <1>9

\* What Resolve writes for a path the process does not know.
IsNewMap(r, t, p) ==
  /\ t \in AccTenants /\ p \notin DOMAIN pathIDs[t]
  /\ r.type = "map" /\ r.tenant = t /\ r.path = p /\ r.id = topID[t] + 1

\* No record of such a path counts: a counted one would be known.
LEMMA UnknownPath ==
  ASSUME LogInv, NEW r, NEW t, NEW p, IsNewMap(r, t, p)
  PROVE  \A i \in PathRecords(t, p) : i \in refusedAt
  BY DEF LogInv, LastStays, IsNewMap

\* A map record that was written, whether Append reported it or not: the records
\* that counted before keep what they say.
LEMMA NewMap ==
  ASSUME LogInv, NEW r, NEW t, NEW p, IsNewMap(r, t, p), log' = Append(log, r), NEW n, n = Len(log) + 1
  PROVE  /\ topID[t] \in Nat /\ n \in Nat /\ n \notin refusedAt
         /\ \A u : MapRecords(u)' = MapRecords(u) \union {i \in {n} : u = t}
         /\ \A u, q : PathRecords(u, q)' = PathRecords(u, q) \union {i \in {n} : u = t /\ q = p}
         /\ \A u : \A i \in MapRecords(u) : i \in 1 .. n - 1 /\ log'[i] = log[i] /\ i # n
         /\ \A u, q : \A i \in PathRecords(u, q) : i \in 1 .. n - 1 /\ log'[i] = log[i] /\ i # n
         /\ log'[n] = r
<1>1. /\ \A u : MapRecords(u)' = MapRecords(u) \union {i \in {n} : r.type = "map" /\ r.tenant = u}
      /\ \A u, q : PathRecords(u, q)' =
              PathRecords(u, q) \union {i \in {n} : r.type = "map" /\ r.tenant = u /\ r.path = q}
      /\ \A u : \A i \in MapRecords(u) : i \in 1 .. n - 1 /\ log'[i] = log[i]
      /\ log'[n] = r
  BY RecordsAfter DEF LogInv
<1>2. n - 1 \in Nat /\ n \in Nat /\ DOMAIN log = 1 .. n - 1
  BY Appending DEF LogInv
<1>3. topID[t] \in Nat /\ r.type = "map" /\ r.tenant = t /\ r.path = p
  BY DEF LogInv, LogShape, IsNewMap
<1>4. n \notin refusedAt
  BY <1>2 DEF LogInv, LogShape
<1>5. \A u : MapRecords(u)' = MapRecords(u) \union {i \in {n} : u = t}
  BY <1>1, <1>3
<1>6. \A u, q : PathRecords(u, q)' = PathRecords(u, q) \union {i \in {n} : u = t /\ q = p}
  BY <1>1, <1>3
<1>7. \A u : \A i \in MapRecords(u) : i \in 1 .. n - 1 /\ log'[i] = log[i] /\ i # n
  BY <1>1, <1>2
<1>8. \A u, q : \A i \in PathRecords(u, q) : i \in 1 .. n - 1 /\ log'[i] = log[i] /\ i # n
  BY <1>2, <1>7 DEF PathRecords
<1>. QED
  BY <1>1, <1>2, <1>3, <1>4, <1>5, <1>6, <1>7, <1>8

\* Written, but refused: it does not count, and its id is the next one again.
LEMMA RefusedMap ==
  ASSUME LogInv, NEW r, NEW t, NEW p, IsNewMap(r, t, p), log' = Append(log, r),
         refusedAt' = refusedAt \union {Len(log) + 1}, UNCHANGED <<pathIDs, topID>>
  PROVE  KnownPaths' /\ LastStays' /\ Bounded' /\ Apart'
<1>. PICK n : n = Len(log) + 1
  OBVIOUS
<1>1. /\ topID[t] \in Nat /\ n \in Nat /\ n \notin refusedAt
      /\ \A u : MapRecords(u)' = MapRecords(u) \union {i \in {n} : u = t}
      /\ \A u, q : PathRecords(u, q)' = PathRecords(u, q) \union {i \in {n} : u = t /\ q = p}
      /\ \A u : \A i \in MapRecords(u) : i \in 1 .. n - 1 /\ log'[i] = log[i] /\ i # n
      /\ \A u, q : \A i \in PathRecords(u, q) : i \in 1 .. n - 1 /\ log'[i] = log[i] /\ i # n
      /\ log'[n] = r
  BY NewMap
<1>2. refusedAt' = refusedAt \union {n}
  OBVIOUS
<1>3. \A u \in AccTenants : CountedMaps(u)' = CountedMaps(u)
  BY <1>1, <1>2 DEF CountedMaps
<1>4. KnownPaths'
  <2>1. pathIDs' = pathIDs
    OBVIOUS
  <2>. SUFFICES ASSUME NEW u \in AccTenants, NEW q \in DOMAIN pathIDs[u]
                PROVE  \E i \in PathRecords(u, q)' : log'[i].id = pathIDs[u][q]
    BY <2>1 DEF KnownPaths
  <2>2. PICK i \in PathRecords(u, q) : log[i].id = pathIDs[u][q]
    BY DEF LogInv, KnownPaths
  <2>. QED
    BY <2>2, <1>1
<1>5. LastStays'
  <2>. SUFFICES ASSUME NEW u \in AccTenants, NEW q, NEW i \in (PathRecords(u, q) \ refusedAt)'
                PROVE  /\ q \in DOMAIN pathIDs'[u] /\ pathIDs'[u][q] = log'[i].id
                       /\ \A j \in PathRecords(u, q)' : j <= i
    BY DEF LastStays
  <2>1. i \in PathRecords(u, q) \ refusedAt
    BY <1>1, <1>2
  <2>2. ~ (u = t /\ q = p)
    BY <2>1, UnknownPath
  <2>3. PathRecords(u, q)' = PathRecords(u, q)
    BY <2>2, <1>1
  <2>4. /\ q \in DOMAIN pathIDs[u] /\ pathIDs[u][q] = log[i].id
        /\ \A j \in PathRecords(u, q) : j <= i
    BY <2>1 DEF LogInv, LastStays
  <2>. QED
    BY <2>1, <2>3, <2>4, <1>1
<1>6. Bounded'
  <2>1. ASSUME NEW u \in AccTenants, NEW i \in MapRecords(u)' PROVE log'[i].id <= topID[u] + 1
    <3>1. CASE i = n /\ u = t
      BY <3>1, <1>1 DEF IsNewMap
    <3>2. CASE i \in MapRecords(u)
      BY <3>2, <1>1 DEF LogInv, Bounded
    <3>. QED
      BY <3>1, <3>2, <1>1
  <2>2. ASSUME NEW u \in AccTenants, NEW i \in CountedMaps(u)' PROVE log'[i].id <= topID[u]
    <3>1. i \in CountedMaps(u) /\ log'[i] = log[i]
      BY <1>1, <1>3 DEF CountedMaps
    <3>. QED
      BY <3>1 DEF LogInv, Bounded
  <2>. QED
    BY <2>1, <2>2 DEF Bounded
<1>7. Apart'
  <2>. SUFFICES ASSUME NEW u \in AccTenants, NEW i \in CountedMaps(u)', NEW j \in CountedMaps(u)', log'[i].id = log'[j].id
                PROVE  i = j
    BY DEF Apart
  <2>1. /\ i \in CountedMaps(u) /\ log'[i] = log[i]
        /\ j \in CountedMaps(u) /\ log'[j] = log[j]
    BY <1>1, <1>3 DEF CountedMaps
  <2>. QED
    BY <2>1 DEF LogInv, Apart
<1>. QED
  BY <1>4, <1>5, <1>6, <1>7

LEMMA AcceptedMap ==
  ASSUME LogInv, NEW r, NEW t, NEW p, IsNewMap(r, t, p), log' = Append(log, r), UNCHANGED refusedAt,
         pathIDs' = Put(pathIDs, t, p, r.id),
         topID' = [topID EXCEPT ![t] = IF r.id > @ THEN r.id ELSE @]
  PROVE  /\ KnownPaths' /\ LastStays' /\ Bounded' /\ Apart'
         /\ pathIDs' = [u \in AccTenants |-> pathIDs'[u]] /\ topID' \in [AccTenants -> Nat]
         /\ p \in DOMAIN pathIDs'[t]
         /\ \A u \in AccTenants : DOMAIN pathIDs[u] \subseteq DOMAIN pathIDs'[u]
<1>. PICK n : n = Len(log) + 1
  OBVIOUS
<1>1. /\ topID[t] \in Nat /\ n \in Nat /\ n \notin refusedAt
      /\ \A u : MapRecords(u)' = MapRecords(u) \union {i \in {n} : u = t}
      /\ \A u, q : PathRecords(u, q)' = PathRecords(u, q) \union {i \in {n} : u = t /\ q = p}
      /\ \A u : \A i \in MapRecords(u) : i \in 1 .. n - 1 /\ log'[i] = log[i] /\ i # n
      /\ \A u, q : \A i \in PathRecords(u, q) : i \in 1 .. n - 1 /\ log'[i] = log[i] /\ i # n
      /\ log'[n] = r
  BY NewMap
<1>2. /\ t \in AccTenants /\ p \notin DOMAIN pathIDs[t]
      /\ r.path = p /\ r.id = topID[t] + 1
  BY DEF IsNewMap
<1>3. /\ pathIDs = [u \in AccTenants |-> pathIDs[u]] /\ topID \in [AccTenants -> Nat]
      /\ \A u \in AccTenants : \A i \in MapRecords(u) : log[i].id \in Nat
  BY DEF LogInv, LogShape, MapRecords
<1>4. \A u \in AccTenants : CountedMaps(u)' = CountedMaps(u) \union {i \in {n} : u = t}
  BY <1>1 DEF CountedMaps
<1>5. /\ pathIDs' = [u \in AccTenants |-> pathIDs'[u]]
      /\ \A u \in AccTenants \ {t} : pathIDs'[u] = pathIDs[u]
      /\ DOMAIN pathIDs'[t] = DOMAIN pathIDs[t] \union {p}
      /\ pathIDs'[t][p] = r.id /\ \A q \in DOMAIN pathIDs[t] : pathIDs'[t][q] = pathIDs[t][q]
  BY <1>2, <1>3 DEF Put
<1>6. /\ topID' \in [AccTenants -> Nat] /\ topID'[t] = topID[t] + 1
      /\ \A u \in AccTenants \ {t} : topID'[u] = topID[u]
  BY <1>1, <1>2, <1>3
<1>7. KnownPaths'
  <2>. SUFFICES ASSUME NEW u \in AccTenants, NEW q \in DOMAIN pathIDs'[u]
                PROVE  \E i \in PathRecords(u, q)' : log'[i].id = pathIDs'[u][q]
    BY DEF KnownPaths
  <2>1. CASE u = t /\ q = p
    <3>1. n \in PathRecords(t, p)'
      BY <1>1
    <3>. QED
      BY <2>1, <3>1, <1>1, <1>2, <1>5
  <2>2. CASE q \in DOMAIN pathIDs[u] /\ pathIDs'[u][q] = pathIDs[u][q]
    <3>1. PICK i \in PathRecords(u, q) : log[i].id = pathIDs[u][q]
      BY <2>2 DEF LogInv, KnownPaths
    <3>. QED
      BY <3>1, <2>2, <1>1
  <2>. QED
    BY <2>1, <2>2, <1>5
<1>8. LastStays'
  <2>. SUFFICES ASSUME NEW u \in AccTenants, NEW q, NEW i \in (PathRecords(u, q) \ refusedAt)'
                PROVE  /\ q \in DOMAIN pathIDs'[u] /\ pathIDs'[u][q] = log'[i].id
                       /\ \A j \in PathRecords(u, q)' : j <= i
    BY DEF LastStays
  <2>1. CASE i = n /\ u = t /\ q = p
    <3>1. \A j \in PathRecords(u, q)' : j <= n
      BY <2>1, <1>1
    <3>. QED
      BY <2>1, <3>1, <1>1, <1>5
  <2>2. CASE i \in PathRecords(u, q) \ refusedAt
    <3>1. ~ (u = t /\ q = p)
      BY <2>2, UnknownPath
    <3>2. PathRecords(u, q)' = PathRecords(u, q)
      BY <3>1, <1>1
    <3>3. /\ q \in DOMAIN pathIDs[u] /\ pathIDs[u][q] = log[i].id
          /\ \A j \in PathRecords(u, q) : j <= i
      BY <2>2 DEF LogInv, LastStays
    <3>4. log'[i] = log[i]
      BY <2>2, <1>1
    <3>5. q \in DOMAIN pathIDs'[u] /\ pathIDs'[u][q] = pathIDs[u][q]
      BY <3>1, <3>3, <1>5
    <3>. QED
      BY <3>2, <3>3, <3>4, <3>5
  <2>. QED
    BY <2>1, <2>2, <1>1
<1>9. Bounded'
  <2>1. ASSUME NEW u \in AccTenants, NEW i \in MapRecords(u)' PROVE log'[i].id <= topID'[u] + 1
    <3>1. CASE i = n /\ u = t
      BY <3>1, <1>1, <1>2, <1>6
    <3>2. CASE i \in MapRecords(u)
      <4>1. log[i].id <= topID[u] + 1 /\ log[i].id \in Nat /\ topID[u] \in Nat
        BY <3>2, <1>3 DEF LogInv, Bounded
      <4>2. log'[i] = log[i] /\ topID'[u] \in {topID[u], topID[u] + 1}
        BY <3>2, <1>1, <1>6
      <4>. QED
        BY <4>1, <4>2
    <3>. QED
      BY <3>1, <3>2, <1>1
  <2>2. ASSUME NEW u \in AccTenants, NEW i \in CountedMaps(u)' PROVE log'[i].id <= topID'[u]
    <3>1. CASE i = n /\ u = t
      BY <3>1, <1>1, <1>2, <1>6
    <3>2. CASE i \in CountedMaps(u)
      <4>1. log[i].id <= topID[u] /\ log[i].id \in Nat /\ topID[u] \in Nat
        BY <3>2, <1>3 DEF LogInv, Bounded, CountedMaps
      <4>2. log'[i] = log[i] /\ topID'[u] \in {topID[u], topID[u] + 1}
        BY <3>2, <1>1, <1>6 DEF CountedMaps
      <4>. QED
        BY <4>1, <4>2
    <3>. QED
      BY <3>1, <3>2, <1>4
  <2>. QED
    BY <2>1, <2>2 DEF Bounded
<1>10. Apart'
  <2>. SUFFICES ASSUME NEW u \in AccTenants, NEW i \in CountedMaps(u)', NEW j \in CountedMaps(u)', log'[i].id = log'[j].id
                PROVE  i = j
    BY DEF Apart
  <2>1. \A k \in CountedMaps(u) : log'[k] = log[k] /\ log[k].id <= topID[u] /\ log[k].id \in Nat
    BY <1>1, <1>3 DEF LogInv, Bounded, CountedMaps
  <2>2. CASE i \in CountedMaps(u) /\ j \in CountedMaps(u)
    BY <2>1, <2>2 DEF LogInv, Apart
  <2>3. CASE u = t /\ (i = n \/ j = n)
    <3>1. log'[n].id = topID[t] + 1 /\ topID[t] \in Nat
      BY <1>1, <1>2
    <3>2. ASSUME NEW k \in CountedMaps(t) PROVE log'[k].id # log'[n].id
      <4>1. log[k].id <= topID[t] /\ log[k].id \in Nat /\ log'[k].id = log[k].id
        BY <2>1, <2>3
      <4>. QED
        BY <3>1, <4>1
    <3>3. /\ i = n \/ i \in CountedMaps(t)
          /\ j = n \/ j \in CountedMaps(t)
      BY <2>3, <1>4
    <3>. QED
      BY <2>3, <3>2, <3>3
  <2>. QED
    BY <2>2, <2>3, <1>4
<1>. QED
  BY <1>2, <1>5, <1>6, <1>7, <1>8, <1>9, <1>10

\* A start: the dictionary it reads back says of every record that counts what
\* the process before it knew.
LEMMA ReadBack ==
  ASSUME LogInv, NewRegistry
  PROVE  /\ KnownPaths' /\ LastStays' /\ Bounded' /\ Apart'
         /\ pathIDs' = [t \in AccTenants |-> pathIDs'[t]] /\ topID' \in [AccTenants -> Nat]
<1>1. /\ log' = log /\ refusedAt' = refusedAt
      /\ pathIDs' = [t \in AccTenants |-> Dictionary(t)] /\ topID' = [t \in AccTenants |-> Restored(t)]
  BY DEF NewRegistry
<1>2. /\ \A t : MapRecords(t)' = MapRecords(t) /\ CountedMaps(t)' = CountedMaps(t)
      /\ \A t, p : PathRecords(t, p)' = PathRecords(t, p)
  BY <1>1 DEF MapRecords, CountedMaps, PathRecords
<1>3. ASSUME NEW t \in AccTenants
      PROVE  /\ Restored(t) \in Nat /\ \A i \in MapRecords(t) : log[i].id <= Restored(t)
  <2>. DEFINE S == {0} \union {log[i].id : i \in MapRecords(t)}
  <2>1. S \in SUBSET Nat /\ S # {}
    BY DEF LogInv, LogShape, MapRecords
  <2>2. topID[t] + 1 \in Nat /\ \A x \in S : x <= topID[t] + 1
    BY DEF LogInv, LogShape, Bounded
  <2>3. Max(S) \in S /\ \A x \in S : x <= Max(S)
    BY <2>1, <2>2, GreatestNumber
  <2>4. Restored(t) = Max(S)
    BY DEF Restored
  <2>. QED
    BY <2>1, <2>3, <2>4
<1>4. ASSUME NEW t \in AccTenants, NEW p, PathRecords(t, p) # {}
      PROVE  /\ p \in DOMAIN pathIDs'[t]
             /\ \E i \in PathRecords(t, p) : pathIDs'[t][p] = log[i].id /\ \A j \in PathRecords(t, p) : j <= i
  <2>. PICK m : m = Max(PathRecords(t, p))
    OBVIOUS
  <2>1. m \in PathRecords(t, p) /\ \A j \in PathRecords(t, p) : j <= m
    BY <1>4, LastRecord DEF LogInv
  <2>2. p \in DOMAIN Dictionary(t) /\ Dictionary(t)[p] = log[m].id
    BY <2>1 DEF Dictionary, PathRecords
  <2>. QED
    BY <2>1, <2>2, <1>1
<1>5. ASSUME NEW t \in AccTenants, NEW p \in DOMAIN pathIDs'[t] PROVE PathRecords(t, p) # {}
  BY <1>1 DEF Dictionary, PathRecords
<1>6. KnownPaths'
  <2>. SUFFICES ASSUME NEW t \in AccTenants, NEW p \in DOMAIN pathIDs'[t]
                PROVE  \E i \in PathRecords(t, p)' : log'[i].id = pathIDs'[t][p]
    BY DEF KnownPaths
  <2>. QED
    BY <1>1, <1>2, <1>4, <1>5
<1>7. LastStays'
  <2>. SUFFICES ASSUME NEW t \in AccTenants, NEW p, NEW i \in (PathRecords(t, p) \ refusedAt)'
                PROVE  /\ p \in DOMAIN pathIDs'[t] /\ pathIDs'[t][p] = log'[i].id
                       /\ \A j \in PathRecords(t, p)' : j <= i
    BY DEF LastStays
  <2>1. i \in PathRecords(t, p) /\ \A j \in PathRecords(t, p) : j <= i
    BY <1>1, <1>2 DEF LogInv, LastStays
  <2>2. PICK m \in PathRecords(t, p) : pathIDs'[t][p] = log[m].id /\ \A j \in PathRecords(t, p) : j <= m
    BY <2>1, <1>4
  <2>3. i \in Nat /\ m \in Nat
    BY <2>1, LenProperties DEF LogInv, LogShape, PathRecords, MapRecords
  <2>4. m = i
    BY <2>1, <2>2, <2>3
  <2>. QED
    BY <2>1, <2>2, <2>4, <1>1, <1>2, <1>4
<1>8. topID' \in [AccTenants -> Nat]
  BY <1>1, <1>3
<1>9. Bounded'
  <2>. SUFFICES ASSUME NEW t \in AccTenants
                PROVE  /\ \A i \in MapRecords(t) : log[i].id <= topID'[t] + 1
                       /\ \A i \in CountedMaps(t) : log[i].id <= topID'[t]
    BY <1>1, <1>2 DEF Bounded
  <2>1. topID'[t] \in Nat /\ \A i \in MapRecords(t) : log[i].id <= topID'[t] /\ log[i].id \in Nat
    BY <1>1, <1>3 DEF LogInv, LogShape, MapRecords
  <2>. QED
    BY <2>1 DEF CountedMaps
<1>10. Apart'
  BY <1>1, <1>2 DEF LogInv, Apart
<1>. QED
  BY <1>1, <1>6, <1>7, <1>8, <1>9, <1>10

-------------------------------------------------------------------------------
(***************************************************************************)
(* The steps.                                                              *)
(***************************************************************************)
\* What clients were told stands, whatever is appended.
LEMMA ToldStays ==
  ASSUME LogInv, NEW r, log' = Append(log, r)
  PROVE  /\ \A t, p, id : Backed(t, p, id) => Backed(t, p, id)'
         /\ r.type # "access" \/ r.item => AccessTraced'
         /\ r.type = "access" /\ (\E p : Backed(r.tenant, p, r.id)) => AccessTraced'
<1>. PICK n : n = Len(log) + 1
  OBVIOUS
<1>1. /\ n - 1 \in Nat /\ DOMAIN log = 1 .. n - 1 /\ DOMAIN log' = 1 .. n
      /\ \A i \in 1 .. n - 1 : log'[i] = log[i]
      /\ log'[n] = r
  BY Appending DEF LogInv
<1>2. /\ \A t, id : MapsOf(t, id)' =
              MapsOf(t, id) \union {i \in {n} : r.type = "map" /\ r.tenant = t /\ r.id = id}
      /\ \A t, p, id : Backed(t, p, id) => Backed(t, p, id)'
  BY RecordsAfter DEF LogInv
<1>3. ASSUME NEW i \in 1 .. n - 1, log'[i].type = "access" /\ ~log'[i].item
      PROVE  \E j \in MapsOf(log'[i].tenant, log'[i].id) : j < i
  BY <1>1, <1>3 DEF LogInv, AccessTraced
<1>4. ASSUME r.type = "access" /\ ~r.item => \E j \in MapsOf(r.tenant, r.id) : j < n
      PROVE  AccessTraced'
  <2>. SUFFICES ASSUME NEW i \in DOMAIN log', log'[i].type = "access" /\ ~log'[i].item
                PROVE  \E j \in MapsOf(log[i].tenant, log[i].id)' : j < i
    BY DEF AccessTraced
  <2>1. CASE i \in 1 .. n - 1
    <3>1. PICK j \in MapsOf(log'[i].tenant, log'[i].id) : j < i
      BY <2>1, <1>3
    <3>. QED
      BY <3>1, <1>2
  <2>2. CASE i = n
    <3>1. PICK j \in MapsOf(r.tenant, r.id) : j < n
      BY <2>2, <1>1, <1>4
    <3>. QED
      BY <3>1, <2>2, <1>1, <1>2
  <2>. QED
    BY <2>1, <2>2, <1>1
<1>5. ASSUME NEW p, Backed(r.tenant, p, r.id) PROVE \E j \in MapsOf(r.tenant, r.id) : j < n
  <2>1. PICK j \in PathRecords(r.tenant, p) : log[j].id = r.id
    BY <1>5 DEF Backed
  <2>2. j \in MapsOf(r.tenant, r.id) /\ j \in 1 .. n - 1
    BY <2>1, <1>1 DEF PathRecords, MapsOf, MapRecords
  <2>. QED
    BY <2>2, <1>1
<1>. QED
  BY <1>2, <1>4, <1>5

\* What every refused append leaves: no request under way, and told as before.
LEMMA RefuseStep ==
  ASSUME LogInv, NEW r, Refuse(r),
         \/ r.type = "map" /\ \E t, p : IsNewMap(r, t, p)
         \/ r.type = "access" /\ \E p : Backed(r.tenant, p, r.id)
  PROVE  LogInv'
<1>1. work' = NoWork /\ UNCHANGED <<pathIDs, topID, told>>
  BY DEF Refuse
<1>2. CASE UNCHANGED <<log, refusedAt>>
  <2>1. LogShape' /\ KnownPaths' /\ LastStays' /\ Bounded' /\ Apart' /\ AccessTraced'
    BY <1>1, <1>2 DEF LogInv, LogShape, KnownPaths, LastStays, Bounded, Apart, AccessTraced, CountedMaps,
       PathRecords, MapRecords, MapsOf
  <2>2. ToldBacked'
    BY <1>1, <1>2 DEF LogInv, ToldBacked, Backed, PathRecords, MapRecords
  <2>. QED
    BY <2>1, <2>2 DEF LogInv
<1>3. CASE log' = Append(log, r) /\ refusedAt' = refusedAt \union {Len(log) + 1}
  <2>1. /\ Len(log) \in Nat /\ DOMAIN log = 1 .. Len(log) /\ DOMAIN log' = 1 .. Len(log) + 1
        /\ log' \in Seq({log'[i] : i \in DOMAIN log'})
        /\ \A i \in 1 .. Len(log) : log'[i] = log[i]
        /\ log'[Len(log) + 1] = r
    BY <1>3, Appending DEF LogInv
  <2>2. r.type = "map" => r.id \in Nat \ {0}
    BY DEF IsNewMap, LogInv, LogShape
  <2>3. LogShape'
    <3>1. refusedAt' \subseteq DOMAIN log'
      BY <1>3, <2>1 DEF LogInv, LogShape
    <3>2. \A i \in DOMAIN log' : log'[i].type = "map" => log'[i].id \in Nat \ {0}
      BY <2>1, <2>2, SMTT(30) DEF LogInv, LogShape
    <3>3. pathIDs = [t \in AccTenants |-> pathIDs[t]] /\ topID \in [AccTenants -> Nat]
      BY DEF LogInv, LogShape
    <3>. QED
      BY <1>1, <2>1, <3>1, <3>2, <3>3 DEF LogShape
  <2>4. /\ \A t, p, id : Backed(t, p, id) => Backed(t, p, id)'
        /\ AccessTraced'
    BY <1>3, ToldStays
  <2>5. KnownPaths' /\ LastStays' /\ Bounded' /\ Apart'
    <3>1. CASE r.type = "map" /\ \E t, p : IsNewMap(r, t, p)
      BY <3>1, <1>1, <1>3, RefusedMap
    <3>2. CASE r.type # "map"
      BY <3>2, <1>1, <1>3, OtherRecord
    <3>. QED
      BY <3>1, <3>2
  <2>6. ToldBacked'
    BY <1>1, <2>4 DEF LogInv, ToldBacked
  <2>. QED
    BY <2>3, <2>4, <2>5, <2>6 DEF LogInv
<1>. QED
  BY <1>2, <1>3 DEF Refuse

\* A step that leaves the log and the registry alone.
LEMMA WorkStep ==
  ASSUME LogInv, UNCHANGED <<log, refusedAt, pathIDs, topID, told>>,
         work' = [tenant |-> work'.tenant, todo |-> work'.todo, at |-> work'.at, ids |-> work'.ids],
         work'.tenant \in AccTenants,
         \A e \in work'.ids : e[1] \in AccTenants /\ Backed(e[1], e[2], e[3]),
         work'.at = "access" => Head(work'.todo) \in DOMAIN pathIDs[work'.tenant]
  PROVE  LogInv'
<1>1. LogShape'
  BY DEF LogInv, LogShape
<1>2. KnownPaths' /\ LastStays' /\ Bounded' /\ Apart' /\ AccessTraced'
  BY DEF LogInv, KnownPaths, LastStays, Bounded, Apart, AccessTraced, CountedMaps, PathRecords, MapRecords, MapsOf
<1>3. \A t, p, id : Backed(t, p, id) => Backed(t, p, id)'
  BY DEF Backed, PathRecords, MapRecords
<1>4. ToldBacked'
  BY <1>3 DEF LogInv, ToldBacked
<1>. QED
  BY <1>1, <1>2, <1>4 DEF LogInv

LEMMA PostStep ==
  ASSUME LogInv, NEW t \in AccTenants, NEW toks, Post(t, toks)
  PROVE  LogInv'
<1>1. /\ work' = [tenant |-> t, todo |-> ExtractPaths(toks), at |-> "resolve", ids |-> {}]
      /\ UNCHANGED <<log, refusedAt, pathIDs, topID, told>>
  BY DEF Post
<1>2. /\ work' = [tenant |-> work'.tenant, todo |-> work'.todo, at |-> work'.at, ids |-> work'.ids]
      /\ work'.tenant = t /\ work'.ids = {} /\ work'.at = "resolve"
  BY <1>1
<1>. QED
  BY <1>1, <1>2, WorkStep

LEMMA ResolveStep ==
  ASSUME LogInv, Resolve
  PROVE  LogInv'
<1>. DEFINE t == work.tenant
            p == Head(work.todo)
            rec == [type |-> "map", tenant |-> t, path |-> p, id |-> topID[t] + 1]
<1>1. /\ work # NoWork /\ t \in AccTenants
      /\ work = [tenant |-> t, todo |-> work.todo, at |-> work.at, ids |-> work.ids]
      /\ \A e \in work.ids : e[1] \in AccTenants /\ Backed(e[1], e[2], e[3])
  BY DEF Resolve, LogInv, LogShape, ToldBacked
<1>2. CASE p \in DOMAIN pathIDs[t]
  <2>1. work' = [work EXCEPT !.at = "access"] /\ UNCHANGED <<log, refusedAt, pathIDs, topID, told>>
    BY <1>2 DEF Resolve
  <2>2. /\ work' = [tenant |-> work'.tenant, todo |-> work'.todo, at |-> work'.at, ids |-> work'.ids]
        /\ work'.tenant = t /\ work'.ids = work.ids /\ work'.todo = work.todo
    BY <1>1, <2>1
  <2>. QED
    BY <1>1, <1>2, <2>1, <2>2, WorkStep
<1>3. CASE p \notin DOMAIN pathIDs[t]
  <2>1. rec.type = "map" /\ IsNewMap(rec, t, p)
    BY <1>1, <1>3 DEF IsNewMap
  <2>2. CASE Refuse(rec)
    BY <2>1, <2>2, RefuseStep
  <2>3. CASE /\ log' = Append(log, rec) /\ pathIDs' = Put(pathIDs, t, p, rec.id)
             /\ topID' = [topID EXCEPT ![t] = IF rec.id > @ THEN rec.id ELSE @]
             /\ work' = [work EXCEPT !.at = "access"]
             /\ UNCHANGED <<refusedAt, told, servers>>
    <3>. PICK r : r = rec
      OBVIOUS
    <3>1. /\ log' = Append(log, r) /\ pathIDs' = Put(pathIDs, t, p, r.id)
          /\ topID' = [topID EXCEPT ![t] = IF r.id > @ THEN r.id ELSE @]
          /\ refusedAt' = refusedAt /\ told' = told
          /\ IsNewMap(r, t, p) /\ r.type = "map"
      BY <2>1, <2>3
    <3>2. /\ KnownPaths' /\ LastStays' /\ Bounded' /\ Apart'
          /\ pathIDs' = [u \in AccTenants |-> pathIDs'[u]] /\ topID' \in [AccTenants -> Nat]
          /\ p \in DOMAIN pathIDs'[t]
      BY <3>1, AcceptedMap
    <3>3. /\ Len(log) \in Nat /\ DOMAIN log = 1 .. Len(log) /\ DOMAIN log' = 1 .. Len(log) + 1
          /\ log' \in Seq({log'[i] : i \in DOMAIN log'})
          /\ \A i \in 1 .. Len(log) : log'[i] = log[i]
          /\ log'[Len(log) + 1] = r
      BY <3>1, Appending DEF LogInv
    <3>4. /\ \A u, q, id : Backed(u, q, id) => Backed(u, q, id)'
          /\ AccessTraced'
      BY <3>1, ToldStays
    <3>5. /\ work' = [tenant |-> work'.tenant, todo |-> work'.todo, at |-> work'.at, ids |-> work'.ids]
          /\ work'.tenant = t /\ work'.ids = work.ids /\ work'.todo = work.todo
      BY <1>1, <2>3
    <3>6. LogShape'
      <4>1. r.id \in Nat \ {0}
        BY <3>1 DEF IsNewMap, LogInv, LogShape
      <4>2. \A i \in DOMAIN log' : log'[i].type = "map" => log'[i].id \in Nat \ {0}
        BY <3>3, <4>1 DEF LogInv, LogShape
      <4>3. refusedAt' \subseteq DOMAIN log'
        BY <3>1, <3>3 DEF LogInv, LogShape
      <4>. QED
        BY <1>1, <3>2, <3>3, <3>5, <4>2, <4>3 DEF LogShape
    <3>7. ToldBacked'
      <4>1. \A e \in told' : e[1] \in AccTenants /\ Backed(e[1], e[2], e[3])'
        BY <3>1, <3>4 DEF LogInv, ToldBacked
      <4>2. \A e \in work'.ids : e[1] \in AccTenants /\ Backed(e[1], e[2], e[3])'
        BY <1>1, <3>4, <3>5
      <4>3. Head(work'.todo) \in DOMAIN pathIDs'[work'.tenant]
        BY <3>2, <3>5
      <4>. QED
        BY <4>1, <4>2, <4>3 DEF ToldBacked
    <3>. QED
      BY <3>2, <3>4, <3>6, <3>7 DEF LogInv
  <2>. QED
    BY <1>3, <2>2, <2>3 DEF Resolve
<1>. QED
  BY <1>2, <1>3

\* An access that was written, or would have been.
LEMMA AccessStep ==
  ASSUME LogInv, NEW r, r.type = "access", r.item \/ \E p : Backed(r.tenant, p, r.id),
         log' = Append(log, r), UNCHANGED <<refusedAt, pathIDs, topID>>,
         \A e \in told' : e[1] \in AccTenants /\ Backed(e[1], e[2], e[3]),
         work' # NoWork =>
           /\ work' = [tenant |-> work'.tenant, todo |-> work'.todo, at |-> work'.at, ids |-> work'.ids]
           /\ work'.tenant \in AccTenants /\ work'.at # "access"
           /\ \A e \in work'.ids : e[1] \in AccTenants /\ Backed(e[1], e[2], e[3])
  PROVE  LogInv'
<1>1. /\ Len(log) \in Nat /\ DOMAIN log = 1 .. Len(log) /\ DOMAIN log' = 1 .. Len(log) + 1
      /\ log' \in Seq({log'[i] : i \in DOMAIN log'})
      /\ \A i \in 1 .. Len(log) : log'[i] = log[i]
      /\ log'[Len(log) + 1] = r
  BY Appending DEF LogInv
<1>2. /\ \A t, p, id : Backed(t, p, id) => Backed(t, p, id)'
      /\ AccessTraced'
  BY ToldStays
<1>3. KnownPaths' /\ LastStays' /\ Bounded' /\ Apart'
  BY OtherRecord
<1>4. LogShape'
  <2>1. \A i \in DOMAIN log' : log'[i].type = "map" => log'[i].id \in Nat \ {0}
    BY <1>1 DEF LogInv, LogShape
  <2>2. refusedAt' \subseteq DOMAIN log'
    BY <1>1 DEF LogInv, LogShape
  <2>3. pathIDs = [t \in AccTenants |-> pathIDs[t]] /\ topID \in [AccTenants -> Nat]
    BY DEF LogInv, LogShape
  <2>. QED
    BY <1>1, <2>1, <2>2, <2>3 DEF LogShape
<1>5. ToldBacked'
  BY <1>2 DEF ToldBacked
<1>. QED
  BY <1>2, <1>3, <1>4, <1>5 DEF LogInv

LEMMA RecordAccessStep ==
  ASSUME LogInv, RecordAccess
  PROVE  LogInv'
<1>. DEFINE t == work.tenant
            p == Head(work.todo)
            id == pathIDs[t][p]
            rec == [type |-> "access", tenant |-> t, id |-> id, item |-> FALSE]
            ids == work.ids \union {<<t, p, id>>}
<1>1. /\ work # NoWork /\ work.at = "access" /\ t \in AccTenants
      /\ work = [tenant |-> t, todo |-> work.todo, at |-> work.at, ids |-> work.ids]
      /\ \A e \in work.ids : e[1] \in AccTenants /\ Backed(e[1], e[2], e[3])
      /\ p \in DOMAIN pathIDs[t]
  BY DEF RecordAccess, LogInv, LogShape, ToldBacked
<1>2. Backed(t, p, id)
  BY <1>1 DEF LogInv, KnownPaths, Backed
<1>3. rec.type = "access" /\ \E q : Backed(rec.tenant, q, rec.id)
  BY <1>2
<1>4. CASE Refuse(rec)
  BY <1>3, <1>4, RefuseStep
<1>5. CASE /\ log' = Append(log, rec)
           /\ IF Len(work.todo) = 1
              THEN work' = NoWork /\ told' = told \union ids
              ELSE /\ work' = [work EXCEPT !.todo = Tail(@), !.at = "resolve", !.ids = ids]
                   /\ told' = told
           /\ UNCHANGED <<refusedAt, pathIDs, topID, servers>>
  <2>. PICK r : r = rec
    OBVIOUS
  <2>1. \A e \in ids : e[1] \in AccTenants /\ Backed(e[1], e[2], e[3])
    BY <1>1, <1>2
  <2>2. \A e \in told : e[1] \in AccTenants /\ Backed(e[1], e[2], e[3])
    BY DEF LogInv, ToldBacked
  <2>3. CASE Len(work.todo) = 1
    <3>1. work' = NoWork /\ told' = told \union ids
      BY <1>5, <2>3
    <3>2. \A e \in told' : e[1] \in AccTenants /\ Backed(e[1], e[2], e[3])
      BY <2>1, <2>2, <3>1
    <3>. QED
      BY <1>3, <1>5, <3>1, <3>2, AccessStep
  <2>4. CASE Len(work.todo) # 1
    <3>1. work' = [work EXCEPT !.todo = Tail(@), !.at = "resolve", !.ids = ids] /\ told' = told
      BY <1>5, <2>4
    <3>2. /\ work' = [tenant |-> work'.tenant, todo |-> work'.todo, at |-> work'.at, ids |-> work'.ids]
          /\ work'.tenant = t /\ work'.at = "resolve" /\ work'.ids = ids
      BY <1>1, <3>1
    <3>. QED
      BY <1>1, <1>3, <1>5, <2>1, <2>2, <3>1, <3>2, AccessStep
  <2>. QED
    BY <2>3, <2>4
<1>. QED
  BY <1>4, <1>5 DEF RecordAccess

LEMMA RecordItemStep ==
  ASSUME LogInv, NEW t, NEW item, RecordItem(t, item)
  PROVE  LogInv'
<1>. PICK r : r = [type |-> "access", tenant |-> t, id |-> item, item |-> TRUE]
  OBVIOUS
<1>1. /\ r.type = "access" /\ r.item /\ log' = Append(log, r)
      /\ UNCHANGED <<refusedAt, pathIDs, topID, told>> /\ work' = NoWork
  BY DEF RecordItem
<1>2. \A e \in told' : e[1] \in AccTenants /\ Backed(e[1], e[2], e[3])
  BY <1>1 DEF LogInv, ToldBacked
<1>. QED
  BY <1>1, <1>2, AccessStep

LEMMA RestartStep ==
  ASSUME LogInv, NewRegistry
  PROVE  LogInv'
<1>1. work' = NoWork /\ UNCHANGED <<log, refusedAt, told>>
  BY DEF NewRegistry
<1>2. /\ KnownPaths' /\ LastStays' /\ Bounded' /\ Apart'
      /\ pathIDs' = [t \in AccTenants |-> pathIDs'[t]] /\ topID' \in [AccTenants -> Nat]
  BY ReadBack
<1>3. LogShape'
  BY <1>1, <1>2 DEF LogInv, LogShape
<1>4. ToldBacked' /\ AccessTraced'
  BY <1>1 DEF LogInv, ToldBacked, AccessTraced, Backed, PathRecords, MapRecords, MapsOf
<1>. QED
  BY <1>2, <1>3, <1>4 DEF LogInv

\* The invariant, of every behaviour of hooks, tools, refusals and starts (AccessLog).
THEOREM LogInvariant == LogSpec => []LogInv
<1>1. LogInit => LogInv
  <2>. SUFFICES ASSUME LogInit PROVE LogInv
    OBVIOUS
  <2>1. log = <<>> /\ refusedAt = {} /\ told = {} /\ work = NoWork /\ topID = [t \in AccTenants |-> 0]
        /\ pathIDs = [t \in AccTenants |-> << >>]
    BY DEF LogInit, EmptyMap
  <2>2. DOMAIN log = {} /\ log \in Seq({log[i] : i \in DOMAIN log})
    BY <2>1
  <2>3. \A t, p : MapRecords(t) = {} /\ PathRecords(t, p) = {}
    BY <2>2 DEF MapRecords, PathRecords
  <2>4. \A t \in AccTenants : DOMAIN pathIDs[t] = {}
    BY <2>1
  <2>. QED
    BY <2>1, <2>2, <2>3, <2>4 DEF LogInv, LogShape, KnownPaths, LastStays, Bounded, Apart, ToldBacked, AccessTraced, CountedMaps
<1>2. LogInv /\ [LogNext]_logVars => LogInv'
  <2>. SUFFICES ASSUME LogInv, [LogNext]_logVars PROVE LogInv'
    OBVIOUS
  <2>1. CASE UNCHANGED logVars
    BY <2>1 DEF logVars, LogInv, LogShape, KnownPaths, LastStays, Bounded, Apart, ToldBacked, AccessTraced, CountedMaps,
       Backed, PathRecords, MapRecords, MapsOf
  <2>. QED
    BY <2>1, PostStep, ResolveStep, RecordAccessStep, RecordItemStep, RestartStep DEF LogNext
<1>. QED
  BY <1>1, <1>2, PTL DEF LogSpec

\* An id that was told names its path for its tenant, and no other path, through
\* restarts, refused appends and deaths, unless one of its records was refused
\* after it had been written; and every access by path has its path's record
\* before it (Registry.Resolve, Registry.Record, NewRegistry).
THEOREM IdsArePermanent == LogSpec => []IdsKeepTheirPath
<1>1. LogInv => IdsKeepTheirPath
  <2>. SUFFICES ASSUME LogInv PROVE IdsKeepTheirPath
    OBVIOUS
  <2>1. ASSUME NEW e \in told, MapsOf(e[1], e[3]) \intersect refusedAt = {}
        PROVE  /\ e[2] \in DOMAIN pathIDs[e[1]] /\ pathIDs[e[1]][e[2]] = e[3]
               /\ \A p \in DOMAIN pathIDs[e[1]] : pathIDs[e[1]][p] = e[3] => p = e[2]
    <3>. PICK t, q, id : t = e[1] /\ q = e[2] /\ id = e[3]
      OBVIOUS
    <3>1. t \in AccTenants /\ \E i \in PathRecords(t, q) : log[i].id = id
      BY DEF LogInv, ToldBacked, Backed
    <3>2. PICK i \in PathRecords(t, q) : log[i].id = id
      BY <3>1
    <3>3. \A p : \A j \in PathRecords(t, p) : log[j].id = id =>
            j \in CountedMaps(t) /\ j \in PathRecords(t, p) \ refusedAt /\ log[j].path = p
      BY <2>1 DEF PathRecords, CountedMaps, MapsOf
    <3>4. q \in DOMAIN pathIDs[t] /\ pathIDs[t][q] = id
      BY <3>1, <3>2, <3>3 DEF LogInv, LastStays
    <3>5. ASSUME NEW p \in DOMAIN pathIDs[t], pathIDs[t][p] = id PROVE p = q
      <4>1. PICK j \in PathRecords(t, p) : log[j].id = id
        BY <3>1, <3>5 DEF LogInv, KnownPaths
      <4>2. i = j
        BY <3>1, <3>2, <3>3, <4>1 DEF LogInv, Apart
      <4>. QED
        BY <3>2, <3>3, <4>1, <4>2
    <3>. QED
      BY <3>4, <3>5
  <2>. QED
    BY <2>1 DEF IdsKeepTheirPath, LogInv, AccessTraced
<1>. QED
  BY <1>1, LogInvariant, PTL
===============================================================================
