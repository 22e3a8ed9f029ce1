--------------------------- MODULE WebSession_proofs ---------------------------
(***************************************************************************)
(* Theorems about WebSession, for any numbers of tabs, calls and tokens.   *)
(*                                                                         *)
(* WebInv is the inductive invariant. A token is either promised (granted, *)
(* with the answer that carries it not yet taken), or stored or sent to be *)
(* exchanged; only the latter can be revoked, and usedBy knows who sent    *)
(* it. A refusal for a revoked token is therefore a refusal for somebody   *)
(* else's use of it.                                                       *)
(***************************************************************************)
EXTENDS WebSession, TLAPS

-----------------------------------------------------------------------------
(***************************************************************************)
(* The inductive invariant.                                                *)
(***************************************************************************)
Promise(t, s) == calls[t][s].answer.token

\* refreshPromise: a tab has one exchange at a time, of a token proper, and
\* usedBy knows of it.
ExchangeInv ==
    /\ \A x, y \in exchanges : x.tab = y.tab /\ x.tab # NoTab => x = y
    /\ \A x \in exchanges : x.token # NoToken /\ x.tab \in usedBy[x.token]
    /\ \A x \in exchanges : x.gives # NoToken => x.step = "answered"

\* A token on its way to a page is not revoked, stored, or exchanged.
IsFresh(n) == n \notin revoked /\ n # storage /\ \A x \in exchanges : x.token # n

PromiseInv ==
    /\ \A x \in exchanges : x.gives # NoToken => IsFresh(x.gives)
    /\ \A t \in Tabs : \A s \in Slots[t] :
          Promise(t, s) # NoToken => IsFresh(Promise(t, s))
    /\ \A x, y \in exchanges : x.gives = y.gives /\ x.gives # NoToken => x = y
    /\ \A t, u \in Tabs : \A s \in Slots[t], r \in Slots[u] :
          Promise(t, s) = Promise(u, r) /\ Promise(t, s) # NoToken => t = u /\ s = r
    /\ \A x \in exchanges, t \in Tabs : \A s \in Slots[t] :
          x.gives = Promise(t, s) => x.gives = NoToken

\* Before there is an account, there are no tokens.
StrangerInv ==
    account.state = "none" =>
        /\ storage = NoToken /\ exchanges = {}
        /\ \A t \in Tabs : \A s \in Slots[t] : Promise(t, s) = NoToken

\* A token that is revoked before its exchange comes to that is one that
\* somebody else has exchanged.
OvertakenInv ==
    \A x \in exchanges :
        x.tab # NoTab /\ x.step \in {"sent", "checked"} /\ x.token \in revoked =>
            usedBy[x.token] # {x.tab}

WebInv ==
    /\ TypeOK
    /\ ExchangeInv /\ PromiseInv /\ StrangerInv /\ OvertakenInv
    /\ StoredTokenIsGood /\ RefusedForCause /\ WaitersAreWoken


-----------------------------------------------------------------------------
(***************************************************************************)
(* Calls, exchanges and pages.                                             *)
(***************************************************************************)
Call == [step: {"idle", "sent", "answered", "waiting"}, kind: Kinds,
         answer: [status: {"ok", "401", "error"}, token: AnyToken]]

Exchanges == [tab: Clients, token: Tokens,
              step: {"sent", "checked", "revoked", "answered"}, gives: AnyToken]

\* TypeOK with the sets of calls and exchanges by their names.
LEMMA Types ==
    TypeOK <=>
        /\ account \in [state: {"none", "active", "inactive"},
                        failed: 0..MaxFailed, locked: BOOLEAN]
        /\ age \in [Tokens -> {"new", "worn", "lapsed"}]
        /\ revoked \subseteq Tokens /\ exchanges \subseteq Exchanges
        /\ storage \in AnyToken
        /\ auth \in [Tabs -> {"loading", "in", "out"}]
        /\ DOMAIN calls = Tabs
        /\ \A t \in Tabs : calls[t] \in [Slots[t] -> Call]
        /\ usedBy \in [Tokens -> SUBSET Clients]
        /\ disruptions \in [Disruptions -> 0..MaxDisruptions]
  BY DEF TypeOK, AccountType, Call, Exchanges

LEMMA TypesNext ==
  ASSUME account' \in [state: {"none", "active", "inactive"},
                       failed: 0..MaxFailed, locked: BOOLEAN],
         age' \in [Tokens -> {"new", "worn", "lapsed"}],
         revoked' \subseteq Tokens, exchanges' \subseteq Exchanges,
         storage' \in AnyToken,
         auth' \in [Tabs -> {"loading", "in", "out"}],
         DOMAIN calls' = Tabs, \A t \in Tabs : calls'[t] \in [Slots[t] -> Call],
         usedBy' \in [Tokens -> SUBSET Clients],
         disruptions' \in [Disruptions -> 0..MaxDisruptions]
  PROVE  TypeOK'
  BY DEF TypeOK, AccountType, Call, Exchanges

\* Disrupt counts up to its bound.
LEMMA DisruptTypes ==
  ASSUME disruptions \in [Disruptions -> 0..MaxDisruptions],
         NEW kind \in Disruptions, Disrupt(kind)
  PROVE  disruptions' \in [Disruptions -> 0..MaxDisruptions]
  BY WebAssumption DEF Disrupt

\* The forms in which a call is left by a step.
LEMMA CallForms ==
    /\ NoCall \in Call /\ NoCall.step = "idle" /\ NoCall.answer.token = NoToken
    /\ \A kind \in Kinds :
          /\ Sent(kind) \in Call /\ Sent(kind).step = "sent"
          /\ Sent(kind).answer.token = NoToken
          /\ Waiting(kind) \in Call /\ Waiting(kind).step = "waiting"
          /\ Waiting(kind).answer.token = NoToken
    /\ \A kind \in Kinds, answer \in [status: {"ok", "401", "error"}, token: AnyToken] :
          /\ Got(kind, answer) \in Call /\ Got(kind, answer).step = "answered"
          /\ Got(kind, answer).answer = answer
  BY DEF NoCall, Sent, Waiting, Got, Call, Kinds, Forms, Answer, AnyToken

\* SetCall changes one call.
LEMMA OneCall ==
  ASSUME TypeOK, NEW t \in Tabs, NEW s \in Slots[t], NEW call \in Call,
         SetCall(t, s, call)
  PROVE  /\ DOMAIN calls' = Tabs
         /\ \A u \in Tabs : calls'[u] \in [Slots[u] -> Call]
         /\ \A u \in Tabs : \A r \in Slots[u] :
               calls'[u][r] = IF u = t /\ r = s THEN call ELSE calls[u][r]
  BY Types DEF SetCall

\* A pair to be granted is one that nobody holds.
LEMMA NewPairIsUnheld ==
  ASSUME TypeOK, NEW n \in NewPairs
  PROVE  /\ n \in Tokens /\ n # NoToken /\ n # storage
         /\ \A x \in exchanges : x.token # n /\ x.gives # n
         /\ \A t \in Tabs : \A s \in Slots[t] : Promise(t, s) # n
<1>1. Unheld # {} /\ n = CHOOSE m \in Unheld : TRUE
  BY DEF NewPairs
<1>2. n \in Unheld
  BY <1>1
<1>3. n \in Tokens /\ n \notin Held
  BY <1>2 DEF Unheld
<1>4. \A t \in Tabs : \A s \in Slots[t] : Promise(t, s) \in Held
  BY DEF Held, Promise
<1>5. \A x \in exchanges : x.token \in Held /\ x.gives \in Held
  BY DEF Held
<1>6. storage \in Held
  BY DEF Held
<1> QED
  BY <1>3, <1>4, <1>5, <1>6, AccountsAssumption

-----------------------------------------------------------------------------
(***************************************************************************)
(* Steps that grant nothing and exchange nothing: calls begin, end or are  *)
(* lost, and the stored pair may be removed.                               *)
(***************************************************************************)
LEMMA QuietStep ==
  ASSUME WebInv, TypeOK',
         UNCHANGED <<account, tokenVars, usedBy>>,
         storage' \in {storage, NoToken},
         \A t \in Tabs : \A s \in Slots[t] :
            /\ Promise(t, s)' \in {Promise(t, s), NoToken}
            /\ calls'[t][s].step = "waiting" =>
                  calls[t][s].step = "waiting" \/ Exchanging(t)
  PROVE  WebInv'
<1>1. ExchangeInv' /\ OvertakenInv' /\ RefusedForCause'
  BY DEF WebInv, ExchangeInv, OvertakenInv, RefusedForCause, tokenVars
<1>2. PromiseInv'
  <2>1. ASSUME NEW n, n # NoToken, IsFresh(n)
        PROVE  IsFresh(n)'
    BY <2>1 DEF IsFresh, tokenVars
  <2> QED
    BY <2>1 DEF WebInv, PromiseInv, tokenVars
<1>3. StrangerInv'
  BY DEF WebInv, StrangerInv, tokenVars
<1>4. StoredTokenIsGood'
  BY AccountsAssumption, Types DEF WebInv, StoredTokenIsGood, tokenVars
<1>5. WaitersAreWoken'
  BY DEF WebInv, WaitersAreWoken, Exchanging, tokenVars
<1> QED
  BY <1>1, <1>2, <1>3, <1>4, <1>5 DEF WebInv

\* A step of this kind that changes one call.
LEMMA QuietCall ==
  ASSUME WebInv, NEW t \in Tabs, NEW s \in Slots[t], NEW call \in Call,
         SetCall(t, s, call), call.answer.token = NoToken,
         call.step = "waiting" => Exchanging(t),
         UNCHANGED <<account, tokenVars, usedBy>>,
         storage' \in {storage, NoToken},
         auth' \in [Tabs -> {"loading", "in", "out"}],
         disruptions' \in [Disruptions -> 0..MaxDisruptions]
  PROVE  WebInv'
<1>1. TypeOK
  BY DEF WebInv
<1>2. /\ DOMAIN calls' = Tabs
      /\ \A u \in Tabs : calls'[u] \in [Slots[u] -> Call]
      /\ \A u \in Tabs : \A r \in Slots[u] :
            calls'[u][r] = IF u = t /\ r = s THEN call ELSE calls[u][r]
  BY <1>1, OneCall
<1>3. TypeOK'
  BY <1>1, <1>2, Types, TypesNext DEF tokenVars, AnyToken
<1>4. ASSUME NEW u \in Tabs, NEW r \in Slots[u]
      PROVE  /\ Promise(u, r)' \in {Promise(u, r), NoToken}
             /\ calls'[u][r].step = "waiting" =>
                   calls[u][r].step = "waiting" \/ Exchanging(u)
  BY <1>2 DEF Promise
<1> QED
  BY <1>3, <1>4, QuietStep

LEMMA StepSubmit ==
  ASSUME WebInv, NEW t \in Tabs, NEW s \in Slots[t], NEW kind \in Submits[t], Submit(t, s, kind)
  PROVE  WebInv'
<1>1. kind \in Kinds
  BY WebAssumption DEF Kinds
<1> QED
  BY <1>1, CallForms, QuietCall, Types DEF Submit, WebInv

LEMMA StepFetch ==
  ASSUME WebInv, NEW t \in Tabs, NEW s \in Slots[t], Fetch(t, s)
  PROVE  WebInv'
<1>1. "data" \in Kinds
  BY DEF Kinds
<1> QED
  BY <1>1, CallForms, QuietCall, Types DEF Fetch, WebInv

LEMMA StepLogout ==
  ASSUME WebInv, NEW t \in Tabs, Logout(t)
  PROVE  WebInv'
<1>1. TypeOK'
  BY Types, TypesNext DEF Logout, WebInv, tokenVars, AnyToken
<1> QED
  BY <1>1, QuietStep DEF Logout, Promise

LEMMA StepLoadUser ==
  ASSUME WebInv, NEW t \in Tabs, LoadUser(t)
  PROVE  WebInv'
<1>1. Form \in Slots[t] /\ "load" \in Kinds
  BY WebAssumption DEF Kinds
<1>2. CASE UNCHANGED calls
  <2>1. TypeOK'
    BY <1>2, Types, TypesNext DEF LoadUser, WebInv, tokenVars
  <2> QED
    BY <1>2, <2>1, QuietStep DEF LoadUser, Promise
<1>3. CASE SetCall(t, Form, Sent("load")) /\ UNCHANGED auth
  BY <1>1, <1>3, CallForms, QuietCall, Types DEF LoadUser, WebInv
<1> QED
  BY <1>2, <1>3 DEF LoadUser

\* The kind of a call is one of Kinds.
LEMMA KindOfCall ==
  ASSUME TypeOK, NEW t \in Tabs, NEW s \in Slots[t]
  PROVE  calls[t][s].kind \in Kinds /\ calls[t][s].answer.token \in AnyToken
  BY Types DEF Call

LEMMA StepFail ==
  ASSUME WebInv, NEW t \in Tabs, NEW s \in Slots[t], Fail(t, s)
  PROVE  WebInv'
<1>1. auth' \in [Tabs -> {"loading", "in", "out"}]
  BY Types DEF Fail, WebInv
<1>2. storage' \in {storage, NoToken}
  BY DEF Fail
<1>3. UNCHANGED disruptions /\ SetCall(t, s, NoCall)
  BY DEF Fail
<1> QED
  BY <1>1, <1>2, <1>3, CallForms, QuietCall, Types DEF Fail, WebInv

LEMMA StepAwaitExchange ==
  ASSUME WebInv, NEW t \in Tabs, NEW s \in Slots[t], AwaitExchange(t, s)
  PROVE  WebInv'
  BY CallForms, KindOfCall, QuietCall, Types DEF AwaitExchange, WebInv

LEMMA StepLoseCall ==
  ASSUME WebInv, NEW t \in Tabs, NEW s \in Slots[t], LoseCall(t, s)
  PROVE  WebInv'
<1>1. TypeOK
  BY DEF WebInv
<1>2. disruptions' \in [Disruptions -> 0..MaxDisruptions]
  BY <1>1, Types, DisruptTypes DEF LoseCall, Disruptions
<1>3. Answer("error", NoToken) \in [status: {"ok", "401", "error"}, token: AnyToken]
      /\ Answer("error", NoToken).token = NoToken
  BY DEF Answer, AnyToken
<1> DEFINE call == Got(calls[t][s].kind, Answer("error", NoToken))
<1>4. call \in Call /\ call.step = "answered" /\ call.answer.token = NoToken
  BY <1>1, <1>3, CallForms, KindOfCall
<1>5. SetCall(t, s, call) /\ UNCHANGED <<account, tokenVars, storage, auth, usedBy>>
  BY DEF LoseCall
<1>6. auth' \in [Tabs -> {"loading", "in", "out"}]
  BY <1>1, <1>5, Types
<1> HIDE DEF call
<1> QED
  BY <1>2, <1>4, <1>5, <1>6, QuietCall

-----------------------------------------------------------------------------
(***************************************************************************)
(* Pages that go away.                                                     *)
(***************************************************************************)
\* Which exchanges LeavePage leaves, and what usedBy says of their tokens.
LEMMA WhatIsLeft ==
  ASSUME TypeOK, NEW t \in Tabs, NEW heard, LeavePage(t, heard)
  PROVE  /\ \A y \in exchanges' : \E x \in exchanges \ heard :
               /\ y.token = x.token /\ y.step = x.step /\ y.gives = x.gives
               /\ \/ x.tab # t /\ y = x
                  \/ /\ x.tab = t /\ y.tab = NoTab /\ x.step # "answered"
                     /\ y \in Exchanges
         /\ \A x \in exchanges \ heard :
               \/ x.tab = t /\ x.step = "answered"
               \/ x.tab = t /\ \E y \in exchanges' : y.token = x.token
               \/ x.tab # t /\ x \in exchanges'
         /\ \A x \in exchanges \ heard : x.tab = t => NoTab \in usedBy'[x.token]
         /\ \A n \in Tokens : usedBy'[n] = usedBy[n] \/ usedBy'[n] = (usedBy[n] \ {t}) \cup {NoTab}
<1> DEFINE left == exchanges \ heard
           orphan(x) == IF x.tab = t THEN [x EXCEPT !.tab = NoTab] ELSE x
           unheard == {x.token : x \in {y \in left : y.tab = t}}
<1>1. exchanges' = {orphan(x) : x \in {y \in left : y.tab # t \/ y.step # "answered"}}
  BY DEF LeavePage
<1>2. usedBy' = [n \in Tokens |->
        IF n \in unheard THEN (usedBy[n] \ {t}) \cup {NoTab} ELSE usedBy[n]]
  BY DEF LeavePage
<1>3. exchanges \subseteq Exchanges
  BY Types
<1>4. \A x \in Exchanges : x.tab = t =>
        /\ orphan(x) \in Exchanges /\ orphan(x).tab = NoTab
        /\ orphan(x).token = x.token /\ orphan(x).step = x.step
        /\ orphan(x).gives = x.gives
  BY DEF Exchanges, Clients
<1>5. \A x \in Exchanges : x.tab # t => orphan(x) = x
  OBVIOUS
<1>6. \A x \in left : x.tab = t => x.token \in unheard /\ x.token \in Tokens
  BY <1>3 DEF Exchanges
<1> HIDE DEF orphan, unheard
<1>7. ASSUME NEW y \in exchanges'
      PROVE  \E x \in exchanges \ heard :
               /\ y.token = x.token /\ y.step = x.step /\ y.gives = x.gives
               /\ \/ x.tab # t /\ y = x
                  \/ /\ x.tab = t /\ y.tab = NoTab /\ x.step # "answered"
                     /\ y \in Exchanges
  <2>1. PICK x \in left : y = orphan(x) /\ (x.tab # t \/ x.step # "answered")
    BY <1>1
  <2>2. x \in Exchanges /\ x \in exchanges \ heard
    BY <2>1, <1>3
  <2> QED
    BY <2>1, <2>2, <1>4, <1>5
<1>8. ASSUME NEW x \in exchanges \ heard
      PROVE  \/ x.tab = t /\ x.step = "answered"
             \/ x.tab = t /\ \E y \in exchanges' : y.token = x.token
             \/ x.tab # t /\ x \in exchanges'
  <2>1. x.tab # t \/ x.step # "answered" => orphan(x) \in exchanges'
    BY <1>1
  <2> QED
    BY <2>1, <1>3, <1>4, <1>5
<1>9. \A x \in exchanges \ heard : x.tab = t => NoTab \in usedBy'[x.token]
  BY <1>2, <1>6
<1>10. \A n \in Tokens : usedBy'[n] = usedBy[n] \/ usedBy'[n] = (usedBy[n] \ {t}) \cup {NoTab}
  BY <1>2
<1> QED
  BY <1>7, <1>8, <1>9, <1>10

\* A page goes away. It may have heard an answer when the session ends with it.
LEMMA LeaveStep ==
  ASSUME WebInv, NEW t \in Tabs, NEW heard, LeavePage(t, heard),
         \A x \in heard : x.tab = t,
         UNCHANGED <<account, age, revoked>>,
         storage' = NoToken \/ (storage' = storage /\ heard = {}),
         disruptions' \in [Disruptions -> 0..MaxDisruptions]
  PROVE  WebInv'
<1>1. TypeOK /\ ExchangeInv /\ PromiseInv
  BY DEF WebInv
<1>2. \A y \in exchanges' : \E x \in exchanges \ heard :
        /\ y.token = x.token /\ y.step = x.step /\ y.gives = x.gives
        /\ \/ x.tab # t /\ y = x
           \/ /\ x.tab = t /\ y.tab = NoTab /\ x.step # "answered"
              /\ y \in Exchanges
  BY <1>1, WhatIsLeft
<1>3. \A x \in exchanges \ heard :
        \/ x.tab = t /\ x.step = "answered"
        \/ x.tab = t /\ \E y \in exchanges' : y.token = x.token
        \/ x.tab # t /\ x \in exchanges'
  BY <1>1, WhatIsLeft
<1>4. \A x \in exchanges \ heard : x.tab = t => NoTab \in usedBy'[x.token]
  BY <1>1, WhatIsLeft
<1>5. \A n \in Tokens : usedBy'[n] = usedBy[n] \/ usedBy'[n] = (usedBy[n] \ {t}) \cup {NoTab}
  BY <1>1, WhatIsLeft
<1>6. /\ DOMAIN calls' = Tabs
      /\ \A u \in Tabs : calls'[u] = IF u = t THEN [s \in Slots[t] |-> NoCall] ELSE calls[u]
  BY <1>1, Types DEF LeavePage
<1>7. exchanges \subseteq Exchanges /\ NoTab \notin Tabs
  BY <1>1, Types, AccountsAssumption
<1>8. \A x \in exchanges : x.token \in Tokens /\ x.tab \in Tabs \cup {NoTab}
  BY <1>7 DEF Exchanges, Clients
<1>9. TypeOK'
  <2>1. exchanges' \subseteq Exchanges
    BY <1>2, <1>7
  <2>2. usedBy' \in [Tokens -> SUBSET Clients]
    BY <1>1, Types DEF LeavePage, Clients
  <2>3. \A u \in Tabs : calls'[u] \in [Slots[u] -> Call]
    BY <1>1, <1>6, Types, CallForms
  <2>4. auth' \in [Tabs -> {"loading", "in", "out"}]
    BY <1>1, Types DEF LeavePage
  <2>5. storage' \in AnyToken
    BY <1>1, Types DEF AnyToken
  <2> QED
    BY <1>1, <1>6, <2>1, <2>2, <2>3, <2>4, <2>5, Types, TypesNext
<1>10. \A y \in exchanges' : \E x \in exchanges : y.token = x.token /\ y.gives = x.gives
  BY <1>2
<1>11. ExchangeInv'
  <2>1. \A x, y \in exchanges' : x.tab = y.tab /\ x.tab # NoTab => x = y
    BY <1>1, <1>2 DEF ExchangeInv
  <2>2. ASSUME NEW y \in exchanges'
        PROVE  y.token # NoToken /\ y.tab \in usedBy'[y.token]
    <3>1. PICK x \in exchanges \ heard :
            /\ y.token = x.token
            /\ (x.tab # t /\ y = x) \/ (x.tab = t /\ y.tab = NoTab)
      BY <1>2
    <3>2. x.tab \in usedBy[x.token] /\ x.token # NoToken /\ x.token \in Tokens
      BY <1>1, <1>8 DEF ExchangeInv
    <3> QED
      BY <3>1, <3>2, <1>4, <1>5
  <2>3. \A y \in exchanges' : y.gives # NoToken => y.step = "answered"
    BY <1>1, <1>2 DEF ExchangeInv
  <2> QED
    BY <2>1, <2>2, <2>3 DEF ExchangeInv
<1>12. PromiseInv'
  <2>1. ASSUME NEW n, n # NoToken, IsFresh(n)
        PROVE  IsFresh(n)'
    BY <1>10, <2>1 DEF IsFresh
  <2>2. \A u \in Tabs : \A r \in Slots[u] : Promise(u, r)' \in {Promise(u, r), NoToken}
    BY <1>6, CallForms DEF Promise
  <2>3. \A x \in exchanges' : x.gives # NoToken => IsFresh(x.gives)'
    BY <1>1, <1>10, <2>1 DEF PromiseInv
  <2>4. \A u \in Tabs : \A r \in Slots[u] : Promise(u, r)' # NoToken => IsFresh(Promise(u, r))'
    BY <1>1, <2>1, <2>2 DEF PromiseInv
  <2>5. \A x, y \in exchanges' : x.gives = y.gives /\ x.gives # NoToken => x = y
    BY <1>1, <1>2 DEF PromiseInv, ExchangeInv
  <2>6. \A x \in exchanges', u \in Tabs : \A r \in Slots[u] :
          x.gives = Promise(u, r)' => x.gives = NoToken
    BY <1>1, <1>10, <2>2 DEF PromiseInv
  <2>7. \A v, u \in Tabs : \A s \in Slots[v], r \in Slots[u] :
          Promise(v, s)' = Promise(u, r)' /\ Promise(v, s)' # NoToken => v = u /\ s = r
    BY <1>1, <2>2 DEF PromiseInv
  <2> QED
    BY <2>3, <2>4, <2>5, <2>6, <2>7 DEF PromiseInv
<1>13. StrangerInv'
  BY <1>6, <1>10, CallForms DEF WebInv, StrangerInv, Promise
<1>14. OvertakenInv' /\ RefusedForCause'
  <2>1. ASSUME NEW y \in exchanges', y.tab # NoTab, usedBy[y.token] # {y.tab}
        PROVE  y \in exchanges /\ usedBy'[y.token] # {y.tab}
    <3>1. y \in exchanges /\ y.tab # t
      BY <1>2, <2>1
    <3> QED
      BY <2>1, <3>1, <1>5, <1>8
  <2>2. \A y \in exchanges' : y.tab # NoTab => y \in exchanges
    BY <1>2
  <2> QED
    BY <2>1, <2>2 DEF WebInv, OvertakenInv, RefusedForCause
<1>15. StoredTokenIsGood'
  <2>1. CASE storage' = NoToken
    BY <2>1, <1>1, Types, AccountsAssumption DEF StoredTokenIsGood
  <2>2. CASE storage' = storage /\ heard = {} /\ storage \in revoked
    <3>1. storage \in Tokens
      BY <1>1, <2>2, Types
    <3>2. CASE NoTab \in usedBy[storage]
      BY <3>1, <3>2, <2>2, <1>5, <1>7 DEF StoredTokenIsGood
    <3>3. CASE \E x \in exchanges : x.token = storage
      BY <3>3, <2>2, <1>3, <1>4 DEF StoredTokenIsGood
    <3> QED
      BY <3>2, <3>3, <2>2 DEF WebInv, StoredTokenIsGood
  <2> QED
    BY <2>1, <2>2 DEF StoredTokenIsGood
<1>16. WaitersAreWoken'
  <2>1. ASSUME NEW u \in Tabs, NEW s \in Slots[u], calls'[u][s].step = "waiting"
        PROVE  Exchanging(u)'
    <3>1. u # t /\ calls[u][s].step = "waiting"
      BY <2>1, <1>6, CallForms
    <3>2. PICK x \in exchanges : x.tab = u
      BY <3>1 DEF WebInv, WaitersAreWoken, Exchanging
    <3> QED
      BY <3>1, <3>2, <1>3 DEF Exchanging
  <2> QED
    BY <2>1 DEF WaitersAreWoken
<1> QED
  BY <1>9, <1>11, <1>12, <1>13, <1>14, <1>15, <1>16 DEF WebInv

LEMMA StepReload ==
  ASSUME WebInv, NEW t \in Tabs, Reload(t)
  PROVE  WebInv'
<1>1. disruptions' \in [Disruptions -> 0..MaxDisruptions]
  BY Types, DisruptTypes DEF Reload, WebInv, Disruptions
<1> QED
  BY <1>1, LeaveStep DEF Reload

LEMMA StepNothingToExchange ==
  ASSUME WebInv, NEW t \in Tabs, NEW s \in Slots[t], NothingToExchange(t, s)
  PROVE  WebInv'
<1>1. disruptions' \in [Disruptions -> 0..MaxDisruptions]
  BY Types DEF NothingToExchange, WebInv
<1> QED
  BY <1>1, LeaveStep DEF NothingToExchange, EndSession

LEMMA StepNotRefreshed ==
  ASSUME WebInv, NEW t \in Tabs, NEW x, NotRefreshed(t, x)
  PROVE  WebInv'
<1>1. disruptions' \in [Disruptions -> 0..MaxDisruptions]
  BY Types DEF NotRefreshed, WebInv
<1>2. \A y \in {x} : y.tab = t
  BY DEF NotRefreshed
<1> QED
  BY <1>1, <1>2, LeaveStep DEF NotRefreshed, EndSession

LEMMA StepLoseExchange ==
  ASSUME WebInv, NEW x, LoseExchange(x)
  PROVE  WebInv'
<1>1. disruptions' \in [Disruptions -> 0..MaxDisruptions]
  BY Types, DisruptTypes DEF LoseExchange, WebInv, Disruptions
<1>2. x.tab \in Tabs
  BY Types DEF LoseExchange, WebInv, Exchanges, Clients
<1> QED
  BY <1>1, <1>2, LeaveStep DEF LoseExchange, EndSession

-----------------------------------------------------------------------------
(***************************************************************************)
(* A page takes a promised pair: it becomes the stored one.                *)
(***************************************************************************)
\* login and register.
LEMMA StepSucceed ==
  ASSUME WebInv, NEW t \in Tabs, NEW s \in Slots[t], Succeed(t, s)
  PROVE  WebInv'
<1> DEFINE call == calls[t][s]
<1>1. TypeOK /\ call.kind \in Kinds /\ call.answer.token \in AnyToken
  BY KindOfCall DEF WebInv
<1>2. UNCHANGED <<account, tokenVars, usedBy, disruptions>> /\ Answered(t, s, "ok")
  BY DEF Succeed
<1>3. /\ disruptions' \in [Disruptions -> 0..MaxDisruptions]
      /\ auth \in [Tabs -> {"loading", "in", "out"}]
  BY <1>1, <1>2, Types
<1>4. CASE /\ call.kind \in {"load", "profile"}
           /\ auth' = [auth EXCEPT ![t] = "in"]
           /\ SetCall(t, s, NoCall) /\ UNCHANGED storage
  <2>1. auth' \in [Tabs -> {"loading", "in", "out"}]
    BY <1>3, <1>4
  <2> QED
    BY <1>2, <1>3, <1>4, <2>1, CallForms, QuietCall
<1>5. CASE SetCall(t, s, NoCall) /\ UNCHANGED <<storage, auth>>
  BY <1>2, <1>3, <1>5, CallForms, QuietCall
<1>6. CASE /\ storage' = call.answer.token
           /\ SetCall(t, s, Sent("profile")) /\ UNCHANGED auth
  <2> DEFINE n == call.answer.token
  <2>1. Promise(t, s) = n /\ (n # NoToken => IsFresh(n))
    BY DEF Promise, WebInv, PromiseInv
  <2>2. "profile" \in Kinds
    BY DEF Kinds
  <2>3. /\ DOMAIN calls' = Tabs
        /\ \A u \in Tabs : calls'[u] \in [Slots[u] -> Call]
        /\ \A u \in Tabs : \A r \in Slots[u] :
              calls'[u][r] = IF u = t /\ r = s THEN Sent("profile") ELSE calls[u][r]
    BY <1>1, <1>6, <2>2, CallForms, OneCall
  <2>4. \A u \in Tabs : \A r \in Slots[u] :
          Promise(u, r)' = IF u = t /\ r = s THEN NoToken ELSE Promise(u, r)
    BY <2>2, <2>3, CallForms DEF Promise
  <2> HIDE DEF call
  <2>5. storage' = n
    BY <1>6
  <2> HIDE DEF n
  <2>6. TypeOK'
    BY <1>1, <1>2, <1>3, <1>6, <2>3, Types, TypesNext DEF tokenVars, n
  <2>7. ExchangeInv' /\ OvertakenInv' /\ RefusedForCause'
    BY <1>2 DEF WebInv, ExchangeInv, OvertakenInv, RefusedForCause, tokenVars
  <2>8. StrangerInv'
    BY <1>2, <2>1, <2>4, <2>5 DEF WebInv, StrangerInv, tokenVars
  <2>9. StoredTokenIsGood'
    BY <1>1, <1>2, <2>1, <2>5, Types, AccountsAssumption DEF StoredTokenIsGood, IsFresh, tokenVars
  <2>10. WaitersAreWoken'
    BY <1>2, <2>2, <2>3, CallForms DEF WebInv, WaitersAreWoken, Exchanging, tokenVars
  <2>11. PromiseInv'
    <3>1. ASSUME NEW m, m # NoToken, m # n, IsFresh(m)
          PROVE  IsFresh(m)'
      BY <1>2, <2>5, <3>1 DEF IsFresh, tokenVars
    <3>2. \A x \in exchanges : x.gives # NoToken => x.gives # n
      BY <2>1 DEF WebInv, PromiseInv
    <3>3. \A u \in Tabs : \A r \in Slots[u] :
            Promise(u, r)' # NoToken => Promise(u, r)' = Promise(u, r) /\ Promise(u, r) # n
      BY <2>1, <2>4 DEF WebInv, PromiseInv
    <3> QED
      BY <1>2, <3>1, <3>2, <3>3 DEF WebInv, PromiseInv, tokenVars
  <2> QED
    BY <2>6, <2>7, <2>8, <2>9, <2>10, <2>11 DEF WebInv
<1> QED
  BY <1>4, <1>5, <1>6 DEF Succeed

\* The answer of an exchange reaches its tab.
LEMMA StepRefreshed ==
  ASSUME WebInv, NEW t \in Tabs, NEW x, Refreshed(t, x)
  PROVE  WebInv'
<1> DEFINE n == x.gives
<1>1. TypeOK /\ ExchangeInv /\ PromiseInv
  BY DEF WebInv
<1>2. /\ x \in exchanges /\ x.tab = t /\ n # NoToken /\ storage' = n
      /\ exchanges' = exchanges \ {x}
      /\ UNCHANGED <<account, age, revoked, auth, usedBy, disruptions>>
  BY DEF Refreshed
<1>3. n \in AnyToken /\ IsFresh(n) /\ t # NoTab
  BY <1>1, <1>2, Types, AccountsAssumption DEF Exchanges, PromiseInv
<1>4. /\ DOMAIN calls' = Tabs
      /\ \A u \in Tabs : calls'[u] =
            IF u = t THEN [s \in Slots[t] |-> IF calls[t][s].step = "waiting"
                                               THEN Sent(calls[t][s].kind) ELSE calls[t][s]]
                     ELSE calls[u]
  BY <1>1, Types DEF Refreshed
<1> HIDE DEF n
<1>5. \A u \in Tabs : \A s \in Slots[u] :
        /\ calls'[u][s] \in Call
        /\ Promise(u, s)' \in {Promise(u, s), NoToken}
        /\ calls'[u][s].step = "waiting" => u # t /\ calls[u][s].step = "waiting"
  <2> SUFFICES ASSUME NEW u \in Tabs, NEW s \in Slots[u]
               PROVE  /\ calls'[u][s] \in Call
                      /\ Promise(u, s)' \in {Promise(u, s), NoToken}
                      /\ calls'[u][s].step = "waiting" =>
                            u # t /\ calls[u][s].step = "waiting"
    OBVIOUS
  <2>1. calls[u][s] \in Call /\ calls[u][s].kind \in Kinds
    BY <1>1, Types, KindOfCall
  <2>2. CASE u = t /\ calls[u][s].step = "waiting"
    <3>1. calls'[u][s] = Sent(calls[u][s].kind)
      BY <1>4, <2>2
    <3> QED
      BY <2>1, <3>1, CallForms DEF Promise
  <2>3. CASE u # t \/ calls[u][s].step # "waiting"
    <3>1. calls'[u][s] = calls[u][s]
      BY <1>4, <2>3
    <3> QED
      BY <2>1, <2>3, <3>1 DEF Promise
  <2> QED
    BY <2>2, <2>3
<1>6. TypeOK'
  <2>1. \A u \in Tabs : calls'[u] \in [Slots[u] -> Call]
    BY <1>1, <1>4, <1>5, Types
  <2> QED
    BY <1>1, <1>2, <1>3, <1>4, <2>1, Types, TypesNext
<1>7. ExchangeInv' /\ OvertakenInv' /\ RefusedForCause'
  BY <1>2 DEF WebInv, ExchangeInv, OvertakenInv, RefusedForCause
<1>8. StrangerInv'
  BY <1>2 DEF WebInv, StrangerInv
<1>9. StoredTokenIsGood'
  BY <1>2, <1>3 DEF StoredTokenIsGood, IsFresh
<1>10. PromiseInv'
  <2>1. ASSUME NEW m, m # NoToken, m # n, IsFresh(m)
        PROVE  IsFresh(m)'
    BY <1>2, <2>1 DEF IsFresh
  <2>2. \A y \in exchanges' : y \in exchanges /\ (y.gives # NoToken => y.gives # n)
    BY <1>1, <1>2 DEF PromiseInv, n
  <2>3. \A u \in Tabs : \A r \in Slots[u] :
          Promise(u, r)' # NoToken => Promise(u, r)' = Promise(u, r) /\ Promise(u, r) # n
    BY <1>1, <1>2, <1>5 DEF PromiseInv, n
  <2> QED
    BY <1>1, <2>1, <2>2, <2>3 DEF PromiseInv
<1>11. WaitersAreWoken'
  BY <1>2, <1>5 DEF WebInv, WaitersAreWoken, Exchanging
<1> QED
  BY <1>6, <1>7, <1>8, <1>9, <1>10, <1>11 DEF WebInv

-----------------------------------------------------------------------------
(***************************************************************************)
(* Exchanges: begun by a tab, carried out by the API.                      *)
(***************************************************************************)
LEMMA StepStartExchange ==
  ASSUME WebInv, NEW t \in Tabs, NEW s \in Slots[t], StartExchange(t, s)
  PROVE  WebInv'
<1> DEFINE x == NewExchange(t, storage)
<1>1. TypeOK /\ ExchangeInv /\ PromiseInv
  BY DEF WebInv
<1>2. /\ storage # NoToken /\ ~Exchanging(t)
      /\ exchanges' = exchanges \cup {x}
      /\ usedBy' = [usedBy EXCEPT ![storage] = @ \cup {t}]
      /\ SetCall(t, s, Waiting(calls[t][s].kind))
      /\ UNCHANGED <<account, age, revoked, storage, auth, disruptions>>
  BY DEF StartExchange
<1>3. storage \in Tokens /\ t # NoTab
  BY <1>1, <1>2, Types, AccountsAssumption DEF AnyToken
<1>4. x \in Exchanges /\ x.tab = t /\ x.token = storage /\ x.step = "sent" /\ x.gives = NoToken
  BY <1>3 DEF NewExchange, Exchanges, Clients, AnyToken
<1> HIDE DEF x
<1>5. calls[t][s].kind \in Kinds
  BY <1>1, KindOfCall
<1>6. /\ DOMAIN calls' = Tabs
      /\ \A u \in Tabs : calls'[u] \in [Slots[u] -> Call]
      /\ \A u \in Tabs : \A r \in Slots[u] :
            calls'[u][r] = IF u = t /\ r = s THEN Waiting(calls[t][s].kind) ELSE calls[u][r]
  BY <1>1, <1>2, <1>5, CallForms, OneCall
<1>7. \A u \in Tabs : \A r \in Slots[u] : Promise(u, r)' \in {Promise(u, r), NoToken}
  BY <1>5, <1>6, CallForms DEF Promise
<1>8. usedBy \in [Tokens -> SUBSET Clients]
  BY <1>1, Types
<1>9. /\ usedBy'[storage] = usedBy[storage] \cup {t}
      /\ \A n \in Tokens : n # storage => usedBy'[n] = usedBy[n]
  BY <1>2, <1>3, <1>8
<1>10. \A y \in exchanges : y.tab # t /\ y.token \in Tokens /\ y.tab \in usedBy[y.token]
  BY <1>1, <1>2, Types DEF Exchanging, ExchangeInv, Exchanges
<1>11. TypeOK'
  <2>1. usedBy' \in [Tokens -> SUBSET Clients]
    BY <1>2, <1>8 DEF Clients
  <2>2. exchanges' \subseteq Exchanges
    BY <1>1, <1>2, <1>4, Types
  <2> QED
    BY <1>1, <1>2, <1>6, <2>1, <2>2, Types, TypesNext
<1>12. ExchangeInv'
  BY <1>1, <1>2, <1>3, <1>4, <1>9, <1>10 DEF ExchangeInv
<1>13. PromiseInv'
  <2>1. ASSUME NEW n, n # NoToken, IsFresh(n)
        PROVE  IsFresh(n)'
    BY <1>2, <1>4, <2>1 DEF IsFresh
  <2>2. \A y \in exchanges' : y \in exchanges \/ y.gives = NoToken
    BY <1>2, <1>4
  <2>3. \A y \in exchanges' : y.gives # NoToken => IsFresh(y.gives)'
    BY <1>1, <2>1, <2>2 DEF PromiseInv
  <2>4. \A u \in Tabs : \A r \in Slots[u] :
          Promise(u, r)' # NoToken => IsFresh(Promise(u, r))'
    BY <1>1, <1>7, <2>1 DEF PromiseInv
  <2>5. \A y, z \in exchanges' : y.gives = z.gives /\ y.gives # NoToken => y = z
    BY <1>1, <2>2 DEF PromiseInv
  <2>6. \A v, u \in Tabs : \A q \in Slots[v], r \in Slots[u] :
          Promise(v, q)' = Promise(u, r)' /\ Promise(v, q)' # NoToken => v = u /\ q = r
    BY <1>1, <1>7 DEF PromiseInv
  <2>7. \A y \in exchanges', u \in Tabs : \A r \in Slots[u] :
          y.gives = Promise(u, r)' => y.gives = NoToken
    BY <1>1, <1>7, <2>2 DEF PromiseInv
  <2> QED
    BY <2>3, <2>4, <2>5, <2>6, <2>7 DEF PromiseInv
<1>14. StrangerInv'
  BY <1>2 DEF WebInv, StrangerInv
<1>15. OvertakenInv'
  <2>1. ASSUME storage \in revoked
        PROVE  usedBy'[storage] # {t}
    BY <1>3, <1>9, <1>10, <2>1 DEF WebInv, StoredTokenIsGood
  <2>2. ASSUME NEW y \in exchanges, usedBy[y.token] # {y.tab}
        PROVE  usedBy'[y.token] # {y.tab}
    BY <1>9, <1>10, <2>2
  <2> QED
    BY <1>2, <1>4, <2>1, <2>2 DEF WebInv, OvertakenInv
<1>16. StoredTokenIsGood'
  BY <1>2, <1>9 DEF WebInv, StoredTokenIsGood
<1>17. RefusedForCause'
  BY <1>2, <1>4, <1>9, <1>10 DEF WebInv, RefusedForCause
<1>18. WaitersAreWoken'
  <2>1. Exchanging(t)'
    BY <1>2, <1>4 DEF Exchanging
  <2>2. \A u \in Tabs : Exchanging(u) => Exchanging(u)'
    BY <1>2 DEF Exchanging
  <2> QED
    BY <1>6, <2>1, <2>2 DEF WebInv, WaitersAreWoken
<1> QED
  BY <1>11, <1>12, <1>13, <1>14, <1>15, <1>16, <1>17, <1>18 DEF WebInv

\* What Advance makes of an exchange.
Advanced(x, step, n) ==
    /\ exchanges' \subseteq Exchanges
    /\ \A y \in exchanges' :
          \/ y \in exchanges /\ y # x
          \/ /\ y.tab = x.tab /\ y.token = x.token /\ y.step = step /\ y.gives = n
             /\ y = [x EXCEPT !.step = step, !.gives = n]
             /\ step = "answered" => x.tab # NoTab
    /\ \A y \in exchanges : y # x => y \in exchanges'
    /\ step # "answered" \/ x.tab # NoTab =>
          \E y \in exchanges' : y.tab = x.tab /\ y.token = x.token

LEMMA WhatAdvances ==
  ASSUME TypeOK, NEW x \in exchanges, NEW n \in AnyToken,
         NEW step \in {"checked", "revoked", "answered"}, Advance(x, step, n)
  PROVE  Advanced(x, step, n)
<1> DEFINE after == [x EXCEPT !.step = step, !.gives = n]
<1>1. x \in Exchanges /\ exchanges \subseteq Exchanges
  BY Types
<1>2. /\ after \in Exchanges /\ after.tab = x.tab /\ after.token = x.token
      /\ after.step = step /\ after.gives = n
  BY <1>1 DEF Exchanges
<1>3. exchanges' = (exchanges \ {x}) \cup
            (IF step = "answered" /\ x.tab = NoTab THEN {} ELSE {after})
  BY DEF Advance
<1> HIDE DEF after
<1>4. \A y \in exchanges' :
        \/ y \in exchanges /\ y # x
        \/ y = after /\ (step = "answered" => x.tab # NoTab)
  BY <1>3
<1>5. \A y \in exchanges : y # x => y \in exchanges'
  BY <1>3
<1>6. step # "answered" \/ x.tab # NoTab => after \in exchanges'
  BY <1>3
<1> QED
  BY <1>1, <1>2, <1>4, <1>5, <1>6 DEF after, Advanced

\* Whatever an exchange advances to, all is kept but what is said of revoked
\* and refused tokens.
LEMMA AdvanceStep ==
  ASSUME WebInv, NEW x \in exchanges, NEW n \in {NoToken} \cup NewPairs,
         NEW step \in {"checked", "revoked", "answered"}, Advance(x, step, n),
         n # NoToken => step = "answered",
         UNCHANGED <<account, storage, auth, calls, disruptions>>,
         age' \in [Tokens -> {"new", "worn", "lapsed"}],
         usedBy' \in [Tokens -> SUBSET Clients],
         revoked' \subseteq revoked \cup {x.token}, n \notin revoked',
         step = "answered" => revoked' \subseteq revoked,
         \A m \in Tokens : m \notin NewPairs => usedBy'[m] = usedBy[m]
  PROVE  /\ TypeOK' /\ ExchangeInv' /\ PromiseInv' /\ StrangerInv'
         /\ StoredTokenIsGood' /\ WaitersAreWoken'
<1>1. TypeOK /\ ExchangeInv /\ PromiseInv
  BY DEF WebInv
<1>2. /\ n \in AnyToken
      /\ n # NoToken => /\ n # storage
                        /\ \A y \in exchanges : y.token # n /\ y.gives # n
                        /\ \A u \in Tabs : \A r \in Slots[u] : Promise(u, r) # n
  BY <1>1, NewPairIsUnheld DEF AnyToken
<1>3. Advanced(x, step, n)
  BY <1>1, <1>2, WhatAdvances
<1>4. /\ exchanges \subseteq Exchanges /\ revoked \subseteq Tokens
      /\ storage \in AnyToken /\ NoToken \notin Tokens
  BY <1>1, Types, AccountsAssumption
<1>5. \A y \in exchanges : y.token \in Tokens /\ y.token \notin NewPairs
  BY <1>1, <1>4, NewPairIsUnheld DEF Exchanges
<1>6. storage \notin NewPairs
  BY <1>1, NewPairIsUnheld
<1>7. \A y \in exchanges' : \E z \in exchanges : y.token = z.token /\ y.tab = z.tab
  BY <1>3 DEF Advanced
<1>8. TypeOK'
  <2>1. revoked' \subseteq Tokens
    BY <1>4, <1>5
  <2> QED
    BY <1>1, <1>3, <2>1, Types, TypesNext DEF Advanced
<1>9. ExchangeInv'
  <2>1. \A y, z \in exchanges' : y.tab = z.tab /\ y.tab # NoTab => y = z
    BY <1>1, <1>3 DEF ExchangeInv, Advanced
  <2>2. \A y \in exchanges' : y.token # NoToken /\ y.tab \in usedBy'[y.token]
    BY <1>1, <1>5, <1>7 DEF ExchangeInv
  <2>3. \A y \in exchanges' : y.gives # NoToken => y.step = "answered"
    BY <1>1, <1>3 DEF ExchangeInv, Advanced
  <2> QED
    BY <2>1, <2>2, <2>3 DEF ExchangeInv
<1>10. PromiseInv'
  <2>1. ASSUME NEW m, m # NoToken, IsFresh(m)
        PROVE  IsFresh(m)'
    BY <1>7, <2>1 DEF IsFresh
  <2>2. n # NoToken => IsFresh(n)'
    BY <1>2, <1>7 DEF IsFresh
  <2>3. \A u \in Tabs : \A r \in Slots[u] : Promise(u, r)' = Promise(u, r)
    BY DEF Promise
  <2>4. \A y \in exchanges' : y.gives # NoToken => IsFresh(y.gives)'
    BY <1>1, <1>3, <2>1, <2>2 DEF PromiseInv, Advanced
  <2>5. \A u \in Tabs : \A r \in Slots[u] :
          Promise(u, r)' # NoToken => IsFresh(Promise(u, r))'
    BY <1>1, <2>1, <2>3 DEF PromiseInv
  <2>6. \A y, z \in exchanges' : y.gives = z.gives /\ y.gives # NoToken => y = z
    BY <1>1, <1>2, <1>3 DEF PromiseInv, Advanced
  <2>7. \A v, u \in Tabs : \A q \in Slots[v], r \in Slots[u] :
          Promise(v, q)' = Promise(u, r)' /\ Promise(v, q)' # NoToken => v = u /\ q = r
    BY <1>1, <2>3 DEF PromiseInv
  <2>8. \A y \in exchanges', u \in Tabs : \A r \in Slots[u] :
          y.gives = Promise(u, r)' => y.gives = NoToken
    BY <1>1, <1>2, <1>3, <2>3 DEF PromiseInv, Advanced
  <2> QED
    BY <2>4, <2>5, <2>6, <2>7, <2>8 DEF PromiseInv
<1>11. StrangerInv'
  BY <1>3 DEF WebInv, StrangerInv, Promise, Advanced
<1>12. StoredTokenIsGood'
  <2>1. SUFFICES ASSUME storage \in revoked'
                 PROVE  (\E y \in exchanges' : y.token = storage) \/ NoTab \in usedBy'[storage]
    BY DEF StoredTokenIsGood
  <2>2. storage \in Tokens /\ usedBy'[storage] = usedBy[storage]
    BY <1>4, <1>5, <1>6, <2>1
  <2>3. CASE x.token = storage
    BY <1>1, <1>3, <2>2, <2>3 DEF ExchangeInv, Advanced
  <2>4. CASE x.token # storage
    BY <1>3, <2>1, <2>2, <2>4 DEF WebInv, StoredTokenIsGood, Advanced
  <2> QED
    BY <2>3, <2>4
<1>13. WaitersAreWoken'
  <2>1. \A u \in Tabs : Exchanging(u) => Exchanging(u)'
    BY <1>3, AccountsAssumption DEF Exchanging, Advanced
  <2> QED
    BY <2>1 DEF WebInv, WaitersAreWoken
<1> QED
  BY <1>8, <1>9, <1>10, <1>11, <1>12, <1>13

\* A refusal that has its cause keeps it, as long as the account stays as it
\* is, no pair in use is renewed, and usedBy goes on knowing of its users.
LEMMA CausesStay ==
  ASSUME WebInv, NEW x \in exchanges, NEW n, NEW step \in {"checked", "revoked", "answered"},
         Advanced(x, step, n), UNCHANGED account,
         \A y \in exchanges : usedBy'[y.token] = usedBy[y.token],
         \A y \in exchanges : age[y.token] = "lapsed" => age'[y.token] = "lapsed",
         /\ step = "answered" /\ n = NoToken /\ x.tab # NoTab =>
              \/ age'[x.token] = "lapsed"
              \/ account.state # "active"
              \/ usedBy[x.token] # {x.tab}
  PROVE  RefusedForCause'
<1> SUFFICES ASSUME NEW y \in exchanges',
                    y.tab # NoTab, y.step = "answered", y.gives = NoToken
             PROVE  \/ age'[y.token] = "lapsed"
                    \/ account'.state # "active"
                    \/ usedBy'[y.token] # {y.tab}
  BY DEF RefusedForCause
<1>1. CASE y \in exchanges
  BY <1>1 DEF WebInv, RefusedForCause
<1>2. CASE /\ y.tab = x.tab /\ y.token = x.token /\ y.step = step /\ y.gives = n
  BY <1>2
<1> QED
  BY <1>1, <1>2 DEF Advanced

LEMMA StepCheckToken ==
  ASSUME WebInv, NEW x, CheckToken(x), UNCHANGED <<webVars, disruptions>>
  PROVE  WebInv'
<1> DEFINE step == IF age[x.token] = "lapsed" \/ x.token \in revoked
                     THEN "answered" ELSE "checked"
<1>1. /\ x \in exchanges /\ x.step = "sent" /\ Advance(x, step, NoToken)
      /\ UNCHANGED <<account, age, revoked, storage, auth, calls, usedBy, disruptions>>
  BY DEF CheckToken, webVars
<1>2. TypeOK
  BY DEF WebInv
<1>3. step \in {"checked", "revoked", "answered"}
  OBVIOUS
<1>4. step = "answered" => age[x.token] = "lapsed" \/ x.token \in revoked
  OBVIOUS
<1>5. step = "checked" => x.token \notin revoked
  OBVIOUS
<1> HIDE DEF step
<1>6. NoToken \in AnyToken /\ NoToken \notin revoked
  BY <1>2, Types, AccountsAssumption DEF AnyToken
<1>7. Advanced(x, step, NoToken)
  BY <1>1, <1>2, <1>3, <1>6, WhatAdvances
<1>8. /\ TypeOK' /\ ExchangeInv' /\ PromiseInv' /\ StrangerInv'
      /\ StoredTokenIsGood' /\ WaitersAreWoken'
  BY <1>1, <1>2, <1>3, <1>6, AdvanceStep, Types
<1>9. OvertakenInv'
  BY <1>1, <1>5, <1>7 DEF WebInv, OvertakenInv, Advanced
<1>10. x.tab # NoTab /\ x.token \in revoked => usedBy[x.token] # {x.tab}
  BY <1>1 DEF WebInv, OvertakenInv
<1>11. RefusedForCause'
  BY <1>1, <1>3, <1>4, <1>7, <1>10, CausesStay
<1> QED
  BY <1>8, <1>9, <1>11 DEF WebInv

LEMMA StepRevokeToken ==
  ASSUME WebInv, NEW x, RevokeToken(x), UNCHANGED <<webVars, disruptions>>
  PROVE  WebInv'
<1>1. /\ x \in exchanges /\ x.step = "checked" /\ Advance(x, "revoked", NoToken)
      /\ revoked' = revoked \cup {x.token}
      /\ UNCHANGED <<account, age, storage, auth, calls, usedBy, disruptions>>
  BY DEF RevokeToken, webVars
<1>2. TypeOK
  BY DEF WebInv
<1>3. /\ NoToken \in AnyToken /\ NoToken \notin revoked'
  BY <1>1, <1>2, Types, AccountsAssumption DEF AnyToken, Exchanges
<1>4. Advanced(x, "revoked", NoToken)
  BY <1>1, <1>2, <1>3, WhatAdvances
<1>5. /\ TypeOK' /\ ExchangeInv' /\ PromiseInv' /\ StrangerInv'
      /\ StoredTokenIsGood' /\ WaitersAreWoken'
  BY <1>1, <1>2, <1>3, AdvanceStep, Types
<1>6. OvertakenInv'
  <2> SUFFICES ASSUME NEW y \in exchanges', y.tab # NoTab,
                      y.step \in {"sent", "checked"}, y.token \in revoked'
               PROVE  usedBy[y.token] # {y.tab}
    BY <1>1 DEF OvertakenInv
  <2>1. y \in exchanges /\ y # x
    BY <1>4 DEF Advanced
  <2>2. y.tab # x.tab /\ x.tab \in usedBy[x.token]
    BY <1>1, <2>1 DEF WebInv, ExchangeInv
  <2> QED
    BY <1>1, <2>1, <2>2 DEF WebInv, OvertakenInv
<1>7. RefusedForCause'
  BY <1>1, <1>4, CausesStay
<1> QED
  BY <1>5, <1>6, <1>7 DEF WebInv

LEMMA StepIssueTokens ==
  ASSUME WebInv, NEW x, NEW n \in NewPairs, IssueTokens(x, n),
         usedBy' = [usedBy EXCEPT ![n] = {}],
         UNCHANGED <<storage, auth, calls, disruptions>>
  PROVE  WebInv'
<1>1. x \in exchanges /\ x.step = "revoked" /\ UNCHANGED account
  BY DEF IssueTokens
<1>2. TypeOK
  BY DEF WebInv
<1>3. /\ n \in Tokens /\ n # NoToken /\ \A y \in exchanges : y.token # n
  BY <1>2, NewPairIsUnheld
<1>4. \A m \in NewPairs : m = n
  BY DEF NewPairs
<1>5. PICK gives \in {n, NoToken} :
        /\ Advance(x, "answered", gives)
        /\ revoked' \subseteq revoked /\ gives \notin revoked'
        /\ age' \in [Tokens -> {"new", "worn", "lapsed"}]
        /\ \A m \in Tokens : m # n => age'[m] = age[m]
        /\ gives = NoToken => account.state # "active"
  <2>1. CASE account.state = "active" /\ Grant(n) /\ Advance(x, "answered", n)
    BY <1>2, <1>3, <2>1, Types DEF Grant
  <2>2. CASE account.state # "active" /\ GrantNothing /\ Advance(x, "answered", NoToken)
    BY <1>2, <2>2, Types, AccountsAssumption DEF GrantNothing
  <2> QED
    BY <2>1, <2>2 DEF IssueTokens
<1>6. /\ usedBy' \in [Tokens -> SUBSET Clients]
      /\ \A m \in Tokens : m # n => usedBy'[m] = usedBy[m]
  BY <1>2, <1>3, Types
<1>7. \A m \in Tokens : m \notin NewPairs => usedBy'[m] = usedBy[m]
  BY <1>6
<1>8. gives \in {NoToken} \cup NewPairs /\ gives \in AnyToken
  BY <1>3 DEF AnyToken
<1>9. Advanced(x, "answered", gives)
  BY <1>1, <1>2, <1>5, <1>8, WhatAdvances
<1>10. /\ TypeOK' /\ ExchangeInv' /\ PromiseInv' /\ StrangerInv'
       /\ StoredTokenIsGood' /\ WaitersAreWoken'
  <2>1. /\ gives # NoToken => "answered" = "answered"
        /\ revoked' \subseteq revoked \cup {x.token}
        /\ "answered" = "answered" => revoked' \subseteq revoked
    BY <1>5
  <2>2. UNCHANGED <<account, storage, auth, calls, disruptions>>
    BY <1>1
  <2> QED
    BY <1>1, <1>5, <1>6, <1>7, <1>8, <2>1, <2>2, AdvanceStep
<1>11. \A y \in exchanges : y.token \in Tokens /\ usedBy'[y.token] = usedBy[y.token]
  BY <1>2, <1>3, <1>6, Types DEF Exchanges
<1>12. OvertakenInv'
  BY <1>5, <1>9, <1>11 DEF WebInv, OvertakenInv, Advanced
<1>13. RefusedForCause'
  BY <1>1, <1>3, <1>5, <1>9, <1>11, CausesStay
<1> QED
  BY <1>10, <1>12, <1>13 DEF WebInv

LEMMA StepExchange ==
  ASSUME WebInv, NEW x, Exchange(x)
  PROVE  WebInv'
<1>1. CASE CheckToken(x) /\ UNCHANGED <<webVars, disruptions>>
  BY <1>1, StepCheckToken
<1>2. CASE RevokeToken(x) /\ UNCHANGED <<webVars, disruptions>>
  BY <1>2, StepRevokeToken
<1>3. CASE /\ \E n \in NewPairs : IssueTokens(x, n) /\ usedBy' = [usedBy EXCEPT ![n] = {}]
           /\ UNCHANGED <<storage, auth, calls, disruptions>>
  BY <1>3, StepIssueTokens
<1> QED
  BY <1>1, <1>2, <1>3 DEF Exchange

-----------------------------------------------------------------------------
(***************************************************************************)
(* The other answers of the API.                                           *)
(***************************************************************************)
Handled(kind, n, answer) ==
    \/ kind = "register" /\ Register(n, answer)
    \/ kind = "login" /\ LoginRefused(answer)
    \/ kind = "login" /\ WrongPassword(answer)
    \/ kind = "login" /\ LoginGranted(n, answer)
    \/ kind \notin Forms /\ Authenticated(storage, answer)

\* A handler may open or unlock the account, or leave it, and it grants the pair
\* of its answer, if there is one, or nothing.
LEMMA WhatHandlersDo ==
  ASSUME TypeOK, NEW kind, NEW status, NEW n \in AnyToken,
         Handled(kind, n, Answer(status, n))
  PROVE  /\ account' \in [state: {"none", "active", "inactive"},
                          failed: 0..MaxFailed, locked: BOOLEAN]
         /\ account.state # "none" => account'.state = account.state
         /\ account'.state = "none" => n = NoToken
         /\ revoked' = revoked \ {n}
         /\ age' \in [Tokens -> {"new", "worn", "lapsed"}]
         /\ \A m \in Tokens : m # n => age'[m] = age[m]
<1>1. /\ account \in [state: {"none", "active", "inactive"},
                       failed: 0..MaxFailed, locked: BOOLEAN]
      /\ age \in [Tokens -> {"new", "worn", "lapsed"}] /\ revoked \subseteq Tokens
      /\ MaxFailed \in Nat \ {0}
  BY Types, AccountsAssumption
<1>2. \A st, m : Answer(status, n) = Answer(st, m) => n = m
  BY DEF Answer
<1>3. CASE n = NoToken /\ GrantNothing /\ UNCHANGED account
  BY <1>1, <1>3, AccountsAssumption DEF GrantNothing
<1>4. CASE n # NoToken /\ Grant(n)
  <2>1. /\ revoked' = revoked \ {n} /\ age' = [age EXCEPT ![n] = "new"]
    BY <1>4 DEF Grant
  <2>2. CASE account.state = "none" /\ account' = [account EXCEPT !.state = "active"]
    BY <1>1, <1>4, <2>1, <2>2
  <2>3. CASE account.state = "active" /\ account' = [account EXCEPT !.failed = 0, !.locked = FALSE]
    <3>1. account'.state = account.state
      BY <1>1, <2>3
    <3>2. account' \in [state: {"none", "active", "inactive"},
                        failed: 0..MaxFailed, locked: BOOLEAN]
      <4>1. 0 \in 0..MaxFailed
        BY <1>1
      <4> QED
        BY <1>1, <2>3, <4>1
    <3> QED
      BY <1>1, <1>4, <2>1, <2>3, <3>1, <3>2
  <2>4. ~WrongPassword(Answer(status, n))
    BY <1>2, <1>4 DEF WrongPassword
  <2>5. ~LoginRefused(Answer(status, n)) /\ ~Authenticated(storage, Answer(status, n))
    BY <1>2, <1>4 DEF LoginRefused, Authenticated
  <2>6. Register(n, Answer(status, n)) \/ LoginGranted(n, Answer(status, n))
    BY <2>4, <2>5 DEF Handled
  <2> QED
    BY <1>2, <1>4, <2>2, <2>3, <2>6 DEF Register, LoginGranted, EndTransaction
<1>5. CASE Register(n, Answer(status, n))
  BY <1>2, <1>3, <1>4, <1>5 DEF Register
<1>6. CASE LoginGranted(n, Answer(status, n))
  BY <1>4, <1>6 DEF LoginGranted
<1>7. CASE LoginRefused(Answer(status, n))
  BY <1>2, <1>3, <1>7 DEF LoginRefused
<1>8. CASE WrongPassword(Answer(status, n))
  BY <1>2, <1>3, <1>8 DEF WrongPassword, EndTransaction
<1>9. CASE Authenticated(storage, Answer(status, n))
  BY <1>2, <1>3, <1>9 DEF Authenticated
<1> QED
  BY <1>5, <1>6, <1>7, <1>8, <1>9 DEF Handled

LEMMA StepServe ==
  ASSUME WebInv, NEW t \in Tabs, NEW s \in Slots[t], Serve(t, s)
  PROVE  WebInv'
<1>1. TypeOK /\ ExchangeInv /\ PromiseInv
  BY DEF WebInv
<1> DEFINE kind == calls[t][s].kind
<1>2. PICK status \in {"ok", "401", "error"}, n \in {NoToken} \cup NewPairs :
        /\ Handled(kind, n, Answer(status, n))
        /\ usedBy' = IF n = NoToken THEN usedBy ELSE [usedBy EXCEPT ![n] = {}]
        /\ SetCall(t, s, Got(kind, Answer(status, n)))
        /\ UNCHANGED <<exchanges, storage, auth, disruptions>>
  BY DEF Serve, Handled
<1>3. /\ n \in AnyToken
      /\ n # NoToken => /\ n \in Tokens /\ n # storage
                        /\ \A x \in exchanges : x.token # n /\ x.gives # n
                        /\ \A u \in Tabs : \A r \in Slots[u] : Promise(u, r) # n
  BY <1>1, NewPairIsUnheld DEF AnyToken
<1>4. /\ account' \in [state: {"none", "active", "inactive"},
                        failed: 0..MaxFailed, locked: BOOLEAN]
      /\ account.state # "none" => account'.state = account.state
      /\ account'.state = "none" => n = NoToken
      /\ revoked' = revoked \ {n}
      /\ age' \in [Tokens -> {"new", "worn", "lapsed"}]
      /\ \A m \in Tokens : m # n => age'[m] = age[m]
  <2>1. n \in AnyToken
    BY <1>3
  <2> QED
    BY <1>1, <1>2, <2>1, WhatHandlersDo
<1> DEFINE call == Got(kind, Answer(status, n))
<1>5. call \in Call /\ call.step = "answered" /\ call.answer.token = n
  <2>1. /\ Answer(status, n) \in [status: {"ok", "401", "error"}, token: AnyToken]
        /\ Answer(status, n).token = n
    BY <1>2, <1>3 DEF Answer
  <2>2. kind \in Kinds
    BY <1>1, KindOfCall
  <2> QED
    BY <2>1, <2>2, CallForms
<1> HIDE DEF call, kind
<1>6. /\ DOMAIN calls' = Tabs
      /\ \A u \in Tabs : calls'[u] \in [Slots[u] -> Call]
      /\ \A u \in Tabs : \A r \in Slots[u] :
            calls'[u][r] = IF u = t /\ r = s THEN call ELSE calls[u][r]
  BY <1>1, <1>2, <1>5, OneCall DEF call
<1>7. \A u \in Tabs : \A r \in Slots[u] :
        Promise(u, r)' = IF u = t /\ r = s THEN n ELSE Promise(u, r)
  BY <1>5, <1>6 DEF Promise
<1>8. /\ exchanges \subseteq Exchanges /\ storage \in AnyToken /\ NoToken \notin Tokens
      /\ usedBy \in [Tokens -> SUBSET Clients] /\ revoked \subseteq Tokens
  BY <1>1, Types, AccountsAssumption
<1>9. \A m \in Tokens : m # n => usedBy'[m] = usedBy[m]
  BY <1>2, <1>8
<1>10. \A x \in exchanges :
         x.token \in Tokens /\ x.token # n /\ usedBy'[x.token] = usedBy[x.token]
  BY <1>3, <1>8, <1>9 DEF Exchanges
<1>11. TypeOK'
  <2>1. usedBy' \in [Tokens -> SUBSET Clients] /\ revoked' \subseteq Tokens
    BY <1>2, <1>4, <1>8
  <2> QED
    BY <1>1, <1>2, <1>4, <1>6, <2>1, Types, TypesNext
<1>12. ExchangeInv' /\ OvertakenInv'
  BY <1>2, <1>4, <1>10 DEF WebInv, ExchangeInv, OvertakenInv
<1>13. PromiseInv'
  <2>1. ASSUME NEW m, IsFresh(m)
        PROVE  IsFresh(m)'
    BY <1>2, <1>4, <2>1 DEF IsFresh
  <2>2. n # NoToken => IsFresh(n)'
    BY <1>2, <1>3, <1>4 DEF IsFresh
  <2>3. \A x \in exchanges' : x.gives # NoToken => IsFresh(x.gives)'
    BY <1>1, <1>2, <2>1 DEF PromiseInv
  <2>4. \A u \in Tabs : \A r \in Slots[u] :
          Promise(u, r)' # NoToken => IsFresh(Promise(u, r))'
    BY <1>1, <1>7, <2>1, <2>2 DEF PromiseInv
  <2>5. \A x, y \in exchanges' : x.gives = y.gives /\ x.gives # NoToken => x = y
    BY <1>1, <1>2 DEF PromiseInv
  <2>6. \A v, u \in Tabs : \A q \in Slots[v], r \in Slots[u] :
          Promise(v, q)' = Promise(u, r)' /\ Promise(v, q)' # NoToken => v = u /\ q = r
    BY <1>1, <1>3, <1>7 DEF PromiseInv
  <2>7. \A x \in exchanges', u \in Tabs : \A r \in Slots[u] :
          x.gives = Promise(u, r)' => x.gives = NoToken
    BY <1>1, <1>2, <1>3, <1>7 DEF PromiseInv
  <2> QED
    BY <2>3, <2>4, <2>5, <2>6, <2>7 DEF PromiseInv
<1>14. StrangerInv'
  BY <1>2, <1>4, <1>7 DEF WebInv, StrangerInv
<1>15. StoredTokenIsGood'
  <2>1. storage \in Tokens => usedBy'[storage] = usedBy[storage]
    BY <1>3, <1>8, <1>9
  <2> QED
    BY <1>2, <1>4, <1>8, <2>1 DEF WebInv, StoredTokenIsGood
<1>16. RefusedForCause'
  <2>1. exchanges # {} => account'.state = account.state
    BY <1>4 DEF WebInv, StrangerInv
  <2> QED
    BY <1>2, <1>4, <1>10, <2>1 DEF WebInv, RefusedForCause
<1>17. WaitersAreWoken'
  BY <1>2, <1>5, <1>6 DEF WebInv, WaitersAreWoken, Exchanging
<1> QED
  BY <1>11, <1>12, <1>13, <1>14, <1>15, <1>16, <1>17 DEF WebInv

-----------------------------------------------------------------------------
(***************************************************************************)
(* Time, and pairs that nobody holds.                                      *)
(***************************************************************************)
LEMMA StepElapse ==
  ASSUME WebInv, Elapse
  PROVE  WebInv'
<1>1. TypeOK
  BY DEF WebInv
<1>2. /\ UNCHANGED <<revoked, exchanges, storage, auth, calls, usedBy>>
      /\ disruptions' \in [Disruptions -> 0..MaxDisruptions]
  <2>1. UNCHANGED <<revoked, exchanges>>
    BY DEF Elapse, Age, Deactivate, tokenVars
  <2> QED
    BY <1>1, <2>1, Types, DisruptTypes DEF Elapse, webVars, Disruptions
<1>3. /\ account' \in [state: {"none", "active", "inactive"},
                        failed: 0..MaxFailed, locked: BOOLEAN]
      /\ account'.state \in {account.state, "inactive"}
      /\ account'.state = "none" => account.state = "none"
      /\ age' \in [Tokens -> {"new", "worn", "lapsed"}]
      /\ \A n \in Tokens : age[n] = "lapsed" => age'[n] = "lapsed"
  <2>1. CASE Deactivate
    BY <1>1, <2>1, Types DEF Deactivate, tokenVars
  <2>2. CASE \E n \in Held \ {NoToken} : Age(n)
    <3>1. PICK n : Age(n)
      BY <2>2
    <3> QED
      BY <1>1, <3>1, Types DEF Age
  <2> QED
    BY <2>1, <2>2 DEF Elapse
<1>4. exchanges \subseteq Exchanges
  BY <1>1, Types
<1>5. TypeOK'
  BY <1>1, <1>2, <1>3, Types, TypesNext
<1>6. ExchangeInv' /\ OvertakenInv' /\ StoredTokenIsGood' /\ WaitersAreWoken'
  BY <1>2 DEF WebInv, ExchangeInv, OvertakenInv, StoredTokenIsGood, WaitersAreWoken, Exchanging
<1>7. PromiseInv' /\ StrangerInv'
  BY <1>2, <1>3 DEF WebInv, PromiseInv, StrangerInv, IsFresh, Promise
<1>8. RefusedForCause'
  BY <1>2, <1>3, <1>4 DEF WebInv, RefusedForCause, Exchanges
<1> QED
  BY <1>5, <1>6, <1>7, <1>8 DEF WebInv

LEMMA StepForget ==
  ASSUME WebInv, Forget
  PROVE  WebInv'
<1>1. TypeOK
  BY DEF WebInv
<1>2. /\ revoked' = revoked \ Stale
      /\ age' = [n \in Tokens |-> IF n \in Stale THEN "new" ELSE age[n]]
      /\ usedBy' = [n \in Tokens |-> IF n \in Stale THEN {} ELSE usedBy[n]]
      /\ UNCHANGED <<account, exchanges, storage, auth, calls, disruptions>>
  BY DEF Forget
<1>3. storage \notin Stale /\ \A x \in exchanges : x.token \notin Stale
  BY DEF Stale, Unheld, Held
<1> HIDE DEF Stale
<1>4. /\ exchanges \subseteq Exchanges /\ revoked \subseteq Tokens
      /\ age \in [Tokens -> {"new", "worn", "lapsed"}]
      /\ usedBy \in [Tokens -> SUBSET Clients]
  BY <1>1, Types
<1>5. \A x \in exchanges :
        /\ x.token \in Tokens /\ usedBy'[x.token] = usedBy[x.token]
        /\ age'[x.token] = age[x.token]
  BY <1>2, <1>3, <1>4 DEF Exchanges
<1>6. TypeOK'
  <2>1. /\ age' \in [Tokens -> {"new", "worn", "lapsed"}]
        /\ usedBy' \in [Tokens -> SUBSET Clients] /\ revoked' \subseteq Tokens
    BY <1>2, <1>4
  <2> QED
    BY <1>1, <1>2, <2>1, Types, TypesNext
<1>7. ExchangeInv' /\ OvertakenInv' /\ RefusedForCause'
  BY <1>2, <1>5 DEF WebInv, ExchangeInv, OvertakenInv, RefusedForCause
<1>8. PromiseInv' /\ StrangerInv'
  BY <1>2 DEF WebInv, PromiseInv, StrangerInv, IsFresh, Promise
<1>9. StoredTokenIsGood'
  BY <1>2, <1>3, <1>4 DEF WebInv, StoredTokenIsGood
<1>10. WaitersAreWoken'
  BY <1>2 DEF WebInv, WaitersAreWoken, Exchanging
<1> QED
  BY <1>6, <1>7, <1>8, <1>9, <1>10 DEF WebInv

-----------------------------------------------------------------------------
(***************************************************************************)
(* The invariant and what follows from it.                                 *)
(***************************************************************************)
LEMMA InitWebInv == Init => WebInv
<1> SUFFICES ASSUME Init
             PROVE  WebInv
  OBVIOUS
<1>1. TypeOK
  BY AccountsAssumption, WebAssumption, CallForms, Types
     DEF Init, AccountInit, AnyToken
<1>2. \A t \in Tabs : \A s \in Slots[t] : calls[t][s] = NoCall /\ Promise(t, s) = NoToken
  BY CallForms DEF Init, Promise
<1>3. ExchangeInv /\ OvertakenInv /\ RefusedForCause
  BY DEF Init, AccountInit, ExchangeInv, OvertakenInv, RefusedForCause
<1>4. PromiseInv /\ StrangerInv
  BY <1>2 DEF Init, AccountInit, PromiseInv, StrangerInv
<1>5. StoredTokenIsGood
  BY DEF Init, AccountInit, StoredTokenIsGood
<1>6. WaitersAreWoken
  BY <1>2, CallForms DEF WaitersAreWoken
<1> QED
  BY <1>1, <1>3, <1>4, <1>5, <1>6 DEF WebInv

LEMMA NextWebInv == WebInv /\ [Next]_vars => WebInv'
<1> SUFFICES ASSUME WebInv, [Next]_vars
             PROVE  WebInv'
  OBVIOUS
<1>1. ASSUME NEW t \in Tabs, User(t)
      PROVE  WebInv'
  BY <1>1, StepSubmit, StepFetch, StepLogout, StepReload DEF User
<1>2. ASSUME NEW t \in Tabs, LoadUser(t)
      PROVE  WebInv'
  BY <1>2, StepLoadUser
<1>3. ASSUME NEW t \in Tabs, TokenRefresh(t)
      PROVE  WebInv'
  BY <1>3, StepExchange, StepRefreshed, StepNotRefreshed DEF TokenRefresh
<1>4. ASSUME NEW t \in Tabs, NEW s \in Slots[t], Page(t, s)
      PROVE  WebInv'
  BY <1>4, StepServe, StepSucceed, StepFail, StepStartExchange, StepAwaitExchange,
     StepNothingToExchange DEF Page
<1>5. CASE Ghost
  BY <1>5, StepExchange DEF Ghost
<1>6. CASE Trouble
  BY <1>6, StepElapse, StepLoseCall, StepLoseExchange DEF Trouble
<1>7. CASE Forget
  BY <1>7, StepForget
<1>8. CASE UNCHANGED vars
  <2>1. TypeOK'
    BY <1>8, Types, TypesNext DEF WebInv, vars, webVars, tokenVars
  <2>2. UNCHANGED <<account, tokenVars, usedBy, storage, calls>>
    BY <1>8 DEF vars, webVars
  <2> QED
    BY <2>1, <2>2, QuietStep DEF Promise
<1> QED
  BY <1>1, <1>2, <1>3, <1>4, <1>5, <1>6, <1>7, <1>8 DEF Next

LEMMA AlwaysWebInv == Spec => []WebInv
  BY InitWebInv, NextWebInv, PTL DEF Spec

\* Every variable of the browser, of the account and of its tokens keeps its
\* type, for any numbers of tabs, calls and pairs.
THEOREM WebTypeCorrect == Spec => []TypeOK
<1>1. WebInv => TypeOK
  BY DEF WebInv
<1> QED
  BY <1>1, AlwaysWebInv, PTL

\* A call that waits for the refresh of its tab (tryRefreshToken) always has
\* one to wait for.
THEOREM NobodyWaitsInVain == Spec => []WaitersAreWoken
<1>1. WebInv => WaitersAreWoken
  BY DEF WebInv
<1> QED
  BY <1>1, AlwaysWebInv, PTL

\* What localStorage keeps is revoked only while the answer to its exchange is
\* on the way, or when nobody waited for that answer (doRefresh, refresh).
THEOREM StoredTokensAreGood == Spec => []StoredTokenIsGood
<1>1. WebInv => StoredTokenIsGood
  BY DEF WebInv
<1> QED
  BY <1>1, AlwaysWebInv, PTL

\* A refresh is refused only for age, for the account, or because somebody
\* else has used the token: the calls of one tab never get in each other's
\* way (refreshPromise, refresh).
THEOREM RefusalsHaveCauses == Spec => []RefusedForCause
<1>1. WebInv => RefusedForCause
  BY DEF WebInv
<1> QED
  BY <1>1, AlwaysWebInv, PTL

=============================================================================
