------------------------------- MODULE Accounts -------------------------------
(***************************************************************************)
(* The account of a user and the tokens the API hands out for it:          *)
(* routers/auth.py, deps.py, core/security.py and user_repository.py.      *)
(*                                                                         *)
(* A token stands for a pair, an access token and the refresh token issued *)
(* with it. Access tokens are judged by their signature and their age      *)
(* alone; refresh tokens can be revoked in Redis. A request is a           *)
(* transaction, which get_db commits, or rolls back when the handler       *)
(* raised; refresh, which reads and writes Redis on its way, is a request  *)
(* in several steps.                                                       *)
(***************************************************************************)
EXTENDS Integers, FiniteSets

CONSTANTS
    Tabs,       \* clients that exchange refresh tokens
    NoTab,      \* the client that has gone away
    Tokens,     \* the pairs that can be held at a time
    NoToken,
    MaxFailed   \* MAX_FAILED_LOGINS

ASSUME AccountsAssumption ==
    /\ NoTab \notin Tabs
    /\ IsFiniteSet(Tokens) /\ NoToken \notin Tokens
    /\ MaxFailed \in Nat \ {0}

VARIABLES
    account,    \* the row of the user
    age,        \* age[n]: "new", "worn" when the access token of the pair
                \* has expired, "lapsed" when its refresh token has too
    revoked,    \* pairs whose refresh token is marked as revoked
    exchanges   \* the refresh requests under way

tokenVars == <<age, revoked, exchanges>>

Clients == Tabs \cup {NoTab}
AnyToken == Tokens \cup {NoToken}

AccountType ==
    /\ account \in [state: {"none", "active", "inactive"},
                    failed: 0..MaxFailed, locked: BOOLEAN]
    /\ age \in [Tokens -> {"new", "worn", "lapsed"}]
    /\ revoked \subseteq Tokens
    /\ exchanges \subseteq
          [tab: Clients, token: Tokens,
           step: {"sent", "checked", "revoked", "answered"}, gives: AnyToken]

AccountInit ==
    /\ account = [state |-> "none", failed |-> 0, locked |-> FALSE]
    /\ age = [n \in Tokens |-> "new"]
    /\ revoked = {}
    /\ exchanges = {}

-----------------------------------------------------------------------------
(***************************************************************************)
(* Answers to a request. A pair n that is granted is a new one.            *)
(***************************************************************************)
Answer(status, n) == [status |-> status, token |-> n]

\* The end of the transaction of a request: raised, if an exception left it.
EndTransaction(row, raised) == account' = IF raised THEN account ELSE row

Grant(n) ==
    /\ age' = [age EXCEPT ![n] = "new"]
    /\ revoked' = revoked \ {n}

GrantNothing == UNCHANGED <<age, revoked>>

Register(n, answer) ==
    \/ /\ account.state = "none" /\ n # NoToken
       /\ EndTransaction([account EXCEPT !.state = "active"], FALSE)
       /\ answer = Answer("ok", n) /\ Grant(n)
    \/ /\ account.state # "none"
       /\ answer = Answer("error", NoToken) /\ GrantNothing
       /\ UNCHANGED account

\* login with a password that is wrong. The failure is counted and the account
\* may be locked in the transaction that the 401 itself rolls back.
WrongPassword(answer) ==
    LET counted == account.failed + 1
        row == [account EXCEPT !.failed = counted,
                               !.locked = @ \/ counted >= MaxFailed]
    IN  /\ account.state # "none" /\ ~account.locked
        /\ EndTransaction(row, TRUE)
        /\ answer = Answer("401", NoToken) /\ GrantNothing

\* login with either password, while the row does not allow it.
LoginRefused(answer) ==
    /\ account.state # "active" \/ account.locked
    /\ answer = Answer(IF account.state = "inactive" /\ ~account.locked
                         THEN "error" ELSE "401", NoToken)
    /\ GrantNothing
    /\ UNCHANGED account

LoginGranted(n, answer) ==
    /\ account.state = "active" /\ ~account.locked /\ n # NoToken
    /\ EndTransaction([account EXCEPT !.failed = 0, !.locked = FALSE], FALSE)
    /\ answer = Answer("ok", n) /\ Grant(n)

\* get_current_user and the handler after it. A request without a token is
\* turned away by HTTPBearer: with a 401, as the tests have it, or a 403.
Authenticated(n, answer) ==
    /\ answer \in
         IF n = NoToken THEN {Answer("401", NoToken), Answer("error", NoToken)}
         ELSE IF age[n] # "new" THEN {Answer("401", NoToken)}
         ELSE {Answer("ok", NoToken)}
    /\ GrantNothing
    /\ UNCHANGED account

-----------------------------------------------------------------------------
(***************************************************************************)
(* refresh, one action for every stretch between two awaits that matter.   *)
(***************************************************************************)
NewExchange(tab, n) ==
    [tab |-> tab, token |-> n, step |-> "sent", gives |-> NoToken]

Advance(x, step, n) ==
    LET after == [x EXCEPT !.step = step, !.gives = n]
    IN  exchanges' = (exchanges \ {x}) \cup
            (IF step = "answered" /\ x.tab = NoTab THEN {} ELSE {after})

CheckToken(x) ==
    /\ x \in exchanges /\ x.step = "sent"
    /\ Advance(x, IF age[x.token] = "lapsed" \/ x.token \in revoked
                    THEN "answered" ELSE "checked", NoToken)
    /\ UNCHANGED <<account, age, revoked>>

RevokeToken(x) ==
    /\ x \in exchanges /\ x.step = "checked"
    /\ revoked' = revoked \cup {x.token}
    /\ Advance(x, "revoked", NoToken)
    /\ UNCHANGED <<account, age>>

IssueTokens(x, n) ==
    /\ x \in exchanges /\ x.step = "revoked"
    /\ \/ /\ account.state = "active"
          /\ Grant(n) /\ Advance(x, "answered", n)
       \/ /\ account.state # "active"
          /\ GrantNothing /\ Advance(x, "answered", NoToken)
    /\ UNCHANGED account

-----------------------------------------------------------------------------
\* Time passes for a pair: 15 minutes, then 7 days.
Age(n) ==
    /\ age[n] # "lapsed"
    /\ age' = [age EXCEPT ![n] = IF @ = "new" THEN "worn" ELSE "lapsed"]
    /\ UNCHANGED <<account, revoked, exchanges>>

\* is_active is cleared in the database; no endpoint does it.
Deactivate ==
    /\ account.state = "active"
    /\ account' = [account EXCEPT !.state = "inactive"]
    /\ UNCHANGED tokenVars

=============================================================================
