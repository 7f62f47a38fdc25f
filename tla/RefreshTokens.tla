--------------------------- MODULE RefreshTokens ---------------------------
(***************************************************************************)
(* The sessions of one user (internal/application/identity): each sign-in  *)
(* starts a family of refresh tokens, each refresh replaces a token of the *)
(* family by the next one, and a token that was replaced already ends its  *)
(* family.  Passwords are checked in LoginLock; a token is its row's id.   *)
(*                                                                         *)
(* Two calls change nothing and are left out: UpdateLastActive is given a  *)
(* token's id for a session's, and Logout a whole cookie for a token's id. *)
(* No token gets older than its thirty days.                               *)
(***************************************************************************)
EXTENDS Requests

CONSTANTS
    Token,         \* refresh token ids, of which each is given out once
    Chain          \* family ids, of which each is given out once

VARIABLES
    token,         \* token[t], the refresh_tokens row
    sessions,      \* tokens that have a user_sessions row
    account,       \* account_status of the user
    forks,         \* forks[f], refreshes of the family with a token that was
                   \* revoked by the time they came to revoke it
    ended,         \* families that were revoked, or a session of which was
    swept          \* tokens issued while a sign-out of all devices or a
                   \* deletion of the account was under way, or since it

tokenTables == <<token, sessions, account>>
tokenGhosts == <<forks, ended, swept>>
tokenVars   == <<tokenTables, tokenGhosts>>

NoId     == "none"
NoChain  == "nochain"

ASSUME TokensAssumption == IsFiniteSet(Token) /\ NoId \notin Token /\ NoChain \notin Chain

TokenRow == [status : {"live", "revoked"}, family : Chain]
NoToken  == [status |-> "absent", family |-> NoChain]

TokenMethod == {"login", "refresh", "reuse", "revokeSession",
                "logoutAll", "changePassword", "deleteAccount"}
TokenCall   == {"revoke", "findUser", "createToken", "createSession", "revokeFamily",
                "deleteSession", "revokeAll", "deleteAll", "softDelete"}

TokensInit ==
    /\ token = [t \in Token |-> NoToken]
    /\ sessions = {} /\ account = "active"
    /\ forks = [f \in Chain |-> 0] /\ ended = {} /\ swept = {}

Using(t)   == \E q \in Doing(TokenMethod) : req[q].own.new = t
Started(f) == \/ \E t \in Token : token[t].family = f
              \/ \E q \in Doing(TokenMethod) : req[q].own.family = f
NewTokens  == {t \in Token : token[t] = NoToken /\ ~Using(t)}

\* old: the token that was found, found: its row; new: the token to be issued.
BeginOnToken(q, method, calls, old, new, family) ==
    /\ Begin(q, method, calls,
             [old |-> old, found |-> IF old = NoId THEN "absent" ELSE token[old].status,
              new |-> new, family |-> family])
    /\ UNCHANGED tokenVars
BeginForUser(q, method, calls) == BeginOnToken(q, method, calls, NoId, NoId, NoChain)

-----------------------------------------------------------------------------
(* Methods                                                                 *)

IssueCalls == <<"createToken", "createSession">>

\* The end of LoginWithEmail, and of VerifyOTP.
Login(q) ==
    /\ account = "active"
    /\ \E t \in NewTokens, f \in Chain :
        ~Started(f) /\ BeginOnToken(q, "login", IssueCalls, NoId, t, f)

\* The old token is revoked when the new one is there.
WrongRefreshCalls == <<"findUser">> \o IssueCalls \o <<"revoke">>

RefreshCalls == <<"revoke", "findUser", "createToken", "createSession">>

\* No check for tokens that are revoked.
WrongReusable(t) == token[t].status \in {"live", "revoked"}

Reusable(t) == token[t].status = "live"

RefreshToken(q) ==
    \E t \in Token, new \in NewTokens :
        Reusable(t) /\ BeginOnToken(q, "refresh", RefreshCalls, t, new, token[t].family)

ReuseToken(q) ==
    \E t \in Token :
        /\ token[t].status = "revoked"
        /\ BeginOnToken(q, "reuse", <<"revokeFamily">>, t, NoId, token[t].family)

RevokeSession(q) ==
    \E t \in sessions :
        BeginOnToken(q, "revokeSession", <<"revoke", "deleteSession">>, t, NoId, token[t].family)

\* What is listed goes first.
WrongLogoutAllCalls == <<"deleteAll", "revokeAll">>

LogoutAllCalls == <<"revokeAll", "deleteAll">>

\* An access token is good for these until it expires.
LogoutAllSessions(q) == BeginForUser(q, "logoutAll", LogoutAllCalls)
ChangePassword(q)    == account = "active" /\ BeginForUser(q, "changePassword", <<"revokeAll">>)

\* The tokens are left to expire.
WrongDeleteCalls == <<"softDelete", "deleteAll">>

DeleteCalls == <<"softDelete", "revokeAll", "deleteAll">>

SoftDeleteUser(q) == BeginForUser(q, "deleteAccount", DeleteCalls)

Ignored(q) ==
    {"createSession", "revokeFamily"}
    \union (IF req[q].method = "deleteAccount" THEN {"revokeAll", "deleteAll"} ELSE {})

-----------------------------------------------------------------------------
(* Calls                                                                   *)

\* An insert where there is no row to update.
WrongRevoked(T) ==
    [t \in Token |-> IF t \in T THEN [token[t] EXCEPT !.status = "revoked"] ELSE token[t]]

Revoked(T) ==
    [t \in Token |-> IF t \in T /\ token[t] # NoToken THEN [token[t] EXCEPT !.status = "revoked"]
                     ELSE token[t]]
InFamily(f) == {t \in Token : token[t].family = f}
Families(T) == {token[t].family : t \in T} \ {NoChain}

\* The row is not looked at again.
Revoke(q) ==
    LET own == req[q].own IN
    /\ Makes(q, "revoke")
    /\ token' = Revoked({own.old})
    /\ forks' = IF req[q].method = "refresh" /\ token[own.old].status = "revoked"
                THEN [forks EXCEPT ![own.family] = @ + 1] ELSE forks
    /\ ended' = IF req[q].method = "refresh" THEN ended ELSE ended \union {own.family}
    /\ Continue(q)
    /\ UNCHANGED <<sessions, account, swept>>

\* users.FindByID finds no deleted account, and the refresh ends.
FindUser(q) ==
    /\ Makes(q, "findUser")
    /\ IF account = "active" THEN Continue(q)
       ELSE req' = [req EXCEPT ![q] = NoRequest] /\ UNCHANGED <<cut, failures>>
    /\ UNCHANGED tokenVars

SigningOut == \E q \in Doing({"logoutAll", "deleteAccount"}) : req[q].wrote

CreateToken(q) ==
    LET own == req[q].own IN
    /\ Makes(q, "createToken")
    /\ token' = [token EXCEPT ![own.new] = [status |-> "live", family |-> own.family]]
    /\ swept' = IF SigningOut \/ account = "deleted" THEN swept \union {own.new} ELSE swept
    /\ Continue(q)
    /\ UNCHANGED <<sessions, account, forks, ended>>

CreateSession(q) ==
    /\ Makes(q, "createSession")
    /\ sessions' = sessions \union {req[q].own.new}
    /\ Continue(q)
    /\ UNCHANGED <<token, account, tokenGhosts>>

\* A token of the family that is not there yet is not revoked.
RevokeFamily(q) ==
    /\ Makes(q, "revokeFamily")
    /\ token' = Revoked(InFamily(req[q].own.family))
    /\ ended' = ended \union {req[q].own.family}
    /\ Continue(q)
    /\ UNCHANGED <<sessions, account, forks, swept>>

RevokeAllForUser(q) ==
    /\ Makes(q, "revokeAll")
    /\ token' = Revoked(Token)
    /\ ended' = ended \union Families(Token)
    /\ Continue(q)
    /\ UNCHANGED <<sessions, account, forks, swept>>

DeleteSession(q) ==
    /\ Makes(q, "deleteSession")
    /\ sessions' = sessions \ {req[q].own.old}
    /\ Continue(q)
    /\ UNCHANGED <<token, account, tokenGhosts>>

DeleteAllForUser(q) ==
    /\ Makes(q, "deleteAll")
    /\ sessions' = {}
    /\ Continue(q)
    /\ UNCHANGED <<token, account, tokenGhosts>>

SoftDelete(q) ==
    /\ Makes(q, "softDelete")
    /\ account' = "deleted"
    /\ Continue(q)
    /\ UNCHANGED <<token, sessions, tokenGhosts>>

TokensNext ==
    \/ \E q \in Request :
        \/ Login(q) \/ RefreshToken(q) \/ ReuseToken(q) \/ RevokeSession(q)
        \/ LogoutAllSessions(q) \/ ChangePassword(q) \/ SoftDeleteUser(q)
        \/ Revoke(q) \/ FindUser(q) \/ CreateToken(q) \/ CreateSession(q) \/ RevokeFamily(q)
        \/ RevokeAllForUser(q) \/ DeleteSession(q) \/ DeleteAllForUser(q) \/ SoftDelete(q)
        \/ CallFails(q, Ignored(q)) /\ UNCHANGED tokenVars
    \/ Crash /\ UNCHANGED tokenVars

TokensSpec == RequestsInit /\ TokensInit /\ [][TokensNext]_<<requestVars, tokenVars>>

-----------------------------------------------------------------------------
(* Properties                                                              *)

TokensTypeOK ==
    /\ req \in [Request -> RequestOf(TokenMethod, TokenCall,
                 [old : Token \union {NoId}, found : {"absent", "live", "revoked"},
                  new : Token \union {NoId}, family : Chain \union {NoChain}])]
    /\ token \in [Token -> TokenRow \union {NoToken}]
    /\ sessions \subseteq Token /\ account \in {"active", "deleted"}
    /\ forks \in [Chain -> Nat] /\ ended \subseteq Chain \union {NoChain} /\ swept \subseteq Token

\* The tokens of family f a client can go on with, and those on their way.
Heads(f) == {t \in InFamily(f) : token[t].status = "live"}
OnTheWay(f) == {q \in Doing({"login", "refresh"}) :
                  /\ req[q].own.family = f /\ token[req[q].own.new] = NoToken
                  /\ req[q].wrote \/ req[q].method = "login"}

\* A family has one token to go on with, and not two, whatever requests overlap:
\* none is lost while the family is not ended and no call has failed, and
\* each refresh beyond the first with the same token makes at most one more.
OneHeadPerFamily ==
    \A f \in Chain : Started(f) =>
        LET heads == Cardinality(Heads(f)) + Cardinality(OnTheWay(f)) IN
        /\ heads <= 1 + forks[f]
        /\ f \notin ended /\ account = "active" /\ failures = 0 => heads >= 1

\* A family without a token to go on with gets none, but from a refresh that
\* found its token while it was not revoked yet.
EndedFamilyStays ==
    [][\A f \in Chain :
        /\ InFamily(f) # {} /\ Heads(f) = {}
        /\ \A q \in Doing({"refresh"}) : req[q].own.family = f => req[q].own.found # "live"
        => {t \in Token : token'[t].family = f /\ token'[t].status = "live"} = {}]_<<requestVars, tokenVars>>

\* A user sees, and can end, every session there is a live token for, once the
\* request that made it is over, unless all sessions were being deleted then.
LiveTokenListed ==
    {"createSession", "revokeAll"} \intersect cut = {} =>
        \A t \in Token : token[t].status = "live" /\ ~Using(t) /\ t \notin swept => t \in sessions

\* Deleting the account ends all its sessions, but for those that were started
\* by requests that had found it active.
DeletedSignsOut ==
    account = "deleted" /\ "revokeAll" \notin cut /\ Doing({"deleteAccount"}) = {}
    => \A t \in Token : token[t].status = "live" => t \in swept
=============================================================================
