---------------------------- MODULE AuthSessions ----------------------------
(***************************************************************************)
(* AuthService, its endpoints, AuthMiddleware and the WebSocket's check of *)
(* credentials, for the one account of the product: what makes a token     *)
(* acceptable, and how fast a live connection follows.                     *)
(*                                                                         *)
(* Login, logout and change of password run in threads and read and write  *)
(* the users row in transactions of their own, with slow hashing between   *)
(* them.  The checks of the middleware and of a socket run in one piece.   *)
(* Nothing ever writes is_active.                                          *)
(***************************************************************************)
EXTENDS Integers, FiniteSets, Sequences

CONSTANTS
    Requests,       \* login and change-password requests in flight
    Sockets,        \* live connections
    TokenLife,      \* token_ttl_hours
    Interval,       \* _WS_REVALIDATE_INTERVAL
    RecvTimeout,    \* receive_timeout of the receive loop
    MaxRevoked,     \* the 10 000 entries that start a prune
    MaxTokens, MaxChanges, MaxTime, MaxDbErrors, MaxRestarts    \* bounds

ASSUME AuthAssumption ==
    /\ {TokenLife, Interval, RecvTimeout, MaxTokens} \subseteq Nat \ {0}
    /\ {MaxRevoked, MaxChanges, MaxTime, MaxDbErrors, MaxRestarts} \subseteq Nat

VARIABLES
    time,
    user,       \* the row: version of the password, password_changed_at, must_change
    issued,     \* every token signed, in order; its number is its identity
    key,        \* _secret, renewed by a restart unless JWT_SECRET is set
    keyIsSet,   \* JWT_SECRET is set
    revoked,    \* _revoked_tokens
    prune,      \* a running _prune_revoked: the tokens it will keep
    req,        \* requests: where they are and their locals
    sock,       \* connections
    stamps,     \* password_changed_at values handed out so far
    dbErrors, restarts,   \* bounds: failed reads of the users row, restarts
    signedOut   \* history: tokens logged out since the start of the process

account == <<user, stamps>>
keys    == <<key, keyIsSet, restarts>>
outs    == <<revoked, prune, signedOut>>
authVars == <<time, account, issued, keys, outs, req, sock, dbErrors>>

Tokens == 1..Len(issued)
NoPrune == {0}
Free == [pc |-> "idle", pwd |-> 0, stamp |-> 0]
Closed == [pc |-> "closed", token |-> 0, checked |-> 0, since |-> 0]
Stamps == 0..MaxChanges

AuthTypes ==
    /\ time \in 0..MaxTime
    /\ user \in [pwd : Stamps, changed : Stamps, must : BOOLEAN]
    /\ \A t \in Tokens : issued[t] \in
          [pwd : Stamps, stamp : Stamps, exp : 0..(MaxTime + TokenLife),
           key : 0..MaxRestarts, sure : BOOLEAN, dead : -1..MaxTime]
    /\ revoked \subseteq Tokens
    /\ prune = NoPrune \/ prune \subseteq revoked
    /\ req \in [Requests -> [pc : {"idle", "verified", "checked", "stamped", "changed"},
                             pwd : Stamps, stamp : Stamps]]
    /\ sock \in [Sockets -> [pc : {"closed", "top", "recv"}, token : {0} \cup Tokens,
                             checked : 0..MaxTime, since : 0..MaxTime]]

AuthInit ==
    /\ time = 0
    /\ user = [pwd |-> 0, changed |-> 0, must |-> TRUE]
    /\ issued = <<>>
    /\ key = 0
    /\ keyIsSet \in BOOLEAN
    /\ revoked = {} /\ prune = NoPrune /\ signedOut = {}
    /\ req = [r \in Requests |-> Free]
    /\ sock = [s \in Sockets |-> Closed]
    /\ stamps = 0 /\ dbErrors = 0 /\ restarts = 0

-----------------------------------------------------------------------------
(* What a token is worth.                                                  *)

\* decode_token: signature and expiry (the library refuses exp <= now).
Decodes(t) == issued[t].key = key /\ time < issued[t].exp

\* Mutant: only tokens that carry a stamp are compared.
FollowsIfStamped(t) == issued[t].stamp = 0 \/ user.changed <= issued[t].stamp
\* password_changed_at is not newer than the token's pwd_iat.
Follows(t) == user.changed <= issued[t].stamp

\* AuthMiddleware.dispatch.
Accepts(t, ordinary) ==
    /\ Decodes(t) /\ t \notin revoked /\ Follows(t)
    /\ ordinary => ~user.must

\* create_token.  History: `sure` says that the password the token was asked
\* with still was the account's, and no other change was about to be written.
Sign(r, pwd, stamp) ==
    /\ Len(issued) < MaxTokens
    /\ issued' = Append(issued,
          [pwd |-> pwd, stamp |-> stamp, exp |-> time + TokenLife, key |-> key,
           sure |-> pwd = user.pwd /\ \A q \in Requests \ {r} : req[q].pc # "stamped",
           dead |-> -1])

-----------------------------------------------------------------------------
(* POST /v1/auth/login.                                                    *)

\* authenticate: the row is read and the password found right.  (A wrong one
\* changes nothing here; RateLimits counts it.)
LoginVerify(r) ==
    /\ req[r] = Free
    /\ req' = [req EXCEPT ![r] = [Free EXCEPT !.pc = "verified", !.pwd = user.pwd]]
    /\ UNCHANGED <<time, account, issued, keys, outs, sock, dbErrors>>

\* get_user reads the stamp of the token, in a later transaction.
LoginIssue(r) ==
    /\ req[r].pc = "verified"
    /\ Sign(r, req[r].pwd, user.changed)
    /\ req' = [req EXCEPT ![r] = Free]
    /\ UNCHANGED <<time, account, keys, outs, sock, dbErrors>>

-----------------------------------------------------------------------------
(* POST /v1/auth/change-password.                                          *)

\* The middleware lets the request in and authenticate accepts the old password.
ChangeBegin(r, t) ==
    /\ req[r] = Free
    /\ Accepts(t, FALSE)
    /\ req' = [req EXCEPT ![r] = [Free EXCEPT !.pc = "checked"]]
    /\ UNCHANGED <<time, account, issued, keys, outs, sock, dbErrors>>

\* change_password: the time is read, after the hash, before the connection.
ChangeStamp(r) ==
    /\ req[r].pc = "checked"
    /\ stamps < MaxChanges
    /\ stamps' = stamps + 1
    /\ req' = [req EXCEPT ![r].pc = "stamped", ![r].stamp = stamps + 1]
    /\ UNCHANGED <<time, user, issued, keys, outs, sock, dbErrors>>

\* Tokens that lose their worth now, and tokens that have it again, for the
\* history.
Died(S, back) ==
    issued' = [t \in Tokens |->
        IF t \in S /\ issued[t].dead = -1 THEN [issued[t] EXCEPT !.dead = time]
        ELSE IF t \in back THEN [issued[t] EXCEPT !.dead = -1] ELSE issued[t]]

\* The password set is a new one each time; its version is its stamp.  (A
\* change that was overtaken by a later one sets the stamp back, and with it
\* the tokens that the later change had ended.)
ChangeCommit(r) ==
    /\ req[r].pc = "stamped"
    /\ user' = [pwd |-> req[r].stamp, changed |-> req[r].stamp, must |-> FALSE]
    /\ Died({t \in Tokens : issued[t].stamp < req[r].stamp},
            {t \in Tokens \ signedOut : Decodes(t) /\ issued[t].stamp >= req[r].stamp})
    /\ req' = [req EXCEPT ![r].pc = "changed"]
    /\ UNCHANGED <<time, stamps, keys, outs, sock, dbErrors>>

\* get_user once more, and a token with what it says.
ChangeAnswer(r) ==
    /\ req[r].pc = "changed"
    /\ Sign(r, req[r].stamp, user.changed)
    /\ req' = [req EXCEPT ![r] = Free]
    /\ UNCHANGED <<time, account, keys, outs, sock, dbErrors>>

-----------------------------------------------------------------------------
(* POST /v1/auth/logout: revoke_token.                                     *)

\* What _prune_revoked keeps: the tokens that still decode.
Kept(S) == {t \in S : Decodes(t)}

\* A token revoked while a prune is running is in the old set only.  (The
\* history leaves it out: see SignedOutStaysOut.)
Logout(t) ==
    /\ Decodes(t)
    /\ revoked' = revoked \cup {t}
    /\ prune' = IF prune = NoPrune /\ Cardinality(revoked \cup {t}) > MaxRevoked
                THEN Kept(revoked \cup {t}) ELSE prune
    /\ signedOut' = IF prune = NoPrune THEN signedOut \cup {t} ELSE signedOut
    /\ Died(IF prune = NoPrune THEN {t} ELSE {}, {})
    /\ UNCHANGED <<time, account, keys, req, sock, dbErrors>>

\* The set is replaced by the one the loop built.
PruneEnds ==
    /\ prune # NoPrune
    /\ revoked' = prune
    /\ prune' = NoPrune
    /\ UNCHANGED <<time, account, issued, keys, signedOut, req, sock, dbErrors>>

-----------------------------------------------------------------------------
(* A WebSocket: authenticate_websocket, then the receive loop.             *)

SocketOpens(s, t) ==
    /\ sock[s].pc = "closed"
    /\ Accepts(t, TRUE)
    /\ sock' = [sock EXCEPT ![s] = [pc |-> "top", token |-> t, checked |-> time, since |-> time]]
    /\ UNCHANGED <<time, account, issued, keys, outs, req, dbErrors>>

\* ws_revalidate at the top of the loop, at most once per interval.
Due(s) == time - sock[s].checked >= Interval
StillGood(t) == t \notin revoked /\ Decodes(t) /\ Follows(t)

CheckedAt(s) == IF Due(s) THEN time ELSE sock[s].checked

Receives(s) ==
    sock' = [sock EXCEPT ![s] = [@ EXCEPT !.pc = "recv", !.checked = CheckedAt(s), !.since = time]]

SocketChecks(s) ==
    /\ sock[s].pc = "top"
    /\ IF Due(s) /\ ~StillGood(sock[s].token) THEN sock' = [sock EXCEPT ![s] = Closed]
                                              ELSE Receives(s)
    /\ UNCHANGED <<time, account, issued, keys, outs, req, dbErrors>>

\* get_user raises: the connection is kept until the next check.
SocketCheckFails(s) ==
    /\ sock[s].pc = "top" /\ Due(s)
    /\ dbErrors < MaxDbErrors
    /\ dbErrors' = dbErrors + 1
    /\ sock[s].token \notin revoked /\ Decodes(sock[s].token)
    /\ Receives(s)
    /\ UNCHANGED <<time, account, issued, keys, outs, req>>

\* A message is served; or none came for RecvTimeout, or the client left.
SocketMessage(s) ==
    /\ sock[s].pc = "recv"
    /\ sock' = [sock EXCEPT ![s].pc = "top"]
    /\ UNCHANGED <<time, account, issued, keys, outs, req, dbErrors>>

SocketEnds(s) ==
    /\ sock[s].pc = "recv"
    /\ sock' = [sock EXCEPT ![s] = Closed]
    /\ UNCHANGED <<time, account, issued, keys, outs, req, dbErrors>>

-----------------------------------------------------------------------------

\* The process starts again: requests, connections and the set of revoked
\* tokens are gone, and so is the key unless it is configured: then a token
\* that was only logged out is good again.
Restarts ==
    /\ restarts < MaxRestarts /\ restarts' = restarts + 1
    /\ key' = IF keyIsSet THEN key ELSE key + 1
    /\ revoked' = {} /\ prune' = NoPrune /\ signedOut' = {}
    /\ req' = [r \in Requests |-> Free]
    /\ sock' = [s \in Sockets |-> Closed]
    /\ issued' = [t \in Tokens |->
          IF t \in signedOut /\ time < issued[t].exp /\ Follows(t)
          THEN [issued[t] EXCEPT !.dead = -1] ELSE issued[t]]
    /\ UNCHANGED <<time, account, keyIsSet, dbErrors>>

\* The loop of a socket is not kept waiting for a whole tick, and receive()
\* times out.
AuthTick ==
    /\ time < MaxTime
    /\ \A s \in Sockets : /\ sock[s].pc # "top"
                          /\ sock[s].pc = "recv" => time - sock[s].since < RecvTimeout
    /\ time' = time + 1
    /\ issued' = [t \in Tokens |->
          IF issued[t].exp = time + 1 /\ issued[t].dead = -1
          THEN [issued[t] EXCEPT !.dead = time + 1] ELSE issued[t]]
    /\ UNCHANGED <<account, keys, outs, req, sock, dbErrors>>

AuthNext ==
    \/ \E r \in Requests :
         \/ \E t \in Tokens : ChangeBegin(r, t)
         \/ LoginVerify(r) \/ LoginIssue(r) \/ ChangeStamp(r) \/ ChangeCommit(r) \/ ChangeAnswer(r)
    \/ \E t \in Tokens : Logout(t)
    \/ PruneEnds
    \/ \E s \in Sockets :
         \/ \E t \in Tokens : SocketOpens(s, t)
         \/ SocketChecks(s) \/ SocketCheckFails(s) \/ SocketMessage(s) \/ SocketEnds(s)
    \/ Restarts \/ AuthTick

AuthSpec == AuthInit /\ [][AuthNext]_authVars

-----------------------------------------------------------------------------

\* A token is good for the password it was obtained with and no other: after a
\* change only those are accepted that the new password got.  (A login or a
\* change that overlaps another change is not `sure`: the password is checked
\* and the stamp of the token read in two transactions, and a stamp is taken
\* before it is written.)
TokensFollowPassword ==
    \A t \in Tokens : Accepts(t, FALSE) /\ issued[t].sure => issued[t].pwd = user.pwd

\* Until the process restarts, a token that was logged out is not accepted
\* again, whatever the set of revoked tokens had to forget.  (A logout that
\* falls into a running prune is lost with the old set.)
SignedOutStaysOut == \A t \in signedOut : ~Accepts(t, FALSE)

\* A connection outlives its credentials by an interval and a receive at most,
\* and by as much again for each check that could not read the database.
SocketsFollow ==
    \A s \in Sockets : sock[s].pc = "recv" =>
        LET dead == issued[sock[s].token].dead IN
        dead # -1 => time - dead < (1 + dbErrors) * (Interval + RecvTimeout)

\* Access ends with what it rests on: the password, the sign-in, the account.
AccessEnds == TokensFollowPassword /\ SignedOutStaysOut /\ SocketsFollow
=============================================================================
