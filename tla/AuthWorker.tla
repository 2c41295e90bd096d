----------------------------- MODULE AuthWorker -----------------------------
(***************************************************************************)
(* The authentication worker heysalad-sheri-auth (src/index.ts).  Every     *)
(* request runs as its own async handler; each D1 statement is an await,    *)
(* so the statements of concurrent requests interleave.  A request is a     *)
(* record req[c] of client c stepped from one statement to the next; a     *)
(* statement on a table that /migrate has not created yet throws, and the  *)
(* handler's catch answers 500.                                            *)
(*                                                                         *)
(* Data is abstracted: a user is its email (id is a fresh UUID bound to    *)
(* the email row, and no row is ever deleted); a password is the client    *)
(* that chose it, so a login verifies iff users[e] = c; a token is a fresh *)
(* member of Tokens.  Inputs are well formed: the 400 answers for a        *)
(* missing field or a bad email and the 401 for a missing Authorization    *)
(* header change nothing and are left out.  A client presents a token it   *)
(* was given or Forged (a stale or mistyped one); a revoke may name any    *)
(* issued token (ids are listed by /auth/tokens and may leak) or Forged.   *)
(***************************************************************************)
EXTENDS Naturals, FiniteSets, TLC

CONSTANTS
  Clients,      \* the CLIs sending requests
  Emails,       \* the emails they use
  Tokens,       \* the values generateToken may return
  Expiry,       \* TOKEN_EXPIRY_DAYS, in clock ticks
  MaxTime,      \* bound on the clock
  MaxRequests,  \* bound on the number of requests
  InitTables,   \* the tables that exist when the worker starts
  Forged,       \* a bearer string this worker never issued
  NoVal         \* an absent field

ASSUME Expiry \in Nat /\ MaxTime \in Nat /\ MaxRequests \in Nat
\* Each request inserts at most one token, so the pool never runs out.
ASSUME IsFiniteSet(Tokens) /\ Cardinality(Tokens) >= MaxRequests
ASSUME NoVal \notin Clients \cup Emails \cup Tokens \cup {Forged}
ASSUME Forged \notin Tokens

Tables == {"users", "auth_tokens", "usage"}
ASSUME InitTables \subseteq Tables

VARIABLES
  now,         \* Math.floor(Date.now() / 1000), in ticks
  tables,      \* the tables created so far
  users,       \* users: email -> the client whose password it stores
  authTokens,  \* the tokens in auth_tokens
  tokenOwner,  \* token -> user_id, set when the token is inserted
  tokenExp,    \* token -> expires_at
  req,         \* req[c]: the request client c has in flight
  held,        \* held[c]: the tokens the worker has returned to c
  removed,     \* history: [tok, by] for every token a request deleted
  answers,     \* history: [op, code] of every response
  requests     \* requests started so far

vars == <<now, tables, users, authTokens, tokenOwner, tokenExp, req, held,
          removed, answers, requests>>

Idle == [op |-> NoVal, pc |-> "idle", email |-> NoVal, tok |-> NoVal,
         target |-> NoVal, user |-> NoVal]

Init ==
  /\ now = 0
  /\ tables = InitTables
  /\ users = [e \in {} |-> NoVal]
  /\ authTokens = {}
  /\ tokenOwner = [t \in {} |-> NoVal]
  /\ tokenExp = [t \in {} |-> 0]
  /\ req = [c \in Clients |-> Idle]
  /\ held = [c \in Clients |-> {}]
  /\ removed = {}
  /\ answers = {}
  /\ requests = 0

(***************************************************************************)
(* Helpers                                                                 *)
(***************************************************************************)
Issued == DOMAIN tokenOwner

\* tokenData.expires_at < now
Expired(t) == tokenExp[t] < now

\* Move c's request to statement pc.
Goto(c, pc) == req' = [req EXCEPT ![c].pc = pc]

\* The handler returns: the request ends with status code.
Respond(c, code) ==
  /\ req' = [req EXCEPT ![c] = Idle]
  /\ answers' = answers \cup {[op |-> req[c].op, code |-> code]}

\* A statement on a missing table throws; the catch answers 500.
NoTable(c, t) == t \notin tables /\ Respond(c, 500)

\* generateToken() and INSERT INTO auth_tokens, expires_at = now + expiry.
InsertToken(u, tk) ==
  /\ authTokens' = authTokens \cup {tk}
  /\ tokenOwner' = tokenOwner @@ (tk :> u)
  /\ tokenExp' = tokenExp @@ (tk :> now + Expiry)

FreshToken == Tokens \ Issued

(***************************************************************************)
(* fetch: the router starts one handler for the request.                   *)
(***************************************************************************)
Begin(c, op, e, tk, target, pc) ==
  /\ req[c].pc = "idle"
  /\ requests < MaxRequests
  /\ req' = [req EXCEPT ![c] = [op |-> op, pc |-> pc, email |-> e, tok |-> tk,
                                target |-> target, user |-> NoVal]]
  /\ requests' = requests + 1
  /\ UNCHANGED <<now, tables, users, authTokens, tokenOwner, tokenExp, held,
                 removed, answers>>

\* The bearer tokens c may send.
Presentable(c) == held[c] \cup {Forged}

Start(c) ==
  \/ \E e \in Emails : Begin(c, "register", e, NoVal, NoVal, "reg_select")
  \/ \E e \in Emails : Begin(c, "login", e, NoVal, NoVal, "login_select")
  \/ \E tk \in Presentable(c) : Begin(c, "me", NoVal, tk, NoVal, "me_select")
  \/ \E tk \in Presentable(c) :
       Begin(c, "logout", NoVal, tk, NoVal, "logout_delete")
  \/ \E tk \in Presentable(c) :
       Begin(c, "generate", NoVal, tk, NoVal, "gen_select")
  \/ \E tk \in Presentable(c), target \in Issued \cup {Forged} :
       Begin(c, "revoke", NoVal, tk, target, "rev_select_cur")
  \/ \E tk \in Presentable(c) : Begin(c, "list", NoVal, tk, NoVal, "list_select")
  \/ Begin(c, "migrate", NoVal, NoVal, NoVal, "mig_users")

(***************************************************************************)
(* handleRegister                                                          *)
(***************************************************************************)
\* SELECT id FROM users WHERE email = ?; 409 if a row exists.
RegSelect(c) ==
  LET e == req[c].email IN
  /\ req[c].pc = "reg_select"
  /\ \/ NoTable(c, "users")
     \/ /\ "users" \in tables
        /\ IF e \in DOMAIN users THEN Respond(c, 409)
           ELSE Goto(c, "reg_insert_user") /\ UNCHANGED answers
  /\ UNCHANGED <<now, tables, users, authTokens, tokenOwner, tokenExp, held,
                 removed, requests>>

\* INSERT INTO users; the UNIQUE email makes it throw if a row appeared
\* since the SELECT.
RegInsertUser(c) ==
  LET e == req[c].email IN
  /\ req[c].pc = "reg_insert_user"
  /\ \/ /\ "users" \notin tables \/ e \in DOMAIN users
        /\ Respond(c, 500)
        /\ UNCHANGED users
     \/ /\ "users" \in tables /\ e \notin DOMAIN users
        /\ users' = users @@ (e :> c)
        /\ Goto(c, "reg_insert_token")
        /\ UNCHANGED answers
  /\ UNCHANGED <<now, tables, authTokens, tokenOwner, tokenExp, held, removed,
                 requests>>

\* INSERT INTO auth_tokens, then answer 201 with the token.
RegInsertToken(c) ==
  /\ req[c].pc = "reg_insert_token"
  /\ \/ /\ NoTable(c, "auth_tokens")
        /\ UNCHANGED <<authTokens, tokenOwner, tokenExp, held>>
     \/ /\ "auth_tokens" \in tables
        /\ \E tk \in FreshToken :
             /\ InsertToken(req[c].email, tk)
             /\ held' = [held EXCEPT ![c] = @ \cup {tk}]
        /\ Respond(c, 201)
  /\ UNCHANGED <<now, tables, users, removed, requests>>

(***************************************************************************)
(* handleLogin                                                             *)
(***************************************************************************)
\* Mutant: the password is not verified.
LoginSelectNoVerify(c) ==
  LET e == req[c].email IN
  /\ req[c].pc = "login_select"
  /\ \/ NoTable(c, "users")
     \/ /\ "users" \in tables
        /\ IF e \in DOMAIN users
             THEN /\ req' = [req EXCEPT ![c].pc = "login_insert", ![c].user = e]
                  /\ UNCHANGED answers
             ELSE Respond(c, 401)
  /\ UNCHANGED <<now, tables, users, authTokens, tokenOwner, tokenExp, held,
                 removed, requests>>

\* SELECT the user; 401 if there is none or verifyPassword fails.
LoginSelect(c) ==
  LET e == req[c].email IN
  /\ req[c].pc = "login_select"
  /\ \/ NoTable(c, "users")
     \/ /\ "users" \in tables
        /\ IF e \in DOMAIN users /\ users[e] = c
             THEN /\ req' = [req EXCEPT ![c].pc = "login_insert", ![c].user = e]
                  /\ UNCHANGED answers
             ELSE Respond(c, 401)
  /\ UNCHANGED <<now, tables, users, authTokens, tokenOwner, tokenExp, held,
                 removed, requests>>

\* INSERT the new token for user.id and answer it.
LoginInsert(c) ==
  /\ req[c].pc = "login_insert"
  /\ \/ /\ NoTable(c, "auth_tokens")
        /\ UNCHANGED <<authTokens, tokenOwner, tokenExp, held>>
     \/ /\ "auth_tokens" \in tables
        /\ \E tk \in FreshToken :
             /\ InsertToken(req[c].user, tk)
             /\ held' = [held EXCEPT ![c] = @ \cup {tk}]
        /\ Respond(c, 200)
  /\ UNCHANGED <<now, tables, users, removed, requests>>

\* A presented token passes the check: its row exists and is not expired.
TokenValid(tk) == tk \in authTokens /\ ~Expired(tk)

(***************************************************************************)
(* The token check of handleMe, handleGenerateToken and handleListTokens:  *)
(* SELECT user_id, expires_at by token; 401 if there is no row or          *)
(* expires_at < now, else go on to pc with the row's user.                 *)
(***************************************************************************)
CheckToken(c, pc) ==
  LET tk == req[c].tok IN
  \/ NoTable(c, "auth_tokens")
  \/ /\ "auth_tokens" \in tables /\ ~TokenValid(tk)
     /\ Respond(c, 401)
  \/ /\ "auth_tokens" \in tables /\ TokenValid(tk)
     /\ req' = [req EXCEPT ![c].pc = pc, ![c].user = tokenOwner[tk]]
     /\ UNCHANGED answers

\* handleMe: the token check.
MeSelect(c) ==
  /\ req[c].pc = "me_select"
  /\ CheckToken(c, "me_rest")
  /\ UNCHANGED <<now, tables, users, authTokens, tokenOwner, tokenExp, held,
                 removed, requests>>

\* handleMe after the check: UPDATE last_used_at, SELECT the user (its row
\* exists: users are never deleted), SELECT today's usage, answer 200.
MeRest(c) ==
  /\ req[c].pc = "me_rest"
  /\ \/ NoTable(c, "usage")
     \/ "usage" \in tables /\ Respond(c, 200)
  /\ UNCHANGED <<now, tables, users, authTokens, tokenOwner, tokenExp, held,
                 removed, requests>>

\* handleListTokens: the token check, then SELECT the user's tokens.  The
\* second SELECT only builds the answer, so both are one step.
ListSelect(c) ==
  LET tk == req[c].tok IN
  /\ req[c].pc = "list_select"
  /\ \/ NoTable(c, "auth_tokens")
     \/ "auth_tokens" \in tables /\ ~TokenValid(tk) /\ Respond(c, 401)
     \/ "auth_tokens" \in tables /\ TokenValid(tk) /\ Respond(c, 200)
  /\ UNCHANGED <<now, tables, users, authTokens, tokenOwner, tokenExp, held,
                 removed, requests>>

(***************************************************************************)
(* handleGenerateToken                                                     *)
(***************************************************************************)
GenSelect(c) ==
  /\ req[c].pc = "gen_select"
  /\ CheckToken(c, "gen_insert")
  /\ UNCHANGED <<now, tables, users, authTokens, tokenOwner, tokenExp, held,
                 removed, requests>>

\* Mutant: the new token is bound to the request's email field, not to
\* the user read from the current token.
GenInsertWrongUser(c) ==
  /\ req[c].pc = "gen_insert"
  /\ \E tk \in FreshToken :
       /\ InsertToken(req[c].email, tk)
       /\ held' = [held EXCEPT ![c] = @ \cup {tk}]
  /\ Respond(c, 200)
  /\ UNCHANGED <<now, tables, users, removed, requests>>

\* INSERT a new token for tokenData.user_id, read by the check.
GenInsert(c) ==
  /\ req[c].pc = "gen_insert"
  /\ \E tk \in FreshToken :
       /\ InsertToken(req[c].user, tk)
       /\ held' = [held EXCEPT ![c] = @ \cup {tk}]
  /\ Respond(c, 200)
  /\ UNCHANGED <<now, tables, users, removed, requests>>

(***************************************************************************)
(* handleLogout: DELETE the presented token, whatever it is.               *)
(***************************************************************************)
DeleteToken(c, tk) ==
  /\ authTokens' = authTokens \ {tk}
  /\ removed' = IF tk \in authTokens
                  THEN removed \cup {[tok |-> tk, by |-> c]} ELSE removed

LogoutDelete(c) ==
  /\ req[c].pc = "logout_delete"
  /\ \/ NoTable(c, "auth_tokens") /\ UNCHANGED <<authTokens, removed>>
     \/ /\ "auth_tokens" \in tables
        /\ DeleteToken(c, req[c].tok)
        /\ Respond(c, 200)
  /\ UNCHANGED <<now, tables, users, tokenOwner, tokenExp, held, requests>>

(***************************************************************************)
(* handleRevokeToken                                                       *)
(***************************************************************************)
\* SELECT user_id of the current token; 401 if there is no row.  There is
\* no expiry check here.
RevSelectCur(c) ==
  LET tk == req[c].tok IN
  /\ req[c].pc = "rev_select_cur"
  /\ \/ NoTable(c, "auth_tokens")
     \/ "auth_tokens" \in tables /\ tk \notin authTokens /\ Respond(c, 401)
     \/ /\ "auth_tokens" \in tables /\ tk \in authTokens
        /\ req' = [req EXCEPT ![c].pc = "rev_select_target",
                               ![c].user = tokenOwner[tk]]
        /\ UNCHANGED answers
  /\ UNCHANGED <<now, tables, users, authTokens, tokenOwner, tokenExp, held,
                 removed, requests>>

\* Mutant: only the existence of the token to revoke is checked.
RevSelectTargetNoOwnerCheck(c) ==
  LET t == req[c].target IN
  /\ req[c].pc = "rev_select_target"
  /\ IF t \in authTokens
       THEN Goto(c, "rev_delete") /\ UNCHANGED answers
       ELSE Respond(c, 403)
  /\ UNCHANGED <<now, tables, users, authTokens, tokenOwner, tokenExp, held,
                 removed, requests>>

\* SELECT user_id of the token to revoke; 403 unless it is the same user.
RevSelectTarget(c) ==
  LET t == req[c].target IN
  /\ req[c].pc = "rev_select_target"
  /\ IF t \in authTokens /\ tokenOwner[t] = req[c].user
       THEN Goto(c, "rev_delete") /\ UNCHANGED answers
       ELSE Respond(c, 403)
  /\ UNCHANGED <<now, tables, users, authTokens, tokenOwner, tokenExp, held,
                 removed, requests>>

\* DELETE the token to revoke.
RevDelete(c) ==
  /\ req[c].pc = "rev_delete"
  /\ DeleteToken(c, req[c].target)
  /\ Respond(c, 200)
  /\ UNCHANGED <<now, tables, users, tokenOwner, tokenExp, held, requests>>

(***************************************************************************)
(* handleMigrate: CREATE TABLE IF NOT EXISTS users, auth_tokens and usage, *)
(* in this order, each in its own try/catch (the indexes change nothing    *)
(* the handlers read); it always answers 200.                              *)
(***************************************************************************)
MigNext == [mig_users |-> <<"users", "mig_tokens">>,
            mig_tokens |-> <<"auth_tokens", "mig_usage">>,
            mig_usage |-> <<"usage", "idle">>]

Migrate(c) ==
  LET step == MigNext[req[c].pc] IN
  /\ req[c].pc \in DOMAIN MigNext
  /\ tables' = tables \cup {step[1]}
  /\ IF step[2] = "idle" THEN Respond(c, 200)
     ELSE Goto(c, step[2]) /\ UNCHANGED answers
  /\ UNCHANGED <<now, users, authTokens, tokenOwner, tokenExp, held, removed,
                 requests>>

Tick ==
  /\ now < MaxTime
  /\ now' = now + 1
  /\ UNCHANGED <<tables, users, authTokens, tokenOwner, tokenExp, req, held,
                 removed, answers, requests>>

Next ==
  \/ Tick
  \/ \E c \in Clients :
       \/ Start(c) \/ RegSelect(c) \/ RegInsertUser(c) \/ RegInsertToken(c)
       \/ LoginSelect(c) \/ LoginInsert(c) \/ MeSelect(c) \/ MeRest(c)
       \/ ListSelect(c) \/ GenSelect(c) \/ GenInsert(c) \/ LogoutDelete(c)
       \/ RevSelectCur(c) \/ RevSelectTarget(c) \/ RevDelete(c) \/ Migrate(c)

Spec == Init /\ [][Next]_vars

(***************************************************************************)
(* Properties                                                              *)
(***************************************************************************)
Pcs == {"idle", "reg_select", "reg_insert_user", "reg_insert_token",
        "login_select", "login_insert", "me_select", "me_rest", "list_select",
        "gen_select", "gen_insert", "logout_delete", "rev_select_cur",
        "rev_select_target", "rev_delete"} \cup DOMAIN MigNext

TypeOK ==
  /\ now \in 0..MaxTime
  /\ tables \subseteq Tables
  /\ DOMAIN users \subseteq Emails /\ \A e \in DOMAIN users : users[e] \in Clients
  /\ authTokens \subseteq Issued /\ Issued \subseteq Tokens
  /\ \A t \in Issued : tokenOwner[t] \in DOMAIN users /\ tokenExp[t] \in Nat
  /\ \A c \in Clients : req[c].pc \in Pcs /\ held[c] \subseteq Issued
  /\ requests \in 0..MaxRequests

\* Only the holder of a user's password ever gets that user's tokens: a
\* token reaches client c only if its user's row stores c's password.  It
\* is about handleLogin's verifyPassword and about handleGenerateToken
\* issuing for the user of the presented token, over chains of logins,
\* generations and concurrent registrations of one email.
TokensHeldOnlyByOwner ==
  \A c \in Clients : \A t \in held[c] : users[tokenOwner[t]] = c

\* A token is deleted only by a request of its user's password holder:
\* handleRevokeToken's same-user check, and handleLogout deleting only the
\* token presented.
RevokedOnlyByOwner ==
  \A r \in removed : users[tokenOwner[r.tok]] = r.by

\* The worker contract (spec 6): register and login return a token or fail
\* with 400, 401 or 409.  Once the tables exist, handleRegister never
\* answers anything else.
RegisterAnswersContract ==
  \A a \in answers :
    a.op \in {"register", "login"} => a.code \in {200, 201, 400, 401, 409}
====
