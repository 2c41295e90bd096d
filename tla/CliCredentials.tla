--------------------------- MODULE CliCredentials ---------------------------
(***************************************************************************)
(* The credential handling of the sheri CLI: Config.load and Config.set    *)
(* (utils/config.ts), getToken, saveAuth and clearAuth (utils/auth.ts),    *)
(* the login, logout and whoami commands (commands/*.ts) and the bearer    *)
(* token choice of SheriAuthClient (utils/api-client.ts).                  *)
(*                                                                         *)
(* Every `sheri` invocation is a process of Procs.  It runs Config.load    *)
(* once at start (cli-v2.ts:26), which fixes its process.env; then its     *)
(* command runs up to the one await on the auth worker, and finishes when  *)
(* the worker answers.  Two invocations (two terminals) interleave at that *)
(* await.  The files are auth.json, the global ~/.sheri-ml/.env and the    *)
(* .env of the working directory; the shell's exported variables are      *)
(* fixed.  The worker is abstracted to the set of tokens it accepts; the   *)
(* AuthWorker module models it in detail.  A reply may be lost (network).  *)
(***************************************************************************)
EXTENDS Naturals, FiniteSets

CONSTANTS
  Procs,        \* concurrent sheri invocations
  Tokens,       \* bearer tokens
  InitTokens,   \* tokens that exist before the behaviour starts
  EnvChoices,   \* possible contents of the shell environment / local .env
  GlobalChoices,\* possible contents of ~/.sheri-ml/.env
  NoVal         \* an absent variable, file or token

ASSUME InitTokens \subseteq Tokens /\ NoVal \notin Tokens

\* The two keys getToken and clearAuth read and write.
Keys == {"HEYSALAD_API_KEY", "SHERI_AUTH_TOKEN"}
Vals == Tokens \cup {"", NoVal}

VARIABLES
  shellEnv,   \* exported variables of the user's shell
  localEnv,   \* .env of the working directory
  globalEnv,  \* ~/.sheri-ml/.env (NoVal: no line for the key)
  authFile,   \* token of ~/.config/heysalad/auth.json, or NoVal
  valid,      \* tokens the worker accepts (issued, not expired or deleted)
  issued,     \* tokens the worker has handed out
  proc,       \* each invocation: where its command is, and its bearer token
  shown,      \* what each invocation's last whoami printed
  ended       \* auth.json tokens deleted by a "Logged out successfully"

vars == <<shellEnv, localEnv, globalEnv, authFile, valid, issued, proc,
          shown, ended>>

Idle == [pc |-> "idle", tok |-> NoVal]

(***************************************************************************)
(* Config.load: dotenv loads the global file without override (a key      *)
(* already in process.env, even empty, is kept), then the local .env with  *)
(* override.                                                               *)
(***************************************************************************)
LoadedEnv ==
  [k \in Keys |->
     IF localEnv[k] # NoVal THEN localEnv[k]
     ELSE IF shellEnv[k] # NoVal THEN shellEnv[k]
     ELSE globalEnv[k]]

\* A JavaScript string used in a condition: '' and undefined are false.
Truthy(v) == v \notin {"", NoVal}

\* getToken: the environment, then auth.json, then Config.get of the legacy
\* keys; Config.get reads the same process.env as the first test.
GetToken(env) ==
  CASE Truthy(env["HEYSALAD_API_KEY"]) -> env["HEYSALAD_API_KEY"]
    [] Truthy(env["SHERI_AUTH_TOKEN"]) -> env["SHERI_AUTH_TOKEN"]
    [] authFile # NoVal                -> authFile
    [] Truthy(env["SHERI_AUTH_TOKEN"]) -> env["SHERI_AUTH_TOKEN"]
    [] Truthy(env["HEYSALAD_API_KEY"]) -> env["HEYSALAD_API_KEY"]
    [] OTHER                           -> NoVal

IsAuthenticated(env) == GetToken(env) # NoVal

\* saveAuth writes auth.json.
SaveAuth(t) == authFile' = t

\* clearAuth: unlink auth.json, then Config.set(key, '') for both keys,
\* which rewrites the global .env with KEY= lines.
ClearAuth ==
  /\ authFile' = NoVal
  /\ globalEnv' = [k \in Keys |-> ""]

Finish(p) == proc' = [proc EXCEPT ![p] = Idle]

Await(p, pc, tok) == proc' = [proc EXCEPT ![p] = [pc |-> pc, tok |-> tok]]

Init ==
  /\ shellEnv \in EnvChoices
  /\ localEnv \in EnvChoices
  /\ globalEnv \in GlobalChoices
  /\ authFile \in InitTokens \cup {NoVal}
  /\ issued = InitTokens
  /\ valid \in SUBSET InitTokens
  /\ proc = [p \in Procs |-> Idle]
  /\ shown = [p \in Procs |-> "none"]
  /\ ended = {}

(***************************************************************************)
(* The commands up to their await.  Each starts a process whose env is     *)
(* LoadedEnv.  CI, the SSH prompt and a password mismatch end it early.   *)
(***************************************************************************)
\* loginCommand (email/password or --register).  Its early returns
\* ("Already authenticated", isCI, SSH declined, passwords that do not
\* match) change nothing and are stuttering steps.
Login(p) ==
  LET env == LoadedEnv IN
  /\ proc[p].pc = "idle"
  /\ ~IsAuthenticated(env)
  /\ Await(p, "login", NoVal)
  /\ UNCHANGED <<shellEnv, localEnv, globalEnv, authFile, valid, issued, shown, ended>>

\* loginCommand --with-token: the same check, then the pasted token.
LoginWithToken(p) ==
  LET env == LoadedEnv IN
  /\ proc[p].pc = "idle"
  /\ ~IsAuthenticated(env)
  /\ \E t \in Tokens : Await(p, "token", t)
  /\ UNCHANGED <<shellEnv, localEnv, globalEnv, authFile, valid, issued, shown, ended>>

\* logoutCommand: client.logout() sends getToken().
Logout(p) ==
  LET env == LoadedEnv IN
  /\ proc[p].pc = "idle"
  /\ IsAuthenticated(env)                \* else "Not authenticated"
  /\ Await(p, "logout", GetToken(env))
  /\ UNCHANGED <<shellEnv, localEnv, globalEnv, authFile, valid, issued, shown, ended>>

\* whoamiCommand: client.whoami() sends getToken(); not authenticated exits 1
\* without a change.
Whoami(p) ==
  LET env == LoadedEnv IN
  /\ proc[p].pc = "idle"
  /\ IsAuthenticated(env)
  /\ Await(p, "whoami", GetToken(env))
  /\ UNCHANGED <<shellEnv, localEnv, globalEnv, authFile, valid, issued, shown, ended>>

(***************************************************************************)
(* The worker answers.                                                     *)
(***************************************************************************)
\* loginUser / registerUser: a new token is saved, or the process exits 1.
LoginReply(p) ==
  /\ proc[p].pc = "login"
  /\ \/ \E t \in Tokens \ issued :
          /\ issued' = issued \cup {t}
          /\ valid' = valid \cup {t}
          /\ SaveAuth(t)
     \/ UNCHANGED <<valid, issued, authFile>>
  /\ Finish(p)
  /\ UNCHANGED <<shellEnv, localEnv, globalEnv, shown, ended>>

\* loginWithToken: /auth/me accepts the token and it is saved, or exit 1.
TokenReply(p) ==
  /\ proc[p].pc = "token"
  /\ \/ /\ proc[p].tok \in valid
        /\ SaveAuth(proc[p].tok)
     \/ UNCHANGED authFile
  /\ Finish(p)
  /\ UNCHANGED <<shellEnv, localEnv, globalEnv, valid, issued, shown, ended>>

\* logoutCommand: the worker deletes the token, or the call fails; local
\* credentials are cleared either way.
LogoutReply(p) ==
  /\ proc[p].pc = "logout"
  /\ \/ /\ valid' = valid \ {proc[p].tok}     \* "Logged out successfully"
        /\ ended' = IF authFile # NoVal THEN ended \cup {authFile} ELSE ended
     \/ UNCHANGED <<valid, ended>>              \* "Logged out locally"
  /\ ClearAuth
  /\ Finish(p)
  /\ UNCHANGED <<shellEnv, localEnv, issued, shown>>

\* whoamiCommand: /auth/me answers with the user; or the call fails (401,
\* or the network) and the catch shows auth.json's cached email and plan
\* as "API unavailable"; or, without auth.json, exits 1.
WhoamiReply(p) ==
  /\ proc[p].pc = "whoami"
  /\ \/ /\ proc[p].tok \in valid
        /\ shown' = [shown EXCEPT ![p] = "user"]
     \/ shown' = [shown EXCEPT ![p] = IF authFile # NoVal THEN "cached" ELSE "error"]
  /\ Finish(p)
  /\ UNCHANGED <<shellEnv, localEnv, globalEnv, authFile, valid, issued, ended>>

\* A token expires or is revoked from another device.
Expire ==
  /\ \E t \in valid : valid' = valid \ {t}
  /\ UNCHANGED <<shellEnv, localEnv, globalEnv, authFile, issued, proc, shown, ended>>

Next ==
  \/ \E p \in Procs :
       \/ Login(p) \/ LoginWithToken(p) \/ Logout(p) \/ Whoami(p)
       \/ LoginReply(p) \/ TokenReply(p) \/ LogoutReply(p) \/ WhoamiReply(p)
  \/ Expire

Spec == Init /\ [][Next]_vars

(***************************************************************************)
(* Properties                                                              *)
(***************************************************************************)
Pcs == {"idle", "login", "token", "logout", "whoami"}

TypeOK ==
  /\ shellEnv \in [Keys -> Vals] /\ localEnv \in [Keys -> Vals]
  /\ globalEnv \in [Keys -> Vals]
  /\ authFile \in Tokens \cup {NoVal}
  /\ valid \subseteq issued /\ issued \subseteq Tokens
  /\ proc \in [Procs -> [pc : Pcs, tok : Tokens \cup {NoVal}]]
  /\ shown \in [Procs -> {"none", "user", "cached", "error"}]

\* A token from outside the CLI's own files: the shell or the local .env.
ExternalToken == \E k \in Keys : Truthy(shellEnv[k]) \/ Truthy(localEnv[k])

\* "Logged out successfully" (logout.ts:27) ends the saved session: when no
\* token comes from the shell or the local .env, the auth.json token that a
\* successful logout deleted is no longer accepted by the worker.  getToken's
\* documented order (auth.ts:40-45) puts auth.json before the legacy file,
\* so the logout call should carry the auth.json token.
LogoutEndsSavedSession ==
  ~ExternalToken => ended \cap valid = {}

=============================================================================
