------------------------------ MODULE Credentials ------------------------------
(***************************************************************************)
(* The saved sign-in of the command line: client.toml, the refresh token in *)
(* it, and the commands that read it, refresh it under the credential lock  *)
(* and replace it.  The provider rotates the refresh token when it likes,   *)
(* and an answer may be late, incomplete or lost.                           *)
(***************************************************************************)
EXTENDS Integers

CONSTANTS
    Commands,     \* commands that may run at once
    Profiles,     \* (server, issuer, client id) a login is for
    Lifetimes,    \* what an answer may say of an id token's lifetime
    Margin,       \* how long before its end an id token is refreshed
    NoOne, NoFile,
    Horizon,      \* bound: the last second
    MaxMinted     \* bound: refresh tokens the provider hands out

ASSUME CredentialsAssumption ==
    /\ Lifetimes \subseteq Int /\ Margin \in Nat
    /\ {Horizon, MaxMinted} \subseteq Nat
    /\ NoOne \notin Commands
    /\ NoFile \notin [profile : Profiles, refresh : Nat, id : BOOLEAN, expires : Int]

VARIABLES
    now,      \* the clock, in seconds
    file,     \* client.toml
    lock,     \* the command that holds client.refresh.lock
    cmd,      \* where each command is, and the credentials it holds
    minted,   \* refresh tokens handed out so far: 1 .. minted
    live,     \* those the provider still redeems
    spoilt    \* those lost to something outside the program

vars == <<now, file, lock, cmd, minted, live, spoilt>>
clientVars == <<file, lock, cmd>>
providerVars == <<minted, live, spoilt>>

Idle == [at |-> "idle"]

(* A command at a step, with the login it holds: of the file (keep) or of   *)
(* the environment, for the profile it was started for.                     *)
With(step, keep, q, c) == [at |-> step, persist |-> keep, profile |-> q, cfg |-> c]
Answered(keep, q, c, a) ==
    [at |-> "answered", persist |-> keep, profile |-> q, cfg |-> c, answer |-> a]
Saving(q, c, old) ==
    [at |-> "saving", persist |-> TRUE, profile |-> q, cfg |-> c, used |-> old]

(* A login as client.toml holds it; no id token: an empty one. *)
Login(q, r, i, e) == [profile |-> q, refresh |-> r, id |-> i, expires |-> e]

(* The credentials of the environment are never saved. *)
EnvConfig(q) == Login(q, 1, FALSE, 0)

Init ==
    /\ now = 0
    /\ file = NoFile /\ lock = NoOne
    /\ cmd = [p \in Commands |-> Idle]
    /\ minted = 1 /\ live = {1} /\ spoilt = {}

----------------------------------------------------------------------------
(* Decisions. *)

Fresh(c) == c.id /\ c.expires > now + Margin

SameProfile_Any(a, b) == TRUE
SameProfile(a, b) == a.profile = b.profile

(* What a command refreshes once it has the lock: the file as it is now. *)
Latest_AsLoaded(c) == c
Latest(c) == IF file = NoFile THEN c ELSE file

(* The answer to a refresh; refresh 0: the provider kept the old one. *)
Usable(a) == a.id /\ a.life > 0
ApplyRefresh_KeepsOld(c, a) == Login(c.profile, c.refresh, a.id, now + a.life)
ApplyRefresh(c, a) ==
    Login(c.profile, IF a.refresh = 0 THEN c.refresh ELSE a.refresh, a.id, now + a.life)

(* The lock is a kernel lock: it ends with the call, or with the process. *)
Unlocked(p) == IF lock = p THEN NoOne ELSE lock

(* Tokens no later command can redeem when p ends here without saving. *)
Wasted(p) ==
    IF cmd[p].at = "answered" /\ cmd[p].answer.refresh # 0 THEN {cmd[p].cfg.refresh}
    ELSE IF cmd[p].at = "saving" /\ cmd[p].used # cmd[p].cfg.refresh THEN {cmd[p].used}
    ELSE {}

----------------------------------------------------------------------------
(* Commands. *)

(* `load': the environment's refresh token if it is set, else the file. *)
Start(p) ==
    /\ cmd[p].at \in {"idle", "sending"}
    /\ \/ \E q \in Profiles :
            cmd' = [cmd EXCEPT ![p] = With("posting", FALSE, q, EnvConfig(q))]
       \/ /\ file # NoFile
          /\ cmd' = [cmd EXCEPT ![p] = With("waiting", TRUE, file.profile, file)]
    /\ UNCHANGED <<now, file, lock, providerVars>>

(* With the lock the file is read again: another command may have refreshed *)
(* it, and a login may have replaced it by one for another server.          *)
TakeLock(p) ==
    /\ cmd[p].at = "waiting" /\ lock = NoOne
    /\ LET c == Latest(cmd[p].cfg)
       IN  \/ /\ ~SameProfile(c, cmd[p].cfg)
              /\ cmd' = [cmd EXCEPT ![p] = Idle] /\ UNCHANGED lock
           \/ /\ SameProfile(c, cmd[p].cfg) /\ Fresh(c)
              /\ cmd' = [cmd EXCEPT ![p] = With("sending", TRUE, cmd[p].profile, c)]
              /\ UNCHANGED lock
           \/ /\ SameProfile(c, cmd[p].cfg) /\ ~Fresh(c)
              /\ cmd' = [cmd EXCEPT ![p] = With("posting", TRUE, cmd[p].profile, c)]
              /\ lock' = p
    /\ UNCHANGED <<now, file, providerVars>>

LockTimeout(p) ==
    /\ cmd[p].at \in {"waiting", "installing"} /\ lock # NoOne
    /\ cmd' = [cmd EXCEPT ![p] = Idle]
    /\ UNCHANGED <<now, file, lock, providerVars>>

(* The provider redeems a refresh token, and may rotate it. *)
Redeem(p) ==
    /\ cmd[p].at = "posting" /\ cmd[p].cfg.refresh \in live
    /\ \E i \in BOOLEAN, l \in Lifetimes, rotate \in BOOLEAN :
        LET a == [refresh |-> IF rotate THEN minted + 1 ELSE 0, id |-> i, life |-> l]
        IN  /\ cmd' = [cmd EXCEPT ![p] =
                          Answered(cmd[p].persist, cmd[p].profile, cmd[p].cfg, a)]
            /\ rotate => minted < MaxMinted
            /\ minted' = IF rotate THEN minted + 1 ELSE minted
            /\ live' = IF rotate THEN (live \ {cmd[p].cfg.refresh}) \cup {minted + 1} ELSE live
    /\ UNCHANGED <<now, file, lock, spoilt>>

(* `invalid_grant': the command says that a new login is needed. *)
Refused(p) ==
    /\ cmd[p].at = "posting" /\ cmd[p].cfg.refresh \notin live
    /\ cmd' = [cmd EXCEPT ![p] = Idle] /\ lock' = Unlocked(p)
    /\ UNCHANGED <<now, file, providerVars>>

(* An answer without an id token, or with no lifetime, ends the command     *)
(* before anything is saved.                                                *)
Apply(p) ==
    /\ cmd[p].at = "answered"
    /\ LET c == ApplyRefresh(cmd[p].cfg, cmd[p].answer)
       IN  \/ /\ ~Usable(cmd[p].answer)
              /\ cmd' = [cmd EXCEPT ![p] = Idle] /\ lock' = Unlocked(p)
              /\ spoilt' = spoilt \cup Wasted(p)
           \/ /\ Usable(cmd[p].answer) /\ cmd[p].persist
              /\ cmd' = [cmd EXCEPT ![p] = Saving(cmd[p].profile, c, cmd[p].cfg.refresh)]
              /\ UNCHANGED <<lock, spoilt>>
           \/ /\ Usable(cmd[p].answer) /\ ~cmd[p].persist
              /\ cmd' = [cmd EXCEPT ![p] = With("sending", FALSE, cmd[p].profile, c)]
              /\ UNCHANGED <<lock, spoilt>>
    /\ UNCHANGED <<now, file, minted, live>>

(* Written beside the file and renamed over it. *)
Save(p) ==
    /\ cmd[p].at = "saving"
    /\ file' = cmd[p].cfg /\ lock' = Unlocked(p)
    /\ cmd' = [cmd EXCEPT ![p] = With("sending", TRUE, cmd[p].profile, cmd[p].cfg)]
    /\ UNCHANGED <<now, providerVars>>

(* A login in the browser, and its installation under the lock. *)
SignIn(p, q) ==
    /\ cmd[p].at \in {"idle", "sending"} /\ minted < MaxMinted
    /\ minted' = minted + 1 /\ live' = live \cup {minted + 1}
    /\ \E l \in Lifetimes :
        /\ l > 0
        /\ cmd' = [cmd EXCEPT ![p] =
              With("installing", TRUE, q, Login(q, minted + 1, TRUE, now + l))]
    /\ UNCHANGED <<now, file, lock, spoilt>>

Install(p) ==
    /\ cmd[p].at = "installing" /\ lock = NoOne
    /\ file' = cmd[p].cfg
    /\ cmd' = [cmd EXCEPT ![p] = Idle]
    /\ UNCHANGED <<now, lock, providerVars>>

(* A command ends early: it is killed, its connection is lost or times out, *)
(* or the file cannot be written.                                           *)
Stop(p) ==
    /\ cmd[p].at # "idle"
    /\ cmd' = [cmd EXCEPT ![p] = Idle] /\ lock' = Unlocked(p)
    /\ spoilt' = spoilt \cup Wasted(p)
    /\ UNCHANGED <<now, file, minted, live>>

(* The provider ends a session, or redeems late what a command that gave up *)
(* had posted; the user removes the file.                                   *)
Revoke(r) ==
    /\ r \in live
    /\ live' = live \ {r} /\ spoilt' = spoilt \cup {r}
    /\ UNCHANGED <<now, clientVars, minted>>

Remove ==
    /\ file # NoFile
    /\ file' = NoFile /\ spoilt' = 1 .. minted
    /\ UNCHANGED <<now, lock, cmd, minted, live>>

Tick == now < Horizon /\ now' = now + 1 /\ UNCHANGED <<clientVars, providerVars>>

Next ==
    \/ \E p \in Commands :
        \/ Start(p) \/ TakeLock(p) \/ LockTimeout(p) \/ Redeem(p) \/ Refused(p)
        \/ Apply(p) \/ Save(p) \/ Install(p) \/ Stop(p)
        \/ \E q \in Profiles : SignIn(p, q)
    \/ \E r \in live : Revoke(r)
    \/ Remove \/ Tick

Spec == Init /\ [][Next]_vars

----------------------------------------------------------------------------
(* Properties. *)

(* While no command refreshes, the saved login can be refreshed, unless its *)
(* session was ended elsewhere or an answer of the provider was lost: no    *)
(* order of refreshes, logins and lock timeouts strands it.                 *)
SavedLoginUsable ==
    (lock = NoOne /\ file # NoFile) => file.refresh \in live \cup spoilt

(* A command that refreshes the saved login is told to sign in again only   *)
(* for such a reason, never because another command refreshed first: the    *)
(* file is read again under the lock (oidc.rs:351).                         *)
NoNeedlessLogin ==
    \A p \in Commands :
        (cmd[p].at = "posting" /\ cmd[p].persist)
        => cmd[p].cfg.refresh \in live \cup spoilt

(* The id token a command goes on to send is one of the login it started    *)
(* with, though another login replaced the file while it waited: a token    *)
(* for one server never goes to another (oidc.rs:355).                      *)
TokenForItsServer ==
    \A p \in Commands : cmd[p].at = "sending" => cmd[p].cfg.profile = cmd[p].profile

----------------------------------------------------------------------------
(* The invariant that carries these, proved in SignInProofs. *)

Logins == [profile : Profiles, refresh : Nat, id : BOOLEAN, expires : Int]
Replies == [refresh : Nat, id : BOOLEAN, life : Int]
Working == [at : {"waiting", "posting", "sending", "installing"}, persist : BOOLEAN,
            profile : Profiles, cfg : Logins]
Replied == [at : {"answered"}, persist : BOOLEAN, profile : Profiles, cfg : Logins,
            answer : Replies]
Storing == [at : {"saving"}, persist : {TRUE}, profile : Profiles, cfg : Logins, used : Nat]

States == {Idle} \cup Working \cup Replied \cup Storing

TypeInv ==
    /\ now \in Nat /\ minted \in Nat \ {0}
    /\ lock \in Commands \cup {NoOne}
    /\ file \in Logins \cup {NoFile}
    /\ cmd \in [Commands -> States]
    /\ live \subseteq 1 .. minted /\ spoilt \subseteq 1 .. minted

Good == live \cup spoilt

(* The file's token is not the environment's, and may be redeemed; while a   *)
(* command refreshes, the file holds the token that command started from.   *)
FileInv ==
    file # NoFile =>
        /\ file.refresh \in 2 .. minted
        /\ lock = NoOne => file.refresh \in Good
        /\ lock # NoOne => file.refresh =
              IF cmd[lock].at = "saving" THEN cmd[lock].used ELSE cmd[lock].cfg.refresh

(* What each command holds is its own profile's, and no other's to redeem.  *)
CommandInv ==
    \A p \in Commands :
        cmd[p].at # "idle" =>
            /\ cmd[p].cfg.profile = cmd[p].profile
            /\ cmd[p].cfg.refresh \in 1 .. minted
            /\ cmd[p].at = "answered" => cmd[p].answer.refresh <= minted
            /\ cmd[p].at = "saving" => cmd[p].used \in 1 .. minted
            /\ ~cmd[p].persist => /\ cmd[p].at \in {"posting", "answered", "sending"}
                                  /\ cmd[p].at # "sending" => cmd[p].cfg.refresh = 1
            /\ cmd[p].persist => cmd[p].cfg.refresh # 1
            /\ cmd[p].at \in {"posting", "answered", "saving"} /\ cmd[p].persist
                  => lock = p

LockInv ==
    lock # NoOne => cmd[lock].at \in {"posting", "answered", "saving"} /\ cmd[lock].persist

TokenInv ==
    \A p \in Commands : cmd[p].at # "idle" /\ cmd[p].persist =>
        /\ cmd[p].at = "waiting" /\ file = NoFile => cmd[p].cfg.refresh \in spoilt
        /\ cmd[p].at \in {"posting", "installing", "saving"} => cmd[p].cfg.refresh \in Good
        /\ cmd[p].at = "answered" =>
              IF cmd[p].answer.refresh = 0 THEN cmd[p].cfg.refresh \in Good
              ELSE cmd[p].answer.refresh \in Good \ {1}
        /\ cmd[p].at = "installing" =>
              /\ file # NoFile => file.refresh # cmd[p].cfg.refresh
              /\ \A q \in Commands \ {p} : cmd[q].at # "idle" =>
                    /\ cmd[q].cfg.refresh # cmd[p].cfg.refresh
                    /\ cmd[q].at = "answered" => cmd[q].answer.refresh # cmd[p].cfg.refresh

Ind == TypeInv /\ FileInv /\ CommandInv /\ LockInv /\ TokenInv
=============================================================================
