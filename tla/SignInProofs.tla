----------------------------- MODULE SignInProofs -----------------------------
(***************************************************************************)
(* Signing in.  The command line's saved login stays usable, and no command *)
(* is stranded or crosses over to another server, for any number of         *)
(* commands, profiles and tokens.  The server sees a rotated-in key and     *)
(* stops accepting a withdrawn one, for any number of requests and keys and *)
(* any lengths with 0 < cooldown <= ttl.  The two share no variable.        *)
(***************************************************************************)
EXTENDS Credentials, KeyCache, FiniteSetTheorems, TLAPS

----------------------------------------------------------------------------
(* The saved login *)

(* What the constructors build. *)
LEMMA WithType ==
    ASSUME NEW step \in {"waiting", "posting", "sending", "installing"},
           NEW keep \in BOOLEAN, NEW q \in Profiles, NEW c \in Logins
    PROVE  With(step, keep, q, c) \in States
BY DEF With, Working, States

LEMMA AnsweredType ==
    ASSUME NEW keep \in BOOLEAN, NEW q \in Profiles, NEW c \in Logins, NEW a \in Replies
    PROVE  Answered(keep, q, c, a) \in States
BY DEF Answered, Replied, States

LEMMA SavingType ==
    ASSUME NEW q \in Profiles, NEW c \in Logins, NEW r \in Nat
    PROVE  Saving(q, c, r) \in States
BY DEF Saving, Storing, States

(* What a command that runs holds. *)
LEMMA Holds ==
    ASSUME TypeInv, NEW p \in Commands, cmd[p].at # "idle"
    PROVE  /\ cmd[p].persist \in BOOLEAN /\ cmd[p].profile \in Profiles /\ cmd[p].cfg \in Logins
           /\ cmd[p].cfg.profile \in Profiles /\ cmd[p].cfg.refresh \in Nat
           /\ cmd[p].at = "answered" =>
                 /\ cmd[p].answer \in Replies /\ cmd[p].answer.refresh \in Nat
                 /\ cmd[p].answer.id \in BOOLEAN /\ cmd[p].answer.life \in Int
           /\ cmd[p].at = "saving" => cmd[p].persist /\ cmd[p].used \in Nat
<1>1. cmd[p] \in States /\ cmd[p] # Idle
  BY DEF TypeInv, Idle
<1>2. cmd[p] \in Working \cup Replied \cup Storing
  BY <1>1 DEF States
<1>3. CASE cmd[p] \in Working
  BY <1>3 DEF Working, Logins
<1>4. CASE cmd[p] \in Replied
  BY <1>4 DEF Replied, Logins, Replies
<1>5. CASE cmd[p] \in Storing
  BY <1>5 DEF Storing, Logins
<1> QED BY <1>2, <1>3, <1>4, <1>5

(* No login is saved at first, and no command runs. *)
LEMMA InitInd == Init => Ind
<1> SUFFICES ASSUME Init PROVE Ind
  OBVIOUS
<1>1. \A p \in Commands : cmd[p] = Idle /\ cmd[p].at = "idle"
  BY DEF Init, Idle
<1>2. TypeInv
  BY DEF Init, TypeInv, States
<1> QED BY <1>1, <1>2 DEF Init, Ind, FileInv, CommandInv, LockInv, TokenInv

(* A command that starts holds the login of the file, or the environment's. *)
LEMMA StartInd ==
    ASSUME Ind, NEW p \in Commands, Start(p)
    PROVE  Ind'
<1> USE CredentialsAssumption DEF Ind
<1> PICK new : /\ cmd' = [cmd EXCEPT ![p] = new]
               /\ \/ /\ file # NoFile /\ new = With("waiting", TRUE, file.profile, file)
                  \/ \E q \in Profiles : new = With("posting", FALSE, q, EnvConfig(q))
  BY DEF Start
<1>a. /\ cmd[p].at \in {"idle", "sending"}
      /\ UNCHANGED <<now, file, lock, minted, live, spoilt>>
  BY DEF Start, providerVars
<1>b. /\ new \in States /\ new.at \in {"waiting", "posting"} /\ new.cfg \in Logins
      /\ new.profile = new.cfg.profile
      /\ \/ new.at = "waiting" /\ new.persist = TRUE /\ file # NoFile /\ new.cfg = file
         \/ new.at = "posting" /\ new.persist = FALSE /\ new.cfg.refresh = 1
  <2>1. CASE file # NoFile /\ new = With("waiting", TRUE, file.profile, file)
    <3>1. file \in Logins /\ file.profile \in Profiles
      BY <2>1 DEF TypeInv, Logins
    <3> QED BY <2>1, <3>1, WithType DEF With
  <2>2. ASSUME NEW q \in Profiles, new = With("posting", FALSE, q, EnvConfig(q))
        PROVE  new \in States /\ new.cfg \in Logins /\ new.profile = new.cfg.profile
               /\ new.at = "posting" /\ new.persist = FALSE /\ new.cfg.refresh = 1
    <3>1. EnvConfig(q) \in Logins /\ EnvConfig(q).profile = q /\ EnvConfig(q).refresh = 1
      BY DEF EnvConfig, Login, Logins
    <3> QED BY <2>2, <3>1, WithType DEF With
  <2> QED BY <2>1, <2>2
<1>c. cmd'[p] = new /\ \A q \in Commands \ {p} : cmd'[q] = cmd[q]
  BY DEF TypeInv
<1>1. TypeInv'
  BY <1>a, <1>b DEF TypeInv
<1>2. FileInv'
  BY <1>1, <1>a, <1>b, <1>c, Holds DEF TypeInv, FileInv, CommandInv, LockInv, TokenInv,
       Good
<1>3. CommandInv'
  BY <1>1, <1>a, <1>b, <1>c, Holds DEF TypeInv, FileInv, CommandInv, LockInv, TokenInv,
       Good
<1>4. LockInv'
  BY <1>1, <1>a, <1>b, <1>c, Holds DEF TypeInv, FileInv, CommandInv, LockInv, TokenInv,
       Good
<1>5. TokenInv'
  BY <1>1, <1>a, <1>b, <1>c, Holds DEF TypeInv, FileInv, CommandInv, LockInv, TokenInv,
       Good
<1> QED BY <1>1, <1>2, <1>3, <1>4, <1>5

(* Under the lock a command goes on with the file's login. *)
LEMMA TakeLockInd ==
    ASSUME Ind, NEW p \in Commands, TakeLock(p)
    PROVE  Ind'
<1> USE CredentialsAssumption DEF Ind
<1>1. TypeInv'
  <2> DEFINE c == Latest(cmd[p].cfg)
  <2>1. cmd[p].at # "idle"
    BY DEF TakeLock
  <2>2. c \in Logins /\ cmd[p].profile \in Profiles
    BY <2>1, Holds DEF Latest, TypeInv
  <2>3. With("sending", TRUE, cmd[p].profile, c) \in States
    BY <2>2, WithType
  <2>4. With("posting", TRUE, cmd[p].profile, c) \in States
    BY <2>2, WithType
  <2>5. Idle \in States
    BY DEF States
  <2> QED BY <2>3, <2>4, <2>5 DEF TypeInv, TakeLock, providerVars
<1>2. FileInv'
  BY <1>1 DEF TypeInv, FileInv, CommandInv, LockInv, TokenInv, Good, Logins, Replies,
       Working, Replied, Storing, States, Idle, With, Answered, Saving, Login, EnvConfig,
       clientVars, providerVars, TakeLock, Latest, SameProfile
<1>3. CommandInv'
  BY <1>1 DEF TypeInv, FileInv, CommandInv, LockInv, TokenInv, Good, Logins, Replies,
       Working, Replied, Storing, States, Idle, With, Answered, Saving, Login, EnvConfig,
       clientVars, providerVars, TakeLock, Latest, SameProfile
<1>4. LockInv'
  BY <1>1 DEF TypeInv, FileInv, CommandInv, LockInv, TokenInv, Good, Logins, Replies,
       Working, Replied, Storing, States, Idle, With, Answered, Saving, Login, EnvConfig,
       clientVars, providerVars, TakeLock, Latest, SameProfile
<1>5. TokenInv'
  BY <1>1 DEF TypeInv, FileInv, CommandInv, LockInv, TokenInv, Good, Logins, Replies,
       Working, Replied, Storing, States, Idle, With, Answered, Saving, Login, EnvConfig,
       clientVars, providerVars, TakeLock, Latest, SameProfile
<1> QED BY <1>1, <1>2, <1>3, <1>4, <1>5

(* A command that gives up the lock held none. *)
LEMMA LockTimeoutInd ==
    ASSUME Ind, NEW p \in Commands, LockTimeout(p)
    PROVE  Ind'
<1> USE CredentialsAssumption DEF Ind
<1>1. TypeInv'
  BY DEF TypeInv, Logins, Replies, Working, Replied, Storing, States, Idle, With,
       Answered, Saving, Login, EnvConfig, clientVars, providerVars, LockTimeout
<1>2. FileInv'
  BY <1>1 DEF TypeInv, FileInv, CommandInv, LockInv, TokenInv, Good, Logins, Replies,
       Working, Replied, Storing, States, Idle, With, Answered, Saving, Login, EnvConfig,
       clientVars, providerVars, LockTimeout
<1>3. CommandInv'
  BY <1>1 DEF TypeInv, FileInv, CommandInv, LockInv, TokenInv, Good, Logins, Replies,
       Working, Replied, Storing, States, Idle, With, Answered, Saving, Login, EnvConfig,
       clientVars, providerVars, LockTimeout
<1>4. LockInv'
  BY <1>1 DEF TypeInv, FileInv, CommandInv, LockInv, TokenInv, Good, Logins, Replies,
       Working, Replied, Storing, States, Idle, With, Answered, Saving, Login, EnvConfig,
       clientVars, providerVars, LockTimeout
<1>5. TokenInv'
  BY <1>1 DEF TypeInv, FileInv, CommandInv, LockInv, TokenInv, Good, Logins, Replies,
       Working, Replied, Storing, States, Idle, With, Answered, Saving, Login, EnvConfig,
       clientVars, providerVars, LockTimeout
<1> QED BY <1>1, <1>2, <1>3, <1>4, <1>5

(* What the provider hands out is nobody else's. *)
LEMMA RedeemInd ==
    ASSUME Ind, NEW p \in Commands, Redeem(p)
    PROVE  Ind'
<1> USE CredentialsAssumption DEF Ind
<1>0. PICK i \in BOOLEAN, l \in Lifetimes, rotate \in BOOLEAN :
        LET a == [refresh |-> IF rotate THEN minted + 1 ELSE 0, id |-> i, life |-> l]
        IN  /\ cmd' = [cmd EXCEPT ![p] =
                          Answered(cmd[p].persist, cmd[p].profile, cmd[p].cfg, a)]
            /\ rotate => minted < MaxMinted
            /\ minted' = IF rotate THEN minted + 1 ELSE minted
            /\ live' = IF rotate THEN (live \ {cmd[p].cfg.refresh}) \cup {minted + 1} ELSE live
  BY DEF Redeem
<1> DEFINE a == [refresh |-> IF rotate THEN minted + 1 ELSE 0, id |-> i, life |-> l]
           new == Answered(cmd[p].persist, cmd[p].profile, cmd[p].cfg, a)
<1>a. /\ cmd[p].at = "posting" /\ cmd[p].cfg.refresh \in live
      /\ UNCHANGED <<now, file, lock, spoilt>>
  BY DEF Redeem
<1>b. a \in Replies /\ new \in States
  BY <1>0, <1>a, Holds, AnsweredType DEF Replies, TypeInv
<1>c. /\ cmd' = [cmd EXCEPT ![p] = new] /\ cmd'[p] = new
      /\ \A q \in Commands \ {p} : cmd'[q] = cmd[q]
  BY <1>0 DEF TypeInv
<1>e. /\ minted' = (IF rotate THEN minted + 1 ELSE minted) /\ minted' \in Nat \ {0}
      /\ live' = IF rotate THEN (live \ {cmd[p].cfg.refresh}) \cup {minted + 1} ELSE live
  BY <1>0 DEF TypeInv
<1>d. /\ new.at = "answered" /\ new.persist = cmd[p].persist /\ new.profile = cmd[p].profile
      /\ new.cfg = cmd[p].cfg /\ new.answer = a
      /\ a.refresh = IF rotate THEN minted + 1 ELSE 0
  BY DEF Answered
<1> HIDE DEF a, new
<1>1. TypeInv'
  <2>1. live' \subseteq 1 .. minted' /\ spoilt' \subseteq 1 .. minted'
    BY <1>a, <1>e DEF TypeInv
  <2> QED BY <1>a, <1>b, <1>c, <1>e, <2>1 DEF TypeInv
<1>2. FileInv'
  BY <1>a, <1>c, <1>d, <1>e, Holds DEF TypeInv, FileInv, CommandInv, LockInv, TokenInv, Good
<1>3. CommandInv'
  BY <1>a, <1>c, <1>d, <1>e, Holds DEF TypeInv, FileInv, CommandInv, LockInv, TokenInv, Good
<1>4. LockInv'
  BY <1>a, <1>c, <1>d, Holds DEF TypeInv, FileInv, CommandInv, LockInv, TokenInv, Good
<1>5. TokenInv'
  <2>1. CASE rotate
    <3>1. /\ a.refresh \in Good' \ {0, 1} /\ Good \ {cmd[p].cfg.refresh} \subseteq Good'
          /\ spoilt' = spoilt /\ file' = file
      BY <1>a, <1>d, <1>e, <2>1 DEF TypeInv, Good
    <3>2. ASSUME NEW q \in Commands \ {p}, cmd[q].at # "idle", cmd[q].persist
          PROVE  /\ cmd[q].at \in {"posting", "installing", "saving", "answered"}
                       => cmd[q].cfg.refresh # cmd[p].cfg.refresh
                 /\ cmd[q].at = "answered" => cmd[q].answer.refresh # cmd[p].cfg.refresh
                 /\ cmd[q].cfg.refresh # a.refresh
      <4>1. cmd[q].cfg.refresh # a.refresh
        BY <1>d, <2>1, <3>2, Holds DEF CommandInv, TypeInv
      <4>2. CASE cmd[p].persist
        <5>1. lock = p /\ cmd[q].at \notin {"posting", "saving", "answered"}
          BY <1>a, <3>2, <4>2 DEF CommandInv
        <5> QED BY <1>a, <3>2, <4>1, <5>1 DEF TokenInv
      <4>3. CASE ~cmd[p].persist
        <5>1. cmd[p].cfg.refresh = 1 /\ cmd[q].cfg.refresh # 1
          BY <1>a, <3>2, <4>3 DEF CommandInv
        <5>2. cmd[q].at = "answered" => cmd[q].answer.refresh # 1
          BY <3>2 DEF TokenInv
        <5> QED BY <4>1, <5>1, <5>2
      <4> QED BY <4>2, <4>3
    <3> QED BY <1>c, <1>d, <3>1, <3>2 DEF TokenInv
  <2>2. CASE ~rotate
    BY <1>a, <1>c, <1>d, <1>e, <2>2, Holds DEF TypeInv, FileInv, CommandInv, LockInv, TokenInv, Good
  <2> QED BY <2>1, <2>2
<1> QED BY <1>1, <1>2, <1>3, <1>4, <1>5

(* A refused command leaves the file as it was. *)
LEMMA RefusedInd ==
    ASSUME Ind, NEW p \in Commands, Refused(p)
    PROVE  Ind'
<1> USE CredentialsAssumption DEF Ind
<1>1. TypeInv'
  BY DEF TypeInv, Logins, Replies, Working, Replied, Storing, States, Idle, With,
       Answered, Saving, Login, EnvConfig, clientVars, providerVars, Refused, Unlocked
<1>2. FileInv'
  BY <1>1 DEF TypeInv, FileInv, CommandInv, LockInv, TokenInv, Good, Logins, Replies,
       Working, Replied, Storing, States, Idle, With, Answered, Saving, Login, EnvConfig,
       clientVars, providerVars, Refused, Unlocked
<1>3. CommandInv'
  BY <1>1 DEF TypeInv, FileInv, CommandInv, LockInv, TokenInv, Good, Logins, Replies,
       Working, Replied, Storing, States, Idle, With, Answered, Saving, Login, EnvConfig,
       clientVars, providerVars, Refused, Unlocked
<1>4. LockInv'
  BY <1>1 DEF TypeInv, FileInv, CommandInv, LockInv, TokenInv, Good, Logins, Replies,
       Working, Replied, Storing, States, Idle, With, Answered, Saving, Login, EnvConfig,
       clientVars, providerVars, Refused, Unlocked
<1>5. TokenInv'
  BY <1>1 DEF TypeInv, FileInv, CommandInv, LockInv, TokenInv, Good, Logins, Replies,
       Working, Replied, Storing, States, Idle, With, Answered, Saving, Login, EnvConfig,
       clientVars, providerVars, Refused, Unlocked
<1> QED BY <1>1, <1>2, <1>3, <1>4, <1>5

(* An answer that is not used up leaves its token to the file. *)
LEMMA ApplyInd ==
    ASSUME Ind, NEW p \in Commands, Apply(p)
    PROVE  Ind'
<1> USE CredentialsAssumption DEF Ind
<1>a. cmd[p].at = "answered" /\ UNCHANGED <<now, file, minted, live>>
  BY DEF Apply
<1> DEFINE c == ApplyRefresh(cmd[p].cfg, cmd[p].answer)
<1>b. c \in Logins /\ c.profile = cmd[p].cfg.profile
      /\ c.refresh = IF cmd[p].answer.refresh = 0 THEN cmd[p].cfg.refresh ELSE cmd[p].answer.refresh
  BY <1>a, Holds DEF ApplyRefresh, Login, Logins, Usable, TypeInv
<1>c. Wasted(p) = IF cmd[p].answer.refresh # 0 THEN {cmd[p].cfg.refresh} ELSE {}
  BY <1>a DEF Wasted
<1>1. TypeInv'
  <2>1. /\ Idle \in States
        /\ Saving(cmd[p].profile, c, cmd[p].cfg.refresh) \in States
        /\ With("sending", FALSE, cmd[p].profile, c) \in States
    BY <1>a, <1>b, Holds, SavingType, WithType DEF States
  <2>2. Wasted(p) \subseteq 1 .. minted
    BY <1>a, <1>c DEF CommandInv
  <2> QED BY <1>a, <2>1, <2>2 DEF TypeInv, Apply, Unlocked
<1>2. FileInv'
  BY <1>1, <1>a, <1>b, <1>c, Holds DEF TypeInv, FileInv, CommandInv, LockInv, TokenInv,
       Good, Idle, With, Saving, Apply, Unlocked
<1>3. CommandInv'
  BY <1>1, <1>a, <1>b, <1>c, Holds DEF TypeInv, FileInv, CommandInv, LockInv, TokenInv,
       Good, Idle, With, Saving, Apply, Unlocked
<1>4. LockInv'
  BY <1>1, <1>a, <1>b, <1>c, Holds DEF TypeInv, FileInv, CommandInv, LockInv, TokenInv,
       Good, Idle, With, Saving, Apply, Unlocked
<1>5. TokenInv'
  BY <1>1, <1>a, <1>b, <1>c, Holds DEF TypeInv, FileInv, CommandInv, LockInv, TokenInv,
       Good, Idle, With, Saving, Apply, Unlocked
<1> QED BY <1>1, <1>2, <1>3, <1>4, <1>5

(* A refresh that is saved can be refreshed again. *)
LEMMA SaveInd ==
    ASSUME Ind, NEW p \in Commands, Save(p)
    PROVE  Ind'
<1> USE CredentialsAssumption DEF Ind
<1> DEFINE new == With("sending", TRUE, cmd[p].profile, cmd[p].cfg)
<1>a. /\ cmd[p].at = "saving" /\ cmd' = [cmd EXCEPT ![p] = new] /\ file' = cmd[p].cfg
      /\ lock' = Unlocked(p) /\ UNCHANGED <<now, minted, live, spoilt>>
  BY DEF Save, providerVars
<1>b. /\ new \in States /\ new.at = "sending" /\ new.persist = TRUE
      /\ new.profile = cmd[p].profile /\ new.cfg = cmd[p].cfg
  BY <1>a, Holds, WithType DEF With
<1>c. cmd'[p] = new /\ \A q \in Commands \ {p} : cmd'[q] = cmd[q]
  BY <1>a DEF TypeInv
<1>d. /\ lock = p /\ lock' = NoOne /\ cmd[p].persist
      /\ cmd[p].cfg \in Logins /\ file' # NoFile
  BY <1>a, Holds DEF Unlocked, CommandInv, Logins
<1> HIDE DEF new
<1>1. TypeInv'
  BY <1>a, <1>b, <1>d, Holds DEF TypeInv
<1>2. FileInv'
  BY <1>1, <1>a, <1>b, <1>c, <1>d, Holds DEF TypeInv, FileInv, CommandInv, LockInv,
       TokenInv, Good
<1>3. CommandInv'
  BY <1>1, <1>a, <1>b, <1>c, <1>d, Holds DEF TypeInv, FileInv, CommandInv, LockInv,
       TokenInv, Good
<1>4. LockInv'
  BY <1>1, <1>a, <1>b, <1>c, <1>d, Holds DEF TypeInv, FileInv, CommandInv, LockInv,
       TokenInv, Good
<1>5. TokenInv'
  BY <1>1, <1>a, <1>b, <1>c, <1>d, Holds DEF TypeInv, FileInv, CommandInv, LockInv,
       TokenInv, Good
<1> QED BY <1>1, <1>2, <1>3, <1>4, <1>5

(* A login gets a token of its own. *)
LEMMA SignInInd ==
    ASSUME Ind, NEW p \in Commands, (\E q \in Profiles : SignIn(p, q))
    PROVE  Ind'
<1> USE CredentialsAssumption DEF Ind
<1>0. PICK q \in Profiles, l \in Lifetimes :
        cmd' = [cmd EXCEPT ![p] =
                  With("installing", TRUE, q, Login(q, minted + 1, TRUE, now + l))]
  BY DEF SignIn
<1> DEFINE new == With("installing", TRUE, q, Login(q, minted + 1, TRUE, now + l))
<1>a. /\ cmd[p].at \in {"idle", "sending"}
      /\ minted' = minted + 1 /\ live' = live \cup {minted + 1}
      /\ UNCHANGED <<now, file, lock, spoilt>> /\ cmd' = [cmd EXCEPT ![p] = new]
  BY <1>0 DEF SignIn
<1>b. /\ new \in States /\ new.at = "installing" /\ new.persist = TRUE
      /\ new.profile = q /\ new.cfg.profile = q /\ new.cfg.refresh = minted + 1
  <2>1. now + l \in Int /\ minted + 1 \in Nat
    BY DEF TypeInv
  <2>2. LET c == Login(q, minted + 1, TRUE, now + l)
        IN  c \in Logins /\ c.profile = q /\ c.refresh = minted + 1
    BY <2>1 DEF Login, Logins
  <2> QED BY <2>2, WithType DEF With
<1>c. cmd'[p] = new /\ \A r \in Commands \ {p} : cmd'[r] = cmd[r]
  BY <1>0 DEF TypeInv
<1> HIDE DEF new
<1>d. lock # p
  BY <1>a DEF LockInv
<1>e. /\ minted \in Nat \ {0} /\ minted' = minted + 1
      /\ Good \subseteq 1 .. minted /\ Good' = Good \cup {minted'}
  BY <1>a DEF TypeInv, Good
<1>1. TypeInv'
  <2>1. minted' \in Nat \ {0} /\ live' \subseteq 1 .. minted' /\ spoilt' \subseteq 1 .. minted'
    BY <1>a DEF TypeInv
  <2> QED BY <1>a, <1>b, <2>1 DEF TypeInv
<1>2. FileInv'
  BY <1>1, <1>a, <1>b, <1>c, <1>d, <1>e, Holds DEF TypeInv, FileInv, CommandInv,
       LockInv, TokenInv
<1>3. CommandInv'
  <2> SUFFICES ASSUME NEW r \in Commands, cmd'[r].at # "idle"
               PROVE  /\ cmd'[r].cfg.profile = cmd'[r].profile
                      /\ cmd'[r].cfg.refresh \in 1 .. minted'
                      /\ cmd'[r].at = "answered" => cmd'[r].answer.refresh <= minted'
                      /\ cmd'[r].at = "saving" => cmd'[r].used \in 1 .. minted'
                      /\ ~cmd'[r].persist =>
                            /\ cmd'[r].at \in {"posting", "answered", "sending"}
                            /\ cmd'[r].at # "sending" => cmd'[r].cfg.refresh = 1
                      /\ cmd'[r].persist => cmd'[r].cfg.refresh # 1
                      /\ cmd'[r].at \in {"posting", "answered", "saving"} /\ cmd'[r].persist
                            => lock' = r
    BY DEF CommandInv
  <2>1. CASE r = p
    <3>1. cmd'[r] = new
      BY <1>c, <2>1
    <3>2. minted' \in 1 .. minted' /\ minted' # 1 /\ new.cfg.refresh = minted'
      BY <1>a, <1>b, <1>e
    <3> QED BY <1>b, <3>1, <3>2
  <2>2. CASE r # p
    <3>1. /\ cmd'[r] = cmd[r] /\ lock' = lock
          /\ \A n \in 1 .. minted : n \in 1 .. minted'
      BY <1>a, <1>c, <1>e, <2>2
    <3>2. cmd[r].at = "answered" => cmd[r].answer.refresh <= minted'
      BY <1>e, <3>1, Holds DEF CommandInv
    <3> QED BY <3>1, <3>2, <2>2 DEF CommandInv
  <2> QED BY <2>1, <2>2
<1>4. LockInv'
  BY <1>a, <1>c, <1>d DEF LockInv, TypeInv
<1>5. TokenInv'
  <2>1. ASSUME NEW r \in Commands \ {p}, cmd[r].at # "idle"
        PROVE  /\ cmd[r].cfg.refresh # minted'
               /\ cmd[r].at = "answered" => cmd[r].answer.refresh # minted'
    BY <1>e, <2>1, Holds DEF CommandInv
  <2>2. file # NoFile => file.refresh # minted'
    BY <1>e DEF FileInv
  <2>3. new.cfg.refresh = minted' /\ minted' \in Good'
    BY <1>a, <1>b, <1>e
  <2> SUFFICES ASSUME NEW r \in Commands, cmd'[r].at # "idle", cmd'[r].persist
      PROVE  /\ cmd'[r].at = "waiting" /\ file' = NoFile => cmd'[r].cfg.refresh \in spoilt'
             /\ cmd'[r].at \in {"posting", "installing", "saving"}
                   => cmd'[r].cfg.refresh \in Good'
             /\ cmd'[r].at = "answered" =>
                   IF cmd'[r].answer.refresh = 0 THEN cmd'[r].cfg.refresh \in Good'
                   ELSE cmd'[r].answer.refresh \in Good' \ {1}
             /\ cmd'[r].at = "installing" =>
                   /\ file' # NoFile => file'.refresh # cmd'[r].cfg.refresh
                   /\ \A q1 \in Commands \ {r} : cmd'[q1].at # "idle" =>
                         /\ cmd'[q1].cfg.refresh # cmd'[r].cfg.refresh
                         /\ cmd'[q1].at = "answered"
                               => cmd'[q1].answer.refresh # cmd'[r].cfg.refresh
    BY DEF TokenInv
  <2>4. CASE r = p
    <3>1. cmd'[r] = new /\ new.at = "installing" /\ new.cfg.refresh = minted'
      BY <1>b, <1>c, <2>3, <2>4
    <3>2. ASSUME NEW q1 \in Commands \ {r}, cmd'[q1].at # "idle"
          PROVE  /\ cmd'[q1].cfg.refresh # minted'
                 /\ cmd'[q1].at = "answered" => cmd'[q1].answer.refresh # minted'
      <4>1. cmd'[q1] = cmd[q1]
        BY <1>c, <2>4, <3>2
      <4> QED BY <2>1, <2>4, <3>2, <4>1
    <3> QED BY <1>a, <2>2, <2>3, <3>1, <3>2
  <2>5. CASE r # p
    <3>1. cmd'[r] = cmd[r] /\ cmd[r].at # "idle" /\ cmd[r].persist
      BY <1>c, <2>5
    <3>2. cmd'[p] = new /\ new.at = "installing" /\ new.cfg.refresh # cmd[r].cfg.refresh
      BY <1>b, <1>c, <2>1, <2>3, <2>5, <3>1
    <3>3. ASSUME NEW q1 \in Commands \ {r}, cmd'[q1].at # "idle", cmd[r].at = "installing"
          PROVE  /\ cmd'[q1].cfg.refresh # cmd'[r].cfg.refresh
                 /\ cmd'[q1].at = "answered" => cmd'[q1].answer.refresh # cmd'[r].cfg.refresh
      <4>1. CASE q1 = p
        BY <3>1, <3>2, <3>3, <4>1
      <4>2. CASE q1 # p
        <5>1. cmd'[q1] = cmd[q1] /\ cmd[q1].at # "idle"
          BY <1>c, <3>3, <4>2
        <5>2. /\ cmd[q1].cfg.refresh # cmd[r].cfg.refresh
              /\ cmd[q1].at = "answered" => cmd[q1].answer.refresh # cmd[r].cfg.refresh
          BY <3>1, <3>3, <5>1 DEF TokenInv
        <5> QED BY <3>1, <5>1, <5>2
      <4> QED BY <4>1, <4>2
    <3>4. \A n \in Good : n \in Good'
      BY <1>e
    <3>5. spoilt' = spoilt /\ file' = file
      BY <1>a
    <3>6. /\ cmd[r].at = "waiting" /\ file = NoFile => cmd[r].cfg.refresh \in spoilt
          /\ cmd[r].at \in {"posting", "installing", "saving"} => cmd[r].cfg.refresh \in Good
          /\ cmd[r].at = "answered" =>
                IF cmd[r].answer.refresh = 0 THEN cmd[r].cfg.refresh \in Good
                ELSE cmd[r].answer.refresh \in Good \ {1}
          /\ cmd[r].at = "installing" /\ file # NoFile => file.refresh # cmd[r].cfg.refresh
      BY <3>1 DEF TokenInv
    <3> HIDE DEF new
    <3>7. cmd'[r].at = "answered" =>
             IF cmd'[r].answer.refresh = 0 THEN cmd'[r].cfg.refresh \in Good'
             ELSE cmd'[r].answer.refresh \in Good' \ {1}
      BY <3>1, <3>4, <3>6
    <3>8. /\ cmd'[r].at = "waiting" /\ file' = NoFile => cmd'[r].cfg.refresh \in spoilt'
          /\ cmd'[r].at \in {"posting", "installing", "saving"}
                => cmd'[r].cfg.refresh \in Good'
          /\ cmd'[r].at = "installing" /\ file' # NoFile
                => file'.refresh # cmd'[r].cfg.refresh
      BY <3>1, <3>4, <3>5, <3>6
    <3> QED BY <3>1, <3>3, <3>7, <3>8
  <2> QED BY <2>4, <2>5
<1> QED BY <1>1, <1>2, <1>3, <1>4, <1>5

(* A login that is installed can be refreshed. *)
LEMMA InstallInd ==
    ASSUME Ind, NEW p \in Commands, Install(p)
    PROVE  Ind'
<1> USE CredentialsAssumption DEF Ind
<1>a. /\ cmd[p].at = "installing" /\ lock = NoOne /\ file' = cmd[p].cfg
      /\ cmd' = [cmd EXCEPT ![p] = Idle] /\ UNCHANGED <<now, lock, minted, live, spoilt>>
  BY DEF Install, providerVars
<1>c. /\ cmd'[p].at = "idle" /\ \A q \in Commands \ {p} : cmd'[q] = cmd[q]
  BY <1>a DEF TypeInv, Idle
<1>d. /\ cmd[p].persist /\ cmd[p].cfg \in Logins /\ file' # NoFile
      /\ cmd[p].cfg.refresh \in 2 .. minted /\ cmd[p].cfg.refresh \in Good
  BY <1>a, Holds DEF CommandInv, TokenInv, TypeInv, Logins
<1>1. TypeInv'
  BY <1>a, <1>d DEF TypeInv, States
<1>2. FileInv'
  BY <1>1, <1>a, <1>c, <1>d, Holds DEF TypeInv, FileInv, CommandInv, LockInv, TokenInv,
       Good
<1>3. CommandInv'
  BY <1>1, <1>a, <1>c, <1>d, Holds DEF TypeInv, FileInv, CommandInv, LockInv, TokenInv,
       Good
<1>4. LockInv'
  BY <1>1, <1>a, <1>c, <1>d, Holds DEF TypeInv, FileInv, CommandInv, LockInv, TokenInv,
       Good
<1>5. TokenInv'
  BY <1>1, <1>a, <1>c, <1>d, Holds DEF TypeInv, FileInv, CommandInv, LockInv, TokenInv,
       Good
<1> QED BY <1>1, <1>2, <1>3, <1>4, <1>5

(* A command that stops loses at most the token it had redeemed. *)
LEMMA StopInd ==
    ASSUME Ind, NEW p \in Commands, Stop(p)
    PROVE  Ind'
<1> USE CredentialsAssumption DEF Ind
<1>a. /\ cmd[p].at # "idle" /\ cmd' = [cmd EXCEPT ![p] = Idle] /\ lock' = Unlocked(p)
      /\ spoilt' = spoilt \cup Wasted(p) /\ UNCHANGED <<now, file, minted, live>>
  BY DEF Stop
<1>c. /\ cmd'[p].at = "idle" /\ \A q \in Commands \ {p} : cmd'[q] = cmd[q]
  BY <1>a DEF TypeInv, Idle
<1>d. Wasted(p) \subseteq 1 .. minted
  BY <1>a DEF Wasted, CommandInv
<1>1. TypeInv'
  BY <1>a, <1>d DEF TypeInv, Unlocked, States
<1>2. FileInv'
  BY <1>1, <1>a, <1>c, <1>d, Holds DEF TypeInv, FileInv, CommandInv, LockInv, TokenInv,
       Good, Unlocked, Wasted
<1>3. CommandInv'
  BY <1>1, <1>a, <1>c, <1>d, Holds DEF TypeInv, FileInv, CommandInv, LockInv, TokenInv,
       Good, Unlocked, Wasted
<1>4. LockInv'
  BY <1>1, <1>a, <1>c, <1>d, Holds DEF TypeInv, FileInv, CommandInv, LockInv, TokenInv,
       Good, Unlocked, Wasted
<1>5. TokenInv'
  <2>1. Good \subseteq Good' /\ spoilt \subseteq spoilt' /\ file' = file
    BY <1>a DEF Good
  <2> QED BY <1>c, <2>1 DEF TokenInv
<1> QED BY <1>1, <1>2, <1>3, <1>4, <1>5

(* A session that ends elsewhere, and a file that is removed, are counted.   *)
LEMMA OutsideInd ==
    ASSUME Ind, (\E r \in live : Revoke(r)) \/ Remove \/ Tick \/ UNCHANGED vars
    PROVE  Ind'
<1> USE CredentialsAssumption DEF Ind
<1>1. ASSUME NEW r \in live, Revoke(r) PROVE Ind'
  <2>1. UNCHANGED <<now, file, lock, cmd, minted>> /\ Good' = Good
    BY <1>1 DEF Revoke, clientVars, Good
  <2>2. spoilt \subseteq spoilt' /\ TypeInv'
    BY <1>1, <2>1 DEF Revoke, TypeInv
  <2> QED BY <2>1, <2>2 DEF FileInv, CommandInv, LockInv, TokenInv
<1>2. CASE Remove
  <2>1. /\ UNCHANGED <<now, lock, cmd, minted, live>> /\ file' = NoFile
        /\ spoilt' = 1 .. minted
    BY <1>2 DEF Remove
  <2>2. Good \subseteq Good' /\ TypeInv'
    BY <2>1 DEF TypeInv, Good
  <2>3. TokenInv'
    BY <2>1, <2>2, Holds DEF TokenInv, CommandInv
  <2> QED BY <2>1, <2>2, <2>3 DEF FileInv, CommandInv, LockInv
<1>3. CASE Tick \/ UNCHANGED vars
  <2>1. /\ UNCHANGED <<file, lock, cmd, minted, live, spoilt>> /\ Good' = Good
        /\ now' \in Nat
    BY <1>3 DEF Tick, vars, clientVars, providerVars, Good, TypeInv
  <2> QED BY <2>1 DEF TypeInv, FileInv, CommandInv, LockInv, TokenInv
<1> QED BY <1>1, <1>2, <1>3

(* What the saved login, the lock, the commands and the provider agree on    *)
(* holds in every state, whatever the commands, profiles and tokens.        *)
THEOREM Inductive == Spec => []Ind
<1>1. ASSUME Ind, [Next]_vars PROVE Ind'
  <2>1. ASSUME NEW p \in Commands,
               \/ Start(p) \/ TakeLock(p) \/ LockTimeout(p) \/ Redeem(p) \/ Refused(p)
               \/ Apply(p) \/ Save(p) \/ Install(p) \/ Stop(p)
               \/ \E q \in Profiles : SignIn(p, q)
        PROVE  Ind'
    BY <1>1, <2>1, StartInd, TakeLockInd, LockTimeoutInd, RedeemInd, RefusedInd, ApplyInd,
       SaveInd, InstallInd, StopInd, SignInInd
  <2> QED BY <1>1, <2>1, OutsideInd DEF Next
<1> QED BY <1>1, InitInd, PTL DEF Spec

(* While no command refreshes, the saved login can be refreshed, unless its *)
(* session was ended elsewhere or an answer was lost (oidc.rs:340-404).     *)
THEOREM SavedLogin == Spec => []SavedLoginUsable
<1>1. Ind => SavedLoginUsable
  BY DEF Ind, FileInv, Good, SavedLoginUsable
<1> QED BY <1>1, Inductive, PTL

(* No command has to sign in again because another one refreshed first: the *)
(* file is read again under the lock (oidc.rs:351).                         *)
THEOREM NoNeedless == Spec => []NoNeedlessLogin
<1>1. Ind => NoNeedlessLogin
  BY DEF Ind, TokenInv, Good, NoNeedlessLogin
<1> QED BY <1>1, Inductive, PTL

(* A command never sends the token of a login for another server, though    *)
(* one replaced the file while it waited (oidc.rs:355).                     *)
THEOREM RightServer == Spec => []TokenForItsServer
<1>1. Ind => TokenForItsServer
  BY DEF Ind, CommandInv, TokenForItsServer
<1> QED BY <1>1, Inductive, PTL

----------------------------------------------------------------------------
(* The server's copy of the signing keys *)

\* auth.rs:260-261 has a ttl of 900 seconds and a cooldown of 5, auth.rs:338 a limit of 5.
Lengths ==
    /\ {KeyHorizon, FetchLimit} \subseteq Nat
    /\ Cooldown \in Nat \ {0} /\ Ttl \in Nat /\ Cooldown <= Ttl

----------------------------------------------------------------------------
(* The inductive invariant *)

Steps ==
    [at : {"done"}, key : Nat, accepted : BOOLEAN]
    \cup [at : {"lookup", "queued"}, key : Nat, force : BOOLEAN]
    \cup [at : {"fetching"}, key : Nat, force : BOOLEAN, since : Nat]
    \cup [at : {"served"}, key : Nat, force : BOOLEAN, since : Nat, keys : SUBSET Nat]

KeysTypeInv ==
    /\ clock \in 0 .. KeyHorizon
    /\ cached \in [keys : SUBSET Nat, at : Int] /\ cached.at <= clock
    /\ attempt \in Int /\ failed \in BOOLEAN
    /\ request \in [Requests -> Steps]

\* Keys are numbered as they are published; Never is after every withdrawal.
KeyInv ==
    /\ \E n \in Nat : DOMAIN keys = 1 .. n
    /\ \A k \in DOMAIN keys :
          /\ keys[k] = [from |-> keys[k].from, until |-> keys[k].until]
          /\ keys[k].from \in 0 .. clock
          /\ keys[k].until = Never \/ keys[k].until \in 0 .. clock

\* A set of keys the provider has served since an instant: all were still
\* published then, and of those published before and still, none is missing.
ServedSince(ks, since) ==
    /\ ks \subseteq DOMAIN keys
    /\ \A k \in ks : keys[k].until >= since
    /\ \A k \in DOMAIN keys : keys[k].until = Never => k \in ks \/ keys[k].from >= since

CopyInv ==
    /\ ServedSince(cached.keys, cached.at - FetchLimit)
    /\ ~failed => attempt = cached.at

RequestInv ==
    \A p \in Requests :
        /\ request[p].at \in {"fetching", "served"} =>
              /\ request[p].since <= clock /\ clock <= request[p].since + FetchLimit
        /\ request[p].at = "served" => ServedSince(request[p].keys, request[p].since)

Inv == KeysTypeInv /\ KeyInv /\ CopyInv /\ RequestInv

(* What a request in the server carries. *)
LEMMA Carries ==
    ASSUME KeysTypeInv, NEW p \in Requests, request[p].at # "done"
    PROVE  /\ request[p].key \in Nat /\ request[p].force \in BOOLEAN
           /\ request[p].at \in {"fetching", "served"} => request[p].since \in Nat
           /\ request[p].at = "served" => request[p].keys \in SUBSET Nat
           /\ request[p].at \in {"lookup", "queued"} =>
                 /\ [request[p] EXCEPT !.at = "queued"] \in Steps
                 /\ [request[p] EXCEPT !.at = "queued"].at = "queued"
BY DEF KeysTypeInv, Steps

(* An answer. *)
LEMMA DoneType ==
    ASSUME NEW k \in Nat, NEW ok \in BOOLEAN
    PROVE  Done(k, ok) \in Steps /\ Done(k, ok).at = "done"
           /\ Done(k, ok).key = k /\ Done(k, ok).accepted = ok
BY DEF Done, Steps

(* A question put by a token. *)
LEMMA AskingType ==
    ASSUME NEW k \in Nat, NEW force \in BOOLEAN
    PROVE  Asking(k, force) \in Steps /\ Asking(k, force).at = "lookup"
BY DEF Asking, Steps

(* A decision answers, or asks once more by force. *)
LEMMA DecidedType ==
    ASSUME KeysTypeInv, NEW p \in Requests, request[p].at # "done", NEW ks
    PROVE  /\ Decided(request[p], ks) \in Steps
           /\ Decided(request[p], ks).at \in {"done", "lookup"}
BY Carries, DoneType, AskingType DEF Decided

(* An answer from a set of keys: yes when the token's key is among them, no *)
(* only to a request that has already asked by force.                       *)
LEMMA DecidedAnswer ==
    ASSUME KeysTypeInv, NEW p \in Requests, request[p].at # "done", NEW ks,
           Decided(request[p], ks).at = "done"
    PROVE  /\ Decided(request[p], ks).key = request[p].key
           /\ Decided(request[p], ks).accepted <=> request[p].key \in ks
           /\ request[p].key \in ks \/ request[p].force
<1>1. CASE request[p].key \in ks
  BY <1>1, Carries, DoneType DEF Decided
<1>2. CASE request[p].key \notin ks
  <2>1. request[p].force
    BY <1>2, Carries, AskingType DEF Decided, Forces
  <2> QED BY <1>2, <2>1, Carries, DoneType DEF Decided, Forces
<1> QED BY <1>1, <1>2

(* The steps that decide nothing from a set of keys. *)
LEMMA OtherMoves ==
    ASSUME KeysTypeInv, NEW p \in Requests
    PROVE  /\ Serve(p) => request'[p].at = "served"
           /\ FetchFailed(p) => request'[p] = Done(request[p].key, FALSE) /\ failed'
           /\ Enter(p) /\ ~CachedWithin(Freshness(request[p].force)) /\ ~CoolingDown
                 => request'[p].at = "fetching"
<1> DEFINE served == [at |-> "served", key |-> request[p].key, force |-> request[p].force,
                      since |-> request[p].since, keys |-> Published]
           start == [at |-> "fetching", key |-> request[p].key,
                     force |-> request[p].force, since |-> clock]
<1>1. \A x : request' = [request EXCEPT ![p] = x] => request'[p] = x
  BY DEF KeysTypeInv
<1>2. served.at = "served" /\ start.at = "fetching"
  OBVIOUS
<1>3. Serve(p) => request' = [request EXCEPT ![p] = served]
  BY DEF Serve
<1>4. FetchFailed(p) => request' = [request EXCEPT ![p] = Done(request[p].key, FALSE)] /\ failed'
  BY DEF FetchFailed
<1>5. Enter(p) /\ ~CachedWithin(Freshness(request[p].force)) /\ ~CoolingDown
         => request' = [request EXCEPT ![p] = start]
  BY DEF Enter
<1> HIDE DEF served, start
<1> QED BY <1>1, <1>2, <1>3, <1>4, <1>5

(* At first the provider has one key and the server none. *)
LEMMA InitInv == Lengths /\ KeysInit => Inv
<1> SUFFICES ASSUME Lengths, KeysInit PROVE Inv
  OBVIOUS
<1>1. DOMAIN keys = 1 .. 1 /\ keys[1] = [from |-> 0, until |-> Never]
  BY DEF KeysInit
<1>2. \A p \in Requests : request[p] \in Steps /\ request[p].at = "done"
  BY DoneType DEF KeysInit
<1>3. Never \in Int /\ Never > FetchLimit
  BY DEF Never, Lengths
<1>4. cached = [keys |-> {}, at |-> -Never] /\ attempt = -Never /\ failed = FALSE /\ clock = 0
  BY DEF KeysInit, NoKeys
<1>5. KeysTypeInv
  <2>1. request \in [Requests -> Steps]
    BY DoneType DEF KeysInit
  <2>2. 0 \in 0 .. KeyHorizon /\ -Never \in Int /\ -Never <= 0
    BY <1>3 DEF Lengths
  <2> QED BY <1>4, <2>1, <2>2 DEF KeysTypeInv
<1>6. KeyInv
  BY <1>1, <1>4 DEF KeyInv
<1>7. CopyInv
  BY <1>1, <1>3, <1>4 DEF CopyInv, ServedSince, Lengths
<1> QED BY <1>2, <1>5, <1>6, <1>7 DEF Inv, RequestInv

(* The provider and the clock leave what was served as it is. *)
LEMMA ProviderStep ==
    ASSUME Lengths, Inv, PublishKey \/ \E k \in Kids : WithdrawKey(k)
    PROVE  Inv'
<1> USE DEF Inv
<1>1. UNCHANGED <<clock, cached, attempt, fetching, failed, request>>
  BY DEF PublishKey, WithdrawKey, copyVars
<1>2. KeysTypeInv'
  BY <1>1 DEF KeysTypeInv
<1>3. clock \in Nat /\ Never > clock /\ cached.at \in Int /\ cached.at - FetchLimit <= clock
  BY DEF KeysTypeInv, Lengths, Never
<1>4. /\ KeyInv'
      /\ DOMAIN keys \subseteq DOMAIN keys'
      /\ \A k \in DOMAIN keys :
            /\ keys'[k].from = keys[k].from
            /\ keys'[k].until = keys[k].until \/ keys'[k].until = clock
      /\ \A k \in DOMAIN keys' \ DOMAIN keys : keys'[k].from = clock
  <2>1. CASE PublishKey
    <3>1. PICK n \in Nat : DOMAIN keys = 1 .. n
      BY DEF KeyInv
    <3>2. Cardinality(DOMAIN keys) = n
      BY <3>1, FS_Interval
    <3>3. keys' = [k \in 1 .. n + 1 |->
                     IF k \in DOMAIN keys THEN keys[k] ELSE [from |-> clock, until |-> Never]]
      BY <2>1, <3>2 DEF PublishKey
    <3>4. DOMAIN keys' = 1 .. n + 1 /\ n + 1 \in Nat /\ DOMAIN keys \subseteq 1 .. n + 1
      BY <3>1, <3>3
    <3>5. \A k \in 1 .. n + 1 :
             keys'[k] = IF k \in DOMAIN keys THEN keys[k] ELSE [from |-> clock, until |-> Never]
      BY <3>3
    <3> QED BY <1>1, <1>3, <3>4, <3>5 DEF KeyInv
  <2>2. ASSUME NEW j \in Kids, WithdrawKey(j)
        PROVE  /\ KeyInv'
               /\ DOMAIN keys \subseteq DOMAIN keys'
               /\ \A k \in DOMAIN keys :
                     /\ keys'[k].from = keys[k].from
                     /\ keys'[k].until = keys[k].until \/ keys'[k].until = clock
               /\ \A k \in DOMAIN keys' \ DOMAIN keys : keys'[k].from = clock
    <3>1. keys' = [keys EXCEPT ![j].until = clock] /\ j \in DOMAIN keys
      BY <2>2 DEF WithdrawKey, Published
    <3>2. /\ DOMAIN keys' = DOMAIN keys
          /\ \A k \in DOMAIN keys : keys'[k] = IF k = j THEN [keys[j] EXCEPT !.until = clock]
                                               ELSE keys[k]
      BY <3>1
    <3>3. [keys[j] EXCEPT !.until = clock] = [from |-> keys[j].from, until |-> clock]
      BY <3>1 DEF KeyInv
    <3> QED BY <1>1, <1>3, <3>2, <3>3 DEF KeyInv
  <2> QED BY <2>1, <2>2
<1>5. ASSUME NEW ks, NEW since \in Int, since <= clock, ServedSince(ks, since)
      PROVE  ServedSince(ks, since)'
  BY <1>3, <1>4, <1>5 DEF ServedSince, KeyInv
<1>6. CopyInv'
  BY <1>1, <1>3, <1>5 DEF CopyInv, Lengths
<1>7. RequestInv'
  <2>1. ASSUME NEW p \in Requests, request[p].at = "served"
        PROVE  ServedSince(request[p].keys, request[p].since)'
    <3>1. request[p].since \in Nat /\ request[p].since <= clock
      BY <2>1, Carries DEF RequestInv
    <3>2. ServedSince(request[p].keys, request[p].since)
      BY <2>1 DEF RequestInv
    <3> QED BY <1>1, <1>5, <3>1, <3>2
  <2> QED BY <1>1, <2>1 DEF RequestInv
<1> QED BY <1>2, <1>4, <1>6, <1>7

(* Time passes, but not beyond the limit of a fetch that is under way. *)
LEMMA TickStep ==
    ASSUME Lengths, Inv, KeysTick
    PROVE  Inv'
<1>1. /\ clock' = clock + 1 /\ clock < KeyHorizon
      /\ UNCHANGED <<keys, cached, attempt, failed, request>>
  BY DEF KeysTick, copyVars
<1>2. \A p \in Requests : request[p].at \in {"fetching", "served"} =>
          request[p].since \in Nat /\ clock < request[p].since + FetchLimit
  BY Carries DEF KeysTick, Inv
<1>3. KeysTypeInv'
  BY <1>1 DEF Inv, KeysTypeInv, Lengths
<1>4. KeyInv'
  BY <1>1 DEF Inv, KeysTypeInv, KeyInv
<1>5. \A ks, since : ServedSince(ks, since)' <=> ServedSince(ks, since)
  BY <1>1 DEF ServedSince
<1>6. RequestInv'
  BY <1>1, <1>2, <1>5 DEF Inv, KeysTypeInv, RequestInv, Lengths
<1> QED BY <1>1, <1>3, <1>4, <1>5, <1>6 DEF Inv, CopyInv

(* A request that moves on without an answer from the provider. *)
LEMMA WaitingStep ==
    ASSUME Lengths, Inv, NEW p \in Requests, Present(p) \/ Lookup(p) \/ Enter(p)
    PROVE  Inv'
<1> USE DEF Inv
<1>1. UNCHANGED <<clock, keys, cached, attempt, failed>>
  BY DEF Present, Lookup, Enter, copyVars
<1>2. PICK r : /\ request' = [request EXCEPT ![p] = r]
               /\ r \in Steps /\ r.at # "served"
               /\ r.at = "fetching" => r.since = clock
  <2>1. CASE Present(p)
    <3>1. PICK k \in DOMAIN keys \cup {0} : request' = [request EXCEPT ![p] = Asking(k, FALSE)]
      BY <2>1 DEF Present
    <3>2. k \in Nat
      BY DEF KeyInv
    <3> QED BY <3>1, <3>2, AskingType
  <2>2. CASE Lookup(p)
    BY <2>2, Carries, DecidedType DEF Lookup
  <2>3. CASE Enter(p)
    <3> DEFINE start == [at |-> "fetching", key |-> request[p].key,
                         force |-> request[p].force, since |-> clock]
    <3>1. PICK r : /\ request' = [request EXCEPT ![p] = r]
                   /\ \/ r = Decided(request[p], cached.keys)
                      \/ r = Done(request[p].key, FALSE)
                      \/ r = start
      BY <2>3 DEF Enter
    <3>2. request[p].at = "queued"
      BY <2>3 DEF Enter
    <3>3. start \in Steps /\ start.at = "fetching" /\ start.since = clock
      BY <3>2, Carries DEF Steps, KeysTypeInv
    <3> HIDE DEF start
    <3>4. Decided(request[p], cached.keys) \in Steps
          /\ Decided(request[p], cached.keys).at \in {"done", "lookup"}
      BY <3>2, DecidedType
    <3>5. Done(request[p].key, FALSE) \in Steps /\ Done(request[p].key, FALSE).at = "done"
      BY <3>2, Carries, DoneType
    <3> QED BY <3>1, <3>3, <3>4, <3>5
  <2> QED BY <2>1, <2>2, <2>3
<1>3. \A ks, since : ServedSince(ks, since)' <=> ServedSince(ks, since)
  BY <1>1 DEF ServedSince
<1>4. KeysTypeInv' /\ KeyInv' /\ CopyInv'
  BY <1>1, <1>2, <1>3 DEF KeysTypeInv, KeyInv, CopyInv
<1>5. RequestInv'
  <2>1. ASSUME NEW q \in Requests
        PROVE  /\ request'[q].at \in {"fetching", "served"} =>
                     /\ request'[q].since <= clock /\ clock <= request'[q].since + FetchLimit
               /\ request'[q].at = "served" => ServedSince(request'[q].keys, request'[q].since)
    <3>1. request'[q] = IF q = p THEN r ELSE request[q]
      BY <1>2 DEF KeysTypeInv
    <3>2. clock <= clock /\ clock <= clock + FetchLimit
      BY DEF KeysTypeInv, Lengths
    <3>3. r.at # "served" /\ (r.at = "fetching" => r.since = clock)
      BY <1>2
    <3>4. CASE q = p
      BY <3>1, <3>2, <3>3, <3>4
    <3>5. CASE q # p
      BY <3>1, <3>5 DEF RequestInv
    <3> QED BY <3>4, <3>5
  <2> QED BY <1>1, <1>3, <2>1 DEF RequestInv
<1> QED BY <1>4, <1>5

(* The provider serves what it has: nothing published before is missing.    *)
LEMMA ServeStep ==
    ASSUME Lengths, Inv, NEW p \in Requests, Serve(p)
    PROVE  Inv'
<1> USE DEF Inv
<1> DEFINE r == [at |-> "served", key |-> request[p].key, force |-> request[p].force,
                 since |-> request[p].since, keys |-> Published]
<1>1. /\ request' = [request EXCEPT ![p] = r] /\ request[p].at = "fetching"
      /\ UNCHANGED <<clock, keys, cached, attempt, failed>>
  BY DEF Serve, copyVars
<1>2. Published \in SUBSET Nat
  BY DEF Published, KeyInv
<1>3. r \in Steps /\ r.at = "served" /\ r.since = request[p].since /\ r.keys = Published
  BY <1>1, <1>2, Carries DEF Steps
<1>4. ServedSince(Published, request[p].since)
  <2>1. request[p].since \in Nat /\ request[p].since <= clock
    BY <1>1, Carries DEF RequestInv
  <2>2. Never > clock
    BY DEF KeysTypeInv, Lengths, Never
  <2>3. clock \in Nat /\ Never \in Int
    BY DEF KeysTypeInv, Lengths, Never
  <2> QED BY <2>1, <2>2, <2>3 DEF ServedSince, Published
<1> HIDE DEF r
<1>5. \A ks, since : ServedSince(ks, since)' <=> ServedSince(ks, since)
  BY <1>1 DEF ServedSince
<1>6. KeysTypeInv' /\ KeyInv' /\ CopyInv'
  BY <1>1, <1>3, <1>5 DEF KeysTypeInv, KeyInv, CopyInv
<1>7. \A q \in Requests : request'[q] = IF q = p THEN r ELSE request[q]
  BY <1>1 DEF KeysTypeInv
<1>8. RequestInv'
  BY <1>1, <1>3, <1>4, <1>5, <1>7 DEF RequestInv
<1> QED BY <1>6, <1>8

(* An answer becomes the copy, an error leaves it alone. *)
LEMMA AnswerStep ==
    ASSUME Lengths, Inv, NEW p \in Requests, Fetched(p) \/ FetchFailed(p)
    PROVE  Inv'
<1> USE DEF Inv
<1>1. PICK r : /\ request' = [request EXCEPT ![p] = r]
               /\ r \in Steps /\ r.at \in {"done", "lookup"}
  <2>1. request[p].at # "done" /\ request[p].key \in Nat
    BY Carries DEF Fetched, FetchFailed
  <2>2. /\ Decided(request[p], request[p].keys) \in Steps
        /\ Decided(request[p], request[p].keys).at \in {"done", "lookup"}
    BY <2>1, DecidedType
  <2>3. Done(request[p].key, FALSE) \in Steps /\ Done(request[p].key, FALSE).at = "done"
    BY <2>1, DoneType
  <2>4. \/ request' = [request EXCEPT ![p] = Decided(request[p], request[p].keys)]
        \/ request' = [request EXCEPT ![p] = Done(request[p].key, FALSE)]
    BY DEF Fetched, FetchFailed
  <2> QED BY <2>2, <2>3, <2>4
<1>2. UNCHANGED <<clock, keys>> /\ attempt' = clock
  BY DEF Fetched, FetchFailed
<1>3. \A ks, since : ServedSince(ks, since)' <=> ServedSince(ks, since)
  BY <1>2 DEF ServedSince
<1>4. \A q \in Requests : request'[q] = IF q = p THEN r ELSE request[q]
  BY <1>1 DEF KeysTypeInv
<1>5. RequestInv' /\ KeyInv'
  BY <1>1, <1>2, <1>3, <1>4 DEF RequestInv, KeyInv
<1>6. CASE Fetched(p)
  <2>1. /\ request[p].at = "served" /\ cached' = [keys |-> request[p].keys, at |-> clock]
        /\ failed' = FALSE
    BY <1>6 DEF Fetched
  <2>2. /\ request[p].since \in Nat /\ request[p].keys \in SUBSET Nat
        /\ clock <= request[p].since + FetchLimit
        /\ ServedSince(request[p].keys, request[p].since)
    BY <2>1, Carries DEF RequestInv
  <2>3. clock \in Nat /\ clock - FetchLimit <= request[p].since /\ clock - FetchLimit \in Int
    BY <2>2 DEF KeysTypeInv, Lengths
  <2>4. \A k \in DOMAIN keys : keys[k].until \in Int /\ keys[k].from \in Int
    BY DEF KeyInv, Never, Lengths
  <2>5. ServedSince(request[p].keys, clock - FetchLimit)
    BY <2>2, <2>3, <2>4 DEF ServedSince
  <2>6. CopyInv'
    BY <1>2, <1>3, <2>1, <2>5 DEF CopyInv
  <2>7. KeysTypeInv'
    <3>1. request' \in [Requests -> Steps]
      BY <1>1 DEF KeysTypeInv
    <3>2. cached' \in [keys : SUBSET Nat, at : Int] /\ cached'.at <= clock
      BY <2>1, <2>2, <2>3
    <3> QED BY <1>2, <2>1, <2>3, <3>1, <3>2 DEF KeysTypeInv
  <2> QED BY <1>5, <2>6, <2>7
<1>7. CASE FetchFailed(p)
  <2>1. cached' = cached /\ failed' = TRUE
    BY <1>7 DEF FetchFailed
  <2>2. KeysTypeInv' /\ CopyInv'
    BY <1>1, <1>2, <1>3, <2>1 DEF KeysTypeInv, CopyInv
  <2> QED BY <1>5, <2>2
<1> QED BY <1>6, <1>7

(* Every step keeps the invariant. *)
LEMMA InvStep == Lengths /\ Inv /\ [KeysNext]_keysVars => Inv'
<1> SUFFICES ASSUME Lengths, Inv, [KeysNext]_keysVars PROVE Inv'
  OBVIOUS
<1>1. CASE UNCHANGED keysVars
  <2>1. UNCHANGED <<clock, keys, cached, attempt, failed, request>>
    BY <1>1 DEF keysVars
  <2> QED BY <2>1 DEF Inv, KeysTypeInv, KeyInv, CopyInv, RequestInv, ServedSince
<1> QED BY <1>1, ProviderStep, TickStep, WaitingStep, ServeStep, AnswerStep DEF KeysNext, Handle

(* What the copy and the answers on their way can and cannot hold. *)
THEOREM CopyTells ==
    ASSUME Lengths
    PROVE  KeysSpec => []Inv
BY InitInv, InvStep, PTL DEF KeysSpec

----------------------------------------------------------------------------
(* The properties *)

(* Nobody is let in with a key that was withdrawn longer ago than a copy    *)
(* lives and a fetch takes (auth.rs:259-300).                               *)
THEOREM Withdrawn ==
    ASSUME Lengths
    PROVE  KeysSpec => WithdrawnKeyEnds
<1> DEFINE Ends == \A p \in Requests :
        (Settled(p) /\ request'[p].accepted)
        => clock < keys[request'[p].key].until + Ttl + FetchLimit
<1>1. ASSUME Inv, KeysNext PROVE Ends
  <2> SUFFICES ASSUME NEW p \in Requests, Settled(p), request'[p].accepted
               PROVE  clock < keys[request'[p].key].until + Ttl + FetchLimit
    OBVIOUS
  <2>1. request[p].at # "done" /\ request'[p].at = "done" /\ request[p].key \in Nat
    BY <1>1, Carries DEF Settled, Inv
  <2>2. ASSUME NEW ks, request'[p] = Decided(request[p], ks)
        PROVE  request[p].key \in ks /\ request'[p].key = request[p].key
    BY <1>1, <2>1, <2>2, DecidedAnswer DEF Inv
  <2>3. /\ cached.at \in Int /\ clock \in Nat /\ Cooldown <= Ttl /\ Ttl \in Nat \ {0}
        /\ Cooldown \in Nat /\ FetchLimit \in Nat
    BY <1>1 DEF Inv, KeysTypeInv, Lengths
  <2>4. \A k \in DOMAIN keys : keys[k].until \in Int
    BY <1>1, <2>3 DEF Inv, KeyInv, Never, Lengths
  <2>5. ASSUME request'[p] = Decided(request[p], cached.keys),
               CachedWithin(Ttl) \/ CachedWithin(Cooldown)
        PROVE  clock < keys[request'[p].key].until + Ttl + FetchLimit
    <3>1. request[p].key \in cached.keys /\ request'[p].key = request[p].key
      BY <2>2, <2>5
    <3>2. keys[request[p].key].until >= cached.at - FetchLimit
          /\ keys[request[p].key].until \in Int
      BY <1>1, <2>4, <3>1 DEF Inv, CopyInv, ServedSince
    <3>3. clock - cached.at < Ttl
      BY <2>3, <2>5 DEF CachedWithin
    <3> QED BY <2>3, <3>1, <3>2, <3>3
  <2>6. ASSUME NEW q \in Requests, Present(q) \/ Lookup(q) \/ Enter(q) \/ Serve(q) \/ Fetched(q)
                                   \/ FetchFailed(q)
        PROVE  q = p
    BY <1>1, <2>1, <2>6 DEF Present, Lookup, Enter, Serve, Fetched, FetchFailed, Inv, KeysTypeInv
  <2>7. CASE Lookup(p)
    BY <1>1, <2>1, <2>5, <2>7 DEF Lookup, Freshness, Inv, KeysTypeInv
  <2>8. CASE Enter(p)
    <3>1. \/ /\ CachedWithin(Freshness(request[p].force)) \/ CachedWithin(Ttl)
             /\ request'[p] = Decided(request[p], cached.keys)
          \/ request'[p] = Done(request[p].key, FALSE)
          \/ request'[p].at = "fetching"
      <4>1. \A x : request' = [request EXCEPT ![p] = x] => request'[p] = x
        BY <1>1 DEF Inv, KeysTypeInv
      <4>2. CASE CachedWithin(Freshness(request[p].force))
        BY <2>8, <4>1, <4>2 DEF Enter
      <4>3. CASE ~CachedWithin(Freshness(request[p].force)) /\ CoolingDown
        BY <2>8, <4>1, <4>3 DEF Enter
      <4>4. CASE ~CachedWithin(Freshness(request[p].force)) /\ ~CoolingDown
        BY <1>1, <2>8, <4>4, OtherMoves DEF Inv
      <4> QED BY <4>2, <4>3, <4>4
    <3>2. request'[p] # Done(request[p].key, FALSE)
      BY <2>1, DoneType
    <3> QED BY <2>1, <2>5, <3>1, <3>2 DEF Freshness
  <2>9. CASE Fetched(p)
    <3>1. request'[p] = Decided(request[p], request[p].keys) /\ request[p].at = "served"
      BY <1>1, <2>9 DEF Fetched, Inv, KeysTypeInv
    <3>2. request[p].key \in request[p].keys /\ request'[p].key = request[p].key
      BY <2>2, <3>1
    <3>3. /\ keys[request[p].key].until >= request[p].since
          /\ clock <= request[p].since + FetchLimit /\ request[p].since \in Nat
          /\ keys[request[p].key].until \in Int
      BY <1>1, <2>4, <3>1, <3>2, Carries DEF Inv, RequestInv, ServedSince
    <3> QED BY <2>3, <3>2, <3>3
  <2>10. CASE Present(p) \/ Serve(p) \/ FetchFailed(p)
    <3>1. \/ request[p].at = "done" \/ request'[p].at = "served"
          \/ request'[p] = Done(request[p].key, FALSE)
      BY <1>1, <2>10, OtherMoves DEF Present, Inv
    <3> QED BY <2>1, <3>1, DoneType
  <2>11. CASE KeysTick \/ PublishKey \/ \E k \in Kids : WithdrawKey(k)
    BY <2>1, <2>11 DEF KeysTick, PublishKey, WithdrawKey
  <2> QED BY <1>1, <2>6, <2>7, <2>8, <2>9, <2>10, <2>11 DEF KeysNext, Handle
<1>2. Inv /\ [KeysNext]_keysVars => [Ends]_keysVars
  BY <1>1
<1> QED BY <1>2, CopyTells, PTL DEF KeysSpec, WithdrawnKeyEnds

(* A token of a key published for longer than the cooldown and a slow fetch *)
(* is refused only when the last attempt to fetch failed (auth.rs:196).     *)
THEOREM NewKey ==
    ASSUME Lengths
    PROVE  KeysSpec => NewKeySeen
<1> DEFINE Seen == \A p \in Requests :
        LET k == request'[p].key
        IN  (/\ Settled(p) /\ k \in Published /\ ~failed'
             /\ keys[k].from + Cooldown + FetchLimit <= clock)
            => request'[p].accepted
<1>1. ASSUME Inv, KeysNext PROVE Seen
  <2> SUFFICES ASSUME NEW p \in Requests, Settled(p), request'[p].key \in Published, ~failed',
                      keys[request'[p].key].from + Cooldown + FetchLimit <= clock,
                      ~request'[p].accepted
               PROVE  FALSE
    OBVIOUS
  <2> DEFINE k == request'[p].key
  <2>1. request[p].at # "done" /\ request'[p].at = "done"
    BY DEF Settled
  <2>2. /\ cached.at \in Int /\ clock \in Nat /\ attempt \in Int
        /\ Cooldown \in Nat \ {0} /\ FetchLimit \in Nat /\ Ttl \in Nat /\ Cooldown <= Ttl
    BY <1>1 DEF Inv, KeysTypeInv, Lengths
  <2>3. /\ k \in DOMAIN keys /\ keys[k].until = Never
        /\ keys[k].from \in Nat /\ keys[k].from + Cooldown + FetchLimit <= clock
    BY <1>1 DEF Published, Inv, KeyInv
  <2>4. \A x : request' = [request EXCEPT ![p] = x] => request'[p] = x
    BY <1>1 DEF Inv, KeysTypeInv
  <2>5. ASSUME NEW ks, request'[p] = Decided(request[p], ks)
        PROVE  k \notin ks /\ request[p].force
    BY <1>1, <2>1, <2>5, DecidedAnswer DEF Inv
  <2> HIDE DEF k
  <2>6. ~CachedWithin(Cooldown) \/ request'[p] # Decided(request[p], cached.keys)
    <3> SUFFICES ASSUME CachedWithin(Cooldown), request'[p] = Decided(request[p], cached.keys)
                 PROVE  FALSE
      OBVIOUS
    <3>1. keys[k].from >= cached.at - FetchLimit
      BY <1>1, <2>3, <2>5 DEF Inv, CopyInv, ServedSince
    <3> QED BY <2>2, <2>3, <3>1 DEF CachedWithin
  <2>7. ASSUME NEW q \in Requests, Present(q) \/ Lookup(q) \/ Enter(q) \/ Serve(q) \/ Fetched(q)
                                   \/ FetchFailed(q)
        PROVE  q = p
    BY <1>1, <2>1, <2>7 DEF Present, Lookup, Enter, Serve, Fetched, FetchFailed, Inv, KeysTypeInv
  <2>8. CASE Lookup(p)
    <3>1. request[p].at = "lookup"
      BY <2>8 DEF Lookup
    <3>2. CASE CachedWithin(Freshness(request[p].force))
      <4>1. request'[p] = Decided(request[p], cached.keys)
        BY <2>4, <2>8, <3>2 DEF Lookup
      <4> QED BY <2>5, <2>6, <3>2, <4>1 DEF Freshness
    <3>3. CASE ~CachedWithin(Freshness(request[p].force))
      <4>1. request'[p] = [request[p] EXCEPT !.at = "queued"]
        BY <2>4, <2>8, <3>3 DEF Lookup
      <4> QED BY <1>1, <2>1, <3>1, <4>1, Carries DEF Inv
    <3> QED BY <3>2, <3>3
  <2>9. CASE Enter(p)
    <3>1. CASE CachedWithin(Freshness(request[p].force))
      <4>1. request'[p] = Decided(request[p], cached.keys)
        BY <2>4, <2>9, <3>1 DEF Enter
      <4> QED BY <2>5, <2>6, <3>1, <4>1 DEF Freshness
    <3>2. CASE ~CachedWithin(Freshness(request[p].force)) /\ CoolingDown
      <4>1. attempt = cached.at
        BY <1>1, <2>9 DEF Enter, Inv, CopyInv
      <4>2. CachedWithin(Cooldown) /\ CachedWithin(Ttl)
        BY <2>2, <3>2, <4>1 DEF CoolingDown, CachedWithin
      <4> QED BY <3>2, <4>2 DEF Freshness
    <3>3. CASE ~CachedWithin(Freshness(request[p].force)) /\ ~CoolingDown
      BY <1>1, <2>1, <2>9, <3>3, OtherMoves DEF Inv
    <3> QED BY <3>1, <3>2, <3>3
  <2>10. CASE Fetched(p)
    <3>1. request'[p] = Decided(request[p], request[p].keys) /\ request[p].at = "served"
      BY <2>4, <2>10 DEF Fetched
    <3>2. /\ keys[k].from >= request[p].since
          /\ clock <= request[p].since + FetchLimit /\ request[p].since \in Nat
      BY <1>1, <2>3, <2>5, <3>1, Carries DEF Inv, RequestInv, ServedSince
    <3> QED BY <2>2, <2>3, <3>2
  <2>11. CASE Present(p) \/ Serve(p) \/ FetchFailed(p)
    BY <1>1, <2>1, <2>11, OtherMoves DEF Present, Inv
  <2>12. CASE KeysTick \/ PublishKey \/ \E j \in Kids : WithdrawKey(j)
    BY <2>1, <2>12 DEF KeysTick, PublishKey, WithdrawKey
  <2> QED BY <1>1, <2>7, <2>8, <2>9, <2>10, <2>11, <2>12 DEF KeysNext, Handle
<1>2. Inv /\ [KeysNext]_keysVars => [Seen]_keysVars
  BY <1>1
<1> QED BY <1>2, CopyTells, PTL DEF KeysSpec, NewKeySeen
=============================================================================
