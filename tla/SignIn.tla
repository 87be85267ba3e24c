------------------------------- MODULE SignIn -------------------------------
(***************************************************************************)
(* Signing in to the web UI, in one process: AuthManager's lockouts, codes *)
(* and one-time links (internal/web/auth.go) and the handlers that use     *)
(* them (api_auth.go).  Every call holds AuthManager.mu and is one step;   *)
(* handleLogin is two where it asks the database for a newer password.     *)
(* Other processes matter only through that password.  The sessions that   *)
(* a success leads to are in Sessions.                                     *)
(***************************************************************************)
EXTENDS Integers, Sequences

CONSTANTS
  Ips, Codes, Links, NoIp,
  MaxFailed,      \* maxFailedAttempts (5)
  OtpTtl,         \* otpExpiry and modLoginExpiry (5 min)
  Lockout,        \* lockoutDuration (15 min)
  MaxTime, MaxFaults, MaxGuesses

VARIABLES
  failed,    \* AuthManager.failedAttempts
  verified,  \* AuthManager.passwordVerified: until when
  otps,      \* AuthManager.pendingOTPs: until when, 0 for a code that is not pending
  links,     \* AuthManager.pendingModLogins
  know,      \* the password in this process's configuration
  current,   \* the password in the table config_values
  login,     \* the password a handleLogin is about to try again
  otpOn,     \* whether a code can be sent to the super-admin
  now, faults,
  guesses    \* history: when the wrong guesses of an address since its last success were made

vars == <<failed, verified, otps, links, know, current, login, otpOn, now, faults, guesses>>

Times == 0 .. MaxTime + OtpTtl
NoFailure == [count |-> 0, at |-> 0]
NoLink == [until |-> 0, attempts |-> 0]
Passwords == {"first", "second"}
NoLogin == [ip |-> NoIp, word |-> "none", had |-> "first"]

Init ==
  /\ failed = [i \in Ips |-> NoFailure]
  /\ verified = [i \in Ips |-> 0]
  /\ otps = [c \in Codes |-> 0]
  /\ links = [l \in Links |-> NoLink]
  /\ know = "first" /\ current = "first" /\ login = NoLogin
  /\ otpOn \in BOOLEAN
  /\ now = 1 /\ faults = 0
  /\ guesses = [i \in Ips |-> <<>>]

---------------------------------------------------------------------------
(* Lockout and failed attempts.                                            *)

\* The plausible slip: the lockout is a tick too short.
CheckLockoutShort(f) ==
  IF f.count < MaxFailed THEN [locked |-> FALSE, left |-> f]
  ELSE IF now - f.at < Lockout - 1 THEN [locked |-> TRUE, left |-> f]
  ELSE [locked |-> FALSE, left |-> NoFailure]

\* checkLockout: what is left of the failures of an address, and whether it is locked out.
CheckLockout(f) ==
  IF f.count < MaxFailed THEN [locked |-> FALSE, left |-> f]
  ELSE IF now - f.at < Lockout THEN [locked |-> TRUE, left |-> f]
  ELSE [locked |-> FALSE, left |-> NoFailure]

\* recordFailure: the attempt that reaches the limit starts the lockout ...
Counted(f) == [count |-> f.count + 1, at |-> IF f.count + 1 >= MaxFailed THEN now ELSE f.at]

\* ... and throws away every pending code of the process, whoever asked for it.
Fail(i, f) ==
  /\ failed' = [failed EXCEPT ![i] = Counted(f)]
  /\ otps' = IF f.count + 1 >= MaxFailed THEN [c \in Codes |-> 0] ELSE otps
  /\ Len(guesses[i]) < MaxGuesses
  /\ guesses' = [guesses EXCEPT ![i] = Append(@, now)]

Succeed(i) ==
  /\ failed' = [failed EXCEPT ![i] = NoFailure]
  /\ guesses' = [guesses EXCEPT ![i] = <<>>]

---------------------------------------------------------------------------
(* Passwords and codes.                                                    *)

\* GenerateOTP: prunes what has expired, adds a code.  Whether Telegram delivers it changes
\* nothing here: a code that could not be sent stays pending.
GenerateOTP ==
  LET kept == [c \in Codes |-> IF otps[c] > now THEN otps[c] ELSE 0]
  IN \E c \in {d \in Codes : kept[d] = 0} : otps' = [kept EXCEPT ![c] = now + OtpTtl]

\* ValidatePassword accepts, and handleLogin makes a session or sends a code.
Accept(i) ==
  /\ Succeed(i)
  /\ verified' = [verified EXCEPT ![i] = now + OtpTtl]
  /\ IF otpOn THEN GenerateOTP ELSE UNCHANGED otps

\* handleLogin with a password: one that the process refuses is a failure, after which a
\* process with a remote database reads the password again.
LoginPassword(i, word) ==
  /\ login = NoLogin
  /\ LET f == CheckLockout(failed[i])
     IN /\ ~f.locked
        /\ \/ word = know /\ Accept(i) /\ UNCHANGED login
           \/ /\ word # know
              /\ Fail(i, f.left)
              /\ login' = [ip |-> i, word |-> word, had |-> know]
              /\ UNCHANGED verified
  /\ UNCHANGED <<links, know, current, otpOn, now, faults>>

RereadMemory == login.had
\* The password by which the input is judged a second time, if it is not the same one.
Reread == current

\* handleLogin, second try: the password of the table is taken over by the process, and the
\* same input judged by it.  The read may fail.
LoginAgain ==
  /\ login # NoLogin
  /\ login' = NoLogin
  /\ LET i == login.ip
         f == CheckLockout(failed[i])
     IN \/ /\ Reread # login.had
           /\ know' = Reread
           /\ \/ f.locked /\ UNCHANGED <<failed, guesses, verified, otps>>
              \/ ~f.locked /\ login.word = Reread /\ Accept(i)
              \/ ~f.locked /\ login.word # Reread /\ Fail(i, f.left) /\ UNCHANGED verified
           /\ UNCHANGED faults
        \/ /\ Reread = login.had
           /\ UNCHANGED <<know, failed, guesses, verified, otps, faults>>
        \/ /\ faults < MaxFaults /\ faults' = faults + 1
           /\ UNCHANGED <<know, failed, guesses, verified, otps>>
  /\ UNCHANGED <<links, current, otpOn, now>>

\* handleLogin with a code, ValidateOTP: needs the password step of the same address; a used
\* code is gone.
LoginCode(i) ==
  LET f == CheckLockout(failed[i])
  IN /\ ~f.locked /\ verified[i] >= now
     /\ \/ /\ \E c \in Codes : otps[c] > now /\ otps' = [otps EXCEPT ![c] = 0]
           /\ Succeed(i)
           /\ verified' = [verified EXCEPT ![i] = 0]
        \/ Fail(i, f.left) /\ UNCHANGED verified
     /\ UNCHANGED <<links, know, current, login, otpOn, now, faults>>

---------------------------------------------------------------------------
(* One-time links of moderators.                                           *)

\* CreateModeratorLogin: prunes what has expired, adds a link with its code.
CreateModeratorLogin(l) ==
  /\ links[l].until <= now
  /\ links' = [k \in Links |-> IF k = l THEN [until |-> now + OtpTtl, attempts |-> 0]
                               ELSE IF links[k].until > now THEN links[k] ELSE NoLink]
  /\ UNCHANGED <<failed, verified, otps, know, current, login, otpOn, now, faults, guesses>>

\* What is left of a link after a wrong code.
Burnt(e) == IF e.attempts + 1 >= MaxFailed THEN NoLink ELSE [e EXCEPT !.attempts = @ + 1]

\* ValidateModeratorLogin: link and code together.  A wrong code burns the link; a link that
\* is unknown or expired is a failure of the address only.
ModeratorLogin(i, l) ==
  LET f == CheckLockout(failed[i])
      live == links[l].until >= now
  IN /\ ~f.locked
     /\ \/ /\ live
           /\ links' = [links EXCEPT ![l] = NoLink]
           /\ Succeed(i)
           /\ UNCHANGED otps
        \/ /\ links' = [links EXCEPT ![l] = IF live THEN Burnt(@) ELSE @]
           /\ Fail(i, f.left)
     /\ UNCHANGED <<verified, know, current, login, otpOn, now, faults>>

---------------------------------------------------------------------------

\* The password is changed, here or by another process: here means in memory and in the table.
ChangePassword(here) ==
  /\ current = "first"
  /\ current' = "second" /\ know' = IF here THEN "second" ELSE know
  /\ UNCHANGED <<failed, verified, otps, links, login, otpOn, now, faults, guesses>>

\* The process starts again; its configuration is read from the table.
Restart ==
  /\ faults < MaxFaults /\ faults' = faults + 1
  /\ failed' = [i \in Ips |-> NoFailure]
  /\ verified' = [i \in Ips |-> 0]
  /\ otps' = [c \in Codes |-> 0]
  /\ links' = [l \in Links |-> NoLink]
  /\ login' = NoLogin /\ know' = current
  /\ guesses' = [i \in Ips |-> <<>>]
  /\ UNCHANGED <<current, otpOn, now>>

Tick ==
  /\ now < MaxTime /\ now' = now + 1
  /\ UNCHANGED <<failed, verified, otps, links, know, current, login, otpOn, faults, guesses>>

Next ==
  \/ \E i \in Ips :
       \/ \E word \in Passwords \cup {"wrong"} : LoginPassword(i, word)
       \/ LoginCode(i)
       \/ \E l \in Links : ModeratorLogin(i, l)
  \/ \E l \in Links : CreateModeratorLogin(l)
  \/ LoginAgain
  \/ \E here \in BOOLEAN : ChangePassword(here)
  \/ Restart
  \/ Tick

Spec == Init /\ [][Next]_vars

---------------------------------------------------------------------------
(* Properties.                                                             *)

\* Every variable has its type: no failure is counted past the limit.
TypeOK ==
  /\ failed \in [Ips -> [count : 0 .. MaxFailed, at : Times]]
  /\ verified \in [Ips -> Times]
  /\ otps \in [Codes -> Times]
  /\ links \in [Links -> [until : Times, attempts : 0 .. MaxFailed - 1]]
  /\ know \in Passwords /\ current \in Passwords
  /\ login \in [ip : Ips \cup {NoIp}, word : Passwords \cup {"none", "wrong"}, had : Passwords]
  /\ otpOn \in BOOLEAN /\ now \in Times /\ faults \in Nat
  /\ guesses \in [Ips -> Seq(Times)]

\* However passwords, codes and links are mixed, an address gets at most MaxFailed wrong
\* guesses at a process before it has to wait for Lockout; only a success starts the count
\* anew.  (checkLockout, recordFailure)
GuessesBounded ==
  \A i \in Ips : \A k \in 1 .. Len(guesses[i]) - MaxFailed :
    guesses[i][k + MaxFailed] - guesses[i][k] >= Lockout

\* The password that is in the table works in every process, also in one that has not heard
\* of it: unless the read fails, or the failure that was counted before the read was the last
\* one the address had.  (handleLogin's second try)
NewPasswordWorks ==
  [][(/\ login # NoLogin /\ login' = NoLogin /\ faults' = faults
      /\ login.word = current /\ failed[login.ip].count < MaxFailed)
        => know' = current /\ failed'[login.ip].count = 0]_vars
============================================================================
