------------------------------- MODULE MCWeb -------------------------------
(***************************************************************************)
(* The web UI's state for TLC: sessions, signing in and the configuration, *)
(* one of the three at work in a behaviour.  They share the clock and the  *)
(* budget of faults.                                                       *)
(***************************************************************************)
EXTENDS Sessions, Sequences, TLC

CONSTANTS
  Ips, Codes, Links, NoIp, MaxFailed, OtpTtl, Lockout, MaxGuesses,   \* SignIn
  ConfigProcs, Handlers, DefaultHours, MaxSaves                     \* Configuration

VARIABLES
  part,
  failed, verified, otps, links, know, current, login, otpOn, guesses,
  fromDB, env, home, up, mem, stored, job, saves, rough, roughRow, torn, acked

signInVars == <<failed, verified, otps, links, know, current, login, otpOn, guesses>>
configVars == <<fromDB, env, home, up, mem, stored, job, saves, rough, roughRow, torn, acked>>
sessionVars == <<row, legacy, cache, look, out, issued, dead>>

SI == INSTANCE SignIn
CF == INSTANCE Configuration WITH Procs <- ConfigProcs

\* Addresses are alike, and so are the processes that share the sessions.
Alike == Permutations(Ips) \cup Permutations(Procs)

WebInit ==
  /\ Init /\ SI!Init /\ CF!Init
  /\ part \in {"sessions", "signin", "config"}
  /\ part # "signin" => otpOn
  /\ part # "config" => fromDB /\ env = CF!NoRows /\ stored = CF!NoRows

WebNext ==
  /\ UNCHANGED part
  /\ \/ part = "sessions" /\ Next /\ UNCHANGED <<signInVars, configVars>>
     \/ part = "signin" /\ SI!Next /\ UNCHANGED <<sessionVars, configVars>>
     \/ part = "config" /\ CF!Next /\ UNCHANGED <<sessionVars, signInVars, now>>

WebSpec == WebInit /\ [][WebNext]_<<part, vars, signInVars, configVars>>

\* Every variable of the three has its type.
WebTypeOK == TypeOK /\ SI!TypeOK /\ CF!TypeOK

\* An address gets at most MaxFailed wrong guesses before it has to wait.  (AuthManager)
GuessesBounded == SI!GuessesBounded

\* A new password works in every process that can read it.  (handleLogin)
NewPasswordWorks == SI!NewPasswordWorks

\* What was reported as saved is what the next start finds.  (persistConfig)
AckedSurvives == CF!AckedSurvives

\* A process can start again from what the form has saved.  (handleSaveConfig)
StartsAgain == CF!StartsAgain
============================================================================
