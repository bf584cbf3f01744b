---------------------------- MODULE DeviceLogin ----------------------------
(***************************************************************************)
(* `syns login` and `syns logout` (src/auth/device.rs, src/auth/token.rs,  *)
(* src/commands/login.rs, logout.rs): the device authorization polled      *)
(* until its deadline, and the credentials file several of them share.     *)
(*                                                                         *)
(* Time is counted in units of five seconds.  A token is the login it was  *)
(* issued to, which also stands for the account that approved it.  The     *)
(* address check and the browser are left out.                             *)
(***************************************************************************)
EXTENDS Integers

CONSTANTS
    Logins,       \* the `syns login` processes; their tokens
    NoToken,
    Lifetimes,    \* `expires_in` as a server may name it
    Intervals,    \* `interval` as a server may name it, 0 where it names none
    MaxLife,      \* MAX_EXPIRES_IN_SECS
    MaxInterval,  \* MAX_POLL_INTERVAL_SECS
    MaxLag        \* bound: how long an answer takes

ASSUME LoginAssumption ==
    /\ Lifetimes \subseteq Nat /\ Intervals \subseteq Nat
    /\ MaxLife \in Nat /\ MaxInterval \in Nat /\ MaxLag \in Nat

VARIABLE login    \* each process, and the credentials file
loginVars == <<login>>

DefaultInterval == 1
SlowDownIncrement == 1

AtMost(a, b) == IF a < b THEN a ELSE b
AtLeast(a, b) == IF a > b THEN a ELSE b

NoFlow == [at |-> "start", now |-> 0, deadline |-> 0, interval |-> 0,
           demanded |-> 0, polled |-> 0, sent |-> FALSE]
NoCredentials == [token |-> NoToken, username |-> NoToken]

LoginInit ==
    login = [flow |-> [l \in Logins |-> NoFlow], file |-> NoCredentials,
             out |-> [at |-> "start", token |-> NoToken], revoked |-> {}]

Flow(l) == login.flow[l]
Step(l, flow) == login' = [login EXCEPT !.flow[l] = flow]
Fails(l) == Step(l, [Flow(l) EXCEPT !.at = "failed"])

(* The device code: the interval raised to the default, the lifetime capped.*)
DeviceCode(l) ==
    /\ Flow(l).at = "start"
    /\ \/ Fails(l)
       \/ \E life \in Lifetimes, interval \in Intervals :
            Step(l, [Flow(l) EXCEPT !.at = "polling", !.deadline = AtMost(life, MaxLife),
                                    !.interval = AtLeast(interval, DefaultInterval),
                                    !.demanded = AtLeast(interval, DefaultInterval)])

(* The next poll would fall past the deadline: the login ends.              *)
Expires(flow) == flow.deadline - flow.now < flow.interval
Expired(l) ==
    /\ Flow(l).at = "polling" /\ Expires(Flow(l))
    /\ Fails(l)

(* One poll, an interval after the answer to the last.                      *)
Poll(l) ==
    LET flow == Flow(l)
    IN /\ flow.at = "polling" /\ ~Expires(flow)
       /\ Step(l, [flow EXCEPT !.at = "polled", !.now = @ + flow.interval,
                               !.polled = flow.interval])

(* `slow_down` lengthens the interval for the polls that remain.            *)
(* Mutant: the interval restarts from the default.                          *)
MutSlowedDown(interval) == AtMost(DefaultInterval + SlowDownIncrement, MaxInterval)
SlowedDown(interval) == AtMost(interval + SlowDownIncrement, MaxInterval)

PollAnswers(l) ==
    LET flow == Flow(l)
    IN /\ flow.at = "polled"
       /\ \E lag \in 0 .. MaxLag :
            LET answered == [flow EXCEPT !.now = @ + lag]
            IN \/ Step(l, [answered EXCEPT !.at = "polling"])
               \/ Step(l, [answered EXCEPT !.at = "polling",
                                           !.interval = SlowedDown(@),
                                           !.demanded = @ + SlowDownIncrement])
               \/ Step(l, [answered EXCEPT !.at = "approved"])
               \/ Fails(l)

(* `TokenStore::write`: the file is replaced whole.                         *)
(* The token is stored, the session asked whose it is, and the file written *)
(* again with its name; that second write's failure is passed over.         *)
Store(l) ==
    /\ Flow(l).at = "approved"
    /\ \/ Fails(l)
       \/ login' = [login EXCEPT !.file = [token |-> l, username |-> NoToken],
                                 !.flow[l].at = "stored"]
(* The session of a token signed out answers no user.                       *)
AskSession(l) ==
    /\ Flow(l).at = "stored"
    /\ \/ l \notin login.revoked /\ Step(l, [Flow(l) EXCEPT !.at = "named"])
       \/ Step(l, [Flow(l) EXCEPT !.at = "done"])
(* Mutant: the name is written beside whatever token the file holds.        *)
MutNamed(file, l) == [file EXCEPT !.username = l]
Named(file, l) == [token |-> l, username |-> l]
StoreName(l) ==
    /\ Flow(l).at = "named"
    /\ \/ login' = [login EXCEPT !.file = Named(@, l), !.flow[l].at = "done"]
       \/ Step(l, [Flow(l) EXCEPT !.at = "done"])

(* `syns logout`: the token is read, signed out as far as the server        *)
(* answers, and the file removed.                                           *)
ReadToken ==
    /\ login.out.at = "start"
    /\ login' = [login EXCEPT !.out = [at |-> IF login.file.token = NoToken
                                              THEN "signed out" ELSE "read",
                                       token |-> login.file.token]]
SignOut ==
    /\ login.out.at = "read"
    /\ \E revoked \in {{}, {login.out.token}} :
         login' = [login EXCEPT !.out.at = "signed out", !.revoked = @ \cup revoked]
ClearCredentials ==
    /\ login.out.at = "signed out"
    /\ \/ login' = [login EXCEPT !.out.at = "done", !.file = NoCredentials]
       \/ login' = [login EXCEPT !.out.at = "failed"]

LoginNext ==
    \/ \E l \in Logins : \/ DeviceCode(l) \/ Expired(l) \/ Poll(l) \/ PollAnswers(l)
                         \/ Store(l) \/ AskSession(l) \/ StoreName(l)
    \/ ReadToken \/ SignOut \/ ClearCredentials

LoginSpec == LoginInit /\ [][LoginNext]_loginVars

-----------------------------------------------------------------------------
(* A poll is sent within the code's life, and never sooner after the last   *)
(* answer than the server asked, the interval it named lengthened by each   *)
(* `slow_down`, up to the most the client waits (device.rs 150 to 220).     *)
PollsOnTerms ==
    \A l \in Logins :
      Flow(l).at = "polled" =>
        /\ Flow(l).now <= Flow(l).deadline
        /\ Flow(l).polled >= AtMost(Flow(l).demanded, MaxInterval)

(* However logins and a logout interleave, the account named in the file is *)
(* the one its token was issued to (login.rs 14 to 21, token.rs 62 to 125). *)
NameIsTheTokens ==
    login.file.username # NoToken => login.file.username = login.file.token

(* Safety: a login is asked for on the server's terms, and leaves the token *)
(* and the name that belong together.                                       *)
SignsInOnTerms == PollsOnTerms /\ NameIsTheTokens
=============================================================================
