----------------------------- MODULE Transport -----------------------------
(***************************************************************************)
(* The HTTP client of one run (src/client.rs, src/shared_client.rs): the   *)
(* calls of a run share one connection pool and one handshake gate; a read *)
(* is sent again after a `Retry-After` refusal and, inside `resend_read`,  *)
(* after an answer that did not arrive, both drawing on one budget of      *)
(* sends; a write is sent once, whatever it is answered.                   *)
(*                                                                         *)
(* The pool, the connections and the server are external: they are        *)
(* modelled from what the gate's comment and the callers rely on.          *)
(***************************************************************************)
EXTENDS Naturals, FiniteSets

CONSTANTS
    Calls,         \* the calls a run makes through the one client
    Connects,      \* identities of the pool's connects, more than Calls
    ReadAttempts,  \* READ_ATTEMPTS
    MaxCuts        \* bound: connections cut after they carried a request

ASSUME AttemptsAssumption == ReadAttempts \in Nat \ {0} /\ MaxCuts \in Nat

NoCall == "no call"
ASSUME NoCallAssumption == NoCall \notin Calls \cup Connects

VARIABLES
    shape,       \* what each call is: its verb, its body, its entry
    pc,          \* where the call stands
    sends,       \* the sends counted against the budget
    sent,        \* how often the call's request was sent
    alive,       \* the connection the call's request went out on stands
    connect,     \* where each connect stands
    waits,       \* the call whose request waits on a connect
    gate,        \* the HandshakeGate
    listeners,   \* connects enabled on the gate's Notify
    http2,       \* the protocol the server settles on
    pool,        \* an HTTP/2 connection stands in the pool
    idle,        \* idle HTTP/1.1 connections in the pool
    cuts,        \* connections cut so far
    history      \* what happened that the properties speak of

counts == <<shape, sends, sent>>
callVars == <<counts, pc, alive>>
connVars == <<connect, waits, gate, listeners, pool, idle>>
vars == <<callVars, connVars, http2, cuts, history>>

-----------------------------------------------------------------------------
(* The requests of `SynsClient`, block by block: the verb, and whether a   *)
(* body goes out, which lengthens the wait for the head.                    *)

Get    == [verb |-> "GET",    body |-> FALSE]
HeadVerb == [verb |-> "HEAD",   body |-> FALSE]
Post   == [verb |-> "POST",   body |-> TRUE]
Put    == [verb |-> "PUT",    body |-> TRUE]
Patch  == [verb |-> "PATCH",  body |-> TRUE]
Delete == [verb |-> "DELETE", body |-> FALSE]

PublicationCalls == [push_body |-> Put]
ListingCalls ==
    [pull |-> Get, list_repos |-> Get, get_repo |-> Get, get_tree |-> Get,
     get_file |-> Get]
RawCalls ==
    [get_raw |-> Get, raw_head |-> Get, raw_holds_file |-> HeadVerb,
     get_raw_staged |-> Get]
VersionCalls ==
    [get_version |-> Get, get_version_place |-> Get, get_file_history |-> Get,
     list_versions |-> Get, get_diff |-> Get]
CollaboratorCalls ==
    [list_collaborators |-> Get, add_collaborator |-> Post,
     remove_collaborator |-> Delete, update_collaborator_role |-> Patch]
RepositoryCalls ==
    [explore |-> Get, fork |-> Post, delete_repo |-> Delete,
     get_session |-> Get, update_repo |-> Patch, revert_file |-> Post]
PeopleCalls ==
    [list_forks |-> Get, search_users |-> Get, get_user_profile |-> Get]
LinkCalls == [add |-> Post, update |-> Patch, remove |-> Delete, reorder |-> Post]
SharingCalls ==
    [create_repo |-> Post, share_folder |-> Post, set_folder_visibility |-> Put,
     get_share |-> Get, unshare_folder |-> Delete]
TeamCalls ==
    [create_team |-> Post, list_teams |-> Get, get_team |-> Get,
     update_team |-> Patch, delete_team |-> Delete, list_members |-> Get,
     invite_member |-> Post, change_role |-> Post, remove_member |-> Delete]
InvitationCalls ==
    [list_my_invitations |-> Get, accept_invitation |-> [Post EXCEPT !.body = FALSE],
     decline_invitation |-> [Post EXCEPT !.body = FALSE]]
TeamRepoCalls ==
    [add_team_repo |-> Put, remove_team_repo |-> Delete, list_team_repos |-> Get]

\* The bulk reads of `/api/v2`: the only POSTs that change nothing.
BulkCalls == [v2_get |-> Get, v2_read |-> Post, v2_search |-> Post]

RequestsOf(table) == {table[name] : name \in DOMAIN table}

\* Every method but the bulk reads answers through `send_bounded`.
BoundedRequests ==
    UNION {RequestsOf(t) : t \in {PublicationCalls, ListingCalls, RawCalls,
        VersionCalls, CollaboratorCalls, RepositoryCalls, PeopleCalls, LinkCalls,
        SharingCalls, TeamCalls, InvitationCalls, TeamRepoCalls}}

Shape(request, entry) ==
    [read |-> request.verb \in {"GET", "HEAD"}, bodied |-> request.body,
     bodyless |-> request.verb = "HEAD", entry |-> entry]

\* A raw read of a pinned commit goes through `resend_read`, a bulk read
\* through `send_unretried`, every other request through `send_bounded`.
Shapes ==
    {Shape(r, "bounded") : r \in BoundedRequests}
      \union {Shape(r, "resent") : r \in RequestsOf(RawCalls) \ {HeadVerb}}
      \union {Shape(r, "once") : r \in RequestsOf(BulkCalls)}

-----------------------------------------------------------------------------
(* The state of the gate and the pool at a run's start.                     *)

FreshGate ==
    [holder |-> NoCall, first |-> FALSE, settled |-> FALSE, h2 |-> FALSE,
     answered |-> FALSE, notifies |-> FALSE]

Init ==
    /\ shape \in [Calls -> Shapes]
    /\ pc = [t \in Calls |-> "send"]
    /\ sends = [t \in Calls |-> 0]
    /\ sent = [t \in Calls |-> 0]
    /\ alive = [t \in Calls |-> FALSE]
    /\ connect = [c \in Connects |-> "none"]
    /\ waits = [c \in Connects |-> NoCall]
    /\ gate = FreshGate
    /\ listeners = {}
    /\ http2 \in BOOLEAN
    /\ pool = FALSE
    /\ idle = 0
    /\ cuts = 0
    /\ history = [opened |-> 0, excused |-> FALSE, refused |-> FALSE]

-----------------------------------------------------------------------------
(* How a call goes on once one read of it answered.                         *)

\* `count_send`, and whether another send may follow.
Counted(t) == IF shape[t].entry = "once" THEN sends[t] ELSE sends[t] + 1
More(t) == sends[t] < ReadAttempts

\* A read is sent again by `send_bounded`, a write never. (RetriesAny: the
\* method left out of the test.)
RetriesAny(t) == shape[t].entry # "once" /\ More(t)
Retries(t) == shape[t].read /\ shape[t].entry # "once" /\ More(t)

\* `resend_read` sends a read again where the server was unreachable and
\* RESEND_WITHIN has not passed. Its `tries` never pass the counted sends.
Resendable(t, result) ==
    shape[t].entry = "resent" /\ result = "unreachable" /\ More(t)

Ends(t, result) ==
    /\ alive' = [alive EXCEPT ![t] = FALSE]
    /\ \E again \in {"pausing", "done"} :
         /\ again = "pausing" => Resendable(t, result)
         /\ pc' = [pc EXCEPT ![t] = again]

\* The connects of a call whose request is dropped are dropped with it; a
\* dropped holder frees the gate's lock, `first` still unset.
\* (DropsKeepingLock: it is left held.)
Mine(t) == {c \in Connects : waits[c] = t}
DropsKeepingLock(t) ==
    /\ connect' = [c \in Connects |-> IF c \in Mine(t) THEN "none" ELSE connect[c]]
    /\ waits' = [c \in Connects |-> IF c \in Mine(t) THEN NoCall ELSE waits[c]]
    /\ listeners' = listeners \ Mine(t)
    /\ UNCHANGED gate
DropConnects(t) ==
    /\ connect' = [c \in Connects |-> IF c \in Mine(t) THEN "none" ELSE connect[c]]
    /\ waits' = [c \in Connects |-> IF c \in Mine(t) THEN NoCall ELSE waits[c]]
    /\ listeners' = listeners \ Mine(t)
    /\ gate' = [gate EXCEPT !.holder = IF @ \in Mine(t) THEN NoCall ELSE @]

-----------------------------------------------------------------------------
(* One send: `send_once` on a pooled connection, or with a connect of its   *)
(* own racing the pool.                                                     *)

\* (SendUnpooled: with no connection there.)
SendUnpooled(t) ==
    /\ pc[t] = "send"
    /\ sends' = [sends EXCEPT ![t] = Counted(t)]
    /\ sent' = [sent EXCEPT ![t] = @ + 1]
    /\ pc' = [pc EXCEPT ![t] = "head"]
    /\ alive' = [alive EXCEPT ![t] = TRUE]
    /\ idle' = IF pool THEN idle ELSE idle - 1
    /\ UNCHANGED <<shape, connect, waits, gate, listeners, pool, http2, cuts, history>>
SendPooled(t) ==
    /\ pc[t] = "send"
    /\ pool \/ idle > 0
    /\ sends' = [sends EXCEPT ![t] = Counted(t)]
    /\ sent' = [sent EXCEPT ![t] = @ + 1]
    /\ pc' = [pc EXCEPT ![t] = "head"]
    /\ alive' = [alive EXCEPT ![t] = TRUE]
    /\ idle' = IF pool THEN idle ELSE idle - 1
    /\ UNCHANGED <<shape, connect, waits, gate, listeners, pool, http2, cuts, history>>

FreeConnects == {c \in Connects : connect[c] = "none"}

\* A settled gate lets a connect pass straight through. (EntryUnsettled:
\* every connect takes the lock.)
EntryUnsettled == "queued"
Entry == IF gate.settled THEN "direct" ELSE "queued"

SendConnecting(t) ==
    /\ pc[t] = "send"
    /\ ~pool /\ idle = 0
    /\ sends' = [sends EXCEPT ![t] = Counted(t)]
    /\ sent' = [sent EXCEPT ![t] = @ + 1]
    /\ pc' = [pc EXCEPT ![t] = "connecting"]
    /\ FreeConnects # {}
    /\ LET c == CHOOSE x \in FreeConnects : TRUE IN
         /\ connect' = [connect EXCEPT ![c] = Entry]
         /\ waits' = [waits EXCEPT ![c] = t]
    /\ history' = [history EXCEPT !.excused = @ \/ gate.settled]
    /\ UNCHANGED <<shape, alive, gate, listeners, pool, idle, http2, cuts>>

\* The head's deadline passes before any connection carried the request.
ConnectDeadline(t) ==
    /\ pc[t] = "connecting"
    /\ Ends(t, "unreachable")
    /\ DropConnects(t)
    /\ history' = [history EXCEPT !.excused = TRUE]
    /\ UNCHANGED <<counts, pool, idle, http2, cuts>>

-----------------------------------------------------------------------------
(* The handshake gate: `Gated::call`, step by step.                         *)

\* `gate.first.lock()`: the first to hold it connects alone.
TakeLock(c) ==
    /\ connect[c] = "queued"
    /\ gate.holder = NoCall
    /\ IF gate.first
         THEN /\ connect' = [connect EXCEPT ![c] = "unlocked"]
              /\ UNCHANGED gate
         ELSE /\ connect' = [connect EXCEPT ![c] = "first"]
              /\ gate' = [gate EXCEPT !.holder = c]
    /\ UNCHANGED <<callVars, waits, listeners, pool, idle, http2, cuts, history>>

\* `gate.h2` is read after the lock was dropped; `enable` joins the Notify.
\* (ListensNever: it connects instead.)
ListensNever(c) ==
    /\ connect[c] = "unlocked"
    /\ connect' = [connect EXCEPT ![c] = "direct"]
    /\ UNCHANGED <<callVars, waits, gate, listeners, pool, idle, http2, cuts, history>>
Listen(c) ==
    /\ connect[c] = "unlocked"
    /\ IF gate.h2
         THEN /\ connect' = [connect EXCEPT ![c] = "enabled"]
              /\ listeners' = listeners \union {c}
         ELSE /\ connect' = [connect EXCEPT ![c] = "direct"]
              /\ UNCHANGED listeners
    /\ UNCHANGED <<callVars, waits, gate, pool, idle, http2, cuts, history>>

\* The connect ends in the gate's own error: where a request still waits
\* on it, that request fails.
GateEnds(c) ==
    /\ connect' = [connect EXCEPT ![c] = "none"]
    /\ waits' = [waits EXCEPT ![c] = NoCall]
    /\ listeners' = listeners \ {c}
    /\ IF waits[c] \in Calls
         THEN /\ Ends(waits[c], "unreachable")
              /\ history' = [history EXCEPT !.refused = TRUE]
         ELSE UNCHANGED <<pc, alive, history>>
    /\ UNCHANGED <<counts, gate, pool, idle, http2, cuts>>

\* `has_answered` is read once the listener is enabled.
\* (AwaitsUnchecked: it is not read.)
AwaitsUnchecked(c) ==
    /\ connect[c] = "enabled"
    /\ connect' = [connect EXCEPT ![c] = "awaiting"]
    /\ UNCHANGED <<callVars, waits, gate, listeners, pool, idle, http2, cuts, history>>
CheckAnswered(c) ==
    /\ connect[c] = "enabled"
    /\ IF gate.answered
         THEN GateEnds(c)
         ELSE /\ connect' = [connect EXCEPT ![c] = "awaiting"]
              /\ UNCHANGED <<callVars, waits, gate, listeners, pool, idle, http2, cuts, history>>

Notified(c) ==
    /\ connect[c] = "awaiting"
    /\ c \notin listeners
    /\ GateEnds(c)

\* No answer within the deadline: it connects after all. A request that
\* still waits on it sent a body, for its own deadline, begun earlier, is
\* otherwise the first to pass.
GateDeadline(c) ==
    /\ connect[c] \in {"enabled", "awaiting"}
    /\ waits[c] \in Calls => shape[waits[c]].bodied
    /\ connect' = [connect EXCEPT ![c] = "direct"]
    /\ listeners' = listeners \ {c}
    /\ history' = [history EXCEPT !.excused = TRUE]
    /\ UNCHANGED <<callVars, waits, gate, pool, idle, http2, cuts>>

-----------------------------------------------------------------------------
(* What a connect comes to (external: the transport and the pool).          *)

Settle(c) == [gate EXCEPT !.first = TRUE, !.settled = TRUE, !.holder = NoCall,
                          !.h2 = http2]

GateAfter(c) == IF connect[c] = "first" THEN Settle(c) ELSE gate

\* An HTTP/2 connect ends; the pool does not hold the connection yet.
OpenHttp2(c) ==
    /\ connect[c] \in {"first", "direct"}
    /\ http2
    /\ gate' = GateAfter(c)
    /\ connect' = [connect EXCEPT ![c] = "opened"]
    /\ history' = [history EXCEPT !.opened = @ + 1]
    /\ UNCHANGED <<callVars, waits, listeners, pool, idle, http2, cuts>>

\* The pool hands the one connection to every request waiting; the
\* connects of those requests run on with nothing awaiting them.
Waiting == {t \in Calls : pc[t] = "connecting"}
PoolHttp2(c) ==
    /\ connect[c] = "opened"
    /\ pool' = TRUE
    /\ connect' = [connect EXCEPT ![c] = "none"]
    /\ waits' = [x \in Connects |-> NoCall]
    /\ pc' = [t \in Calls |-> IF t \in Waiting THEN "head" ELSE pc[t]]
    /\ alive' = [t \in Calls |-> alive[t] \/ t \in Waiting]
    /\ UNCHANGED <<counts, gate, listeners, idle, http2, cuts, history>>

\* An HTTP/1.1 connect carries its own request, or stands idle.
OpenHttp1(c) ==
    /\ connect[c] \in {"first", "direct"}
    /\ ~http2
    /\ gate' = GateAfter(c)
    /\ connect' = [connect EXCEPT ![c] = "none"]
    /\ waits' = [waits EXCEPT ![c] = NoCall]
    /\ LET t == waits[c] IN
         IF t \in Calls
           THEN /\ pc' = [pc EXCEPT ![t] = "head"]
                /\ alive' = [alive EXCEPT ![t] = TRUE]
                /\ UNCHANGED idle
           ELSE /\ idle' = idle + 1
                /\ UNCHANGED <<pc, alive>>
    /\ UNCHANGED <<counts, listeners, pool, http2, cuts, history>>

ConnectFails(c) ==
    /\ connect[c] \in {"first", "direct"}
    /\ gate' = [GateAfter(c) EXCEPT !.h2 = gate.h2]
    /\ connect' = [connect EXCEPT ![c] = "none"]
    /\ waits' = [waits EXCEPT ![c] = NoCall]
    /\ IF waits[c] \in Calls
         THEN \E reason \in {"unreachable", "tls"} : Ends(waits[c], reason)
         ELSE UNCHANGED <<pc, alive>>
    /\ history' = [history EXCEPT !.excused = TRUE]
    /\ UNCHANGED <<counts, listeners, pool, idle, http2, cuts>>

\* The server or the network cuts the connection under the run's requests.
Cut ==
    /\ cuts < MaxCuts
    /\ pool
    /\ cuts' = cuts + 1
    /\ pool' = FALSE
    /\ alive' = [t \in Calls |-> FALSE]
    /\ history' = [history EXCEPT !.excused = TRUE]
    /\ UNCHANGED <<counts, pc, connect, waits, gate, listeners, idle, http2>>

-----------------------------------------------------------------------------
(* The answer.                                                              *)

\* `shared_client::answered`: the swap, its first caller to notify.
Swap == gate' = IF gate.h2 /\ ~gate.answered
                THEN [gate EXCEPT !.answered = TRUE, !.notifies = TRUE]
                ELSE gate

\* What `send_bounded`, then `check_response`, make of a status line:
\* busy with a `Retry-After` within the cap, a refusal whose body is read,
\* the sign-in refusal whose body is not, or a body to read.
HeadArrives(t) ==
    /\ pc[t] = "head"
    /\ alive[t]
    /\ Swap
    /\ \E status \in {"busy", "auth", "refusal", "body"} :
         IF status = "busy" /\ Retries(t)
           THEN /\ pc' = [pc EXCEPT ![t] = "waiting"]
                /\ alive' = [alive EXCEPT ![t] = FALSE]
         ELSE IF status = "auth"
           THEN Ends(t, "refused")
         ELSE IF shape[t].bodyless
           THEN Ends(t, IF status = "body" THEN "answered" ELSE "refused")
         ELSE /\ pc' = [pc EXCEPT ![t] = IF status = "body" THEN "body" ELSE "refusal"]
              /\ UNCHANGED alive
    /\ UNCHANGED <<counts, connect, waits, listeners, pool, idle, http2, cuts, history>>

\* `notify_waiters`, after the swap.
Notify ==
    /\ gate.notifies
    /\ gate' = [gate EXCEPT !.notifies = FALSE]
    /\ listeners' = {}
    /\ UNCHANGED <<callVars, connect, waits, pool, idle, http2, cuts, history>>

\* The deadline, a transport failure or a connection cut: no head arrives.
HeadLost(t) ==
    /\ pc[t] = "head"
    /\ Ends(t, "unreachable")
    /\ UNCHANGED <<counts, connVars, http2, cuts, history>>

\* `read_body` reads the last chunk; an HTTP/1.1 connection stands idle again.
BodyWhole(t) ==
    /\ pc[t] \in {"body", "refusal"}
    /\ alive[t]
    /\ Ends(t, IF pc[t] = "body" THEN "answered" ELSE "refused")
    /\ idle' = IF http2 THEN idle ELSE idle + 1
    /\ UNCHANGED <<counts, connect, waits, gate, listeners, pool, http2, cuts, history>>

\* `read_body`: a stalled, failed or short body, a refusal's as well.
BodyLost(t) ==
    /\ pc[t] \in {"body", "refusal"}
    /\ Ends(t, "unreachable")
    /\ UNCHANGED <<counts, connVars, http2, cuts, history>>

\* The jittered `Retry-After` wait passes: the same `send_bounded` sends.
RetryAfterPasses(t) ==
    /\ pc[t] = "waiting"
    /\ pc' = [pc EXCEPT ![t] = "send"]
    /\ UNCHANGED <<counts, alive, connVars, http2, cuts, history>>

\* The jittered RESEND_PAUSE passes: `resend_read` reads again, its sends
\* counted in the same scope.
\* (ResendRecounts: counted anew.)
ResendRecounts(t) ==
    /\ pc[t] = "pausing"
    /\ pc' = [pc EXCEPT ![t] = "send"]
    /\ sends' = [sends EXCEPT ![t] = 0]
    /\ UNCHANGED <<shape, sent, alive, connVars, http2, cuts, history>>
Resend(t) ==
    /\ pc[t] = "pausing"
    /\ pc' = [pc EXCEPT ![t] = "send"]
    /\ UNCHANGED <<counts, alive, connVars, http2, cuts, history>>

-----------------------------------------------------------------------------

CallStep(t) ==
    \/ SendPooled(t) \/ SendConnecting(t) \/ RetryAfterPasses(t) \/ Resend(t)
    \/ HeadArrives(t) \/ BodyWhole(t)

CallFails(t) == ConnectDeadline(t) \/ HeadLost(t) \/ BodyLost(t)

ConnectStep(c) ==
    \/ TakeLock(c) \/ Listen(c) \/ CheckAnswered(c) \/ Notified(c)
    \/ OpenHttp2(c) \/ PoolHttp2(c) \/ OpenHttp1(c)

Next ==
    \/ \E t \in Calls : CallStep(t) \/ CallFails(t)
    \/ \E c \in Connects : ConnectStep(c) \/ GateDeadline(c) \/ ConnectFails(c)
    \/ Notify
    \/ Cut

\* Every timeout of the client fires and every task is polled: a call that
\* may go on or fail does one of the two, and so does a connect. Nothing
\* says that the server answers.
Fairness ==
    /\ \A t \in Calls : WF_vars(CallStep(t) \/ CallFails(t))
    /\ \A c \in Connects : WF_vars(ConnectStep(c) \/ GateDeadline(c) \/ ConnectFails(c))
    /\ WF_vars(Notify)

Spec == Init /\ [][Next]_vars /\ Fairness

-----------------------------------------------------------------------------

TypeOK ==
    /\ shape \in [Calls -> Shapes]
    /\ pc \in [Calls -> {"send", "connecting", "head", "waiting", "body",
                         "refusal", "pausing", "done"}]
    /\ sends \in [Calls -> Nat] /\ sent \in [Calls -> Nat]
    /\ alive \in [Calls -> BOOLEAN]
    /\ connect \in [Connects -> {"none", "queued", "first", "unlocked", "enabled",
                                 "awaiting", "direct", "opened"}]
    /\ waits \in [Connects -> Calls \union {NoCall}]
    /\ gate \in [holder : Connects \union {NoCall}, first : BOOLEAN, settled : BOOLEAN,
                 h2 : BOOLEAN, answered : BOOLEAN, notifies : BOOLEAN]
    /\ listeners \subseteq Connects
    /\ http2 \in BOOLEAN /\ pool \in BOOLEAN
    /\ idle \in Nat /\ cuts \in 0..MaxCuts
    /\ history \in [opened : Nat, excused : BOOLEAN, refused : BOOLEAN]

(***************************************************************************)
(* A write reaches the wire once at most, whatever it is answered and      *)
(* however its answer is lost; so does a bulk read, whose caller counts    *)
(* its own resends (src/client.rs:1009).                                   *)
(***************************************************************************)
WritesSentOnce ==
    \A t \in Calls : ~shape[t].read \/ shape[t].entry = "once" => sent[t] <= 1

(***************************************************************************)
(* A read reaches the wire READ_ATTEMPTS times at most, its `Retry-After`  *)
(* resends and its resends of a lost answer together (src/client.rs:960).  *)
(***************************************************************************)
ReadsWithinBudget == \A t \in Calls : sent[t] <= ReadAttempts

(***************************************************************************)
(* No request is refused by the gate itself: a connect that ends in the    *)
(* gate's own error is one nothing awaits (src/shared_client.rs:277).      *)
(***************************************************************************)
GateNeverRefuses == ~history.refused

(***************************************************************************)
(* A connect listening for the first answer is woken by it: none sleeps    *)
(* on, until its deadline, once the answer arrived and the waiters were    *)
(* notified (src/shared_client.rs:304).                                    *)
(***************************************************************************)
NoLostWakeup ==
    \A c \in Connects :
        connect[c] = "awaiting" /\ c \in listeners /\ gate.answered => gate.notifies

(***************************************************************************)
(* The requests sent at once on an empty pool pay one handshake: where no  *)
(* connect failed, timed out or began on a settled gate, and no connection *)
(* was cut, one HTTP/2 connection was opened (src/shared_client.rs:269).   *)
(***************************************************************************)
OneHandshake == ~history.excused => history.opened <= 1

(* What the first-connection gate promises: shared_client.rs 116 to 300.    *)
GateHolds == GateNeverRefuses /\ NoLostWakeup /\ OneHandshake

(* What a call may send, whatever is answered or lost: client.rs 960 to     *)
(* 1010.                                                                    *)
SendsAsAllowed == TypeOK /\ WritesSentOnce /\ ReadsWithinBudget

(***************************************************************************)
(* Every call ends and every connect with it: the gate's lock is never     *)
(* left held, and neither a silent server nor a call dropped in the middle *)
(* of the first connect keeps the others waiting (src/shared_client.rs:391).*)
(***************************************************************************)
AllEnd ==
    <>[](/\ \A t \in Calls : pc[t] = "done"
         /\ \A c \in Connects : connect[c] = "none"
         /\ gate.holder = NoCall)
=============================================================================
