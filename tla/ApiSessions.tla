---------------------------- MODULE ApiSessions ----------------------------
(***************************************************************************)
(* A workstation's signed-in session and its idempotent requests.           *)
(*                                                                         *)
(* The server keeps one DesktopSession row per sign-in, with the digests of *)
(* its current tokens and of the refresh token before, and one              *)
(* IdempotencyRecord per session and key.  The client keeps the tokens in   *)
(* memory and the refresh token in the operating system's credential store; *)
(* its worker threads share them and refresh them under a lock, while the   *)
(* window's thread signs in and out.  Requests and answers get lost or      *)
(* late, a server process may stop inside a request, and the program may    *)
(* close at any time.                                                       *)
(***************************************************************************)
EXTENDS Naturals, FiniteSets, FiniteSetsExt

CONSTANTS
    Workers,            \* threads of the workstation that make requests
    Keys,               \* idempotency keys
    BodyOf,             \* the body each worker sends under a key
    MaxSessions,        \* bound on the sign-ins
    MaxTokens,          \* bound on the tokens of the sessions
    MaxRestarts,        \* bound on the times the program closes
    Trials,             \* bound: the mishaps of a behaviour are those of one of these sets
    SlowCommands        \* TRUE: a command may run for more than fifteen minutes

Mishaps == {"sign out", "sign in again", "recover", "restart", "keyring", "age", "late answer", "late refresh", "stop", "raise"}

ASSUME ApiConstants ==
    /\ IsFiniteSet(Workers) /\ Workers # {}
    /\ MaxSessions \in Nat /\ MaxTokens \in Nat /\ MaxRestarts \in Nat
    /\ Trials \subseteq SUBSET Mishaps
    /\ SlowCommands \in BOOLEAN

VARIABLES
    session,        \* the DesktopSession rows
    record,         \* the IdempotencyRecord rows
    handlers,       \* mutations the server is handling
    strays,         \* refresh requests their sender no longer waits for
    current,        \* the client's _session: its tokens
    keyring,        \* the refresh token in the credential store
    work,           \* what each worker waits for
    window,         \* the window's thread: signed in or out, or signing out
    lost,           \* ghost: sessions with a token that did not reach the store, or
                    \* a refresh that came late
    seen,           \* ghost: the successes answered to workers
    restarts,
    mishaps         \* what may go wrong in this behaviour

server == <<session, record, handlers>>
client == <<current, keyring, work, window, restarts>>
vars == <<server, client, strays, lost, seen, mishaps>>

Bodies == {BodyOf[w] : w \in Workers}

\* Every rotation replaces both tokens, so that one number names the pair.
Sessions == 1..MaxSessions
Token == [session : Sessions, number : Nat \ {0}]
NoToken == [session |-> 0, number |-> 0]

NoSession == [ended |-> "unborn"]
Row == [refresh : Nat \ {0},            \* refresh_token_hash and access_token_hash
        previous : Nat,                 \* previous_refresh_token_hash
        age : 0..2,                     \* of the pair: in its grace of a minute, later,
                                        \* and past access_expires_at after fifteen
        ended : {"no", "reused", "revoked", "expired"}] \* revoked_at, by a reused token or
                                        \* not; refresh_expires_at after fourteen days

NoRecord == [claim |-> 0]
Claims == 1..(2 * Cardinality(Workers))
Record == [claim : Claims, body : Bodies, done : BOOLEAN, answer : Bodies, lapsed : BOOLEAN]

Handler == [worker : Workers, waited : BOOLEAN, token : Token, key : Keys,
            stage : {"received", "claimed", "ran"}, claim : Claims \cup {0}]

Idle == [at |-> "idle"]
Waiting == [at : {"asked", "denied"}, key : Keys, token : Token, again : BOOLEAN]
Refreshing == [at : {"refreshing", "refused"}, key : Keys, token : Token]
Refreshed == [at : {"refreshed"}, key : Keys, token : Token]

Out == [at |-> "signed out"]
In == [at |-> "signed in"]
Leaving == [at : {"leaving"}, token : Token, answered : BOOLEAN]

\* Every variable has its type; the claims stay numbered.
ApiTypeOK ==
    /\ session \in [Sessions -> Row \cup {NoSession}]
    /\ record \in [Sessions \X Keys -> Record \cup {NoRecord}]
    /\ handlers \subseteq Handler
    /\ strays \subseteq Token
    /\ current \in Token \cup {NoToken}
    /\ keyring \in Token \cup {NoToken}
    /\ work \in [Workers -> {Idle} \cup Waiting \cup Refreshing \cup Refreshed]
    /\ window \in {Out, In} \cup Leaving
    /\ lost \subseteq Sessions
    /\ seen \subseteq [session : Sessions, key : Keys, asked : Bodies, answered : Bodies]
    /\ restarts \in 0..MaxRestarts
    /\ mishaps \in Trials

Live(s) == session[s].ended = "no"

\* The record of a request: its session's, under its key.
Place(h) == <<h.token.session, h.key>>

-----------------------------------------------------------------------------
(* Wrong forms of definitions below, each a plausible slip in the code it   *)
(* stands for; no specification uses them.                                  *)

\* Looks for the current token only.
NamedByCurrent(t) == t.number = session[t.session].refresh

\* Refreshes without waiting for the thread that is refreshing.
LockIgnored == TRUE

\* Takes a claim that is pending for abandoned.
FreeUnlessDone(p) == record[p] # NoRecord => record[p].lapsed \/ ~record[p].done

\* Replays whatever was done under the key.
ReplaysAny(h) == record[Place(h)].done

\* Releases the claim of a command that succeeded.
CompletedReleased(h) == [record EXCEPT ![Place(h)] = NoRecord]

\* Does not number the row.
UnnumberedClaim(p) == 0

-----------------------------------------------------------------------------
(* Rotation of tokens.                                                     *)

\* _rotate_session_tokens.
Rotated(row) ==
    [refresh |-> row.refresh + 1, previous |-> row.refresh, age |-> 0, ended |-> row.ended]

\* refresh_session finds the row by its current token, or by the one before it
\* within the grace; a token that comes back later ends the session.
Accepts(t) ==
    /\ Live(t.session)
    /\ \/ t.number = session[t.session].refresh
       \/ t.number = session[t.session].previous /\ session[t.session].age = 0

Reused(t) ==
    /\ Live(t.session)
    /\ t.number = session[t.session].previous
    /\ session[t.session].age > 0

AfterRefresh(t) ==
    IF Accepts(t) THEN [session EXCEPT ![t.session] = Rotated(@)]
    ELSE IF Reused(t) THEN [session EXCEPT ![t.session].ended = "reused"]
    ELSE session

NewToken(t) == [t EXCEPT !.number = session[t.session].refresh + 1]

\* Bound: the sessions have MaxTokens tokens between them.
TokenLeft ==
    MapThenSumSet(LAMBDA s : IF session[s] = NoSession THEN 0 ELSE session[s].refresh, Sessions)
        < MaxTokens

RefreshFits(t) == Accepts(t) => TokenLeft

\* The row a sign-out's token names, current or previous.
Named(t) == t.number \in {session[t.session].refresh, session[t.session].previous}

AllRevoked ==
    [s \in Sessions |-> IF Live(s) THEN [session[s] EXCEPT !.ended = "revoked"] ELSE session[s]]

-----------------------------------------------------------------------------
(* The credential store.                                                   *)

\* A refused save leaves what the store held.
Save(t) ==
    /\ keyring' \in {t} \cup (IF "keyring" \in mishaps THEN {keyring} ELSE {})
    /\ lost' = IF keyring' = t THEN lost ELSE lost \cup {t.session}

Forget == keyring' \in {NoToken} \cup (IF "keyring" \in mishaps THEN {keyring} ELSE {})

-----------------------------------------------------------------------------
ApiInit ==
    /\ session = [s \in Sessions |-> NoSession]
    /\ record = [sk \in Sessions \X Keys |-> NoRecord]
    /\ handlers = {}
    /\ strays = {}
    /\ current = NoToken
    /\ keyring = NoToken
    /\ work = [w \in Workers |-> Idle]
    /\ window = Out
    /\ lost = {}
    /\ seen = {}
    /\ restarts = 0
    /\ mishaps \in Trials

-----------------------------------------------------------------------------
(* The window's thread.                                                    *)

Issued(s) ==
    [AllRevoked EXCEPT ![s] =
        [refresh |-> 1, previous |-> 0, age |-> 0, ended |-> "no"]]

\* sign_in_photographer: the server ends the installation's other sessions and
\* issues one; the answer may get lost.
SignIn ==
    /\ window = Out
    /\ TokenLeft
    /\ \E s \in Sessions :
        /\ session[s] = NoSession
        /\ s > 1 => "sign in again" \in mishaps
        /\ \A r \in Sessions : r < s => session[r] # NoSession
        /\ session' = Issued(s)
        /\ \/ /\ current' = [session |-> s, number |-> 1]
              /\ Save(current')
              /\ window' = In
           \/ UNCHANGED <<current, keyring, window, lost>>
    /\ UNCHANGED <<record, handlers, work, restarts, strays, seen>>

\* end_session drops the tokens before it asks the server to revoke them.
BeginSignOut ==
    /\ "sign out" \in mishaps
    /\ window = In
    /\ window' = IF current = NoToken THEN Out
                 ELSE [at |-> "leaving", token |-> current, answered |-> FALSE]
    /\ current' = NoToken
    /\ UNCHANGED <<server, keyring, work, restarts, strays, lost, seen>>

\* revoke_session.
RevokeOnSignOut ==
    /\ window.at = "leaving"
    /\ ~window.answered
    /\ session' = IF Live(window.token.session) /\ Named(window.token)
                  THEN [session EXCEPT ![window.token.session].ended = "revoked"]
                  ELSE session
    /\ window' = [window EXCEPT !.answered = TRUE]
    /\ UNCHANGED <<record, handlers, current, keyring, work, restarts, strays, lost,
                   seen>>

\* Answered or not, the workstation forgets its token.
EndSignOut ==
    /\ window.at = "leaving"
    /\ window' = Out
    /\ Forget
    /\ UNCHANGED <<server, current, work, restarts, strays, lost, seen>>

-----------------------------------------------------------------------------
(* A worker's request.                                                     *)

Ask(w, k, t, again) ==
    /\ work' = [work EXCEPT ![w] = [at |-> "asked", key |-> k, token |-> t, again |-> again]]
    /\ handlers' = handlers \cup
        {[worker |-> w, waited |-> TRUE, token |-> t, key |-> k, stage |-> "received",
          claim |-> 0]}

\* request of AuthenticatedApiClient; without a session it raises.
Request(w, k) ==
    /\ work[w] = Idle
    /\ current # NoToken
    /\ Ask(w, k, current, FALSE)
    /\ UNCHANGED <<session, record, current, keyring, window, restarts, strays, lost,
                   seen>>

Unheard(h) == [h EXCEPT !.waited = FALSE]

\* The worker stops waiting; the request is lost on its way, or goes on unheard.
\* Bound: one request goes on.
GiveUp(w) ==
    /\ "late answer" \in mishaps
    /\ work[w].at = "asked"
    /\ \A h \in handlers : h.waited
    /\ work' = [work EXCEPT ![w] = Idle]
    /\ handlers' \in
        {{IF h.worker = w THEN Unheard(h) ELSE h : h \in handlers},
         {h \in handlers : h.worker # w \/ h.stage # "received"}}
    /\ \A h \in handlers' : h.worker = w => ~h.waited
    /\ UNCHANGED <<session, record, current, keyring, window, restarts, strays, lost,
                   seen>>

LockFree == \A w \in Workers : work[w].at \notin {"refreshing", "refused", "refreshed"}

\* After a 401 the worker takes the lock; it refreshes unless another has.
Reauthorise(w) ==
    /\ work[w].at = "denied"
    /\ LockFree
    /\ \/ /\ current = NoToken
          /\ work' = [work EXCEPT ![w] = Idle]
          /\ UNCHANGED handlers
       \/ /\ current = work[w].token
          /\ work' = [work EXCEPT ![w] = [at |-> "refreshing", key |-> work[w].key,
                                          token |-> current]]
          /\ UNCHANGED handlers
       \/ /\ current \notin {NoToken, work[w].token}
          /\ Ask(w, work[w].key, current, TRUE)
    /\ UNCHANGED <<session, record, current, keyring, window, restarts, strays, lost,
                   seen>>

\* refresh_session on behalf of a worker that waits.
Refresh(w) ==
    /\ work[w].at = "refreshing"
    /\ RefreshFits(work[w].token)
    /\ session' = AfterRefresh(work[w].token)
    /\ LET t == work[w].token IN
       work' = [work EXCEPT ![w] =
                [at |-> IF Accepts(t) THEN "refreshed" ELSE "refused", key |-> work[w].key,
                 token |-> IF Accepts(t) THEN NewToken(t) ELSE t]]
    /\ UNCHANGED <<record, handlers, current, keyring, window, restarts, strays, lost,
                   seen>>

\* The refresh or its answer is lost, or the refresh comes late.  Bound: one is
\* under way.
RefreshUnanswered(w) ==
    /\ "late refresh" \in mishaps
    /\ work[w].at \in {"refreshing", "refused", "refreshed"}
    /\ work' = [work EXCEPT ![w] = Idle]
    /\ \/ UNCHANGED strays
       \/ work[w].at = "refreshing" /\ strays = {} /\ strays' = {work[w].token}
    /\ lost' = IF work[w].at = "refreshed" THEN lost \cup {work[w].token.session} ELSE lost
    /\ UNCHANGED <<server, current, keyring, window, restarts, seen>>

\* refresh_session when nobody waits for it any more.
RefreshLate ==
    \E t \in strays :
        /\ RefreshFits(t)
        /\ session' = AfterRefresh(t)
        /\ strays' = strays \ {t}
        /\ lost' = lost \cup {t.session}
        /\ UNCHANGED <<record, handlers, client, seen>>

\* _accept_tokens, then the request once more; what another thread has made of
\* the session meanwhile is overwritten.
TakeTokens(w) ==
    /\ work[w].at = "refreshed"
    /\ current' = work[w].token
    /\ Save(work[w].token)
    /\ Ask(w, work[w].key, work[w].token, TRUE)
    /\ UNCHANGED <<session, record, window, restarts, strays, seen>>

\* A refused refresh deletes the saved token and drops the session.
TakeRefusal(w) ==
    /\ work[w].at = "refused"
    /\ work' = [work EXCEPT ![w] = Idle]
    /\ current' = NoToken
    /\ Forget
    /\ UNCHANGED <<server, window, restarts, strays, lost, seen>>

-----------------------------------------------------------------------------
(* The server's handling of a mutation.                                    *)

Advance(h, g) == handlers' = (handlers \ {h}) \cup {g}

\* The answer ends the handler and reaches the worker if it still waits.
Answer(h, w) ==
    /\ handlers' = handlers \ {h}
    /\ work' = IF h.waited THEN [work EXCEPT ![h.worker] = w] ELSE work

\* _bearer_session.
AccessAccepted(t) ==
    /\ t.number = session[t.session].refresh
    /\ session[t.session].age < 2
    /\ Live(t.session)

\* A 401 sends the worker to refresh, the first time.
Deny(h) ==
    /\ h.stage = "received"
    /\ ~AccessAccepted(h.token)
    /\ Answer(h, IF h.waited /\ ~work[h.worker].again
                 THEN [at |-> "denied", key |-> h.key, token |-> h.token, again |-> FALSE]
                 ELSE Idle)
    /\ UNCHANGED <<session, record, current, keyring, window, restarts, strays, lost, seen>>

Free(p) == record[p] # NoRecord => record[p].lapsed

\* The row's identity: no handler holds one that equals it.
NewClaim(p) == CHOOSE c \in Claims : \A g \in handlers : Place(g) = p => g.claim # c

Success(h, answer) ==
    /\ Answer(h, Idle)
    /\ seen' = IF h.waited
               THEN seen \cup {[session |-> h.token.session, key |-> h.key, asked |-> BodyOf[h.worker],
                                answered |-> answer]}
               ELSE seen

\* _replay_or_reject replays the answer of the same request and no other.
Replays(h) == record[Place(h)].done /\ record[Place(h)].body = BodyOf[h.worker]

\* _claim_mutation.
Claim(h) ==
    /\ h.stage = "received"
    /\ AccessAccepted(h.token)
    /\ \/ /\ Free(Place(h))
          /\ record' = [record EXCEPT ![Place(h)] =
                [claim |-> NewClaim(Place(h)), body |-> BodyOf[h.worker], done |-> FALSE,
                 answer |-> BodyOf[h.worker], lapsed |-> FALSE]]
          /\ Advance(h, [h EXCEPT !.stage = "claimed", !.claim = NewClaim(Place(h))])
          /\ UNCHANGED <<work, seen>>
       \/ /\ ~Free(Place(h))
          /\ Replays(h)
          /\ Success(h, record[Place(h)].answer)
          /\ UNCHANGED record
       \/ /\ ~Free(Place(h))
          /\ ~Replays(h)
          /\ Answer(h, Idle)
          /\ UNCHANGED <<record, seen>>
    /\ UNCHANGED <<session, current, keyring, window, restarts, strays, lost>>

Holds(h) ==
    record[Place(h)] # NoRecord /\ record[Place(h)].claim = h.claim /\ ~record[Place(h)].done

\* The command's own transactions.
Command(h) ==
    /\ h.stage = "claimed"
    /\ Advance(h, [h EXCEPT !.stage = "ran"])
    /\ UNCHANGED <<session, record, client, strays, lost, seen>>

\* A command that raises releases its claim.
Released(h) ==
    IF Holds(h) THEN [record EXCEPT ![Place(h)] = NoRecord] ELSE record

CommandRaises(h) ==
    /\ "raise" \in mishaps
    /\ h.stage = "claimed"
    /\ record' = Released(h)
    /\ Answer(h, Idle)
    /\ UNCHANGED <<session, current, keyring, window, restarts, strays, lost, seen>>

Completed(h) == [record EXCEPT ![Place(h)].done = TRUE, ![Place(h)].lapsed = FALSE]

\* _complete_mutation; a claim that is no longer its own is a server error.
Complete(h) ==
    /\ h.stage = "ran"
    /\ \/ /\ Holds(h)
          /\ record' = Completed(h)
          /\ Success(h, BodyOf[h.worker])
       \/ /\ ~Holds(h)
          /\ Answer(h, Idle)
          /\ UNCHANGED <<record, seen>>
    /\ UNCHANGED <<session, current, keyring, window, restarts, strays, lost>>

\* The process stops; a claim it holds stays.
Stop(h) ==
    /\ "stop" \in mishaps
    /\ Answer(h, Idle)
    /\ UNCHANGED <<session, record, current, keyring, window, restarts, strays, lost, seen>>

-----------------------------------------------------------------------------
(* Time, accounts and restarts.                                            *)

\* The answer that carries a session's access token, or a sign-out that began
\* before it, is on its way; neither takes as long as the token lasts.
OnItsWay(s) ==
    \/ \E w \in Workers : work[w].at = "refreshed" /\ work[w].token.session = s
    \/ /\ window.at = "leaving"
       /\ window.token.session = s /\ window.token.number # session[s].refresh

\* A session's tokens grow old, and then the session.
Times(s) ==
    /\ "age" \in mishaps
    /\ Live(s)
    /\ \/ /\ session[s].age < 2
          /\ session[s].age = 1 => ~OnItsWay(s)
          /\ session' = [session EXCEPT ![s].age = @ + 1]
       \/ /\ session[s].age = 2
          /\ session' = [session EXCEPT ![s].ended = "expired"]
    /\ UNCHANGED <<record, handlers, client, strays, lost, seen>>

\* A claim lapses after fifteen minutes, when its command has ended or stopped
\* unless commands are slow; a completed record after thirty days, when the
\* tokens of its session have expired and no request is that old.
Lapse(p) ==
    /\ record[p] # NoRecord
    /\ \/ /\ ~record[p].done
          /\ SlowCommands \/ \A h \in handlers : Place(h) # p \/ h.claim # record[p].claim
       \/ /\ record[p].done
          /\ session[p[1]].ended = "expired"
          /\ \A h \in handlers : Place(h) # p
    /\ record' = [record EXCEPT ![p].lapsed = TRUE]
    /\ UNCHANGED <<session, handlers, client, strays, lost, seen>>

\* revoke_user_sessions.
Recover ==
    /\ "recover" \in mishaps
    /\ \E s \in Sessions : Live(s)
    /\ session' = AllRevoked
    /\ UNCHANGED <<record, handlers, client, strays, lost, seen>>

\* Tokens on their way to a program that closes are lost.
Unsaved == {work[w].token.session : w \in {v \in Workers : work[v].at = "refreshed"}}

\* The program closes and is started again: it signs in with the saved token,
\* which the server accepts or refuses, or shows the sign-in page.
Restart ==
    /\ "restart" \in mishaps
    /\ restarts < MaxRestarts
    /\ \A w \in Workers : Cardinality({h \in handlers : h.worker = w}) <= 1
    /\ restarts' = restarts + 1
    /\ work' = [w \in Workers |-> Idle]
    /\ handlers' = {Unheard(h) : h \in handlers}
    /\ strays' = strays \cup
        {work[w].token : w \in {v \in Workers : work[v].at = "refreshing"}}
    /\ LET saved == keyring IN
       \/ /\ saved # NoToken
          /\ RefreshFits(saved)
          /\ session' = AfterRefresh(saved)
          /\ \/ /\ Accepts(saved)
                /\ current' = NewToken(saved)
                /\ keyring' \in {NewToken(saved)} \cup (IF "keyring" \in mishaps THEN {keyring} ELSE {})
                /\ lost' = lost \cup Unsaved
                            \cup (IF keyring' = keyring THEN {saved.session} ELSE {})
                /\ window' = In
             \/ /\ ~Accepts(saved)
                /\ current' = NoToken
                /\ Forget
                /\ lost' = lost \cup Unsaved
                /\ window' = Out
             \/ /\ current' = NoToken
                /\ keyring' = keyring
                /\ lost' = lost \cup Unsaved \cup {saved.session}
                /\ window' = Out
       \/ /\ current' = NoToken
          /\ window' = Out
          /\ lost' = lost \cup Unsaved
          /\ UNCHANGED <<session, keyring>>
    /\ UNCHANGED <<record, seen>>

-----------------------------------------------------------------------------
Handle(h) ==
    Deny(h) \/ Claim(h) \/ Command(h) \/ CommandRaises(h) \/ Complete(h) \/ Stop(h)

WorkerStep(w) ==
    \/ \E k \in Keys : Request(w, k)
    \/ GiveUp(w) \/ Reauthorise(w) \/ Refresh(w) \/ RefreshUnanswered(w)
    \/ TakeTokens(w) \/ TakeRefusal(w)

ApiStep ==
    \/ SignIn \/ BeginSignOut \/ RevokeOnSignOut \/ EndSignOut
    \/ \E w \in Workers : WorkerStep(w)
    \/ \E h \in handlers : Handle(h)
    \/ RefreshLate
    \/ \E s \in Sessions : Times(s)
    \/ \E p \in Sessions \X Keys : Lapse(p)
    \/ Recover \/ Restart

ApiNext == ApiStep /\ UNCHANGED mishaps

ApiSpec == ApiInit /\ [][ApiNext]_vars

-----------------------------------------------------------------------------
(* Properties.                                                             *)

\* A command runs for one request of a session and key at a time, whatever
\* requests the workers repeat while it runs, however late.
RunsAlone ==
    \A g, h \in handlers :
        g.stage \in {"claimed", "ran"} /\ h.stage \in {"claimed", "ran"} /\ Place(g) = Place(h)
            => g = h

\* Once a worker has been answered that its mutation succeeded, no request of
\* that session runs it again: the record outlives the session's tokens, and a
\* process that stops, a claim that lapses or a late request cannot revive it.
AnsweredIsFinal ==
    \A h \in handlers : h.stage \in {"claimed", "ran"} =>
        \A a \in seen : Place(h) # <<a.session, a.key>>

\* The success a worker is answered with is that of the request it sent, never
\* that of another body under the same key.
AnswersMatch == \A a \in seen : a.asked = a.answered

\* The server ends a session for a reused token only when one of the session's
\* tokens was lost: an answer that did not arrive, a refresh that came late, a
\* program that closed before it saved.  Workers that meet an expired token at
\* the same time, and a window that signs out and in between, never cause it.
ReuseMeansLoss == \A s \in Sessions : session[s].ended = "reused" => s \in lost

\* A sign-out the server has answered ends the session even when a worker's
\* refresh replaced the token the window held, unless a token was lost.
SignOutRevokes ==
    window.at = "leaving" /\ window.answered /\ window.token.session \notin lost
        => ~Live(window.token.session)

-----------------------------------------------------------------------------
(* A promise of the plan that the code does not keep; no run checks it.     *)

\* Once a workstation has forgotten its token it holds none until it signs in:
\* "sign out ... deletes the keyring entry".  The tokens of a refresh that was
\* under way are saved after it, and when the sign-out did not reach the server
\* they sign the workstation in again when it restarts.
SignedOutForgets ==
    [][window = Out /\ window' = Out /\ keyring = NoToken => keyring' = NoToken]_vars

=============================================================================
