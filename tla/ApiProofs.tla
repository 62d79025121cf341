----------------------------- MODULE ApiProofs -----------------------------
(***************************************************************************)
(* Proofs about ApiSessions for any number of workers, keys, sessions,     *)
(* tokens and mishaps, while no command outlives its claim.                *)
(*                                                                         *)
(* RunsAlone alone is not inductive: what keeps a second request from      *)
(* running the command is that a handler at work holds the record under    *)
(* its key and that the record has not lapsed.  What keeps an answered     *)
(* mutation from running again is that its record stays until the session  *)
(* has expired, when no request of the session is accepted any more.       *)
(*                                                                         *)
(* That an honest client never presents a token the server has replaced    *)
(* rests on the refresh lock: TokenInv follows each session's tokens from  *)
(* the server through the answers under way to whoever still uses them.    *)
(***************************************************************************)
EXTENDS ApiSessions, FiniteSetTheorems, TLAPS

Working == {h \in handlers : h.stage # "received"}

\* Completed in this session, and kept while the session lasts.
Kept(p) ==
    /\ record[p] # NoRecord
    /\ record[p].done
    /\ record[p].lapsed => session[p[1]].ended = "expired"

RecordInv ==
    /\ \A h \in handlers : h.stage = "received" => h.claim = 0
    /\ \A h \in Working : Holds(h) /\ ~record[Place(h)].lapsed
    /\ \A p \in Sessions \X Keys : record[p] # NoRecord => record[p].answer = record[p].body
    /\ \A a \in seen : Kept(<<a.session, a.key>>)
    /\ RunsAlone
    /\ AnswersMatch

ApiInv == ApiTypeOK /\ RecordInv

-----------------------------------------------------------------------------
(* The operators.                                                          *)

\* There is a claim to take.
LEMMA SomeClaim == 1 \in Claims /\ 0 \notin Claims
<1>1. Cardinality(Workers) \in Nat /\ Cardinality(Workers) # 0
  BY ApiConstants, FS_CardinalityType, FS_EmptySet
<1> QED
  BY <1>1 DEF Claims

\* Tokens and rows.
LEMMA TokenFacts ==
    ASSUME ApiTypeOK, NEW t \in Token
    PROVE  /\ t.session \in Sessions
           /\ t.number \in Nat \ {0}
           /\ Live(t.session) => session[t.session] \in Row
           /\ Live(t.session) => NewToken(t) \in Token
           /\ t # NoToken
<1>1. /\ t.session \in Sessions
      /\ t.number \in Nat \ {0}
  BY DEF Token
<1>2. Live(t.session) => session[t.session] \in Row
  BY <1>1 DEF Live, ApiTypeOK, NoSession
<1>3. Live(t.session) => NewToken(t) \in Token
  BY <1>2 DEF NewToken, Token, Row
<1> QED
  BY <1>1, <1>2, <1>3 DEF NoToken

\* A session that has expired stays so, whatever is done to the sessions.
Lasting(new) ==
    /\ new \in [Sessions -> Row \cup {NoSession}]
    /\ \A s \in Sessions : session[s].ended = "expired" => new[s].ended = "expired"

LEMMA RefreshLasts ==
    ASSUME ApiTypeOK, NEW t \in Token
    PROVE  Lasting(AfterRefresh(t))
<1> USE TokenFacts
<1>1. CASE Accepts(t)
  <2>1. AfterRefresh(t) = [session EXCEPT ![t.session] = Rotated(session[t.session])]
    BY <1>1 DEF AfterRefresh
  <2>2. session[t.session] \in Row /\ session[t.session].ended = "no"
    BY <1>1 DEF Accepts, Live
  <2>3. ASSUME NEW r \in Row PROVE Rotated(r) \in Row
    BY DEF Rotated, Row
  <2> QED
    BY <2>1, <2>2, <2>3 DEF Lasting, ApiTypeOK
<1>2. CASE ~Accepts(t) /\ Reused(t)
  <2>1. AfterRefresh(t) = [session EXCEPT ![t.session].ended = "reused"]
    BY <1>2 DEF AfterRefresh
  <2>2. session[t.session] \in Row /\ session[t.session].ended = "no"
    BY <1>2 DEF Reused, Live
  <2> QED
    BY <2>1, <2>2 DEF Lasting, ApiTypeOK, Row
<1>3. CASE ~Accepts(t) /\ ~Reused(t)
  BY <1>3 DEF AfterRefresh, Lasting, ApiTypeOK
<1> QED
  BY <1>1, <1>2, <1>3

LEMMA RevokedLasts ==
    ASSUME ApiTypeOK
    PROVE  Lasting(AllRevoked)
<1>1. \A s \in Sessions : Live(s) => [session[s] EXCEPT !.ended = "revoked"] \in Row
  BY DEF ApiTypeOK, Live, NoSession, Row
<1> QED
  BY <1>1 DEF AllRevoked, Lasting, ApiTypeOK, Live

LEMMA IssuedLasts ==
    ASSUME ApiTypeOK, NEW s \in Sessions, session[s] = NoSession
    PROVE  Lasting(Issued(s))
<1>1. [refresh |-> 1, previous |-> 0, age |-> 0, ended |-> "no"] \in Row
  BY DEF Row
<1> QED
  BY <1>1, RevokedLasts DEF Issued, Lasting, NoSession

-----------------------------------------------------------------------------
(* Types.  The actions are split by who takes them.                        *)

\* A free record is held by no handler, so that its next claim is new.
LEMMA ClaimIsNew ==
    ASSUME ApiInv, NEW h \in handlers, Free(Place(h))
    PROVE  /\ NewClaim(Place(h)) \in Claims
           /\ \A g \in handlers : Place(g) = Place(h) => g.stage = "received"
<1>1. \A g \in handlers : Place(g) = Place(h) => g.stage = "received"
  BY DEF ApiInv, RecordInv, Working, Holds, Free
<1>2. \A g \in handlers : Place(g) = Place(h) => g.claim # 1
  BY <1>1, SomeClaim DEF ApiInv, RecordInv
<1>3. \E c \in Claims : \A g \in handlers : Place(g) = Place(h) => g.claim # c
  BY <1>2, SomeClaim
<1> QED
  BY <1>1, <1>3 DEF NewClaim

\* A window that signs out has a token to revoke.
LEMMA WindowFacts ==
    ASSUME ApiTypeOK, window.at = "leaving"
    PROVE  window \in Leaving
<1>1. Out.at # "leaving" /\ In.at # "leaving"
  BY DEF Out, In
<1> QED
  BY <1>1 DEF ApiTypeOK

\* A handler that nobody waits for is otherwise the same.
LEMMA UnheardFacts ==
    ASSUME NEW h \in Handler
    PROVE  /\ Unheard(h) \in Handler
           /\ Place(Unheard(h)) = Place(h)
           /\ Unheard(h).stage = h.stage
           /\ Unheard(h).claim = h.claim
BY DEF Unheard, Handler, Place

\* What the window's thread does.
LEMMA WindowTypes ==
    ASSUME ApiTypeOK,
           SignIn \/ BeginSignOut \/ RevokeOnSignOut \/ EndSignOut,
           UNCHANGED mishaps
    PROVE  ApiTypeOK' /\ Lasting(session')
<1> USE DEF ApiTypeOK, server, client
<1>0. Lasting(session)
  BY DEF Lasting
<1>1. CASE SignIn
  <2>1. PICK s \in Sessions :
          /\ session[s] = NoSession
          /\ session' = Issued(s)
          /\ \/ /\ current' = [session |-> s, number |-> 1]
                /\ Save(current')
                /\ window' = In
             \/ UNCHANGED <<current, keyring, window, lost>>
    BY <1>1 DEF SignIn
  <2>2. Lasting(session')
    BY <2>1, IssuedLasts
  <2>3. [session |-> s, number |-> 1] \in Token
    BY DEF Token
  <2>4. UNCHANGED <<record, handlers, work, restarts, strays, seen>>
    BY <1>1 DEF SignIn
  <2>5. current' \in Token \cup {NoToken} /\ keyring' \in Token \cup {NoToken}
        /\ lost' \subseteq Sessions /\ window' \in {Out, In} \cup Leaving
    BY <2>1, <2>3 DEF Save
  <2> QED
    BY <2>2, <2>4, <2>5 DEF Lasting
<1>2. CASE BeginSignOut
  <2>1. window' \in {Out, In} \cup Leaving
    BY <1>2 DEF BeginSignOut, Leaving
  <2> QED
    BY <1>0, <1>2, <2>1 DEF BeginSignOut
<1>3. CASE RevokeOnSignOut
  <2>1. window \in Leaving
    BY <1>3, WindowFacts DEF RevokeOnSignOut
  <2>2. window.token \in Token
    BY <2>1 DEF Leaving
  <2>3. window' \in Leaving
    BY <1>3, <2>1 DEF RevokeOnSignOut, Leaving
  <2>4. Lasting(session')
    <3>1. CASE Live(window.token.session)
      <4>1. [session EXCEPT ![window.token.session].ended = "revoked"]
              \in [Sessions -> Row \cup {NoSession}]
        BY <2>2, <3>1, TokenFacts DEF Row
      <4> QED
        BY <1>0, <1>3, <2>2, <3>1, <4>1, TokenFacts DEF RevokeOnSignOut, Lasting, Live
    <3>2. CASE ~Live(window.token.session)
      BY <1>0, <1>3, <3>2 DEF RevokeOnSignOut
    <3> QED
      BY <3>1, <3>2
  <2> QED
    BY <1>3, <2>3, <2>4 DEF RevokeOnSignOut, Lasting
<1>4. CASE EndSignOut
  BY <1>0, <1>4 DEF EndSignOut, Forget
<1> QED
  BY <1>1, <1>2, <1>3, <1>4

\* What the workers do.
LEMMA AskTypes ==
    ASSUME ApiTypeOK, NEW w \in Workers, NEW k \in Keys, NEW t \in Token, NEW again \in BOOLEAN,
           Ask(w, k, t, again)
    PROVE  /\ work' \in [Workers -> {Idle} \cup Waiting \cup Refreshing \cup Refreshed]
           /\ handlers' \subseteq Handler
<1>1. [at |-> "asked", key |-> k, token |-> t, again |-> again] \in Waiting
  BY DEF Waiting
<1>2. [worker |-> w, waited |-> TRUE, token |-> t, key |-> k, stage |-> "received",
       claim |-> 0] \in Handler
  BY DEF Handler
<1> QED
  BY <1>1, <1>2 DEF ApiTypeOK, Ask

\* What a worker waits for, by where it is.
LEMMA WorkFacts ==
    ASSUME ApiTypeOK, NEW w \in Workers
    PROVE  /\ work[w].at \in {"asked", "denied"} => work[w] \in Waiting
           /\ work[w].at \in {"refreshing", "refused"} => work[w] \in Refreshing
           /\ work[w].at = "refreshed" => work[w] \in Refreshed
           /\ work[w].at # "idle" => work[w].token \in Token /\ work[w].key \in Keys
BY DEF ApiTypeOK, Idle, Waiting, Refreshing, Refreshed

LEMMA WorkerTypes ==
    ASSUME ApiTypeOK, NEW w \in Workers, WorkerStep(w), UNCHANGED mishaps
    PROVE  ApiTypeOK' /\ Lasting(session')
<1> USE WorkFacts DEF ApiTypeOK, server, client
<1>0. Lasting(session)
  BY DEF Lasting
<1>1. ASSUME NEW k \in Keys, Request(w, k)
      PROVE  ApiTypeOK' /\ Lasting(session')
  <2>1. current \in Token
    BY <1>1 DEF Request
  <2>2. Ask(w, k, current, FALSE)
    BY <1>1 DEF Request
  <2> QED
    BY <1>0, <1>1, <2>1, <2>2, AskTypes DEF Request
<1>2. CASE GiveUp(w)
  <2>1. work' \in [Workers -> {Idle} \cup Waiting \cup Refreshing \cup Refreshed]
    BY <1>2 DEF GiveUp
  <2>2. \A h \in handlers : h \in Handler /\ Unheard(h) \in Handler
    BY UnheardFacts
  <2>3. handlers' \subseteq Handler
    <3>1. CASE handlers' = {IF h.worker = w THEN Unheard(h) ELSE h : h \in handlers}
      BY <2>2, <3>1
    <3>2. CASE handlers' = {h \in handlers : h.worker # w \/ h.stage # "received"}
      BY <2>2, <3>2
    <3> QED
      BY <1>2, <3>1, <3>2 DEF GiveUp
  <2> QED
    BY <1>0, <1>2, <2>1, <2>3 DEF GiveUp
<1>3. CASE Reauthorise(w)
  <2>1. work[w].at = "denied"
    BY <1>3 DEF Reauthorise
  <2>2. work[w].key \in Keys
    BY <2>1
  <2>3. /\ work' \in [Workers -> {Idle} \cup Waiting \cup Refreshing \cup Refreshed]
        /\ handlers' \subseteq Handler
    <3>1. CASE work' = [work EXCEPT ![w] = Idle] /\ UNCHANGED handlers
      BY <3>1
    <3>2. CASE /\ current = work[w].token
               /\ work' = [work EXCEPT ![w] = [at |-> "refreshing", key |-> work[w].key,
                                               token |-> current]]
               /\ UNCHANGED handlers
      <4>1. [at |-> "refreshing", key |-> work[w].key, token |-> current] \in Refreshing
        BY <2>1, <3>2 DEF Refreshing
      <4> QED
        BY <3>2, <4>1
    <3>3. CASE current # NoToken /\ Ask(w, work[w].key, current, TRUE)
      BY <2>2, <3>3, AskTypes
    <3> QED
      BY <1>3, <3>1, <3>2, <3>3 DEF Reauthorise
  <2> QED
    BY <1>0, <1>3, <2>3 DEF Reauthorise
<1>4. CASE Refresh(w)
  <2>1. work[w] \in Refreshing /\ work[w].token \in Token
    BY <1>4 DEF Refresh
  <2>2. Lasting(session')
    <3>1. session' = AfterRefresh(work[w].token)
      BY <1>4 DEF Refresh
    <3> QED
      BY <2>1, <3>1, RefreshLasts
  <2>3. Accepts(work[w].token) => NewToken(work[w].token) \in Token
    BY <2>1, TokenFacts DEF Accepts
  <2>4. work' = [work EXCEPT ![w] =
          [at |-> IF Accepts(work[w].token) THEN "refreshed" ELSE "refused", key |-> work[w].key,
           token |-> IF Accepts(work[w].token) THEN NewToken(work[w].token) ELSE work[w].token]]
    BY <1>4 DEF Refresh
  <2>5. work[w].key \in Keys
    BY <2>1 DEF Refreshing
  <2>6. /\ Accepts(work[w].token) =>
              [at |-> "refreshed", key |-> work[w].key, token |-> NewToken(work[w].token)] \in Refreshed
        /\ [at |-> "refused", key |-> work[w].key, token |-> work[w].token] \in Refreshing
    BY <2>1, <2>3, <2>5 DEF Refreshing, Refreshed
  <2>7. work' \in [Workers -> {Idle} \cup Waiting \cup Refreshing \cup Refreshed]
    BY <2>4, <2>6
  <2> QED
    BY <1>4, <2>2, <2>7 DEF Refresh, Lasting
<1>5. CASE RefreshUnanswered(w)
  <2>1. work[w].token \in Token
    BY <1>5 DEF RefreshUnanswered
  <2>2. work[w].token.session \in Sessions
    BY <2>1, TokenFacts
  <2>3. work' \in [Workers -> {Idle} \cup Waiting \cup Refreshing \cup Refreshed]
    BY <1>5 DEF RefreshUnanswered
  <2>4. strays' \subseteq Token /\ lost' \subseteq Sessions
    BY <1>5, <2>1, <2>2 DEF RefreshUnanswered
  <2> QED
    BY <1>0, <1>5, <2>3, <2>4 DEF RefreshUnanswered
<1>6. CASE TakeTokens(w)
  <2>1. work[w].at = "refreshed"
    BY <1>6 DEF TakeTokens
  <2>2. work[w].token \in Token /\ work[w].key \in Keys
    BY <2>1
  <2>3. Ask(w, work[w].key, work[w].token, TRUE)
    BY <1>6 DEF TakeTokens
  <2>4. current' \in Token \cup {NoToken} /\ keyring' \in Token \cup {NoToken}
        /\ lost' \subseteq Sessions
    BY <1>6, <2>2, TokenFacts DEF TakeTokens, Save
  <2> QED
    BY <1>0, <1>6, <2>2, <2>3, <2>4, AskTypes DEF TakeTokens
<1>7. CASE TakeRefusal(w)
  BY <1>0, <1>7 DEF TakeRefusal, Forget
<1> QED
  BY <1>1, <1>2, <1>3, <1>4, <1>5, <1>6, <1>7 DEF WorkerStep

\* The record of an answered request.
LEMMA CompletedShape ==
    ASSUME ApiTypeOK, NEW h \in handlers, record[Place(h)] # NoRecord
    PROVE  /\ Completed(h) \in [Sessions \X Keys -> Record \cup {NoRecord}]
           /\ \A p \in Sessions \X Keys : p # Place(h) => Completed(h)[p] = record[p]
           /\ Completed(h)[Place(h)] # NoRecord
           /\ Completed(h)[Place(h)].done
           /\ ~Completed(h)[Place(h)].lapsed
           /\ Completed(h)[Place(h)].body = record[Place(h)].body
           /\ Completed(h)[Place(h)].answer = record[Place(h)].answer
<1>1. Place(h) \in Sessions \X Keys
  BY DEF ApiTypeOK, Handler, Token, Place
<1>2. record[Place(h)] \in Record
  BY <1>1 DEF ApiTypeOK
<1> DEFINE one == [record EXCEPT ![Place(h)].done = TRUE]
<1>3. [record[Place(h)] EXCEPT !.done = TRUE] \in Record
  BY <1>2 DEF Record
<1>4. /\ one \in [Sessions \X Keys -> Record \cup {NoRecord}]
      /\ one[Place(h)] \in Record
      /\ one[Place(h)].done
      /\ one[Place(h)].body = record[Place(h)].body
      /\ one[Place(h)].answer = record[Place(h)].answer
      /\ \A p \in Sessions \X Keys : p # Place(h) => one[p] = record[p]
  BY <1>1, <1>2, <1>3 DEF ApiTypeOK, Record
<1>5. Completed(h) = [one EXCEPT ![Place(h)].lapsed = FALSE]
  BY DEF Completed
<1> HIDE DEF one
<1>6. [one[Place(h)] EXCEPT !.lapsed = FALSE] \in Record
  BY <1>4 DEF Record
<1>7. \A r \in Record : r # NoRecord
  BY SomeClaim DEF Record, NoRecord
<1> QED
  BY <1>1, <1>4, <1>5, <1>6, <1>7 DEF Record

\* What the server does.
LEMMA HandlerTypes ==
    ASSUME ApiInv, NEW h \in handlers, Handle(h), UNCHANGED mishaps
    PROVE  ApiTypeOK' /\ UNCHANGED session
<1> DEFINE Busy == {Idle} \cup Waiting \cup Refreshing \cup Refreshed
<1> USE DEF ApiTypeOK, server, client
<1>0. ApiTypeOK
  BY DEF ApiInv
<1>1. h \in Handler
  BY <1>0
<1>2. /\ Place(h) \in Sessions \X Keys
      /\ BodyOf[h.worker] \in Bodies
      /\ h.worker \in Workers
      /\ h.key \in Keys
      /\ h.token \in Token
      /\ h.token.session \in Sessions
  BY <1>1 DEF Place, Handler, Token, Bodies
<1>3. ASSUME NEW w \in Busy, Answer(h, w)
      PROVE  handlers' \subseteq Handler /\ work' \in [Workers -> Busy]
  BY <1>0, <1>2, <1>3 DEF Answer
<1>4. Idle \in Busy
  OBVIOUS
<1>5. ASSUME NEW answer \in Bodies, Success(h, answer)
      PROVE  /\ handlers' \subseteq Handler
             /\ work' \in [Workers -> Busy]
             /\ seen' \subseteq [session : Sessions, key : Keys, asked : Bodies, answered : Bodies]
  <2>1. handlers' \subseteq Handler /\ work' \in [Workers -> Busy]
    BY <1>3, <1>4, <1>5 DEF Success
  <2>2. [session |-> h.token.session, key |-> h.key, asked |-> BodyOf[h.worker],
         answered |-> answer] \in [session : Sessions, key : Keys, asked : Bodies, answered : Bodies]
    BY <1>2
  <2> QED
    BY <1>0, <1>5, <2>1, <2>2 DEF Success
<1>6. CASE Deny(h)
  <2>1. [at |-> "denied", key |-> h.key, token |-> h.token, again |-> FALSE] \in Busy
    BY <1>2 DEF Waiting
  <2>2. handlers' \subseteq Handler /\ work' \in [Workers -> Busy]
    BY <1>3, <1>4, <1>6, <2>1 DEF Deny
  <2> QED
    BY <1>0, <1>6, <2>2 DEF Deny
<1>7. CASE Claim(h)
  <2>1. CASE /\ Free(Place(h))
             /\ record' = [record EXCEPT ![Place(h)] =
                  [claim |-> NewClaim(Place(h)), body |-> BodyOf[h.worker], done |-> FALSE,
                   answer |-> BodyOf[h.worker], lapsed |-> FALSE]]
             /\ Advance(h, [h EXCEPT !.stage = "claimed", !.claim = NewClaim(Place(h))])
             /\ UNCHANGED <<work, seen>>
    <3>1. NewClaim(Place(h)) \in Claims
      BY <2>1, ClaimIsNew
    <3>2. [claim |-> NewClaim(Place(h)), body |-> BodyOf[h.worker], done |-> FALSE,
           answer |-> BodyOf[h.worker], lapsed |-> FALSE] \in Record
      BY <1>2, <3>1 DEF Record
    <3>3. record' \in [Sessions \X Keys -> Record \cup {NoRecord}]
      BY <1>0, <1>2, <2>1, <3>2
    <3>4. [h EXCEPT !.stage = "claimed", !.claim = NewClaim(Place(h))] \in Handler
      BY <1>1, <3>1 DEF Handler
    <3> QED
      BY <1>0, <1>7, <2>1, <3>3, <3>4 DEF Claim, Advance
  <2>2. CASE /\ ~Free(Place(h))
             /\ Success(h, record[Place(h)].answer)
             /\ UNCHANGED record
    <3>1. record[Place(h)].answer \in Bodies
      BY <1>0, <1>2, <2>2 DEF Free, Record
    <3> QED
      BY <1>0, <1>5, <1>7, <2>2, <3>1 DEF Claim
  <2>3. CASE Answer(h, Idle) /\ UNCHANGED <<record, seen>>
    BY <1>0, <1>3, <1>4, <1>7, <2>3 DEF Claim
  <2> QED
    BY <1>7, <2>1, <2>2, <2>3 DEF Claim
<1>8. CASE Command(h)
  <2>1. [h EXCEPT !.stage = "ran"] \in Handler
    BY <1>1 DEF Handler
  <2> QED
    BY <1>0, <1>8, <2>1 DEF Command, Advance
<1>9. CASE CommandRaises(h)
  <2>1. record' \in [Sessions \X Keys -> Record \cup {NoRecord}]
    BY <1>0, <1>2, <1>9 DEF CommandRaises, Released
  <2>2. handlers' \subseteq Handler /\ work' \in [Workers -> Busy]
    BY <1>3, <1>4, <1>9 DEF CommandRaises
  <2> QED
    BY <1>0, <1>9, <2>1, <2>2 DEF CommandRaises
<1>10. CASE Complete(h)
  <2>1. CASE Holds(h) /\ record' = Completed(h) /\ Success(h, BodyOf[h.worker])
    <3>1. record' \in [Sessions \X Keys -> Record \cup {NoRecord}]
      BY <1>0, <1>2, <2>1, CompletedShape DEF Holds
    <3> QED
      BY <1>0, <1>2, <1>5, <1>10, <2>1, <3>1 DEF Complete
  <2>2. CASE Answer(h, Idle) /\ UNCHANGED <<record, seen>>
    BY <1>0, <1>3, <1>4, <1>10, <2>2 DEF Complete
  <2> QED
    BY <1>10, <2>1, <2>2 DEF Complete
<1>11. CASE Stop(h)
  <2>1. handlers' \subseteq Handler /\ work' \in [Workers -> Busy]
    BY <1>3, <1>4, <1>11 DEF Stop
  <2> QED
    BY <1>0, <1>11, <2>1 DEF Stop
<1> QED
  BY <1>6, <1>7, <1>8, <1>9, <1>10, <1>11 DEF Handle, Deny, Claim, Command, CommandRaises, Complete, Stop

\* What time, an account's recovery, a late refresh and a restart do.
LEMMA TimesTypes ==
    ASSUME ApiTypeOK, NEW s \in Sessions, Times(s), UNCHANGED mishaps
    PROVE  ApiTypeOK' /\ Lasting(session')
<1>1. session[s] \in Row
  BY DEF Times, Live, ApiTypeOK, NoSession
<1>2. CASE /\ session[s].age < 2
           /\ session' = [session EXCEPT ![s].age = session[s].age + 1]
  <2>1. session[s].age + 1 \in 0..2
    BY <1>1, <1>2 DEF Row
  <2>2. [session[s] EXCEPT !.age = session[s].age + 1] \in Row
    BY <1>1, <2>1 DEF Row
  <2>3. Lasting(session')
    BY <1>1, <1>2, <2>2 DEF Lasting, ApiTypeOK, Times, Live
  <2> QED
    BY <2>3 DEF Times, ApiTypeOK, Lasting, client
<1>3. CASE session' = [session EXCEPT ![s].ended = "expired"]
  <2>1. Lasting(session')
    BY <1>1, <1>3 DEF Lasting, ApiTypeOK, Row
  <2> QED
    BY <2>1 DEF Times, ApiTypeOK, Lasting, client
<1> QED
  BY <1>2, <1>3 DEF Times

LEMMA LapseTypes ==
    ASSUME ApiTypeOK, NEW p \in Sessions \X Keys, Lapse(p), UNCHANGED mishaps
    PROVE  ApiTypeOK' /\ Lasting(session')
<1>1. record[p] \in Record
  BY DEF Lapse, ApiTypeOK
<1>2. [record[p] EXCEPT !.lapsed = TRUE] \in Record
  BY <1>1 DEF Record
<1>3. record' \in [Sessions \X Keys -> Record \cup {NoRecord}]
  BY <1>1, <1>2 DEF Lapse, ApiTypeOK
<1> QED
  BY <1>3 DEF Lapse, ApiTypeOK, Lasting, client

LEMMA RecoverTypes ==
    ASSUME ApiTypeOK, Recover, UNCHANGED mishaps
    PROVE  ApiTypeOK' /\ Lasting(session')
BY RevokedLasts DEF Recover, ApiTypeOK, Lasting, client

LEMMA RefreshLateTypes ==
    ASSUME ApiTypeOK, RefreshLate, UNCHANGED mishaps
    PROVE  ApiTypeOK' /\ Lasting(session')
<1>1. PICK t \in strays : /\ session' = AfterRefresh(t)
                          /\ strays' = strays \ {t}
                          /\ lost' = lost \cup {t.session}
  BY DEF RefreshLate
<1>2. t \in Token
  BY DEF ApiTypeOK
<1>3. Lasting(session')
  BY <1>1, <1>2, RefreshLasts
<1>4. strays' \subseteq Token /\ lost' \subseteq Sessions
  BY <1>1, <1>2, TokenFacts DEF ApiTypeOK
<1> QED
  BY <1>3, <1>4 DEF RefreshLate, ApiTypeOK, Lasting, client

LEMMA RestartTypes ==
    ASSUME ApiTypeOK, Restart, UNCHANGED mishaps
    PROVE  ApiTypeOK' /\ Lasting(session')
<1>1. handlers' \subseteq Handler
  <2>1. \A h \in handlers : Unheard(h) \in Handler
    BY UnheardFacts DEF ApiTypeOK
  <2> QED
    BY <2>1 DEF Restart
<1>2. strays' \subseteq Token
  <2>1. \A w \in Workers : work[w].at = "refreshing" => work[w].token \in Token
    BY WorkFacts
  <2> QED
    BY <2>1 DEF Restart, ApiTypeOK
<1>3. Unsaved \subseteq Sessions
  <2>1. \A w \in Workers : work[w].at = "refreshed" => work[w].token.session \in Sessions
    BY WorkFacts, TokenFacts
  <2> QED
    BY <2>1 DEF Unsaved
<1>4. work' \in [Workers -> {Idle} \cup Waiting \cup Refreshing \cup Refreshed]
  BY DEF Restart
<1>5. restarts' \in 0..MaxRestarts
  BY ApiConstants DEF Restart, ApiTypeOK
<1>6. /\ Lasting(session')
      /\ current' \in Token \cup {NoToken}
      /\ keyring' \in Token \cup {NoToken}
      /\ lost' \subseteq Sessions
      /\ window' \in {Out, In}
  <2>1. CASE keyring # NoToken /\ session' = AfterRefresh(keyring)
    <3>1. keyring \in Token
      BY <2>1 DEF ApiTypeOK
    <3>2. Lasting(session')
      BY <2>1, <3>1, RefreshLasts
    <3>3. Accepts(keyring) => NewToken(keyring) \in Token
      BY <3>1, TokenFacts DEF Accepts
    <3>4. keyring.session \in Sessions
      BY <3>1, TokenFacts
    <3>5. \/ /\ Accepts(keyring)
             /\ current' = NewToken(keyring)
             /\ keyring' \in {NewToken(keyring), keyring}
             /\ lost' \subseteq lost \cup Unsaved \cup {keyring.session}
             /\ window' = In
          \/ /\ current' = NoToken
             /\ keyring' \in {NoToken, keyring}
             /\ lost' \subseteq lost \cup Unsaved \cup {keyring.session}
             /\ window' = Out
      BY DEF Restart, Forget
    <3> QED
      BY <1>3, <3>1, <3>2, <3>3, <3>4, <3>5 DEF ApiTypeOK
  <2>2. CASE /\ current' = NoToken
             /\ window' = Out
             /\ lost' = lost \cup Unsaved
             /\ UNCHANGED <<session, keyring>>
    BY <1>3, <2>2 DEF Lasting, ApiTypeOK
  <2> QED
    BY <2>1, <2>2 DEF Restart
<1> QED
  BY <1>1, <1>2, <1>4, <1>5, <1>6 DEF Restart, ApiTypeOK, Lasting

-----------------------------------------------------------------------------
(* The records.                                                            *)

\* A handler at work belongs to a session and a key, and holds its record.
LEMMA WorkingFacts ==
    ASSUME ApiInv, NEW h \in Working
    PROVE  /\ h \in handlers
           /\ Place(h) \in Sessions \X Keys
           /\ h.stage \in {"claimed", "ran"}
           /\ record[Place(h)] # NoRecord
           /\ record[Place(h)].claim = h.claim
           /\ ~record[Place(h)].done
           /\ ~record[Place(h)].lapsed
BY DEF ApiInv, RecordInv, ApiTypeOK, Working, Holds, Handler, Token, Place

LEMMA SeenFacts ==
    ASSUME ApiInv, NEW a \in seen
    PROVE  /\ <<a.session, a.key>> \in Sessions \X Keys
           /\ a.session \in Sessions
           /\ Kept(<<a.session, a.key>>)
BY DEF ApiInv, RecordInv, ApiTypeOK

\* Steps that leave the records and the answers alone, and the handlers at
\* work or fewer of them.
LEMMA RecordsUntouched ==
    ASSUME ApiInv, Lasting(session'), UNCHANGED <<record, seen>>,
           \A g \in handlers' : g.stage = "received" => g.claim = 0,
           \A g \in handlers' : g.stage # "received" =>
              \E h \in Working : Place(g) = Place(h) /\ g.claim = h.claim,
           RunsAlone'
    PROVE  RecordInv'
<1>1. \A g \in Working' : Holds(g)' /\ ~record'[Place(g)].lapsed
  <2> SUFFICES ASSUME NEW g \in handlers', g.stage # "received"
               PROVE  Holds(g)' /\ ~record'[Place(g)].lapsed
    BY DEF Working
  <2>1. PICK h \in Working : Place(g) = Place(h) /\ g.claim = h.claim
    OBVIOUS
  <2> QED
    BY <2>1, WorkingFacts DEF Holds, Place
<1>2. \A a \in seen' : Kept(<<a.session, a.key>>)'
  BY SeenFacts DEF Kept, Lasting
<1>3. \A p \in Sessions \X Keys : record'[p] # NoRecord => record'[p].answer = record'[p].body
  BY DEF ApiInv, RecordInv
<1>4. AnswersMatch'
  BY DEF ApiInv, RecordInv, AnswersMatch
<1> QED
  BY <1>1, <1>2, <1>3, <1>4 DEF RecordInv, Place

LEMMA HandlersUntouched ==
    ASSUME ApiInv, Lasting(session'), UNCHANGED <<record, seen>>,
           \A g \in handlers' : g \in handlers \/ (g.stage = "received" /\ g.claim = 0)
    PROVE  RecordInv'
<1>1. \A g \in handlers' : g.stage = "received" => g.claim = 0
  BY DEF ApiInv, RecordInv
<1>2. \A g \in handlers' : g.stage # "received" =>
        \E h \in Working : Place(g) = Place(h) /\ g.claim = h.claim
  BY DEF Working
<1>3. RunsAlone'
  BY DEF ApiInv, RecordInv, RunsAlone, Place
<1> QED
  BY <1>1, <1>2, <1>3, RecordsUntouched

\* A handler that goes on alone at its place.
LEMMA OneAtWork ==
    ASSUME ApiInv, NEW h \in Working
    PROVE  /\ \A g \in Working : Place(g) = Place(h) => g = h
           /\ \A a \in seen : <<a.session, a.key>> # Place(h)
<1>1. \A g \in Working : Place(g) = Place(h) => g = h
  BY WorkingFacts DEF ApiInv, RecordInv, RunsAlone
<1>2. \A a \in seen : <<a.session, a.key>> # Place(h)
  BY WorkingFacts, SeenFacts DEF Kept
<1> QED
  BY <1>1, <1>2

LEMMA ClaimRecords ==
    ASSUME ApiInv, NEW h \in handlers, Claim(h)
    PROVE  RecordInv'
<1> DEFINE P == Place(h)
<1>0. /\ h \in Handler
      /\ P \in Sessions \X Keys
      /\ P = <<h.token.session, h.key>>
      /\ h.token.session \in Sessions
  BY DEF ApiInv, ApiTypeOK, Handler, Token, Place
<1>1. UNCHANGED session
  BY DEF Claim
<1>2. Lasting(session')
  BY <1>1 DEF ApiInv, ApiTypeOK, Lasting
<1>3. CASE /\ Free(P)
           /\ record' = [record EXCEPT ![P] =
                [claim |-> NewClaim(P), body |-> BodyOf[h.worker], done |-> FALSE,
                 answer |-> BodyOf[h.worker], lapsed |-> FALSE]]
           /\ Advance(h, [h EXCEPT !.stage = "claimed", !.claim = NewClaim(P)])
           /\ UNCHANGED <<work, seen>>
  <2> DEFINE new == [h EXCEPT !.stage = "claimed", !.claim = NewClaim(P)]
  <2>1. /\ new.stage = "claimed"
        /\ new.claim = NewClaim(P)
        /\ Place(new) = P
    BY <1>0 DEF Place, Handler
  <2>2. handlers' = (handlers \ {h}) \cup {new}
    BY <1>3 DEF Advance
  <2>3. \A g \in Working : Place(g) # P
    BY <1>3, WorkingFacts DEF Free
  <2>4. /\ record'[P] # NoRecord
        /\ record'[P].claim = NewClaim(P)
        /\ ~record'[P].done
        /\ ~record'[P].lapsed
        /\ record'[P].answer = record'[P].body
    <3>1. NewClaim(P) # 0
      BY <1>3, ClaimIsNew, SomeClaim
    <3> QED
      BY <1>0, <1>3, <3>1 DEF ApiInv, ApiTypeOK, NoRecord
  <2>5. \A p \in Sessions \X Keys : p # P => record'[p] = record[p]
    BY <1>0, <1>3 DEF ApiInv, ApiTypeOK
  <2>6. \A a \in seen : <<a.session, a.key>> # P
    <3> SUFFICES ASSUME NEW a \in seen, <<a.session, a.key>> = P PROVE FALSE
      OBVIOUS
    <3>1. a.session = h.token.session
      BY <1>0
    <3>2. session[h.token.session].ended = "expired"
      BY <1>3, <3>1, SeenFacts DEF Kept, Free
    <3> QED
      BY <3>2 DEF Claim, AccessAccepted, Live
  <2>7. \A g \in handlers' : g.stage # "received" => g = new \/ (g \in Working /\ Place(g) # P)
    BY <2>2, <2>3 DEF Working
  <2> HIDE DEF new, P
  <2>8. \A g \in Working' : Holds(g)' /\ ~record'[Place(g)].lapsed
    <3> SUFFICES ASSUME NEW g \in handlers', g.stage # "received"
                 PROVE  Holds(g)' /\ ~record'[Place(g)].lapsed
      BY DEF Working
    <3>1. CASE g = new
      BY <2>1, <2>4, <3>1 DEF Holds, Place
    <3>2. CASE g \in Working /\ Place(g) # P
      BY <2>5, <3>2, WorkingFacts DEF Holds, Place
    <3> QED
      BY <2>7, <3>1, <3>2
  <2>9. \A p \in Sessions \X Keys : record'[p] # NoRecord => record'[p].answer = record'[p].body
    BY <2>4, <2>5 DEF ApiInv, RecordInv
  <2>10. \A a \in seen' : Kept(<<a.session, a.key>>)'
    BY <1>2, <1>3, <2>5, <2>6, SeenFacts DEF Kept, Lasting
  <2>11. RunsAlone'
    <3> SUFFICES ASSUME NEW g \in handlers', NEW f \in handlers', g.stage # "received",
                        f.stage # "received", Place(g) = Place(f)
                 PROVE  g = f
      BY DEF RunsAlone, Place
    <3> QED
      BY <2>1, <2>7, OneAtWork
  <2>12. \A g \in handlers' : g.stage = "received" => g.claim = 0
    BY <2>1, <2>2 DEF ApiInv, RecordInv
  <2>13. AnswersMatch'
    BY <1>3 DEF ApiInv, RecordInv, AnswersMatch
  <2> QED
    BY <2>8, <2>9, <2>10, <2>11, <2>12, <2>13 DEF RecordInv, Place
<1>4. CASE ~Free(P) /\ Replays(h) /\ Success(h, record[P].answer) /\ UNCHANGED record
  <2>1. /\ Kept(P)
        /\ record[P].answer = BodyOf[h.worker]
    BY <1>0, <1>4 DEF Free, Replays, Kept, ApiInv, RecordInv
  <2>2. handlers' \subseteq handlers
    BY <1>4 DEF Success, Answer
  <2>3. \A a \in seen' : a \in seen \/ (/\ <<a.session, a.key>> = P
                                         /\ a.asked = a.answered)
    BY <1>4, <2>1 DEF Success, Place
  <2>4. \A a \in seen' : Kept(<<a.session, a.key>>)'
    BY <1>1, <1>4, <2>1, <2>3, SeenFacts DEF Kept
  <2>5. AnswersMatch'
    BY <2>3 DEF ApiInv, RecordInv, AnswersMatch
  <2>6. RunsAlone'
    BY <2>2 DEF ApiInv, RecordInv, RunsAlone, Place
  <2> QED
    BY <1>4, <2>2, <2>4, <2>5, <2>6 DEF ApiInv, RecordInv, Working, Holds, Place
<1>5. CASE ~Free(P) /\ ~Replays(h) /\ Answer(h, Idle) /\ UNCHANGED <<record, seen>>
  <2>1. handlers' \subseteq handlers
    BY <1>5 DEF Answer
  <2> QED
    BY <1>2, <1>5, <2>1, HandlersUntouched
<1> QED
  BY <1>3, <1>4, <1>5 DEF Claim

LEMMA RaiseRecords ==
    ASSUME ApiInv, NEW h \in handlers, CommandRaises(h)
    PROVE  RecordInv'
<1>1. h \in Working
  BY DEF CommandRaises, Working
<1>2. /\ record' = [record EXCEPT ![Place(h)] = NoRecord]
      /\ handlers' = handlers \ {h}
      /\ UNCHANGED <<session, seen>>
  BY <1>1 DEF CommandRaises, Released, Answer, ApiInv, RecordInv
<1>3. \A p \in Sessions \X Keys : p # Place(h) => record'[p] = record[p]
  BY <1>2 DEF ApiInv, ApiTypeOK
<1>4. record'[Place(h)] = NoRecord
  BY <1>1, <1>2, WorkingFacts DEF ApiInv, ApiTypeOK
<1>5. \A g \in Working' : Holds(g)' /\ ~record'[Place(g)].lapsed
  <2> SUFFICES ASSUME NEW g \in Working, g # h
               PROVE  Holds(g)' /\ ~record'[Place(g)].lapsed
    BY <1>2 DEF Working
  <2> QED
    BY <1>1, <1>3, OneAtWork, WorkingFacts DEF Holds, Place
<1>6. \A a \in seen' : Kept(<<a.session, a.key>>)'
  BY <1>1, <1>2, <1>3, OneAtWork, SeenFacts DEF Kept
<1>7. \A p \in Sessions \X Keys : record'[p] # NoRecord => record'[p].answer = record'[p].body
  BY <1>3, <1>4 DEF ApiInv, RecordInv
<1>8. RunsAlone' /\ AnswersMatch' /\ \A g \in handlers' : g.stage = "received" => g.claim = 0
  BY <1>2 DEF ApiInv, RecordInv, RunsAlone, AnswersMatch, Place
<1> QED
  BY <1>5, <1>6, <1>7, <1>8 DEF RecordInv, Place

LEMMA CompleteRecords ==
    ASSUME ApiInv, NEW h \in handlers, Complete(h)
    PROVE  RecordInv'
<1>1. h \in Working
  BY DEF Complete, Working
<1>2. /\ record' = Completed(h)
      /\ Success(h, BodyOf[h.worker])
      /\ UNCHANGED session
  BY <1>1 DEF Complete, ApiInv, RecordInv
<1>3. handlers' = handlers \ {h}
  BY <1>2 DEF Success, Answer
<1>4. /\ \A p \in Sessions \X Keys : p # Place(h) => record'[p] = record[p]
      /\ record'[Place(h)] # NoRecord
      /\ record'[Place(h)].done
      /\ ~record'[Place(h)].lapsed
      /\ record'[Place(h)].body = record[Place(h)].body
      /\ record'[Place(h)].answer = record[Place(h)].answer
  BY <1>1, <1>2, WorkingFacts, CompletedShape DEF ApiInv
<1>5. \A g \in Working' : Holds(g)' /\ ~record'[Place(g)].lapsed
  <2> SUFFICES ASSUME NEW g \in Working, g # h
               PROVE  Holds(g)' /\ ~record'[Place(g)].lapsed
    BY <1>3 DEF Working
  <2> QED
    BY <1>1, <1>4, OneAtWork, WorkingFacts DEF Holds, Place
<1>6. \A a \in seen' : a \in seen \/ (/\ <<a.session, a.key>> = Place(h)
                                       /\ a.asked = a.answered)
  BY <1>2 DEF Success, Place
<1>7. \A a \in seen' : Kept(<<a.session, a.key>>)'
  BY <1>1, <1>2, <1>4, <1>6, OneAtWork, SeenFacts DEF Kept
<1>8. \A p \in Sessions \X Keys : record'[p] # NoRecord => record'[p].answer = record'[p].body
  BY <1>1, <1>4, WorkingFacts DEF ApiInv, RecordInv
<1>9. AnswersMatch'
  BY <1>6 DEF ApiInv, RecordInv, AnswersMatch
<1>10. RunsAlone' /\ \A g \in handlers' : g.stage = "received" => g.claim = 0
  BY <1>3 DEF ApiInv, RecordInv, RunsAlone, Place
<1> QED
  BY <1>5, <1>7, <1>8, <1>9, <1>10 DEF RecordInv, Place

LEMMA LapseRecords ==
    ASSUME ApiInv, ~SlowCommands, NEW p \in Sessions \X Keys, Lapse(p)
    PROVE  RecordInv'
<1>1. /\ record[p] \in Record
      /\ record[p] # NoRecord
      /\ record' = [record EXCEPT ![p].lapsed = TRUE]
      /\ UNCHANGED <<session, handlers, seen>>
  BY DEF Lapse, ApiInv, ApiTypeOK, client
<1>2. \A h \in Working : Place(h) # p
  <2> SUFFICES ASSUME NEW h \in Working, Place(h) = p PROVE FALSE
    OBVIOUS
  <2>1. ~record[p].done /\ record[p].claim = h.claim /\ h \in handlers
    BY WorkingFacts
  <2> QED
    BY <2>1 DEF Lapse
<1>3. /\ \A q \in Sessions \X Keys : q # p => record'[q] = record[q]
      /\ record'[p] # NoRecord
      /\ record'[p].done = record[p].done
      /\ record'[p].body = record[p].body
      /\ record'[p].answer = record[p].answer
  <2>1. [record[p] EXCEPT !.lapsed = TRUE] \in Record
    BY <1>1 DEF Record
  <2>2. \A r \in Record : r # NoRecord
    BY SomeClaim DEF Record, NoRecord
  <2>3. record'[p] = [record[p] EXCEPT !.lapsed = TRUE]
    BY <1>1 DEF ApiInv, ApiTypeOK
  <2> QED
    BY <1>1, <2>1, <2>2, <2>3 DEF ApiInv, ApiTypeOK, Record
<1>4. \A g \in Working' : Holds(g)' /\ ~record'[Place(g)].lapsed
  <2> SUFFICES ASSUME NEW g \in Working
               PROVE  Holds(g)' /\ ~record'[Place(g)].lapsed
    BY <1>1 DEF Working
  <2> QED
    BY <1>2, <1>3, WorkingFacts DEF Holds, Place
<1>5. \A a \in seen' : Kept(<<a.session, a.key>>)'
  <2> SUFFICES ASSUME NEW a \in seen PROVE Kept(<<a.session, a.key>>)'
    BY <1>1
  <2>1. CASE <<a.session, a.key>> = p
    <3>1. record[p].done
      BY <2>1, SeenFacts DEF Kept
    <3>2. session[p[1]].ended = "expired"
      BY <3>1 DEF Lapse
    <3> QED
      BY <1>1, <1>3, <2>1, <3>1, <3>2 DEF Kept
  <2>2. CASE <<a.session, a.key>> # p
    BY <1>1, <1>3, <2>2, SeenFacts DEF Kept
  <2> QED
    BY <2>1, <2>2
<1>6. \A q \in Sessions \X Keys : record'[q] # NoRecord => record'[q].answer = record'[q].body
  BY <1>1, <1>3 DEF ApiInv, RecordInv
<1>7. RunsAlone' /\ AnswersMatch' /\ \A g \in handlers' : g.stage = "received" => g.claim = 0
  BY <1>1 DEF ApiInv, RecordInv, RunsAlone, AnswersMatch, Place
<1> QED
  BY <1>4, <1>5, <1>6, <1>7 DEF RecordInv, Place

\* A worker that gives up, and a program that restarts, leave the handlers at
\* work to themselves.
LEMMA UnheardRecords ==
    ASSUME ApiInv, Lasting(session'), UNCHANGED <<record, seen>>,
           NEW F \in SUBSET handlers,
           handlers' \subseteq {Unheard(h) : h \in F} \cup (handlers \ F)
    PROVE  RecordInv'
<1>1. \A g \in handlers' : \E h \in handlers :
        /\ Place(g) = Place(h) /\ g.claim = h.claim /\ g.stage = h.stage
        /\ IF h \in F THEN g = Unheard(h) ELSE g = h
  BY UnheardFacts DEF ApiInv, ApiTypeOK
<1>2. \A g \in handlers' : g.stage = "received" => g.claim = 0
  BY <1>1 DEF ApiInv, RecordInv
<1>3. \A g \in handlers' : g.stage # "received" =>
        \E h \in Working : Place(g) = Place(h) /\ g.claim = h.claim
  BY <1>1 DEF Working
<1>4. RunsAlone'
  <2> SUFFICES ASSUME NEW f \in handlers', NEW g \in handlers', f.stage # "received",
                      g.stage # "received", Place(f) = Place(g)
               PROVE  f = g
    BY DEF RunsAlone, Place
  <2>1. PICK d \in handlers : /\ Place(f) = Place(d) /\ f.stage = d.stage
                              /\ IF d \in F THEN f = Unheard(d) ELSE f = d
    BY <1>1
  <2>2. PICK e \in handlers : /\ Place(g) = Place(e) /\ g.stage = e.stage
                              /\ IF e \in F THEN g = Unheard(e) ELSE g = e
    BY <1>1
  <2>3. d = e
    BY <2>1, <2>2, OneAtWork DEF Working
  <2> QED
    BY <2>1, <2>2, <2>3
<1> QED
  BY <1>2, <1>3, <1>4, RecordsUntouched

LEMMA WorkerRecords ==
    ASSUME ApiInv, NEW w \in Workers, WorkerStep(w), Lasting(session')
    PROVE  RecordInv'
<1>1. CASE GiveUp(w)
  <2>1. UNCHANGED <<record, seen>>
    BY <1>1 DEF GiveUp
  <2>2. CASE handlers' = {IF h.worker = w THEN Unheard(h) ELSE h : h \in handlers}
    <3> DEFINE F == {h \in handlers : h.worker = w}
    <3>1. handlers' \subseteq {Unheard(h) : h \in F} \cup (handlers \ F)
      BY <2>2
    <3> QED
      BY <2>1, <3>1, UnheardRecords
  <2>3. CASE handlers' = {h \in handlers : h.worker # w \/ h.stage # "received"}
    BY <2>1, <2>3, HandlersUntouched
  <2> QED
    BY <1>1, <2>2, <2>3 DEF GiveUp
<1>2. CASE ~GiveUp(w)
  <2>1. UNCHANGED <<record, seen>>
    BY <1>2 DEF WorkerStep, Request, Reauthorise, Refresh, RefreshUnanswered, TakeTokens,
                TakeRefusal, server
  <2>2. UNCHANGED handlers \/ \E k, t, again : Ask(w, k, t, again)
    BY <1>2 DEF WorkerStep, Request, Reauthorise, Refresh, RefreshUnanswered, TakeTokens,
                TakeRefusal, server
  <2>3. \A g \in handlers' : g \in handlers \/ (g.stage = "received" /\ g.claim = 0)
    BY <2>2 DEF Ask
  <2> QED
    BY <2>1, <2>3, HandlersUntouched
<1> QED
  BY <1>1, <1>2

LEMMA HandlerRecords ==
    ASSUME ApiInv, NEW h \in handlers, Handle(h), UNCHANGED session
    PROVE  RecordInv'
<1>0. Lasting(session')
  BY DEF Lasting, ApiInv, ApiTypeOK
<1>1. CASE Deny(h) \/ Stop(h)
  <2>1. UNCHANGED <<record, seen>> /\ handlers' \subseteq handlers
    BY <1>1 DEF Deny, Stop, Answer
  <2> QED
    BY <1>0, <2>1, HandlersUntouched
<1>2. CASE Command(h)
  <2> DEFINE new == [h EXCEPT !.stage = "ran"]
  <2>1. UNCHANGED <<record, seen>> /\ handlers' = (handlers \ {h}) \cup {new}
    BY <1>2 DEF Command, Advance
  <2>2. h \in Working /\ h \in Handler
    BY <1>2 DEF Command, Working, ApiInv, ApiTypeOK
  <2>3. Place(new) = Place(h) /\ new.claim = h.claim /\ new.stage = "ran"
    BY <2>2 DEF Place, Handler
  <2> HIDE DEF new
  <2>4. \A g \in handlers' : g.stage = "received" => g.claim = 0
    BY <2>1, <2>3 DEF ApiInv, RecordInv
  <2>5. \A g \in handlers' : g.stage # "received" =>
          \E f \in Working : Place(g) = Place(f) /\ g.claim = f.claim
    BY <2>1, <2>2, <2>3 DEF Working
  <2>6. RunsAlone'
    <3>1. \A g \in handlers' : g.stage # "received" =>
            g = new \/ (g \in Working /\ g # h)
      BY <2>1 DEF Working
    <3>2. \A f, g \in handlers' : f.stage # "received" /\ g.stage # "received"
            /\ Place(f) = Place(g) => f = g
      BY <2>2, <2>3, <3>1, OneAtWork
    <3> QED
      BY <3>2 DEF RunsAlone, Place
  <2> QED
    BY <1>0, <2>1, <2>4, <2>5, <2>6, RecordsUntouched
<1> QED
  BY <1>1, <1>2, ClaimRecords, RaiseRecords, CompleteRecords DEF Handle

\* The invariant, step by step.
LEMMA ApiStepKeeps ==
    ASSUME ApiInv, ~SlowCommands, ApiNext
    PROVE  ApiInv'
<1>0. ApiTypeOK /\ UNCHANGED mishaps
  BY DEF ApiInv, ApiNext
<1>1. CASE SignIn \/ BeginSignOut \/ RevokeOnSignOut \/ EndSignOut
  <2>1. ApiTypeOK' /\ Lasting(session')
    BY <1>0, <1>1, WindowTypes
  <2>2. UNCHANGED <<record, handlers, seen>>
    BY <1>1 DEF SignIn, BeginSignOut, RevokeOnSignOut, EndSignOut, server
  <2> QED
    BY <2>1, <2>2, HandlersUntouched DEF ApiInv
<1>2. ASSUME NEW w \in Workers, WorkerStep(w)
      PROVE  ApiInv'
  BY <1>0, <1>2, WorkerTypes, WorkerRecords DEF ApiInv
<1>3. ASSUME NEW h \in handlers, Handle(h)
      PROVE  ApiInv'
  BY <1>0, <1>3, HandlerTypes, HandlerRecords DEF ApiInv
<1>4. CASE RefreshLate
  <2>1. UNCHANGED <<record, handlers, seen>>
    BY <1>4 DEF RefreshLate
  <2> QED
    BY <1>0, <1>4, <2>1, RefreshLateTypes, HandlersUntouched DEF ApiInv
<1>5. ASSUME NEW s \in Sessions, Times(s)
      PROVE  ApiInv'
  <2>1. UNCHANGED <<record, handlers, seen>>
    BY <1>5 DEF Times
  <2> QED
    BY <1>0, <1>5, <2>1, TimesTypes, HandlersUntouched DEF ApiInv
<1>6. ASSUME NEW p \in Sessions \X Keys, Lapse(p)
      PROVE  ApiInv'
  BY <1>0, <1>6, LapseTypes, LapseRecords DEF ApiInv
<1>7. CASE Recover
  <2>1. UNCHANGED <<record, handlers, seen>>
    BY <1>7 DEF Recover
  <2> QED
    BY <1>0, <1>7, <2>1, RecoverTypes, HandlersUntouched DEF ApiInv
<1>8. CASE Restart
  <2>1. /\ UNCHANGED <<record, seen>>
        /\ handlers' = {Unheard(h) : h \in handlers}
    BY <1>8 DEF Restart
  <2>2. handlers' \subseteq {Unheard(h) : h \in handlers} \cup (handlers \ handlers)
    BY <2>1
  <2> QED
    BY <1>0, <1>8, <2>1, <2>2, RestartTypes, UnheardRecords DEF ApiInv
<1> QED
  BY <1>1, <1>2, <1>3, <1>4, <1>5, <1>6, <1>7, <1>8 DEF ApiNext, ApiStep

\* The invariant holds in every state, while no command outlives its claim.
THEOREM ApiInvariant == ASSUME ~SlowCommands PROVE ApiSpec => []ApiInv
<1>1. ApiInit => ApiInv
  <2> SUFFICES ASSUME ApiInit PROVE ApiInv
    OBVIOUS
  <2>1. ApiTypeOK
    BY ApiConstants DEF ApiInit, ApiTypeOK
  <2>2. RecordInv
    BY DEF ApiInit, RecordInv, RunsAlone, AnswersMatch, Working
  <2> QED
    BY <2>1, <2>2 DEF ApiInv
<1>2. ApiInv /\ [ApiNext]_vars => ApiInv'
  <2>1. CASE ApiNext
    BY <2>1, ApiStepKeeps
  <2>2. CASE UNCHANGED vars
    <3>1. UNCHANGED <<session, record, handlers, strays, current, keyring, work, window, lost,
                      seen, restarts, mishaps>>
      BY <2>2 DEF vars, server, client
    <3>2. ApiInv => ApiTypeOK'
      BY <3>1 DEF ApiInv, ApiTypeOK
    <3>3. ApiInv => RecordInv'
      BY <3>1 DEF ApiInv, RecordInv, Working, Holds, Kept, RunsAlone, AnswersMatch, Place
    <3> QED
      BY <3>2, <3>3 DEF ApiInv
  <2> QED
    BY <2>1, <2>2
<1> QED
  BY <1>1, <1>2, PTL DEF ApiSpec

\* Every variable keeps its type, whatever number of sessions, tokens and
\* mishaps.
THEOREM ApiTypes == ASSUME ~SlowCommands PROVE ApiSpec => []ApiTypeOK
BY ApiInvariant, PTL DEF ApiInv

\* A command runs for one request of a session and key at a time.
THEOREM CommandsRunAlone == ASSUME ~SlowCommands PROVE ApiSpec => []RunsAlone
<1>1. ApiInv => RunsAlone
  BY DEF ApiInv, RecordInv
<1> QED
  BY <1>1, ApiInvariant, PTL

\* An answered mutation never runs again in its session.
THEOREM AnswersAreFinal == ASSUME ~SlowCommands PROVE ApiSpec => []AnsweredIsFinal
<1>1. ApiInv => AnsweredIsFinal
  <2> SUFFICES ASSUME ApiInv, NEW h \in handlers, h.stage \in {"claimed", "ran"}, NEW a \in seen
               PROVE  Place(h) # <<a.session, a.key>>
    BY DEF AnsweredIsFinal
  <2> QED
    BY OneAtWork DEF Working
<1> QED
  BY <1>1, ApiInvariant, PTL

\* The success a worker is answered with is that of the request it sent.
THEOREM AnswersAreItsOwn == ASSUME ~SlowCommands PROVE ApiSpec => []AnswersMatch
<1>1. ApiInv => AnswersMatch
  BY DEF ApiInv, RecordInv
<1> QED
  BY <1>1, ApiInvariant, PTL

-----------------------------------------------------------------------------
(* The tokens.  A worker never sends a token that another has replaced,    *)
(* unless one was lost, because the lock keeps the refreshed token of a    *)
(* worker that has still to save it apart from every other refresh.        *)

\* A session that was issued, and a token no newer than its last.
Born(t) == session[t.session] # NoSession /\ t.number <= session[t.session].refresh

TokensAreBorn ==
    /\ current # NoToken => Born(current)
    /\ keyring # NoToken => Born(keyring)
    /\ \A h \in handlers : Born(h.token)
    /\ \A w \in Workers : work[w].at # "idle" => Born(work[w].token)
    /\ window.at = "leaving" => Born(window.token)

\* A worker waits for one request.
OneWaits ==
    /\ \A h \in handlers : h.waited => work[h.worker].at = "asked"
    /\ \A g, h \in handlers : g.waited /\ h.waited /\ g.worker = h.worker => g = h

InLock(w) == work[w].at \in {"refreshing", "refused", "refreshed"}

OneRefreshes == \A v, w \in Workers : InLock(v) /\ InLock(w) => v = w

ToSave(w, s) == work[w].at = "refreshed" /\ work[w].token.session = s

\* A worker that works on a session has its current token where it refreshes; one that
\* was denied had an old token, or waits for the fifteen minutes to be over.
WorkTraced(w, s) ==
    work[w].at # "idle" /\ work[w].token.session = s =>
        /\ work[w].at \in {"refreshing", "refreshed"}
              => work[w].token.number = session[s].refresh
        /\ work[w].at = "refreshed" => session[s].age < 2
        /\ work[w].at = "denied"
              => work[w].token.number < session[s].refresh \/ session[s].age = 2

\* What the client shares is current, or a worker holds what comes after it.
SharedTraced(s) ==
    /\ current.session = s =>
          \/ current.number = session[s].refresh
          \/ current.number = session[s].previous /\ \E w \in Workers : ToSave(w, s)
    /\ keyring.session = s =>
          keyring.number = session[s].refresh \/ \E w \in Workers : ToSave(w, s)

\* The window that signs out names the session by its current token or the one before,
\* and then no worker can replace the current one.
WindowTraced(s) ==
    window.at = "leaving" /\ window.token.session = s =>
        /\ ~window.answered
        /\ \/ window.token.number = session[s].refresh
           \/ /\ window.token.number = session[s].previous
              /\ session[s].age < 2
              /\ \A w \in Workers : work[w].at = "refreshing" => work[w].token.session # s

Traced(s) == (\A w \in Workers : WorkTraced(w, s)) /\ SharedTraced(s) /\ WindowTraced(s)

TokenInv ==
    /\ TokensAreBorn /\ OneWaits /\ OneRefreshes
    /\ \A s \in Sessions : Live(s) /\ s \notin lost => Traced(s)
    /\ ReuseMeansLoss

\* What a refresh does to a session.
LEMMA RefreshRows ==
    ASSUME ApiTypeOK, NEW t \in Token, NEW s \in Sessions
    PROVE  \/ /\ s = t.session /\ Accepts(t) /\ Live(s)
              /\ AfterRefresh(t)[s] = Rotated(session[s])
           \/ /\ s = t.session /\ ~Accepts(t) /\ Reused(t)
              /\ AfterRefresh(t)[s] = [session[s] EXCEPT !.ended = "reused"]
           \/ AfterRefresh(t)[s] = session[s] /\ (s = t.session => ~Accepts(t))
BY TokenFacts DEF AfterRefresh, ApiTypeOK, Accepts

LEMMA LiveRows ==
    ASSUME ApiTypeOK, NEW s \in Sessions
    PROVE  /\ Live(s) => session[s] \in Row
           /\ session[s] # NoSession <=> session[s] \in Row
           /\ Live(s) => session[s] # NoSession
BY DEF ApiTypeOK, Live, NoSession, Row

LEMMA RotatedRows ==
    ASSUME NEW r \in Row
    PROVE  /\ Rotated(r) \in Row
           /\ Rotated(r).refresh = r.refresh + 1
           /\ Rotated(r).previous = r.refresh
           /\ Rotated(r).age = 0
           /\ Rotated(r).ended = r.ended
BY DEF Rotated, Row

LEMMA RowFacts ==
    ASSUME NEW r \in Row
    PROVE  /\ r # NoSession
           /\ r.refresh \in Nat
           /\ r.refresh >= r.refresh
BY DEF Row, NoSession

\* Sessions are not unmade and their tokens' numbers grow.
Grown(new) ==
    \A s \in Sessions : session[s] # NoSession =>
        new[s] # NoSession /\ new[s].refresh >= session[s].refresh

LEMMA RefreshGrows ==
    ASSUME ApiTypeOK, NEW t \in Token
    PROVE  /\ Grown(AfterRefresh(t))
           /\ Accepts(t) => /\ AfterRefresh(t)[t.session] # NoSession
                            /\ NewToken(t).session = t.session
                            /\ NewToken(t).number = AfterRefresh(t)[t.session].refresh
<1>1. ASSUME NEW s \in Sessions, session[s] # NoSession
      PROVE  AfterRefresh(t)[s] # NoSession /\ AfterRefresh(t)[s].refresh >= session[s].refresh
  <2>1. session[s] \in Row /\ session[s].refresh \in Nat
    BY <1>1, LiveRows DEF Row
  <2>2. Rotated(session[s]) # NoSession /\ Rotated(session[s]).refresh >= session[s].refresh
    BY <2>1, RotatedRows DEF NoSession, Row
  <2>3. /\ [session[s] EXCEPT !.ended = "reused"] \in Row
        /\ [session[s] EXCEPT !.ended = "reused"].refresh = session[s].refresh
    BY <2>1 DEF Row
  <2> QED
    BY <1>1, <2>1, <2>2, <2>3, RefreshRows, RowFacts
<1>2. ASSUME Accepts(t)
      PROVE  /\ AfterRefresh(t)[t.session] # NoSession
             /\ NewToken(t).session = t.session
             /\ NewToken(t).number = AfterRefresh(t)[t.session].refresh
  <2>1. Live(t.session) /\ t.session \in Sessions /\ session[t.session] \in Row
    BY <1>2, TokenFacts DEF Accepts
  <2>2. AfterRefresh(t)[t.session] = Rotated(session[t.session])
    BY <1>2, <2>1, RefreshRows
  <2>3. NewToken(t).session = t.session
        /\ NewToken(t).number = session[t.session].refresh + 1
    BY DEF NewToken, Token
  <2> QED
    BY <1>1, <2>1, <2>2, <2>3, RotatedRows, LiveRows
<1> QED
  BY <1>1, <1>2 DEF Grown

LEMMA RevokedGrows ==
    ASSUME ApiTypeOK
    PROVE  Grown(AllRevoked)
<1>1. ASSUME NEW s \in Sessions, Live(s)
      PROVE  /\ AllRevoked[s] # NoSession
             /\ AllRevoked[s].refresh >= session[s].refresh
  <2>1. AllRevoked[s] = [session[s] EXCEPT !.ended = "revoked"]
    BY <1>1 DEF AllRevoked
  <2>2. session[s] \in Row
    BY <1>1, LiveRows
  <2>3. /\ [session[s] EXCEPT !.ended = "revoked"] \in Row
        /\ [session[s] EXCEPT !.ended = "revoked"].refresh = session[s].refresh
    BY <2>2 DEF Row
  <2> QED
    BY <2>1, <2>2, <2>3, RowFacts
<1>2. ASSUME NEW s \in Sessions, session[s] # NoSession
      PROVE  session[s].refresh \in Nat
  BY <1>2, LiveRows DEF Row
<1> QED
  BY <1>1, <1>2 DEF Grown, AllRevoked

LEMMA SameGrows ==
    ASSUME ApiTypeOK
    PROVE  Grown(session)
BY LiveRows DEF Grown, Row

\* A token that was born stays so.
LEMMA BornStays ==
    ASSUME ApiTypeOK, ApiTypeOK', Grown(session'), NEW t \in Token, Born(t)
    PROVE  Born(t)'
<1>1. t.session \in Sessions /\ t.number \in Nat
  BY TokenFacts
<1>2. session[t.session].refresh \in Nat /\ session'[t.session].refresh \in Nat
  BY <1>1, LiveRows DEF Born, Grown, Row, ApiTypeOK, NoSession
<1> QED
  BY <1>1, <1>2 DEF Born, Grown

\* Whoever has a token had it before, or it was born before or in this step.
LEMMA BornFrame ==
    ASSUME ApiTypeOK, ApiTypeOK', TokensAreBorn, Grown(session'),
           current' \in {current, NoToken} \/ Born(current)',
           keyring' \in {keyring, NoToken} \/ Born(keyring)',
           \A h \in handlers' : Born(h.token)' \/ \E g \in handlers : h.token = g.token,
           \A w \in Workers :
              work'[w] = work[w] \/ work'[w].at = "idle" \/ Born(work[w].token)',
           window'.at = "leaving" =>
              Born(window.token)' \/ (window.at = "leaving" /\ window'.token = window.token)
    PROVE  TokensAreBorn'
<1>1. \A t \in Token : Born(t) => Born(t)'
  BY BornStays
<1>2. current' # NoToken => Born(current)'
  BY <1>1 DEF TokensAreBorn, ApiTypeOK
<1>3. keyring' # NoToken => Born(keyring)'
  BY <1>1 DEF TokensAreBorn, ApiTypeOK
<1>4. ASSUME NEW h \in handlers'
      PROVE  Born(h.token)'
  BY <1>1 DEF TokensAreBorn, ApiTypeOK, Handler
<1>5. ASSUME NEW w \in Workers, work'[w].at # "idle"
      PROVE  Born(work[w].token)'
  BY <1>1, <1>5, WorkFacts DEF TokensAreBorn
<1>6. ASSUME window'.at = "leaving"
      PROVE  Born(window.token)'
  <2>1. CASE window.at = "leaving" /\ window'.token = window.token
    BY <1>1, <2>1, WindowFacts DEF TokensAreBorn, Leaving
  <2> QED
    BY <1>6, <2>1
<1> QED
  BY <1>2, <1>3, <1>4, <1>5, <1>6 DEF TokensAreBorn, Born

\* A request that is sent carries a token that was born.
LEMMA AskBorn ==
    ASSUME ApiTypeOK, ApiTypeOK', TokensAreBorn, Grown(session'),
           NEW w \in Workers, NEW k, NEW t \in Token, NEW again, Ask(w, k, t, again), Born(t)'
    PROVE  /\ \A h \in handlers' : Born(h.token)' \/ \E g \in handlers : h.token = g.token
           /\ \A v \in Workers : work'[v] = work[v] \/ Born(work[v].token)'
BY DEF Ask, ApiTypeOK

LEMMA WindowBorn ==
    ASSUME ApiTypeOK, ApiTypeOK', TokensAreBorn,
           SignIn \/ BeginSignOut \/ RevokeOnSignOut \/ EndSignOut
    PROVE  TokensAreBorn' /\ Grown(session')
<1>1. CASE SignIn
  <2>1. PICK s \in Sessions :
          /\ session[s] = NoSession
          /\ session' = Issued(s)
          /\ \/ /\ current' = [session |-> s, number |-> 1]
                /\ Save(current')
                /\ window' = In
             \/ UNCHANGED <<current, keyring, window, lost>>
    BY <1>1 DEF SignIn
  <2>2. session' = [AllRevoked EXCEPT ![s] =
                        [refresh |-> 1, previous |-> 0, age |-> 0, ended |-> "no"]]
    BY <2>1 DEF Issued
  <2>3. /\ session'[s] = [refresh |-> 1, previous |-> 0, age |-> 0, ended |-> "no"]
        /\ \A r \in Sessions : r # s => session'[r] = AllRevoked[r]
    BY <2>2 DEF AllRevoked
  <2>4. Grown(session')
    BY <2>1, <2>3, RevokedGrows DEF Grown
  <2>5. \A t \in Token : t = [session |-> s, number |-> 1] => Born(t)'
    BY <2>3 DEF Born, NoSession
  <2>6. [session |-> s, number |-> 1] \in Token
    BY DEF Token
  <2>7. UNCHANGED <<handlers, work>>
    BY <1>1 DEF SignIn
  <2>8. current' \in {current, NoToken} \/ Born(current)'
    BY <2>1, <2>5, <2>6
  <2>9. keyring' \in {keyring, NoToken} \/ Born(keyring)'
    BY <2>1, <2>5, <2>6 DEF Save
  <2>10. window'.at = "leaving" => window.at = "leaving" /\ window' = window
    <3>1. window' = In \/ window' = window
      BY <2>1
    <3>2. In.at # "leaving"
      BY DEF In
    <3> QED
      BY <3>1, <3>2
  <2> QED
    BY <2>4, <2>7, <2>8, <2>9, <2>10, BornFrame
<1>2. CASE BeginSignOut
  <2>1. UNCHANGED <<session, keyring, handlers, work>> /\ current' = NoToken
    BY <1>2 DEF BeginSignOut, server
  <2>2. window'.at = "leaving" => current # NoToken /\ window'.token = current
    BY <1>2 DEF BeginSignOut, Out
  <2>3. Grown(session')
    BY <2>1, SameGrows
  <2>4. window'.at = "leaving" => Born(window.token)'
    BY <2>1, <2>2 DEF TokensAreBorn, Born
  <2> QED
    BY <2>1, <2>3, <2>4, BornFrame
<1>3. CASE RevokeOnSignOut
  <2>1. UNCHANGED <<current, keyring, handlers, work>>
    BY <1>3 DEF RevokeOnSignOut
  <2>2. window \in Leaving /\ window.at = "leaving"
    BY <1>3, WindowFacts DEF RevokeOnSignOut
  <2>3. window'.token = window.token
    BY <1>3, <2>2 DEF RevokeOnSignOut, Leaving
  <2>4. Grown(session')
    <3>1. CASE session' = session
      BY <3>1, SameGrows
    <3>2. CASE /\ Live(window.token.session)
               /\ session' = [session EXCEPT ![window.token.session].ended = "revoked"]
      <4>1. window.token.session \in Sessions /\ session[window.token.session] \in Row
        BY <2>2, <3>2, TokenFacts DEF Leaving
      <4>2. /\ session'[window.token.session]
                  = [session[window.token.session] EXCEPT !.ended = "revoked"]
            /\ \A r \in Sessions : r # window.token.session => session'[r] = session[r]
        BY <3>2, <4>1 DEF ApiTypeOK
      <4>3. /\ [session[window.token.session] EXCEPT !.ended = "revoked"] \in Row
            /\ [session[window.token.session] EXCEPT !.ended = "revoked"].refresh
                  = session[window.token.session].refresh
        BY <4>1 DEF Row
      <4> QED
        BY <4>1, <4>2, <4>3, RowFacts, LiveRows DEF Grown
    <3> QED
      BY <1>3, <3>1, <3>2 DEF RevokeOnSignOut
  <2> QED
    BY <2>1, <2>2, <2>3, <2>4, BornFrame
<1>4. CASE EndSignOut
  <2>1. /\ UNCHANGED <<session, current, handlers, work>>
        /\ keyring' \in {keyring, NoToken}
        /\ window' = Out
    BY <1>4 DEF EndSignOut, Forget, server
  <2> QED
    BY <2>1, SameGrows, BornFrame DEF Out
<1> QED
  BY <1>1, <1>2, <1>3, <1>4

LEMMA WorkerBorn ==
    ASSUME ApiTypeOK, ApiTypeOK', TokensAreBorn, NEW w \in Workers, WorkerStep(w)
    PROVE  TokensAreBorn' /\ Grown(session')
<1>1. ASSUME NEW k \in Keys, Request(w, k)
      PROVE  TokensAreBorn' /\ Grown(session')
  <2>1. /\ UNCHANGED <<session, current, keyring, window>>
        /\ current \in Token /\ Ask(w, k, current, FALSE)
    BY <1>1 DEF Request, ApiTypeOK
  <2>2. Born(current)' /\ Grown(session')
    BY <2>1, TokenFacts, SameGrows DEF TokensAreBorn, Born
  <2>3. Born(current) /\ \A t : t = current => Born(t)'
    BY <2>1, <2>2 DEF Born
  <2> QED
    BY <2>1, <2>2, <2>3, AskBorn, BornFrame
<1>2. CASE GiveUp(w)
  <2>1. UNCHANGED <<session, current, keyring, window>>
    BY <1>2 DEF GiveUp
  <2>2. \A h \in handlers : Unheard(h).token = h.token
    BY DEF ApiTypeOK, Handler, Unheard
  <2>3. \A h \in handlers' : \E g \in handlers : h.token = g.token
    <3>1. CASE handlers' = {IF h.worker = w THEN Unheard(h) ELSE h : h \in handlers}
      BY <2>2, <3>1
    <3>2. CASE handlers' = {h \in handlers : h.worker # w \/ h.stage # "received"}
      BY <3>2
    <3> QED
      BY <1>2, <3>1, <3>2 DEF GiveUp
  <2>4. \A v \in Workers : work'[v] = work[v] \/ work'[v].at = "idle"
    BY <1>2 DEF GiveUp, ApiTypeOK, Idle
  <2> QED
    BY <2>1, <2>3, <2>4, SameGrows, BornFrame
<1>3. CASE Reauthorise(w)
  <2>1. UNCHANGED <<session, current, keyring, window>>
    BY <1>3 DEF Reauthorise
  <2>2. Grown(session') /\ \A t \in Token : t = current => Born(t)'
    BY <2>1, TokenFacts, SameGrows DEF TokensAreBorn, Born
  <2>3. CASE work' = [work EXCEPT ![w] = Idle] /\ UNCHANGED handlers
    BY <2>1, <2>2, <2>3, BornFrame DEF ApiTypeOK, Idle
  <2>4. CASE /\ current = work[w].token
             /\ work' = [work EXCEPT ![w] = [at |-> "refreshing", key |-> work[w].key,
                                             token |-> current]]
             /\ UNCHANGED handlers
    <3>1. current \in Token
      BY <1>3, <2>4, WorkFacts DEF Reauthorise
    <3>2. \A v \in Workers : work'[v] = work[v] \/ Born(work[v].token)'
      BY <2>2, <2>4, <3>1 DEF ApiTypeOK
    <3> QED
      BY <2>1, <2>2, <2>4, <3>2, BornFrame
  <2>5. CASE current # NoToken /\ Ask(w, work[w].key, current, TRUE)
    <3>1. current \in Token /\ Born(current)'
      BY <2>1, <2>2, <2>5 DEF ApiTypeOK
    <3> QED
      BY <2>1, <2>2, <2>5, <3>1, AskBorn, BornFrame
  <2> QED
    BY <1>3, <2>3, <2>4, <2>5 DEF Reauthorise
<1>4. CASE Refresh(w)
  <2> DEFINE t == work[w].token
             new == IF Accepts(t) THEN NewToken(t) ELSE t
  <2>1. /\ UNCHANGED <<current, keyring, window, handlers>>
        /\ session' = AfterRefresh(t)
        /\ work' = [work EXCEPT ![w] =
                     [at |-> IF Accepts(t) THEN "refreshed" ELSE "refused",
                      key |-> work[w].key, token |-> new]]
    BY <1>4 DEF Refresh
  <2>2. t \in Token /\ Born(t)
    BY <1>4, WorkFacts DEF Refresh, TokensAreBorn
  <2>3. Grown(session')
    BY <2>1, <2>2, RefreshGrows
  <2>4. work'[w].token = new
    BY <2>1 DEF ApiTypeOK
  <2>5. \A v \in Workers : v # w => work'[v] = work[v]
    BY <2>1 DEF ApiTypeOK
  <2>6. Born(work[w].token)'
    <3>1. CASE Accepts(t)
      <4>1. /\ new.session = t.session
            /\ new.number = session'[t.session].refresh /\ session'[t.session] # NoSession
        BY <2>1, <2>2, <3>1, RefreshGrows
      <4>2. session'[t.session].refresh >= session'[t.session].refresh
        BY <2>2, <4>1, TokenFacts, LiveRows, RowFacts DEF ApiTypeOK
      <4> QED
        BY <2>4, <4>1, <4>2 DEF Born
    <3>2. CASE ~Accepts(t)
      <4>1. \A u \in Token : Born(u) => Born(u)'
        BY <2>3, BornStays
      <4>2. work'[w].token = t
        BY <2>4, <3>2
      <4> QED
        BY <2>2, <4>1, <4>2
    <3> QED
      BY <3>1, <3>2
  <2> QED
    BY <2>1, <2>3, <2>5, <2>6, BornFrame
<1>5. CASE RefreshUnanswered(w)
  <2>1. UNCHANGED <<session, handlers, current, keyring, window>>
    BY <1>5 DEF RefreshUnanswered, server
  <2>2. \A v \in Workers : work'[v] = work[v] \/ work'[v].at = "idle"
    BY <1>5 DEF RefreshUnanswered, ApiTypeOK, Idle
  <2> QED
    BY <2>1, <2>2, SameGrows, BornFrame
<1>6. CASE TakeTokens(w)
  <2> DEFINE t == work[w].token
  <2>1. t \in Token /\ Born(t)
    BY <1>6, WorkFacts DEF TakeTokens, TokensAreBorn
  <2>2. /\ UNCHANGED <<session, window>>
        /\ current' = t
        /\ keyring' \in {t, keyring}
        /\ Ask(w, work[w].key, t, TRUE)
    BY <1>6 DEF TakeTokens, Save
  <2>3. Grown(session') /\ \A u \in Token : Born(u) => Born(u)'
    BY <2>2, SameGrows, BornStays
  <2>4. Born(current)' /\ (keyring' = keyring \/ Born(keyring)')
    BY <2>1, <2>2, <2>3
  <2>5. /\ \A h \in handlers' : Born(h.token)' \/ \E g \in handlers : h.token = g.token
        /\ \A v \in Workers : work'[v] = work[v] \/ Born(work[v].token)'
    <3>1. \A u \in Token : u = t => Born(u)'
      BY <2>1, <2>3
    <3> HIDE DEF t
    <3> QED
      BY <2>1, <2>2, <2>3, <3>1 DEF Ask, ApiTypeOK
  <2> QED
    BY <2>2, <2>3, <2>4, <2>5, BornFrame
<1>7. CASE TakeRefusal(w)
  <2>1. /\ UNCHANGED <<session, handlers, window>> /\ current' = NoToken
        /\ keyring' \in {keyring, NoToken}
    BY <1>7 DEF TakeRefusal, Forget, server
  <2>2. \A v \in Workers : work'[v] = work[v] \/ work'[v].at = "idle"
    BY <1>7 DEF TakeRefusal, ApiTypeOK, Idle
  <2> QED
    BY <2>1, <2>2, SameGrows, BornFrame
<1> QED
  BY <1>1, <1>2, <1>3, <1>4, <1>5, <1>6, <1>7 DEF WorkerStep

LEMMA HandlerBorn ==
    ASSUME ApiTypeOK, ApiTypeOK', TokensAreBorn, NEW h \in handlers, Handle(h),
           UNCHANGED session
    PROVE  TokensAreBorn'
<1>1. UNCHANGED <<current, keyring, window>>
  BY DEF Handle, Deny, Claim, Command, CommandRaises, Complete, Stop, client
<1>2. /\ h \in Handler /\ h.token \in Token /\ Born(h.token)
      /\ \A t : t = h.token => Born(t)'
  BY DEF ApiTypeOK, Handler, TokensAreBorn, Born
<1>3. ASSUME NEW g \in handlers'
      PROVE  \E f \in handlers : g.token = f.token
  <2>1. CASE handlers' \subseteq handlers
    BY <2>1
  <2>2. ASSUME NEW c, Advance(h, [h EXCEPT !.stage = "claimed", !.claim = c])
        PROVE  \E f \in handlers : g.token = f.token
    <3>1. [h EXCEPT !.stage = "claimed", !.claim = c].token = h.token
      BY <1>2 DEF Handler
    <3> QED
      BY <2>2, <3>1 DEF Advance
  <2>3. CASE Advance(h, [h EXCEPT !.stage = "ran"])
    <3>1. [h EXCEPT !.stage = "ran"].token = h.token
      BY <1>2 DEF Handler
    <3> QED
      BY <2>3, <3>1 DEF Advance
  <2> QED
    BY <2>1, <2>2, <2>3 DEF Handle, Deny, Claim, Command, CommandRaises, Complete, Stop,
       Answer, Success
<1>4. ASSUME NEW v \in Workers
      PROVE  work'[v] = work[v] \/ work'[v].at = "idle" \/ Born(work[v].token)'
  <2>1. CASE UNCHANGED work
    BY <2>1
  <2>2. CASE Answer(h, Idle)
    BY <2>2 DEF Answer, ApiTypeOK, Idle
  <2>3. CASE Answer(h, [at |-> "denied", key |-> h.key, token |-> h.token, again |-> FALSE])
    BY <1>2, <2>3 DEF Answer, ApiTypeOK
  <2>4. UNCHANGED work \/ Answer(h, Idle)
        \/ Answer(h, [at |-> "denied", key |-> h.key, token |-> h.token, again |-> FALSE])
    BY DEF Handle, Deny, Claim, Command, CommandRaises, Complete, Stop, Success, client
  <2> QED
    BY <2>1, <2>2, <2>3, <2>4
<1> QED
  BY <1>1, <1>3, <1>4, SameGrows, BornFrame

LEMMA TimesBorn ==
    ASSUME ApiTypeOK, ApiTypeOK', TokensAreBorn, NEW s \in Sessions, Times(s)
    PROVE  TokensAreBorn'
<1>1. session[s] \in Row
  BY LiveRows DEF Times
<1>2. \A r \in Sessions : r # s => session'[r] = session[r]
  BY DEF Times, ApiTypeOK
<1>3. session'[s].refresh = session[s].refresh
  <2>1. CASE session' = [session EXCEPT ![s].age = session[s].age + 1]
    BY <1>1, <2>1 DEF ApiTypeOK, Row
  <2>2. CASE session' = [session EXCEPT ![s].ended = "expired"]
    BY <1>1, <2>2 DEF ApiTypeOK, Row
  <2> QED
    BY <2>1, <2>2 DEF Times
<1>4. session'[s] # NoSession
  <2>1. CASE session' = [session EXCEPT ![s].age = session[s].age + 1]
    BY <1>1, <2>1 DEF ApiTypeOK, Row, NoSession
  <2>2. CASE session' = [session EXCEPT ![s].ended = "expired"]
    BY <1>1, <2>2 DEF ApiTypeOK, Row, NoSession
  <2> QED
    BY <2>1, <2>2 DEF Times
<1>5. Grown(session')
  BY <1>1, <1>2, <1>3, <1>4, LiveRows, RowFacts DEF Grown
<1>6. UNCHANGED <<handlers, current, keyring, work, window>>
  BY DEF Times, client
<1> QED
  BY <1>5, <1>6, BornFrame

LEMMA RestartBorn ==
    ASSUME ApiTypeOK, ApiTypeOK', TokensAreBorn, Restart
    PROVE  TokensAreBorn'
<1>1. /\ \A v \in Workers : work'[v].at = "idle"
      /\ handlers' = {Unheard(h) : h \in handlers}
  BY DEF Restart, Idle
<1>2. \A h \in handlers' : \E g \in handlers : h.token = g.token
  <2>1. \A h \in handlers : Unheard(h).token = h.token
    BY DEF ApiTypeOK, Handler, Unheard
  <2> QED
    BY <1>1, <2>1
<1>3. CASE keyring # NoToken /\ session' = AfterRefresh(keyring)
  <2>1. keyring \in Token /\ Grown(session')
    BY <1>3, RefreshGrows DEF ApiTypeOK
  <2>2. ASSUME Accepts(keyring)
        PROVE  \A t \in Token : t = NewToken(keyring) => Born(t)'
    <3>1. /\ NewToken(keyring).session = keyring.session
          /\ NewToken(keyring).number = session'[keyring.session].refresh
          /\ session'[keyring.session] # NoSession
      BY <1>3, <2>1, <2>2, RefreshGrows
    <3>2. session'[keyring.session].refresh >= session'[keyring.session].refresh
      BY <2>1, <3>1, TokenFacts, LiveRows, RowFacts DEF ApiTypeOK
    <3> QED
      BY <3>1, <3>2 DEF Born
  <2>3. \/ /\ Accepts(keyring)
           /\ current' = NewToken(keyring)
           /\ keyring' \in {NewToken(keyring), keyring}
           /\ window' = In
        \/ /\ current' = NoToken
           /\ keyring' \in {NoToken, keyring}
           /\ window' = Out
    BY <1>3 DEF Restart, Forget
  <2>4. Accepts(keyring) => NewToken(keyring) \in Token
    BY <2>1, TokenFacts DEF Accepts
  <2>5. window'.at # "leaving"
    <3>1. In.at # "leaving" /\ Out.at # "leaving"
      BY DEF In, Out
    <3> QED
      BY <2>3, <3>1
  <2> QED
    BY <1>1, <1>2, <2>1, <2>2, <2>3, <2>4, <2>5, BornFrame
<1>4. CASE /\ current' = NoToken
           /\ window' = Out
           /\ UNCHANGED <<session, keyring>>
  BY <1>1, <1>2, <1>4, SameGrows, BornFrame DEF Out
<1> QED
  BY <1>3, <1>4 DEF Restart

LEMMA BornStep ==
    ASSUME ApiTypeOK, ApiTypeOK', TokensAreBorn, ApiStep,
           \A h \in handlers : Handle(h) => UNCHANGED session
    PROVE  TokensAreBorn'
<1>1. CASE RefreshLate
  <2>1. PICK t \in strays : session' = AfterRefresh(t)
    BY <1>1 DEF RefreshLate
  <2>2. Grown(session')
    BY <2>1, RefreshGrows DEF ApiTypeOK
  <2>3. UNCHANGED <<handlers, current, keyring, work, window>>
    BY <1>1 DEF RefreshLate, client
  <2> QED
    BY <2>2, <2>3, BornFrame
<1>2. CASE Recover
  <2>1. UNCHANGED <<handlers, current, keyring, work, window>> /\ session' = AllRevoked
    BY <1>2 DEF Recover, client
  <2> QED
    BY <2>1, RevokedGrows, BornFrame
<1>3. ASSUME NEW p \in Sessions \X Keys, Lapse(p)
      PROVE  TokensAreBorn'
  BY <1>3, SameGrows, BornFrame DEF Lapse, client
<1> QED
  BY <1>1, <1>2, <1>3, WindowBorn, WorkerBorn, HandlerBorn, TimesBorn, RestartBorn DEF ApiStep

\* A worker that waits for no request does something else.
LEMMA WaitsFrame ==
    ASSUME ApiTypeOK, OneWaits, OneRefreshes, UNCHANGED handlers,
           NEW w \in Workers, work[w].at # "asked",
           \A v \in Workers : v # w => work'[v] = work[v],
           InLock(w)' => InLock(w) \/ LockFree
    PROVE  OneWaits' /\ OneRefreshes'
<1>1. OneWaits'
  BY DEF OneWaits, ApiTypeOK, Handler
<1>2. \A v \in Workers : v # w => (InLock(v)' <=> InLock(v))
  BY DEF InLock
<1>3. OneRefreshes'
  BY <1>2 DEF OneRefreshes, LockFree, InLock
<1> QED
  BY <1>1, <1>3

LEMMA AskWaits ==
    ASSUME ApiTypeOK, OneWaits, OneRefreshes, NEW w \in Workers, NEW k, NEW t, NEW again,
           Ask(w, k, t, again), work[w].at # "asked"
    PROVE  OneWaits' /\ OneRefreshes'
<1> DEFINE new == [worker |-> w, waited |-> TRUE, token |-> t, key |-> k,
                   stage |-> "received", claim |-> 0]
<1>1. /\ handlers' = handlers \cup {new}
      /\ work'[w].at = "asked"
      /\ \A v \in Workers : v # w => work'[v] = work[v]
  BY DEF Ask, ApiTypeOK
<1>2. new.worker = w /\ new.waited
  OBVIOUS
<1>3. \A h \in handlers : h.worker \in Workers /\ (h.waited => h.worker # w)
  BY DEF OneWaits, ApiTypeOK, Handler
<1> HIDE DEF new
<1>4. OneWaits'
  BY <1>1, <1>2, <1>3 DEF OneWaits
<1>5. \A v \in Workers : InLock(v)' => InLock(v)
  BY <1>1 DEF InLock
<1> QED
  BY <1>4, <1>5 DEF OneRefreshes

LEMMA WorkerWaits ==
    ASSUME ApiTypeOK, OneWaits, OneRefreshes, NEW w \in Workers, WorkerStep(w)
    PROVE  OneWaits' /\ OneRefreshes'
<1>1. ASSUME NEW k \in Keys, Request(w, k)
      PROVE  OneWaits' /\ OneRefreshes'
  <2>1. Ask(w, k, current, FALSE) /\ work[w] = Idle
    BY <1>1 DEF Request
  <2>2. Idle.at # "asked"
    BY DEF Idle
  <2> QED
    BY <2>1, <2>2, AskWaits
<1>2. CASE GiveUp(w)
  <2>1. /\ work'[w].at = "idle"
        /\ \A v \in Workers : v # w => work'[v] = work[v]
    BY <1>2 DEF GiveUp, ApiTypeOK, Idle
  <2>2. \A h \in handlers' : h.worker = w => ~h.waited
    BY <1>2 DEF GiveUp
  <2>3. ASSUME NEW h \in handlers', h.waited
        PROVE  h \in handlers
    <3>1. \A g \in handlers : Unheard(g).worker = g.worker
      BY DEF ApiTypeOK, Handler, Unheard
    <3>2. CASE handlers' = {IF g.worker = w THEN Unheard(g) ELSE g : g \in handlers}
      BY <2>2, <2>3, <3>1, <3>2
    <3>3. CASE handlers' = {g \in handlers : g.worker # w \/ g.stage # "received"}
      BY <3>3
    <3> QED
      BY <1>2, <3>2, <3>3 DEF GiveUp
  <2>4. OneWaits'
    BY <2>1, <2>2, <2>3 DEF OneWaits, ApiTypeOK, Handler
  <2>5. \A v \in Workers : InLock(v)' => InLock(v)
    BY <2>1 DEF InLock
  <2> QED
    BY <2>4, <2>5 DEF OneRefreshes
<1>3. CASE Reauthorise(w)
  <2>1. work[w].at # "asked" /\ LockFree
    BY <1>3 DEF Reauthorise
  <2>2. CASE UNCHANGED handlers
    <3>1. \A v \in Workers : v # w => work'[v] = work[v]
      BY <1>3 DEF Reauthorise, Ask, ApiTypeOK
    <3> QED
      BY <2>1, <2>2, <3>1, WaitsFrame
  <2>3. CASE Ask(w, work[w].key, current, TRUE)
    BY <2>1, <2>3, AskWaits
  <2> QED
    BY <1>3, <2>2, <2>3 DEF Reauthorise
<1>4. CASE Refresh(w)
  <2>1. /\ UNCHANGED handlers /\ work[w].at # "asked" /\ InLock(w)
        /\ \A v \in Workers : v # w => work'[v] = work[v]
    BY <1>4 DEF Refresh, ApiTypeOK, InLock
  <2> QED
    BY <2>1, WaitsFrame
<1>5. CASE RefreshUnanswered(w) \/ TakeRefusal(w)
  <2>1. /\ UNCHANGED handlers /\ work[w].at # "asked" /\ InLock(w)
        /\ \A v \in Workers : v # w => work'[v] = work[v]
    BY <1>5 DEF RefreshUnanswered, TakeRefusal, ApiTypeOK, InLock, server
  <2> QED
    BY <2>1, WaitsFrame
<1>6. CASE TakeTokens(w)
  <2>1. Ask(w, work[w].key, work[w].token, TRUE) /\ work[w].at # "asked"
    BY <1>6 DEF TakeTokens
  <2> QED
    BY <2>1, AskWaits
<1> QED
  BY <1>1, <1>2, <1>3, <1>4, <1>5, <1>6 DEF WorkerStep

\* A handler answers the worker that waits for it, or goes on.
AnswersOrGoesOn(h) ==
    \/ Answer(h, Idle)
    \/ Answer(h, [at |-> "denied", key |-> h.key, token |-> h.token, again |-> FALSE])
    \/ \E g \in Handler :
          /\ Advance(h, g) /\ UNCHANGED work
          /\ g.worker = h.worker /\ g.waited = h.waited /\ g.token = h.token

LEMMA HandlesAre ==
    ASSUME ApiTypeOK, ApiTypeOK', NEW h \in handlers, Handle(h)
    PROVE  AnswersOrGoesOn(h)
<1>1. h \in Handler
  BY DEF ApiTypeOK
<1>2. CASE Deny(h) \/ CommandRaises(h) \/ Complete(h) \/ Stop(h)
  BY <1>2 DEF Deny, CommandRaises, Complete, Stop, Success, AnswersOrGoesOn
<1>3. CASE Command(h)
  <2> DEFINE g == [h EXCEPT !.stage = "ran"]
  <2>1. /\ g \in Handler
        /\ g.worker = h.worker /\ g.waited = h.waited /\ g.token = h.token
    BY <1>1 DEF Handler
  <2>2. Advance(h, g) /\ UNCHANGED work
    BY <1>3 DEF Command, client
  <2> QED
    BY <2>1, <2>2 DEF AnswersOrGoesOn
<1>4. CASE Claim(h)
  <2> DEFINE g == [h EXCEPT !.stage = "claimed", !.claim = NewClaim(Place(h))]
  <2>1. CASE Advance(h, g) /\ UNCHANGED work
    <3>1. g \in Handler
      BY <2>1 DEF Advance, ApiTypeOK
    <3>2. g.worker = h.worker /\ g.waited = h.waited /\ g.token = h.token
      BY <1>1 DEF Handler
    <3> QED
      BY <2>1, <3>1, <3>2 DEF AnswersOrGoesOn
  <2>2. CASE Answer(h, Idle)
    BY <2>2 DEF AnswersOrGoesOn
  <2> QED
    BY <1>4, <2>1, <2>2 DEF Claim, Success
<1> QED
  BY <1>2, <1>3, <1>4 DEF Handle

LEMMA HandlerWaits ==
    ASSUME ApiTypeOK, ApiTypeOK', OneWaits, OneRefreshes, NEW h \in handlers, Handle(h)
    PROVE  OneWaits' /\ OneRefreshes'
<1>1. ASSUME NEW x, x.at \in {"idle", "denied"}, Answer(h, x)
      PROVE  OneWaits' /\ OneRefreshes'
  <2>1. /\ handlers' = handlers \ {h}
        /\ h.worker \in Workers
        /\ \A v \in Workers : work'[v] = work[v] \/ (h.waited /\ v = h.worker /\ work'[v] = x)
    BY <1>1 DEF Answer, ApiTypeOK, Handler
  <2>2. OneWaits'
    BY <2>1 DEF OneWaits, ApiTypeOK, Handler
  <2>3. \A v \in Workers : InLock(v)' => InLock(v)
    BY <1>1, <2>1 DEF InLock
  <2> QED
    BY <2>2, <2>3 DEF OneRefreshes
<1>2. ASSUME NEW g \in Handler, Advance(h, g), UNCHANGED work,
             g.worker = h.worker, g.waited = h.waited
      PROVE  OneWaits' /\ OneRefreshes'
  <2>1. handlers' = (handlers \ {h}) \cup {g}
    BY <1>2 DEF Advance
  <2>2. OneWaits'
    BY <1>2, <2>1 DEF OneWaits
  <2> QED
    BY <1>2, <2>2 DEF OneRefreshes, InLock
<1>3. CASE Answer(h, Idle)
  <2>1. Idle.at = "idle"
    BY DEF Idle
  <2> QED
    BY <1>1, <1>3, <2>1
<1>4. CASE Answer(h, [at |-> "denied", key |-> h.key, token |-> h.token, again |-> FALSE])
  <2> DEFINE denied == [at |-> "denied", key |-> h.key, token |-> h.token, again |-> FALSE]
  <2>1. denied.at = "denied"
    OBVIOUS
  <2>2. Answer(h, denied)
    BY <1>4
  <2> HIDE DEF denied
  <2> QED
    BY <1>1, <2>1, <2>2
<1> QED
  BY <1>2, <1>3, <1>4, HandlesAre DEF AnswersOrGoesOn

LEMMA WaitsStep ==
    ASSUME ApiTypeOK, ApiTypeOK', OneWaits, OneRefreshes, ApiStep
    PROVE  OneWaits' /\ OneRefreshes'
<1>1. CASE UNCHANGED <<handlers, work>>
  BY <1>1 DEF OneWaits, OneRefreshes, InLock
<1>2. CASE Restart
  <2>1. /\ \A v \in Workers : work'[v].at = "idle"
        /\ handlers' = {Unheard(h) : h \in handlers}
    BY <1>2 DEF Restart, Idle
  <2>2. \A h \in handlers : ~Unheard(h).waited
    BY DEF Unheard, ApiTypeOK, Handler
  <2> QED
    BY <2>1, <2>2 DEF OneWaits, OneRefreshes, InLock
<1>3. CASE SignIn \/ BeginSignOut \/ RevokeOnSignOut \/ EndSignOut
  BY <1>1, <1>3 DEF SignIn, BeginSignOut, RevokeOnSignOut, EndSignOut, server
<1>4. CASE RefreshLate \/ Recover
  BY <1>1, <1>4 DEF RefreshLate, Recover, client
<1>5. ASSUME NEW s \in Sessions, Times(s)
      PROVE  OneWaits' /\ OneRefreshes'
  BY <1>1, <1>5 DEF Times, client
<1>6. ASSUME NEW p \in Sessions \X Keys, Lapse(p)
      PROVE  OneWaits' /\ OneRefreshes'
  BY <1>1, <1>6 DEF Lapse, client
<1> QED
  BY <1>2, <1>3, <1>4, <1>5, <1>6, WorkerWaits, HandlerWaits DEF ApiStep

-----------------------------------------------------------------------------
(* The tokens, step by step: each of the sessions that is live after a step *)
(* and has lost no token.                                                   *)

\* A step that leaves a session and its tokens alone, or drops tokens that are saved.
LEMMA TracedFrame ==
    ASSUME ApiTypeOK, NEW s \in Sessions, Traced(s),
           session'[s] = session[s],
           current' \in {current, NoToken},
           keyring' \in {keyring, NoToken},
           window' = window \/ window'.at # "leaving",
           \A w \in Workers :
              \/ work'[w] = work[w]
              \/ ~ToSave(w, s) /\ work'[w].at \in {"idle", "asked", "refused"}
              \/ ~ToSave(w, s) /\ work'[w].token.session # s
    PROVE  Traced(s)'
<1>1. \A w \in Workers : WorkTraced(w, s)'
  BY DEF Traced, WorkTraced
<1>2. \A w \in Workers : ToSave(w, s) => ToSave(w, s)'
  BY DEF ToSave
<1>3. s # NoToken.session
  BY DEF NoToken, Sessions
<1>4. SharedTraced(s)'
  BY <1>2, <1>3 DEF Traced, SharedTraced
<1>5. \A w \in Workers :
        work'[w].at = "refreshing" => work'[w] = work[w] \/ work'[w].token.session # s
  OBVIOUS
<1>6. WindowTraced(s)'
  BY <1>5 DEF Traced, WindowTraced
<1> QED
  BY <1>1, <1>4, <1>6 DEF Traced

\* Nobody has a token of a session that is still to be issued.
LEMMA UnbornTraced ==
    ASSUME ApiTypeOK, TokensAreBorn, NEW s \in Sessions, session[s] = NoSession
    PROVE  /\ current.session # s /\ keyring.session # s
           /\ \A w \in Workers : work[w].at # "idle" => work[w].token.session # s
           /\ window.at = "leaving" => window.token.session # s
<1>1. s # NoToken.session
  BY DEF NoToken, Sessions
<1> QED
  BY <1>1 DEF TokensAreBorn, Born

LEMMA SignInTraced ==
    ASSUME ApiTypeOK, TokenInv, SignIn, NEW s \in Sessions, Live(s)', s \notin lost'
    PROVE  Traced(s)'
<1>1. PICK r \in Sessions :
        /\ session[r] = NoSession
        /\ session' = Issued(r)
        /\ \/ /\ current' = [session |-> r, number |-> 1]
              /\ Save(current')
              /\ window' = In
           \/ UNCHANGED <<current, keyring, window, lost>>
  BY DEF SignIn
<1>2. /\ session'[r] = [refresh |-> 1, previous |-> 0, age |-> 0, ended |-> "no"]
      /\ \A q \in Sessions : q # r => session'[q] = AllRevoked[q]
  BY <1>1 DEF Issued, AllRevoked
<1>3. s = r
  <2>1. ASSUME s # r PROVE FALSE
    <3>1. session'[s] = AllRevoked[s]
      BY <1>2, <2>1
    <3>2. CASE session[s].ended = "no"
      <4>1. session[s] \in Row /\ AllRevoked[s] = [session[s] EXCEPT !.ended = "revoked"]
        BY <3>2, LiveRows DEF AllRevoked, Live
      <4> QED
        BY <3>1, <4>1 DEF Live, Row
    <3>3. CASE session[s].ended # "no"
      BY <3>1, <3>3 DEF AllRevoked, Live
    <3> QED
      BY <3>2, <3>3
  <2> QED
    BY <2>1
<1>4. UNCHANGED work /\ session[s] = NoSession
  BY <1>1, <1>3 DEF SignIn
<1>5. /\ current.session # s /\ keyring.session # s
      /\ \A w \in Workers : work[w].at # "idle" => work[w].token.session # s
      /\ window.at = "leaving" => window.token.session # s
  BY <1>4, UnbornTraced DEF TokenInv
<1>6. \A w \in Workers : WorkTraced(w, s)'
  BY <1>4, <1>5 DEF WorkTraced
<1>7. CASE current' = [session |-> r, number |-> 1] /\ Save(current') /\ window' = In
  <2>1. keyring' = current' \/ keyring' = keyring
    BY <1>7 DEF Save
  <2>2. SharedTraced(s)'
    BY <1>2, <1>3, <1>5, <1>7, <2>1 DEF SharedTraced
  <2>3. In.at # "leaving"
    BY DEF In
  <2>4. WindowTraced(s)'
    BY <1>7, <2>3 DEF WindowTraced
  <2> QED
    BY <1>6, <2>2, <2>4 DEF Traced
<1>8. CASE UNCHANGED <<current, keyring, window, lost>>
  BY <1>5, <1>6, <1>8 DEF Traced, SharedTraced, WindowTraced
<1> QED
  BY <1>1, <1>7, <1>8

LEMMA SignOutTraced ==
    ASSUME ApiTypeOK, TokenInv, BeginSignOut \/ RevokeOnSignOut \/ EndSignOut,
           NEW s \in Sessions, Live(s)', s \notin lost'
    PROVE  Traced(s)'
<1>1. CASE BeginSignOut
  <2>1. /\ UNCHANGED <<session, keyring, work, lost>> /\ current' = NoToken
        /\ \/ window' = Out
           \/ current # NoToken
              /\ window' = [at |-> "leaving", token |-> current, answered |-> FALSE]
    BY <1>1 DEF BeginSignOut, server
  <2>2. Traced(s) /\ session'[s] = session[s]
    BY <2>1 DEF TokenInv, Live
  <2>3. \A w \in Workers : WorkTraced(w, s)'
    BY <2>1, <2>2 DEF Traced, WorkTraced
  <2>4. SharedTraced(s)'
    <3>1. s # NoToken.session
      BY DEF NoToken, Sessions
    <3> QED
      BY <2>1, <2>2, <3>1 DEF Traced, SharedTraced, ToSave
  <2>5. WindowTraced(s)'
    <3>1. CASE window' = Out
      BY <3>1 DEF WindowTraced, Out
    <3>2. CASE window' = [at |-> "leaving", token |-> current, answered |-> FALSE]
      <4>1. CASE current.session = s /\ \E w \in Workers : ToSave(w, s)
        <5>1. PICK w \in Workers : ToSave(w, s)
          BY <4>1
        <5>2. session[s].age < 2
          BY <2>2, <5>1 DEF Traced, WorkTraced, ToSave
        <5>3. \A v \in Workers : work[v].at # "refreshing"
          BY <5>1 DEF TokenInv, OneRefreshes, InLock, ToSave
        <5> QED
          BY <2>1, <2>2, <3>2, <5>2, <5>3 DEF WindowTraced, Traced, SharedTraced
      <4>2. CASE ~(current.session = s /\ \E w \in Workers : ToSave(w, s))
        BY <2>1, <2>2, <3>2, <4>2 DEF WindowTraced, Traced, SharedTraced
      <4> QED
        BY <4>1, <4>2
    <3> QED
      BY <2>1, <3>1, <3>2
  <2> QED
    BY <2>3, <2>4, <2>5 DEF Traced
<1>2. CASE RevokeOnSignOut
  <2>1. /\ UNCHANGED <<current, keyring, work, lost>>
        /\ window \in Leaving /\ window.at = "leaving"
    BY <1>2, WindowFacts DEF RevokeOnSignOut
  <2>2. window'.token = window.token
    BY <1>2, <2>1 DEF RevokeOnSignOut, Leaving
  <2> DEFINE r == window.token.session
  <2>3. r \in Sessions
    BY <2>1, TokenFacts DEF Leaving
  <2>4. CASE Live(r) /\ Named(window.token)
    <3>1. session' = [session EXCEPT ![r].ended = "revoked"]
      BY <1>2, <2>4 DEF RevokeOnSignOut
    <3>2. session'[r].ended = "revoked"
      BY <2>3, <2>4, <3>1, LiveRows DEF ApiTypeOK, Row
    <3>3. s # r /\ session'[s] = session[s]
      BY <2>3, <3>1, <3>2 DEF Live, ApiTypeOK
    <3>4. Traced(s)
      BY <2>1, <3>3 DEF TokenInv, Live
    <3>5. \A w \in Workers : WorkTraced(w, s)'
      BY <2>1, <3>3, <3>4 DEF Traced, WorkTraced
    <3>6. SharedTraced(s)'
      BY <2>1, <3>3, <3>4 DEF Traced, SharedTraced, ToSave
    <3>7. WindowTraced(s)'
      BY <2>2, <3>3 DEF WindowTraced
    <3> QED
      BY <3>5, <3>6, <3>7 DEF Traced
  <2>5. CASE ~(Live(r) /\ Named(window.token))
    <3>1. session' = session
      BY <1>2, <2>5 DEF RevokeOnSignOut
    <3>2. Traced(s) /\ Live(s)
      BY <2>1, <3>1 DEF TokenInv, Live
    <3>3. s # r
      BY <2>1, <2>5, <3>2 DEF Traced, WindowTraced, Named
    <3>4. \A w \in Workers : WorkTraced(w, s)'
      BY <2>1, <3>1, <3>2 DEF Traced, WorkTraced
    <3>5. SharedTraced(s)'
      BY <2>1, <3>1, <3>2 DEF Traced, SharedTraced, ToSave
    <3>6. WindowTraced(s)'
      BY <2>2, <3>3 DEF WindowTraced
    <3> QED
      BY <3>4, <3>5, <3>6 DEF Traced
  <2> QED
    BY <2>4, <2>5
<1>3. CASE EndSignOut
  <2>1. /\ UNCHANGED <<session, current, work, lost>> /\ window' = Out
        /\ keyring' \in {keyring, NoToken}
    BY <1>3 DEF EndSignOut, Forget, server
  <2>2. Traced(s)
    BY <2>1 DEF TokenInv, Live
  <2>3. Out.at # "leaving"
    BY DEF Out
  <2> QED
    BY <2>1, <2>2, <2>3, TracedFrame
<1> QED
  BY <1>1, <1>2, <1>3

LEMMA ReauthoriseTraced ==
    ASSUME ApiTypeOK, TokenInv, NEW w \in Workers, Reauthorise(w),
           NEW s \in Sessions, Live(s)', s \notin lost'
    PROVE  Traced(s)'
<1>1. /\ UNCHANGED <<session, current, keyring, window, lost>>
      /\ work[w].at = "denied" /\ LockFree
      /\ \A v \in Workers : v # w => work'[v] = work[v]
  BY DEF Reauthorise, Ask, ApiTypeOK
<1>2. Traced(s) /\ Live(s)
  BY <1>1 DEF TokenInv, Live
<1>3. CASE work'[w].at \in {"idle", "asked"}
  BY <1>1, <1>2, <1>3, TracedFrame DEF ToSave
<1>4. CASE /\ current = work[w].token
           /\ work' = [work EXCEPT ![w] = [at |-> "refreshing", key |-> work[w].key,
                                           token |-> current]]
  <2>1. work'[w].at = "refreshing" /\ work'[w].token = current
    BY <1>4 DEF ApiTypeOK
  <2>2. CASE current.session # s
    BY <1>1, <1>2, <2>1, <2>2, TracedFrame DEF ToSave
  <2>3. CASE current.session = s
    <3>1. \A v \in Workers : ~ToSave(v, s)
      BY <1>1 DEF LockFree, ToSave
    <3>2. current.number = session[s].refresh
      BY <1>2, <2>3, <3>1 DEF Traced, SharedTraced
    <3>3. session[s].refresh \in Nat
      BY <1>2, LiveRows, RowFacts
    <3>4. session[s].age = 2
      BY <1>1, <1>2, <1>4, <2>3, <3>2, <3>3 DEF Traced, WorkTraced
    <3>5. \A v \in Workers : WorkTraced(v, s)'
      BY <1>1, <1>2, <2>1, <3>2 DEF Traced, WorkTraced
    <3>6. \A v \in Workers : ~ToSave(v, s)'
      BY <1>1, <2>1, <3>1 DEF ToSave
    <3>7. SharedTraced(s)'
      BY <1>1, <1>2, <3>1 DEF Traced, SharedTraced
    <3>8. WindowTraced(s)'
      BY <1>1, <1>2, <3>4 DEF Traced, WindowTraced
    <3> QED
      BY <3>5, <3>7, <3>8 DEF Traced
  <2> QED
    BY <2>2, <2>3
<1> QED
  BY <1>3, <1>4 DEF Reauthorise, Ask, ApiTypeOK, Idle

LEMMA RefreshTraced ==
    ASSUME ApiTypeOK, TokenInv, NEW w \in Workers, Refresh(w),
           NEW s \in Sessions, s \notin lost'
    PROVE  /\ Live(s)' => Traced(s)'
           /\ session'[s].ended = "reused" => session[s].ended = "reused"
<1> DEFINE t == work[w].token
           new == IF Accepts(t) THEN NewToken(t) ELSE t
<1>1. /\ UNCHANGED <<current, keyring, window, lost>>
      /\ work[w].at = "refreshing"
      /\ session' = AfterRefresh(t)
      /\ work' = [work EXCEPT ![w] =
                   [at |-> IF Accepts(t) THEN "refreshed" ELSE "refused",
                    key |-> work[w].key, token |-> new]]
  BY DEF Refresh
<1>2. t \in Token /\ t.session \in Sessions
  BY <1>1, WorkFacts, TokenFacts
<1>3. /\ work'[w].token = new
      /\ work'[w].at = IF Accepts(t) THEN "refreshed" ELSE "refused"
      /\ \A v \in Workers : v # w => work'[v] = work[v]
  BY <1>1 DEF ApiTypeOK
<1>4. \A v \in Workers : v # w => ~InLock(v)
  BY <1>1 DEF TokenInv, OneRefreshes, InLock
<1>5. Accepts(t) => NewToken(t).session = t.session
  BY <1>2, RefreshGrows
<1>6. CASE s # t.session
  <2>1. session'[s] = session[s]
    BY <1>1, <1>2, <1>6, RefreshRows
  <2>2. Live(s)' => Traced(s)
    BY <1>1, <2>1 DEF TokenInv, Live
  <2>3. new.session # s
    BY <1>5, <1>6
  <2>4. work'[w].token.session # s /\ ~ToSave(w, s)
    BY <1>1, <1>3, <2>3 DEF ToSave
  <2> HIDE DEF new, t
  <2> QED
    BY <1>1, <1>3, <2>1, <2>2, <2>4, TracedFrame
<1>7. CASE s = t.session /\ Accepts(t)
  <2>1. Live(s) /\ session'[s] = Rotated(session[s]) /\ session[s] \in Row
    BY <1>1, <1>2, <1>7, RefreshRows, LiveRows DEF Accepts
  <2>2. /\ session'[s].refresh = session[s].refresh + 1
        /\ session'[s].previous = session[s].refresh
        /\ session'[s].age = 0
        /\ session'[s].ended = session[s].ended
        /\ session[s].refresh \in Nat
    BY <2>1, RotatedRows, RowFacts
  <2>3. Traced(s)
    BY <1>1, <2>1 DEF TokenInv
  <2>4. work'[w].at = "refreshed" /\ work'[w].token.session = s
        /\ work'[w].token.number = session[s].refresh + 1
    <3>1. NewToken(t).number = session[s].refresh + 1
      BY <1>2, <1>7 DEF NewToken, Token
    <3> QED
      BY <1>3, <1>5, <1>7, <3>1
  <2>5. ToSave(w, s)'
    BY <2>4 DEF ToSave
  <2>6. \A v \in Workers : v # w => ~ToSave(v, s)
    BY <1>4 DEF ToSave, InLock
  <2>7. ~ToSave(w, s)
    BY <1>1 DEF ToSave
  <2>8. ASSUME NEW v \in Workers
        PROVE  WorkTraced(v, s)'
    <3>1. CASE v = w
      BY <2>2, <2>4, <3>1 DEF WorkTraced
    <3>2. CASE v # w
      <4>1. work'[v] = work[v] /\ ~InLock(v)
        BY <1>3, <1>4, <3>2
      <4>2. ASSUME work[v].at # "idle", work[v].token.session = s
            PROVE  work[v].token.number < session[s].refresh + 1
        <5>1. work[v].token \in Token /\ Born(work[v].token)
          BY <4>2, WorkFacts DEF TokenInv, TokensAreBorn
        <5>2. work[v].token.number \in Nat /\ work[v].token.number <= session[s].refresh
          BY <4>2, <5>1, TokenFacts DEF Born
        <5> QED
          BY <2>2, <5>2
      <4> QED
        BY <2>2, <4>1, <4>2 DEF WorkTraced, InLock
    <3> QED
      BY <3>1, <3>2
  <2>9. SharedTraced(s)'
    BY <1>1, <2>2, <2>3, <2>5, <2>6, <2>7 DEF Traced, SharedTraced
  <2>10. WindowTraced(s)'
    <3>1. \A v \in Workers : work'[v].at # "refreshing"
      BY <1>3, <1>4, <2>4 DEF InLock
    <3>2. work[w].at = "refreshing" /\ work[w].token.session = s
      BY <1>1, <1>7
    <3> QED
      BY <1>1, <2>2, <2>3, <3>1, <3>2 DEF Traced, WindowTraced
  <2> QED
    BY <2>1, <2>2, <2>8, <2>9, <2>10 DEF Traced, Live
<1>8. CASE s = t.session /\ ~Accepts(t)
  <2>1. ~Live(s)
    <3>1. ASSUME Live(s) PROVE FALSE
      <4>1. t.number = session[s].refresh
        BY <1>1, <1>8, <3>1 DEF TokenInv, Traced, WorkTraced
      <4> QED
        BY <1>8, <3>1, <4>1 DEF Accepts
    <3> QED
      BY <3>1
  <2>2. session'[s] = session[s]
    BY <1>1, <1>2, <1>8, <2>1, RefreshRows DEF Reused
  <2> QED
    BY <2>1, <2>2 DEF Live
<1> QED
  BY <1>6, <1>7, <1>8

LEMMA TakeTokensTraced ==
    ASSUME ApiTypeOK, TokenInv, NEW w \in Workers, TakeTokens(w),
           NEW s \in Sessions, Live(s)', s \notin lost'
    PROVE  Traced(s)'
<1> DEFINE t == work[w].token
<1>1. /\ UNCHANGED <<session, window>> /\ ToSave(w, t.session)
      /\ current' = t
      /\ \/ keyring' = t /\ lost' = lost
         \/ keyring' = keyring /\ lost' = lost \cup {t.session}
         \/ keyring' = keyring /\ keyring' = t
      /\ Ask(w, work[w].key, t, TRUE)
  BY DEF TakeTokens, Save, ToSave
<1>2. lost \subseteq lost'
  BY DEF TakeTokens, Save
<1>3. Live(s) /\ Traced(s)
  BY <1>1, <1>2 DEF TokenInv, Live
<1>4. /\ work'[w].at = "asked"
      /\ \A v \in Workers : v # w => work'[v] = work[v]
  BY <1>1 DEF Ask, ApiTypeOK
<1>5. \A v \in Workers : WorkTraced(v, s)'
  BY <1>1, <1>3, <1>4 DEF Traced, WorkTraced
<1>6. WindowTraced(s)'
  BY <1>1, <1>3, <1>4 DEF Traced, WindowTraced
<1>7. SharedTraced(s)'
  <2>1. CASE s = t.session
    <3>1. t.number = session[s].refresh
      BY <1>1, <1>3, <2>1 DEF Traced, WorkTraced, ToSave
    <3>2. keyring' = t
      BY <1>1, <2>1
    <3> QED
      BY <1>1, <3>1, <3>2 DEF SharedTraced
  <2>2. CASE s # t.session
    <3>1. \A v \in Workers : ~ToSave(v, s)
      BY <1>1, <2>2 DEF TokenInv, OneRefreshes, InLock, ToSave
    <3>2. keyring' = t \/ keyring' = keyring
      BY <1>1
    <3> QED
      BY <1>1, <1>3, <2>2, <3>1, <3>2 DEF Traced, SharedTraced
  <2> QED
    BY <2>1, <2>2
<1> QED
  BY <1>5, <1>6, <1>7 DEF Traced

LEMMA WorkerTraced ==
    ASSUME ApiTypeOK, TokenInv, NEW w \in Workers, WorkerStep(w),
           NEW s \in Sessions, s \notin lost'
    PROVE  /\ Live(s)' => Traced(s)'
           /\ session'[s].ended = "reused" => session[s].ended = "reused"
<1>1. ASSUME NEW k \in Keys, Request(w, k)
      PROVE  /\ UNCHANGED session
             /\ Live(s)' => Traced(s)'
  <2>1. /\ UNCHANGED <<session, current, keyring, window, lost>>
        /\ work[w].at = "idle" /\ work'[w].at = "asked"
        /\ \A v \in Workers : v # w => work'[v] = work[v]
    BY <1>1 DEF Request, Ask, ApiTypeOK, Idle
  <2>2. Live(s)' => Traced(s)
    BY <2>1 DEF TokenInv, Live
  <2> QED
    BY <2>1, <2>2, TracedFrame DEF ToSave
<1>2. CASE GiveUp(w)
  <2>1. /\ UNCHANGED <<session, current, keyring, window, lost>>
        /\ work[w].at = "asked" /\ work'[w].at = "idle"
        /\ \A v \in Workers : v # w => work'[v] = work[v]
    BY <1>2 DEF GiveUp, ApiTypeOK, Idle
  <2>2. Live(s)' => Traced(s)
    BY <2>1 DEF TokenInv, Live
  <2> QED
    BY <2>1, <2>2, TracedFrame DEF ToSave
<1>3. CASE RefreshUnanswered(w)
  <2>1. /\ UNCHANGED <<session, current, keyring, window>>
        /\ ~ToSave(w, s) /\ work'[w].at = "idle" /\ lost \subseteq lost'
        /\ \A v \in Workers : v # w => work'[v] = work[v]
    BY <1>3 DEF RefreshUnanswered, ApiTypeOK, Idle, ToSave, server
  <2>2. Live(s)' => Traced(s)
    BY <2>1 DEF TokenInv, Live
  <2> QED
    BY <2>1, <2>2, TracedFrame
<1>4. CASE TakeRefusal(w)
  <2>1. /\ UNCHANGED <<session, window, lost>>
        /\ current' = NoToken /\ keyring' \in {keyring, NoToken}
        /\ work[w].at = "refused" /\ work'[w].at = "idle"
        /\ \A v \in Workers : v # w => work'[v] = work[v]
    BY <1>4 DEF TakeRefusal, Forget, ApiTypeOK, Idle, server
  <2>2. Live(s)' => Traced(s)
    BY <2>1 DEF TokenInv, Live
  <2> QED
    BY <2>1, <2>2, TracedFrame DEF ToSave
<1>5. CASE Reauthorise(w)
  BY <1>5, ReauthoriseTraced DEF Reauthorise
<1>6. CASE TakeTokens(w)
  BY <1>6, TakeTokensTraced DEF TakeTokens
<1> QED
  BY <1>1, <1>2, <1>3, <1>4, <1>5, <1>6, RefreshTraced DEF WorkerStep

LEMMA HandlerTraced ==
    ASSUME ApiTypeOK, ApiTypeOK', TokenInv, NEW h \in handlers, Handle(h), UNCHANGED session,
           NEW s \in Sessions, Live(s)', s \notin lost'
    PROVE  Traced(s)'
<1>1. UNCHANGED <<current, keyring, window, lost>>
  BY DEF Handle, Deny, Claim, Command, CommandRaises, Complete, Stop, client
<1>2. Live(s) /\ Traced(s)
  BY <1>1 DEF TokenInv, Live
<1>3. h.waited => ~ToSave(h.worker, s)
  BY DEF TokenInv, OneWaits, ToSave
<1>4. CASE UNCHANGED work
  BY <1>1, <1>2, <1>4, TracedFrame
<1>5. CASE Answer(h, Idle)
  <2>1. \A v \in Workers :
          work'[v] = work[v] \/ (h.waited /\ v = h.worker /\ work'[v] = Idle)
    BY <1>5 DEF Answer, ApiTypeOK
  <2>2. Idle.at = "idle"
    BY DEF Idle
  <2> QED
    BY <1>1, <1>2, <1>3, <2>1, <2>2, TracedFrame
<1>6. CASE /\ Deny(h)
           /\ Answer(h, [at |-> "denied", key |-> h.key, token |-> h.token, again |-> FALSE])
  <2>1. ~AccessAccepted(h.token) /\ h.token \in Token /\ Born(h.token)
    BY <1>6 DEF Deny, TokenInv, TokensAreBorn, ApiTypeOK, Handler
  <2>2. \A v \in Workers :
          \/ work'[v] = work[v]
          \/ /\ h.waited /\ v = h.worker
             /\ work'[v].at = "denied" /\ work'[v].token = h.token
    BY <1>6 DEF Answer, ApiTypeOK
  <2>3. CASE h.token.session # s
    BY <1>1, <1>2, <1>3, <2>2, <2>3, TracedFrame
  <2>4. CASE h.token.session = s
    <3>1. session[s] \in Row /\ session[s].refresh \in Nat /\ session[s].age \in 0..2
      BY <1>2, LiveRows DEF Row
    <3>2. h.token.number \in Nat /\ h.token.number <= session[s].refresh
      BY <2>1, <2>4, TokenFacts DEF Born
    <3>3. h.token.number < session[s].refresh \/ session[s].age = 2
      BY <1>2, <2>1, <2>4, <3>1, <3>2 DEF AccessAccepted
    <3>4. \A v \in Workers : WorkTraced(v, s)'
      BY <1>2, <2>2, <3>3 DEF Traced, WorkTraced
    <3>5. \A v \in Workers : ToSave(v, s) => ToSave(v, s)'
      BY <1>3, <2>2 DEF ToSave
    <3>6. SharedTraced(s)'
      BY <1>1, <1>2, <3>5 DEF Traced, SharedTraced
    <3>7. WindowTraced(s)'
      BY <1>1, <1>2, <2>2 DEF Traced, WindowTraced
    <3> QED
      BY <3>4, <3>6, <3>7 DEF Traced
  <2> QED
    BY <2>3, <2>4
<1>7. \/ UNCHANGED work
      \/ Answer(h, Idle)
      \/ /\ Deny(h)
         /\ Answer(h, [at |-> "denied", key |-> h.key, token |-> h.token, again |-> FALSE])
  BY DEF Handle, Deny, Claim, Command, CommandRaises, Complete, Stop, Success, client
<1> QED
  BY <1>4, <1>5, <1>6, <1>7

LEMMA TimesTraced ==
    ASSUME ApiTypeOK, TokenInv, NEW r \in Sessions, Times(r),
           NEW s \in Sessions, s \notin lost'
    PROVE  /\ Live(s)' => Traced(s)'
           /\ session'[s].ended = "reused" => session[s].ended = "reused"
<1>1. UNCHANGED <<handlers, current, keyring, work, window, lost>>
  BY DEF Times, client
<1>2. CASE s # r
  <2>1. session'[s] = session[s]
    BY <1>2 DEF Times, ApiTypeOK
  <2>2. Live(s)' => Traced(s)
    BY <1>1, <2>1 DEF TokenInv, Live
  <2> QED
    BY <1>1, <2>1, <2>2, TracedFrame
<1>3. CASE s = r /\ session' = [session EXCEPT ![r].ended = "expired"]
  <2>1. session'[s].ended = "expired"
    BY <1>3, LiveRows DEF Times, ApiTypeOK, Row
  <2> QED
    BY <2>1 DEF Live
<1>4. CASE /\ s = r
           /\ session[r].age < 2
           /\ session[r].age = 1 => ~OnItsWay(r)
           /\ session' = [session EXCEPT ![r].age = session[r].age + 1]
  <2>1. session[s] \in Row /\ Live(s) /\ Traced(s)
    BY <1>1, <1>4, LiveRows DEF Times, TokenInv
  <2>2. /\ session'[s].refresh = session[s].refresh
        /\ session'[s].previous = session[s].previous
        /\ session'[s].ended = session[s].ended
        /\ session'[s].age = session[s].age + 1
        /\ session[s].age \in {0, 1}
    BY <1>4, <2>1 DEF ApiTypeOK, Row
  <2>3. session[s].age = 1 =>
          /\ \A v \in Workers : ~ToSave(v, s)
          /\ window.at = "leaving" /\ window.token.session = s
                => window.token.number = session[s].refresh
    BY <1>4 DEF OnItsWay, ToSave
  <2>4. \A v \in Workers : WorkTraced(v, s)'
    BY <1>1, <2>1, <2>2, <2>3 DEF Traced, WorkTraced, ToSave
  <2>5. SharedTraced(s)'
    BY <1>1, <2>1, <2>2 DEF Traced, SharedTraced, ToSave
  <2>6. WindowTraced(s)'
    BY <1>1, <2>1, <2>2, <2>3 DEF Traced, WindowTraced
  <2> QED
    BY <2>2, <2>4, <2>5, <2>6 DEF Traced
<1> QED
  BY <1>2, <1>3, <1>4 DEF Times

LEMMA RestartTraced ==
    ASSUME ApiTypeOK, TokenInv, Restart, NEW s \in Sessions, s \notin lost'
    PROVE  /\ Live(s)' => Traced(s)'
           /\ session'[s].ended = "reused" => session[s].ended = "reused"
<1>1. /\ \A v \in Workers : work'[v].at = "idle"
      /\ lost \cup Unsaved \subseteq lost'
  BY DEF Restart, Idle
<1>2. \A v \in Workers : ~ToSave(v, s)
  BY <1>1 DEF ToSave, Unsaved
<1>3. window'.at # "leaving"
  <2>1. window' = In \/ window' = Out
    BY DEF Restart
  <2>2. In.at # "leaving" /\ Out.at # "leaving"
    BY DEF In, Out
  <2> QED
    BY <2>1, <2>2
<1>4. ASSUME current' = NoToken \/ current'.session # s,
             keyring' \in {keyring, NoToken} \/ keyring'.session # s,
             session'[s] = session[s]
      PROVE  /\ Live(s)' => Traced(s)'
             /\ session'[s].ended = "reused" => session[s].ended = "reused"
  <2>1. Live(s)' => Traced(s)
    BY <1>1, <1>4 DEF TokenInv, Live
  <2>2. s # NoToken.session
    BY DEF NoToken, Sessions
  <2>3. \A v \in Workers : WorkTraced(v, s)'
    BY <1>1 DEF WorkTraced
  <2>4. WindowTraced(s)'
    BY <1>3 DEF WindowTraced
  <2>5. Traced(s) => SharedTraced(s)'
    BY <1>2, <1>4, <2>2 DEF Traced, SharedTraced
  <2> QED
    BY <1>4, <2>1, <2>3, <2>4, <2>5 DEF Traced
<1>5. CASE /\ keyring # NoToken /\ session' = AfterRefresh(keyring)
           /\ ~(current' = NoToken /\ UNCHANGED <<session, keyring>>)
  <2>1. keyring \in Token /\ keyring.session \in Sessions
    BY <1>5, TokenFacts DEF ApiTypeOK
  <2>2. \/ /\ Accepts(keyring)
           /\ current' = NewToken(keyring)
           /\ keyring' = NewToken(keyring) \/ keyring' = keyring
           /\ keyring' = keyring => keyring.session \in lost'
        \/ /\ ~Accepts(keyring)
           /\ current' = NoToken
           /\ keyring' \in {NoToken, keyring}
        \/ /\ current' = NoToken
           /\ keyring' = keyring
           /\ keyring.session \in lost'
    BY <1>5 DEF Restart, Forget
  <2>3. Accepts(keyring) => NewToken(keyring).session = keyring.session
    BY <2>1, RefreshGrows
  <2>4. CASE s # keyring.session
    <3>1. session'[s] = session[s]
      BY <1>5, <2>1, <2>4, RefreshRows
    <3>2. current' = NoToken \/ current'.session # s
      BY <2>2, <2>3, <2>4
    <3>3. keyring' \in {keyring, NoToken} \/ keyring'.session # s
      BY <2>2, <2>3, <2>4
    <3> QED
      BY <1>4, <3>1, <3>2, <3>3
  <2>5. CASE s = keyring.session /\ Accepts(keyring)
    <3>1. Live(s) /\ session'[s] = Rotated(session[s]) /\ session[s] \in Row
      BY <1>5, <2>1, <2>5, RefreshRows, LiveRows DEF Accepts
    <3>2. session'[s].refresh = session[s].refresh + 1
          /\ session'[s].ended = session[s].ended
      BY <3>1, RotatedRows
    <3>3. current' = NewToken(keyring) /\ keyring' = NewToken(keyring)
      BY <2>2, <2>5
    <3>4. NewToken(keyring).number = session[s].refresh + 1
      BY <2>1, <2>5 DEF NewToken, Token
    <3>5. SharedTraced(s)'
      BY <3>2, <3>3, <3>4 DEF SharedTraced
    <3>6. \A v \in Workers : WorkTraced(v, s)'
      BY <1>1 DEF WorkTraced
    <3>7. WindowTraced(s)'
      BY <1>3 DEF WindowTraced
    <3> QED
      BY <3>1, <3>2, <3>5, <3>6, <3>7 DEF Traced, Live
  <2>6. CASE s = keyring.session /\ ~Accepts(keyring)
    <3>1. ~Live(s)
      <4>1. ASSUME Live(s) PROVE FALSE
        <5>1. keyring.number = session[s].refresh
          BY <1>1, <1>2, <2>6, <4>1 DEF TokenInv, Traced, SharedTraced
        <5> QED
          BY <2>6, <4>1, <5>1 DEF Accepts
      <4> QED
        BY <4>1
    <3>2. session'[s] = session[s]
      BY <1>5, <2>1, <2>6, <3>1, RefreshRows DEF Reused
    <3> QED
      BY <3>1, <3>2 DEF Live
  <2> QED
    BY <2>4, <2>5, <2>6
<1>6. CASE /\ current' = NoToken
           /\ UNCHANGED <<session, keyring>>
  BY <1>4, <1>6
<1> QED
  BY <1>5, <1>6 DEF Restart

\* A session ends for a reused token only where a token was lost.
LEMMA TokenStep ==
    ASSUME ApiInv, ApiTypeOK', TokenInv, ApiStep
    PROVE  TokenInv'
<1>1. ApiTypeOK /\ \A h \in handlers : Handle(h) => UNCHANGED session
  <2> SUFFICES ASSUME NEW h \in handlers, Handle(h) PROVE UNCHANGED session
    BY DEF ApiInv
  <2> QED
    BY DEF Handle, Deny, Claim, Command, CommandRaises, Complete, Stop
<1>2. TokensAreBorn' /\ OneWaits' /\ OneRefreshes'
  BY <1>1, BornStep, WaitsStep DEF TokenInv
<1>3. lost \subseteq lost'
  <2>1. CASE SignIn
    BY <2>1 DEF SignIn, Save
  <2>2. CASE BeginSignOut \/ RevokeOnSignOut \/ EndSignOut
    BY <2>2 DEF BeginSignOut, RevokeOnSignOut, EndSignOut
  <2>3. ASSUME NEW w \in Workers, WorkerStep(w)
        PROVE  lost \subseteq lost'
    BY <2>3 DEF WorkerStep, Request, GiveUp, Reauthorise, Refresh, RefreshUnanswered,
       TakeTokens, TakeRefusal, Save
  <2>4. ASSUME NEW h \in handlers, Handle(h)
        PROVE  lost \subseteq lost'
    BY <2>4 DEF Handle, Deny, Claim, Command, CommandRaises, Complete, Stop
  <2>5. CASE RefreshLate \/ Recover \/ Restart
    BY <2>5 DEF RefreshLate, Recover, Restart
  <2>6. ASSUME NEW s \in Sessions, Times(s)
        PROVE  lost \subseteq lost'
    BY <2>6 DEF Times
  <2>7. ASSUME NEW p \in Sessions \X Keys, Lapse(p)
        PROVE  lost \subseteq lost'
    BY <2>7 DEF Lapse
  <2> QED
    BY <2>1, <2>2, <2>3, <2>4, <2>5, <2>6, <2>7 DEF ApiStep
<1>4. ASSUME NEW s \in Sessions, s \notin lost'
      PROVE  /\ Live(s)' => Traced(s)'
             /\ session'[s].ended = "reused" => session[s].ended = "reused"
  <2>1. ASSUME session' = AllRevoked
        PROVE  ~Live(s)' /\ (session'[s].ended = "reused" => session[s].ended = "reused")
    <3>1. CASE Live(s)
      <4>1. session[s] \in Row /\ session'[s] = [session[s] EXCEPT !.ended = "revoked"]
        BY <1>1, <2>1, <3>1, LiveRows DEF AllRevoked
      <4> QED
        BY <4>1 DEF Live, Row
    <3>2. CASE ~Live(s)
      BY <2>1, <3>2 DEF AllRevoked, Live
    <3> QED
      BY <3>1, <3>2
  <2>2. CASE SignIn
    <3>1. PICK r \in Sessions : session' = Issued(r)
      BY <2>2 DEF SignIn
    <3>2. \/ session'[s] = AllRevoked[s]
          \/ session'[s] = [refresh |-> 1, previous |-> 0, age |-> 0, ended |-> "no"]
      BY <3>1 DEF Issued, AllRevoked
    <3>3. session'[s].ended = "reused" => session[s].ended = "reused"
      <4>1. CASE Live(s)
        <5>1. session[s] \in Row /\ AllRevoked[s] = [session[s] EXCEPT !.ended = "revoked"]
          BY <1>1, <4>1, LiveRows DEF AllRevoked
        <5>2. AllRevoked[s].ended = "revoked"
          BY <5>1 DEF Row
        <5> QED
          BY <3>2, <5>2
      <4>2. CASE ~Live(s)
        BY <3>2, <4>2 DEF AllRevoked
      <4> QED
        BY <4>1, <4>2
    <3> QED
      BY <1>1, <1>4, <2>2, <3>3, SignInTraced
  <2>3. CASE BeginSignOut \/ EndSignOut
    BY <1>1, <1>4, <2>3, SignOutTraced DEF BeginSignOut, EndSignOut, server
  <2>4. CASE RevokeOnSignOut
    <3>1. session'[s].ended = "reused" => session[s].ended = "reused"
      <4>1. session' = session \/
              session' = [session EXCEPT ![window.token.session].ended = "revoked"]
        BY <2>4 DEF RevokeOnSignOut
      <4>2. CASE session' = session
        BY <4>2
      <4>3. CASE session' = [session EXCEPT ![window.token.session].ended = "revoked"]
        <5>1. CASE s # window.token.session
          BY <1>1, <4>3, <5>1 DEF ApiTypeOK
        <5>2. CASE s = window.token.session
          <6>1. session[s] \in Row \/ session[s] = NoSession
            BY <1>1 DEF ApiTypeOK
          <6>2. session'[s] = [session[s] EXCEPT !.ended = "revoked"]
            BY <1>1, <4>3, <5>2 DEF ApiTypeOK
          <6> QED
            BY <6>1, <6>2 DEF Row, NoSession
        <5> QED
          BY <5>1, <5>2
      <4> QED
        BY <4>1, <4>2, <4>3
    <3> QED
      BY <1>1, <1>4, <2>4, <3>1, SignOutTraced
  <2>5. CASE RefreshLate
    <3>1. PICK t \in strays : /\ session' = AfterRefresh(t)
                              /\ lost' = lost \cup {t.session}
      BY <2>5 DEF RefreshLate
    <3>2. session'[s] = session[s]
      BY <1>1, <1>4, <3>1, RefreshRows DEF ApiTypeOK
    <3>3. UNCHANGED <<current, keyring, work, window>>
      BY <2>5 DEF RefreshLate, client
    <3>4. Live(s)' => Traced(s)
      BY <1>3, <1>4, <3>2 DEF TokenInv, Live
    <3> QED
      BY <1>1, <3>2, <3>3, <3>4, TracedFrame
  <2>6. CASE Recover
    BY <2>1, <2>6 DEF Recover
  <2>7. ASSUME NEW p \in Sessions \X Keys, Lapse(p)
        PROVE  /\ Live(s)' => Traced(s)'
               /\ session'[s].ended = "reused" => session[s].ended = "reused"
    <3>1. UNCHANGED <<session, current, keyring, work, window, lost>>
      BY <2>7 DEF Lapse, client
    <3>2. Live(s)' => Traced(s)
      BY <1>4, <3>1 DEF TokenInv, Live
    <3> QED
      BY <1>1, <3>1, <3>2, TracedFrame
  <2>8. ASSUME NEW h \in handlers, Handle(h)
        PROVE  /\ Live(s)' => Traced(s)'
               /\ session'[s].ended = "reused" => session[s].ended = "reused"
    BY <1>1, <1>4, <2>8, HandlerTraced
  <2> QED
    BY <1>1, <1>4, <2>2, <2>3, <2>4, <2>5, <2>6, <2>7, <2>8, WorkerTraced, TimesTraced,
       RestartTraced DEF ApiStep
<1>5. ReuseMeansLoss'
  BY <1>3, <1>4 DEF TokenInv, ReuseMeansLoss
<1> QED
  BY <1>2, <1>4, <1>5 DEF TokenInv

LEMMA TokenInvariant == ASSUME ~SlowCommands PROVE ApiSpec => []TokenInv
<1>1. ApiInit => TokenInv
  <2> SUFFICES ASSUME ApiInit PROVE TokenInv
    OBVIOUS
  <2>1. \A w \in Workers : work[w].at = "idle"
    BY DEF ApiInit, Idle
  <2>2. \A s \in Sessions : session[s].ended = "unborn"
    BY DEF ApiInit, NoSession
  <2>3. window.at # "leaving"
    BY DEF ApiInit, Out
  <2> QED
    BY <2>1, <2>2, <2>3 DEF ApiInit, TokenInv, TokensAreBorn, OneWaits, OneRefreshes, InLock,
       Live, ReuseMeansLoss
<1>2. ApiInv /\ ApiInv' /\ TokenInv /\ [ApiNext]_vars => TokenInv'
  <2> SUFFICES ASSUME ApiInv, ApiInv', TokenInv, [ApiNext]_vars PROVE TokenInv'
    OBVIOUS
  <2>1. CASE ApiNext
    BY <2>1, TokenStep DEF ApiNext, ApiInv
  <2>2. CASE UNCHANGED vars
    <3>1. UNCHANGED <<session, handlers, current, keyring, work, window, lost>>
      BY <2>2 DEF vars, server, client
    <3> QED
      BY <3>1 DEF TokenInv, TokensAreBorn, Born, OneWaits, OneRefreshes, InLock, Live, Traced,
         WorkTraced, SharedTraced, WindowTraced, ToSave, ReuseMeansLoss
  <2> QED
    BY <2>1, <2>2
<1> QED
  BY <1>1, <1>2, ApiInvariant, PTL DEF ApiSpec

\* The server never ends a session for a reused token unless one of its tokens was lost,
\* however many workers meet an expired token at once.
THEOREM ReuseIsLoss == ASSUME ~SlowCommands PROVE ApiSpec => []ReuseMeansLoss
<1>1. TokenInv => ReuseMeansLoss
  BY DEF TokenInv
<1> QED
  BY <1>1, TokenInvariant, PTL

\* A sign-out that was answered has ended the session unless one of its tokens was lost,
\* even if a worker replaced the token that the window held.
THEOREM SignOutEndsTheSession == ASSUME ~SlowCommands PROVE ApiSpec => []SignOutRevokes
<1>1. ApiInv /\ TokenInv => SignOutRevokes
  <2> SUFFICES ASSUME ApiInv, TokenInv, window.at = "leaving", window.answered,
                      window.token.session \notin lost, Live(window.token.session)
               PROVE  FALSE
    BY DEF SignOutRevokes
  <2>1. window.token.session \in Sessions
    BY WindowFacts, TokenFacts DEF ApiInv, Leaving
  <2> QED
    BY <2>1 DEF TokenInv, Traced, WindowTraced
<1> QED
  BY <1>1, ApiInvariant, TokenInvariant, PTL

=============================================================================
