------------------------------- MODULE Portal -------------------------------
(***************************************************************************)
(* Public access to one event: the portal capability with its optional PIN, *)
(* the signed cookies of the visitors, their requests and searches under    *)
(* way, and the count of failed PINs.                                       *)
(*                                                                         *)
(* A visitor's request reads the capability and the event in one query      *)
(* (portal_for_tenant) and works with that copy to its end, whatever the     *)
(* photographer, the operator and the administrator commit meanwhile.        *)
(***************************************************************************)
EXTENDS Naturals, FiniteSets

CONSTANTS
    Visitors,           \* clients: an address and a browser
    Requests,           \* visitors' requests that can be under way at once
    Pins,               \* what generate_share_pin may return
    NoPin,              \* the empty pin_value
    PinLimit,           \* PORTAL_PIN_FAILURE_LIMIT
    MaxVersion,         \* bound on the versions of the capability issued
    MaxEventVersion,    \* bound on those of the event
    MaxWindow,          \* bound on the windows of the failure limit
    LegacyPin,          \* TRUE starts with a capability of before migration 0017
    LateClocks          \* TRUE lets a window end between the reading of the clock
                        \* in register_failure and its first query

ASSUME PortalConstants ==
    /\ Pins # {}
    /\ NoPin \notin Pins
    /\ IsFiniteSet(Requests)
    /\ PinLimit \in Nat \ {0}
    /\ MaxVersion \in Nat \ {0}
    /\ MaxEventVersion \in Nat \ {0}
    /\ MaxWindow \in Nat \ {0}
    /\ {LegacyPin, LateClocks} \subseteq BOOLEAN

VARIABLES
    status,         \* Event.state: public, not public, or never public again
    expires,        \* Event.expires_at against the clock
    purgeAfter,     \* Event.purge_after against the clock
    purged,         \* Event.media_purged_at is set
    eventVersion,   \* Event.share_access_version
    portal,         \* the PortalCapability row, or NoPortal
    lastVersion,    \* the last versions issued, of the capability and of the event:
                    \* uuid4 never repeats
    pepper,         \* settings.SHARE_PIN_PEPPER
    form,           \* the event row an admin form has loaded, or NoForm
    window,         \* the current window of the failure limit
    bucket,         \* per visitor, the RateLimitBucket of PIN failures
    cookie,         \* per visitor, the access cookie
    request,        \* the requests under way
    results,        \* the FaceSearchResultSet rows: made under the versions of now,
                    \* or under earlier ones
    guesses         \* ghost: failed PINs of a visitor in this window since the
                    \* last success

event == <<status, expires, purgeAfter, purged, eventVersion>>
operator == <<pepper, form>>
visit == <<cookie, request, guesses>>
vars == <<event, portal, lastVersion, operator, window, bucket, visit, results>>

NoHash == <<NoPin, 0>>
NoPortal == [version |-> 0]
NoForm == [status |-> "none"]
NoBucket == [window |-> 0, failures |-> 0]
NoCookie == [payload |-> <<0, 0>>, pin |-> NoPin]
Idle == [step |-> "idle"]

\* The states no publication leaves: archived or cancelled, or cancelled by an erasure
\* that has quarantined the event or has ended.
Ended == {"closed", "erasing", "erased"}

\* A date that is null, ahead or past.
Dates == {"unset", "ahead", "past"}

Versions == 0..MaxVersion
Hashes == (Pins \cup {NoPin}) \X {0, 1}
EventVersions == 0..MaxEventVersion
Payloads == Versions \X EventVersions

Portals == [version : Versions \ {0}, revoked : BOOLEAN, expires : Dates \ {"unset"},
            enabled : BOOLEAN, value : Pins \cup {NoPin}, hash : Hashes]

\* What a request keeps of the rows it read.
Copies == [payload : Payloads, hash : Hashes]

RequestStates ==
    [step : {"pin", "granted", "denied", "search"}, visitor : Visitors,
     copy : Copies, guess : Pins \cup {NoPin}, stamp : 0..MaxWindow]

\* Every variable has its type.
PortalTypeOK ==
    /\ status \in {"hidden", "published"} \cup Ended
    /\ expires \in Dates
    /\ purgeAfter \in Dates
    /\ purged \in BOOLEAN
    /\ eventVersion \in EventVersions \ {0}
    /\ portal \in Portals \cup {NoPortal}
    /\ lastVersion \in [portal : Versions, event : EventVersions]
    /\ pepper \in {0, 1}
    /\ form \in [status : {"hidden", "published"} \cup Ended,
                 eventVersion : EventVersions \ {0}] \cup {NoForm}
    /\ window \in 1..MaxWindow
    /\ bucket \in [Visitors -> [window : 0..MaxWindow, failures : Nat]]
    /\ cookie \in [Visitors -> [payload : Payloads, pin : Pins \cup {NoPin}]]
    /\ request \in [Requests -> RequestStates \cup {Idle}]
    /\ results \subseteq {"current", "stale"}
    /\ guesses \in [Visitors -> Nat]

-----------------------------------------------------------------------------
(* What the rows say.                                                      *)

EventAvailable == status = "published" /\ expires = "ahead" /\ ~purged

PortalAvailable ==
    /\ portal # NoPortal
    /\ ~portal.revoked
    /\ portal.expires = "ahead"
    /\ EventAvailable

Payload == <<portal.version, eventVersion>>

\* The cookie carries exactly the versions of the two rows.
Matches(v) == portal # NoPortal /\ cookie[v].payload = Payload

MayEnter(v) == PortalAvailable /\ (portal.enabled => Matches(v))

Copy == [payload |-> Payload, hash |-> portal.hash]

PinHash(pin) == <<pin, pepper>>

\* check_pin: the copy's hash under the pepper of the process.
CheckPin(copy, guess) == copy.hash # NoHash /\ copy.hash = PinHash(guess)

\* A wrong form of the next: each failure replaces the row, and is the window's first.
FailuresForgotten(v, w) == 0

FailuresIn(v, w) == IF bucket[v].window = w THEN bucket[v].failures ELSE 0

Limited(v) == FailuresIn(v, window) >= PinLimit

-----------------------------------------------------------------------------
(* Wrong forms of definitions below, each a plausible slip in the code it   *)
(* stands for; no specification uses them.                                  *)

\* Gives the PIN a new value and forgets its access version.
RotateKeepingVersion(pin) ==
    /\ portal # NoPortal
    /\ EventAvailable
    /\ portal' = [portal EXCEPT !.value = pin, !.hash = PinHash(pin), !.enabled = TRUE,
                                !.revoked = FALSE]
    /\ results' = {}
    /\ UNCHANGED <<event, lastVersion, operator, window, bucket, visit>>

\* Issues a PIN without hashing it.
IssuedUnhashed(pin) == [portal EXCEPT !.value = pin, !.enabled = TRUE]

\* Unpublishes without a new access version and gives the old one back.
UnpublishToFirst ==
    /\ status = "published"
    /\ status' = "hidden"
    /\ eventVersion' = 1
    /\ results' = {}
    /\ UNCHANGED <<expires, purgeAfter, purged, portal, lastVersion, operator, window,
                   bucket, visit>>

-----------------------------------------------------------------------------
(* The photographer, the administrator and the operator.                   *)

PortalInit ==
    /\ status = IF LegacyPin THEN "published" ELSE "hidden"
    /\ expires = IF LegacyPin THEN "ahead" ELSE "unset"
    /\ purgeAfter = IF LegacyPin THEN "ahead" ELSE "unset"
    /\ purged = FALSE
    /\ eventVersion = 1
    /\ IF LegacyPin
       THEN \E pin \in Pins :
                portal = [version |-> 1, revoked |-> FALSE, expires |-> "ahead",
                          enabled |-> TRUE, value |-> NoPin, hash |-> <<pin, 0>>]
       ELSE portal = NoPortal
    /\ lastVersion = [portal |-> portal.version, event |-> 1]
    /\ pepper = 0
    /\ form = NoForm
    /\ window = 1
    /\ bucket = [v \in Visitors |-> NoBucket]
    /\ cookie = [v \in Visitors |-> NoCookie]
    /\ request = [r \in Requests |-> Idle]
    /\ results = {}
    /\ guesses = [v \in Visitors |-> 0]

\* The results, once one of the versions is another.
Outdated == IF results = {} THEN {} ELSE {"stale"}

FreshVersion ==
    /\ lastVersion.portal < MaxVersion
    /\ lastVersion' = [lastVersion EXCEPT !.portal = @ + 1]

FreshEventVersion ==
    /\ lastVersion.event < MaxEventVersion
    /\ lastVersion' = [lastVersion EXCEPT !.event = @ + 1]
    /\ eventVersion' = lastVersion'.event

\* The first publication fixes both dates; later ones keep them.
FixDates ==
    IF purgeAfter # "unset" THEN UNCHANGED <<expires, purgeAfter>>
    ELSE expires' = "ahead" /\ purgeAfter' = "ahead"

\* The capability is made at the first publication and revived when revoked; in
\* every other case publication leaves it alone.
OpenPortal ==
    \/ /\ portal = NoPortal
       /\ FreshVersion
       /\ portal' = [version |-> lastVersion'.portal, revoked |-> FALSE, expires |-> expires',
                     enabled |-> FALSE, value |-> NoPin, hash |-> NoHash]
    \/ /\ portal # NoPortal
       /\ portal.revoked
       /\ FreshVersion
       /\ portal' = [portal EXCEPT !.version = lastVersion'.portal, !.revoked = FALSE,
                                   !.expires = expires']
    \/ /\ portal # NoPortal
       /\ ~portal.revoked
       /\ UNCHANGED <<portal, lastVersion>>

\* Ingestion decides whether there is something to publish.  A CHECK of the table
\* refuses a published event without a date.
PublishPortal ==
    /\ status \notin Ended
    /\ FixDates
    /\ expires' # "unset"
    /\ status' = "published"
    /\ OpenPortal
    /\ results' = IF portal' = portal THEN results ELSE Outdated
    /\ UNCHANGED <<purged, eventVersion, operator, window, bucket, visit>>

WithPin(pin) == [portal EXCEPT !.value = pin, !.hash = PinHash(pin), !.enabled = TRUE]

\* A PIN that exists is enabled again; only a portal without one is given one.
SetPin(enabled, pin) ==
    /\ portal # NoPortal
    /\ ~portal.revoked
    /\ EventAvailable
    /\ portal' = IF ~enabled THEN [portal EXCEPT !.enabled = FALSE]
                 ELSE IF portal.value # NoPin THEN [portal EXCEPT !.enabled = TRUE]
                 ELSE WithPin(pin)
    /\ UNCHANGED <<event, lastVersion, operator, window, bucket, visit, results>>

Rotate(pin) ==
    /\ portal # NoPortal
    /\ EventAvailable
    /\ FreshVersion
    /\ portal' = [WithPin(pin) EXCEPT !.version = lastVersion'.portal, !.revoked = FALSE]
    /\ results' = {}
    /\ UNCHANGED <<event, operator, window, bucket, visit>>

UnpublishPortal ==
    /\ status = "published"
    /\ FreshEventVersion
    /\ status' = "hidden"
    /\ results' = {}
    /\ UNCHANGED <<expires, purgeAfter, purged, portal, operator, window, bucket, visit>>

\* The administrator moves a published event to Review, with a new version, or to
\* Archived, without one.
ReviewEvent ==
    /\ status = "published"
    /\ FreshEventVersion
    /\ status' = "hidden"
    /\ results' = Outdated
    /\ UNCHANGED <<expires, purgeAfter, purged, portal, operator, window, bucket, visit>>

ArchiveEvent ==
    /\ status = "published"
    /\ status' = "closed"
    /\ UNCHANGED <<expires, purgeAfter, purged, eventVersion, portal, lastVersion, operator,
                   window, bucket, visit, results>>

\* The administrator sets another expiry date.
EditExpiry ==
    /\ expires' \in Dates
    /\ status = "published" => expires' # "unset"
    /\ UNCHANGED <<status, purgeAfter, purged, eventVersion, portal, lastVersion, operator,
                   window, bucket, visit, results>>

\* The form does so too, and saves with it the row it loaded earlier.
LoadEventForm ==
    /\ form = NoForm
    /\ form' = [status |-> status, eventVersion |-> eventVersion]
    /\ UNCHANGED <<event, portal, lastVersion, pepper, window, bucket, visit, results>>

SaveEventForm ==
    /\ form # NoForm
    /\ status' = form.status
    /\ eventVersion' = form.eventVersion
    /\ expires' \in Dates
    /\ form.status = "published" => expires' # "unset"
    /\ form' = NoForm
    /\ results' = IF eventVersion' = eventVersion THEN results ELSE Outdated
    /\ UNCHANGED <<purgeAfter, purged, portal, lastVersion, pepper, window, bucket, visit>>

ResetShareAccess ==
    /\ portal # NoPortal
    /\ lastVersion.portal < MaxVersion
    /\ lastVersion.event < MaxEventVersion
    /\ lastVersion' = [portal |-> lastVersion.portal + 1, event |-> lastVersion.event + 1]
    /\ portal' = [portal EXCEPT !.revoked = TRUE, !.version = lastVersion'.portal]
    /\ eventVersion' = lastVersion'.event
    /\ results' = {}
    /\ UNCHANGED <<status, expires, purgeAfter, purged, operator, window, bucket, visit>>

\* After a reset, as the operator's guide has it; the servers restart.
ReplacePepper ==
    /\ pepper = 0
    /\ portal # NoPortal => portal.revoked
    /\ pepper' = 1
    /\ request' = [r \in Requests |-> Idle]
    /\ UNCHANGED <<event, portal, lastVersion, form, window, bucket, cookie, guesses, results>>

\* _delete_visitor_access: the results go with the capability.
DeleteVisitorAccess == portal' = NoPortal /\ results' = {}

Quarantine ==
    /\ status \notin {"erasing", "erased"}
    /\ FreshEventVersion
    /\ status' = "erasing"
    /\ expires' = "past"
    /\ DeleteVisitorAccess
    /\ UNCHANGED <<purgeAfter, purged, operator, window, bucket, visit>>

\* _purge_database_records, at the end of an erasure or of a purge.
EraseRecords ==
    /\ status = "erasing"
    /\ FreshEventVersion
    /\ status' = "erased"
    /\ expires' = "unset"
    /\ purgeAfter' = "unset"
    /\ purged' = TRUE
    /\ DeleteVisitorAccess
    /\ UNCHANGED <<operator, window, bucket, visit>>

Purge ==
    /\ ~purged
    /\ purgeAfter = "past"
    /\ FreshEventVersion
    /\ purged' = TRUE
    /\ DeleteVisitorAccess
    /\ UNCHANGED <<status, expires, purgeAfter, operator, window, bucket, visit>>

StudioNext ==
    \/ PublishPortal
    \/ \E pin \in Pins : Rotate(pin) \/ \E enabled \in BOOLEAN : SetPin(enabled, pin)
    \/ UnpublishPortal
    \/ ReviewEvent
    \/ ArchiveEvent
    \/ ResetShareAccess
    \/ Quarantine
    \/ EraseRecords
    \/ Purge

-----------------------------------------------------------------------------
(* The visitors.  A page that reads only is MayEnter and no step.          *)

\* The POST of the unlock form; a malformed PIN fails like a wrong one.
BeginUnlock(r, v, guess) ==
    /\ request[r] = Idle
    /\ PortalAvailable
    /\ portal.enabled
    /\ request' = [request EXCEPT ![r] = [step |-> "pin", visitor |-> v, copy |-> Copy,
                                          guess |-> guess, stamp |-> 0]]
    /\ UNCHANGED <<event, portal, lastVersion, operator, window, bucket, cookie, guesses,
                   results>>

\* rate_limit_status, then check_pin on the copy.
TryPin(r) ==
    LET v == request[r].visitor
        right == CheckPin(request[r].copy, request[r].guess)
    IN /\ request[r].step = "pin"
       /\ request' = [request EXCEPT ![r] =
                         IF Limited(v) THEN Idle
                         ELSE [@ EXCEPT !.step = IF right THEN "granted" ELSE "denied",
                                        !.stamp = IF LateClocks THEN window ELSE 0]]
       /\ guesses' = IF Limited(v) \/ right THEN guesses
                     ELSE [guesses EXCEPT ![v] = @ + 1]
       /\ UNCHANGED <<event, portal, lastVersion, operator, window, bucket, cookie, results>>

\* clear_failures, then the answer with the cookie, which is not set when the
\* capability has expired, or is lost with the answer.
Grant(r) ==
    LET v == request[r].visitor
        given == [payload |-> request[r].copy.payload, pin |-> request[r].guess]
    IN /\ request[r].step = "granted"
       /\ bucket' = [bucket EXCEPT ![v] = NoBucket]
       /\ guesses' = [guesses EXCEPT ![v] = 0]
       /\ \/ UNCHANGED cookie
          \/ cookie' = [cookie EXCEPT ![v] = given]
       /\ request' = [request EXCEPT ![r] = Idle]
       /\ UNCHANGED <<event, portal, lastVersion, operator, window, results>>

\* register_failure: the rows of other windows go, and this window's counts one more.
RegisterFailure(r) ==
    LET v == request[r].visitor
    IN /\ request[r].step = "denied"
       /\ \E w \in {window} \cup (IF LateClocks THEN {request[r].stamp} ELSE {}) :
             bucket' = [bucket EXCEPT ![v] = [window |-> w, failures |-> FailuresIn(v, w) + 1]]
       /\ request' = [request EXCEPT ![r] = Idle]
       /\ UNCHANGED <<event, portal, lastVersion, operator, window, cookie, guesses, results>>

\* The limits on searches, which count per cookie and per capability, let a
\* search through or do not; a search that is refused changes nothing here.
BeginSearch(r, v) ==
    /\ request[r] = Idle
    /\ MayEnter(v)
    /\ request' = [request EXCEPT ![r] = [step |-> "search", visitor |-> v, copy |-> Copy,
                                          guess |-> NoPin, stamp |-> 0]]
    /\ UNCHANGED <<event, portal, lastVersion, operator, window, bucket, cookie, guesses,
                   results>>

\* The face engine fails, or the results are stored as long as the capability's
\* row is still there (a foreign key).
EndSearch(r) ==
    /\ request[r].step = "search"
    /\ \/ UNCHANGED results
       \/ portal # NoPortal /\ results' = results \cup
                                     {IF request[r].copy.payload = Payload THEN "current" ELSE "stale"}
    /\ request' = [request EXCEPT ![r] = Idle]
    /\ UNCHANGED <<event, portal, lastVersion, operator, window, bucket, cookie, guesses>>

\* The visitor clears a search, or the hourly command deletes those expired.
DeleteResult(result) ==
    /\ result \in results
    /\ results' = results \ {result}
    /\ UNCHANGED <<event, portal, lastVersion, operator, window, bucket, visit>>

CookieExpires(v) ==
    /\ cookie[v] # NoCookie
    /\ cookie' = [cookie EXCEPT ![v] = NoCookie]
    /\ UNCHANGED <<event, portal, lastVersion, operator, window, bucket, request, guesses,
                   results>>

PortalExpired == IF portal = NoPortal THEN NoPortal ELSE [portal EXCEPT !.expires = "past"]

\* Time reaches a date.  The capability has the event's expiry date, and the purge is
\* due thirty days after it.
DatePasses ==
    /\ \/ expires = "ahead" /\ expires' = "past" /\ portal' = PortalExpired
               /\ UNCHANGED purgeAfter
       \/ expires = "past" /\ purgeAfter = "ahead" /\ purgeAfter' = "past"
               /\ UNCHANGED <<expires, portal>>
    /\ UNCHANGED <<status, purged, eventVersion, lastVersion, operator, window, bucket, visit,
                   results>>

WindowPasses ==
    /\ window < MaxWindow
    /\ window' = window + 1
    /\ guesses' = [v \in Visitors |-> 0]
    /\ UNCHANGED <<event, portal, lastVersion, operator, bucket, cookie, request, results>>

VisitorNext ==
    \/ \E r \in Requests, v \in Visitors :
          \/ BeginSearch(r, v)
          \/ \E guess \in Pins : BeginUnlock(r, v, guess)
    \/ \E r \in Requests : TryPin(r) \/ Grant(r) \/ RegisterFailure(r) \/ EndSearch(r)
    \/ \E result \in results : DeleteResult(result)
    \/ \E v \in Visitors : CookieExpires(v)
    \/ DatePasses
    \/ WindowPasses

PortalNext == StudioNext \/ VisitorNext

\* With what the administrator and the operator may do besides.
OperatedNext ==
    \/ PortalNext
    \/ EditExpiry
    \/ LoadEventForm \/ SaveEventForm
    \/ ReplacePepper

PortalSpec == PortalInit /\ [][PortalNext]_vars
OperatedSpec == PortalInit /\ [][OperatedNext]_vars

-----------------------------------------------------------------------------
(* Safety.                                                                 *)

\* Whoever holds a cookie the portal accepts has presented the PIN that is the
\* portal's now: no change of the PIN lets visitors of the former one stay, however
\* long their unlocking was under way.
CookiesMatchPin ==
    \A v \in Visitors : Matches(v) => portal.hash[1] = cookie[v].pin

\* The PIN the dashboard shows is one that opens the gallery.
ShownPinOpens ==
    portal # NoPortal /\ portal.enabled /\ ~portal.revoked => CheckPin(Copy, portal.value)

\* Within a window and since its last success, a client has no more PINs checked than
\* the limit and the requests it had under way together when the limit was reached.
GuessesAreCapped ==
    \A v \in Visitors : guesses[v] < PinLimit + Cardinality(Requests)

\* A cookie that stopped matching never matches again: neither a publication, nor a
\* new PIN, nor a purge or erasure brings back what an earlier step revoked.
RevokedStaysRevoked ==
    [][\A v \in Visitors : Matches(v)' /\ ~Matches(v) => cookie'[v] # cookie[v]]_vars

-----------------------------------------------------------------------------
(* Claims of the documentation that the code does not keep in every case.  *)

\* ADR 0014: rotation and unpublishing delete the search results; a search under way
\* stores its results afterwards.
ResultsAreCurrent == "stale" \notin results

\* Product plan: a published, unexpired event that was not revoked can be visited;
\* the capability keeps the first date when the administrator sets a later one.
PublishedIsReachable == EventAvailable /\ portal # NoPortal /\ ~portal.revoked => PortalAvailable

=============================================================================
