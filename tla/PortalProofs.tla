---------------------------- MODULE PortalProofs ----------------------------
(***************************************************************************)
(* Proofs about Portal for any visitors, requests, PINs, limit and bounds. *)
(*                                                                         *)
(* That a cookie stands for the PIN of now also holds beside the           *)
(* administrator's form and a replaced pepper; what is said of revocation  *)
(* and of the dashboard holds for the product's commands.                  *)
(***************************************************************************)
EXTENDS Portal, FiniteSetTheorems, TLAPS

-----------------------------------------------------------------------------
(* Types.                                                                  *)

Forms == [status : {"hidden", "published"} \cup Ended, eventVersion : EventVersions \ {0}]

RowsOK ==
    /\ status \in {"hidden", "published"} \cup Ended
    /\ expires \in Dates
    /\ purgeAfter \in Dates
    /\ purged \in BOOLEAN
    /\ eventVersion \in EventVersions \ {0}
    /\ portal \in Portals \cup {NoPortal}
    /\ lastVersion \in [portal : Versions, event : EventVersions]
    /\ pepper \in {0, 1}
    /\ form \in Forms \cup {NoForm}

VisitsOK ==
    /\ window \in 1..MaxWindow
    /\ bucket \in [Visitors -> [window : 0..MaxWindow, failures : Nat]]
    /\ cookie \in [Visitors -> [payload : Payloads, pin : Pins \cup {NoPin}]]
    /\ request \in [Requests -> RequestStates \cup {Idle}]
    /\ results \subseteq {"current", "stale"}
    /\ guesses \in [Visitors -> Nat]

LEMMA TypeParts == PortalTypeOK <=> RowsOK /\ VisitsOK
BY DEF PortalTypeOK, RowsOK, VisitsOK, Forms

LEMMA PortalShape ==
    ASSUME RowsOK, portal # NoPortal
    PROVE  portal \in Portals /\ portal.version \in Versions \ {0}
BY DEF RowsOK, Portals

LEMMA FreshIsVersion ==
    ASSUME RowsOK, FreshVersion
    PROVE  /\ lastVersion'.portal = lastVersion.portal + 1
           /\ lastVersion'.event = lastVersion.event
           /\ lastVersion'.portal \in Versions \ {0}
           /\ lastVersion' \in [portal : Versions, event : EventVersions]
BY PortalConstants DEF RowsOK, FreshVersion, Versions

LEMMA FreshIsEventVersion ==
    ASSUME RowsOK, FreshEventVersion
    PROVE  /\ lastVersion'.event = lastVersion.event + 1
           /\ lastVersion'.portal = lastVersion.portal
           /\ eventVersion' = lastVersion.event + 1
           /\ eventVersion' \in EventVersions \ {0}
           /\ lastVersion' \in [portal : Versions, event : EventVersions]
BY PortalConstants DEF RowsOK, FreshEventVersion, EventVersions

LEMMA PinsMakeHashes ==
    ASSUME RowsOK, NEW pin \in Pins, portal # NoPortal
    PROVE  WithPin(pin) \in Portals
<1>1. PinHash(pin) \in Hashes
  BY DEF RowsOK, PinHash, Hashes
<1> QED
  BY <1>1, PortalShape DEF WithPin, Portals

LEMMA StudioRows ==
    ASSUME RowsOK, StudioNext
    PROVE  RowsOK'
<1> USE DEF operator
<1>1. CASE PublishPortal
  <2>1. expires' \in Dates \ {"unset"} /\ purgeAfter' \in Dates
    BY <1>1 DEF PublishPortal, FixDates, RowsOK, Dates
  <2>2. lastVersion' \in [portal : Versions, event : EventVersions]
    BY <1>1, FreshIsVersion DEF PublishPortal, OpenPortal, RowsOK
  <2>3. portal' \in Portals
    <3>1. NoHash \in Hashes
      BY DEF NoHash, Hashes
    <3>2. CASE portal = NoPortal
      <4>1. /\ portal' = [version |-> lastVersion'.portal, revoked |-> FALSE,
                          expires |-> expires', enabled |-> FALSE, value |-> NoPin,
                          hash |-> NoHash]
            /\ lastVersion'.portal \in Versions \ {0}
        BY <1>1, <3>2, FreshIsVersion DEF PublishPortal, OpenPortal
      <4> QED
        BY <2>1, <3>1, <4>1 DEF Portals
    <3>3. CASE portal # NoPortal
      BY <1>1, <2>1, <3>3, PortalShape, FreshIsVersion DEF PublishPortal, OpenPortal, Portals
    <3> QED
      BY <3>2, <3>3
  <2> QED
    BY <1>1, <2>1, <2>2, <2>3 DEF PublishPortal, RowsOK
<1>2. ASSUME NEW pin \in Pins, Rotate(pin)
      PROVE  RowsOK'
  <2>1. portal' \in Portals
    BY <1>2, FreshIsVersion, PinsMakeHashes DEF Rotate, Portals
  <2> QED
    BY <1>2, <2>1, FreshIsVersion DEF Rotate, RowsOK, event
<1>3. ASSUME NEW pin \in Pins, NEW enabled \in BOOLEAN, SetPin(enabled, pin)
      PROVE  RowsOK'
  <2>1. portal' \in Portals
    BY <1>3, PortalShape, PinsMakeHashes DEF SetPin, Portals
  <2> QED
    BY <1>3, <2>1 DEF SetPin, RowsOK, event
<1>4. CASE UnpublishPortal \/ ReviewEvent \/ ArchiveEvent
  BY <1>4, FreshIsEventVersion
     DEF UnpublishPortal, ReviewEvent, ArchiveEvent, RowsOK, Ended
<1>5. CASE ResetShareAccess
  <2>1. /\ lastVersion.portal + 1 \in Versions \ {0}
        /\ lastVersion.event + 1 \in EventVersions \ {0}
    BY <1>5, PortalConstants DEF ResetShareAccess, RowsOK, Versions, EventVersions
  <2>2. portal' \in Portals
    BY <1>5, <2>1, PortalShape DEF ResetShareAccess, Portals
  <2> QED
    BY <1>5, <2>1, <2>2 DEF ResetShareAccess, RowsOK
<1>6. CASE Quarantine \/ EraseRecords \/ Purge
  BY <1>6, FreshIsEventVersion
     DEF Quarantine, EraseRecords, Purge, DeleteVisitorAccess, RowsOK, Ended, Dates
<1> QED
  BY <1>1, <1>2, <1>3, <1>4, <1>5, <1>6 DEF StudioNext

LEMMA PortalExpires ==
    ASSUME RowsOK
    PROVE  PortalExpired \in Portals \cup {NoPortal}
BY PortalShape DEF PortalExpired, Portals, Dates

LEMMA StudioVisits ==
    ASSUME VisitsOK, StudioNext
    PROVE  VisitsOK'
<1>1. UNCHANGED <<window, bucket, visit>>
  BY DEF StudioNext, PublishPortal, Rotate, SetPin, UnpublishPortal, ReviewEvent, ArchiveEvent,
         ResetShareAccess, Quarantine, EraseRecords, Purge
<1>2. results' \subseteq {"current", "stale"}
  BY DEF VisitsOK, StudioNext, PublishPortal, Rotate, SetPin, UnpublishPortal, ReviewEvent,
         ArchiveEvent, ResetShareAccess, Quarantine, EraseRecords, Purge, Outdated,
         DeleteVisitorAccess
<1> QED
  BY <1>1, <1>2 DEF VisitsOK, visit

LEMMA CopyShape ==
    ASSUME RowsOK, portal # NoPortal
    PROVE  Copy \in Copies /\ Payload \in Payloads
BY PortalShape DEF Copy, Copies, Payload, Payloads, Portals, RowsOK

\* What is done for a request that is under way is done for its visitor.
LEMMA RequestShape ==
    ASSUME VisitsOK, NEW r \in Requests, request[r].step # "idle"
    PROVE  /\ request[r] \in RequestStates
           /\ request[r].visitor \in Visitors
           /\ request[r].copy \in Copies
           /\ request[r].guess \in Pins \cup {NoPin}
           /\ request[r].stamp \in 0..MaxWindow
BY DEF VisitsOK, Idle, RequestStates

LEMMA VisitorTypes ==
    ASSUME RowsOK, VisitsOK, VisitorNext
    PROVE  RowsOK' /\ VisitsOK'
<1> USE DEF event, operator
<1>1. ASSUME NEW r \in Requests, NEW v \in Visitors, NEW guess \in Pins \cup {NoPin},
             NEW at \in {"pin", "search"}, PortalAvailable,
             request' = [request EXCEPT ![r] = [step |-> at, visitor |-> v, copy |-> Copy,
                                                guess |-> guess, stamp |-> 0]]
      PROVE  request' \in [Requests -> RequestStates \cup {Idle}]
  <2>1. Copy \in Copies /\ 0 \in 0..MaxWindow
    BY <1>1, CopyShape, PortalConstants DEF PortalAvailable
  <2> QED
    BY <1>1, <2>1 DEF VisitsOK, RequestStates
<1>2. ASSUME NEW r \in Requests, NEW v \in Visitors, BeginSearch(r, v)
      PROVE  RowsOK' /\ VisitsOK'
  BY <1>1, <1>2 DEF BeginSearch, MayEnter, RowsOK, VisitsOK
<1>3. ASSUME NEW r \in Requests, NEW v \in Visitors, NEW guess \in Pins,
             BeginUnlock(r, v, guess)
      PROVE  RowsOK' /\ VisitsOK'
  BY <1>1, <1>3 DEF BeginUnlock, RowsOK, VisitsOK
<1>4. ASSUME NEW r \in Requests, TryPin(r)
      PROVE  RowsOK' /\ VisitsOK'
  <2>1. request' \in [Requests -> RequestStates \cup {Idle}]
    <3>1. request[r] \in RequestStates
      BY <1>4, RequestShape DEF TryPin
    <3>2. ASSUME NEW step \in {"granted", "denied"}, NEW stamp \in 0..MaxWindow
          PROVE  [request[r] EXCEPT !.step = step, !.stamp = stamp] \in RequestStates
      BY <3>1 DEF RequestStates
    <3>3. (IF LateClocks THEN window ELSE 0) \in 0..MaxWindow
      BY PortalConstants DEF VisitsOK
    <3> QED
      BY <1>4, <3>2, <3>3 DEF TryPin, VisitsOK
  <2>2. guesses' \in [Visitors -> Nat]
    BY <1>4, RequestShape DEF TryPin, VisitsOK
  <2> QED
    BY <1>4, <2>1, <2>2 DEF TryPin, RowsOK, VisitsOK
<1>5. ASSUME NEW r \in Requests, Grant(r)
      PROVE  RowsOK' /\ VisitsOK'
  <2>1. cookie' \in [Visitors -> [payload : Payloads, pin : Pins \cup {NoPin}]]
    BY <1>5, RequestShape DEF Grant, VisitsOK, Copies
  <2>2. NoBucket \in [window : 0..MaxWindow, failures : Nat]
    BY PortalConstants DEF NoBucket
  <2>3. /\ bucket' \in [Visitors -> [window : 0..MaxWindow, failures : Nat]]
        /\ guesses' \in [Visitors -> Nat]
        /\ request' \in [Requests -> RequestStates \cup {Idle}]
    BY <1>5, <2>2 DEF Grant, VisitsOK
  <2> QED
    BY <1>5, <2>1, <2>3 DEF Grant, RowsOK, VisitsOK
<1>6. ASSUME NEW r \in Requests, RegisterFailure(r)
      PROVE  RowsOK' /\ VisitsOK'
  <2>1. ASSUME NEW v \in Visitors, NEW w
        PROVE  FailuresIn(v, w) + 1 \in Nat
    BY DEF FailuresIn, VisitsOK
  <2>2. bucket' \in [Visitors -> [window : 0..MaxWindow, failures : Nat]]
    BY <1>6, <2>1, RequestShape, PortalConstants DEF RegisterFailure, VisitsOK
  <2>3. request' \in [Requests -> RequestStates \cup {Idle}]
    BY <1>6 DEF RegisterFailure, VisitsOK
  <2> QED
    BY <1>6, <2>2, <2>3 DEF RegisterFailure, RowsOK, VisitsOK
<1>7. ASSUME NEW r \in Requests, EndSearch(r)
      PROVE  RowsOK' /\ VisitsOK'
  BY <1>7 DEF EndSearch, RowsOK, VisitsOK
<1>8. ASSUME NEW result \in results, DeleteResult(result)
      PROVE  RowsOK' /\ VisitsOK'
  BY <1>8 DEF DeleteResult, RowsOK, VisitsOK, visit
<1>9. ASSUME NEW v \in Visitors, CookieExpires(v)
      PROVE  RowsOK' /\ VisitsOK'
  <2>1. NoCookie \in [payload : Payloads, pin : Pins \cup {NoPin}]
    BY PortalConstants DEF NoCookie, Payloads, Versions, EventVersions
  <2> QED
    BY <1>9, <2>1 DEF CookieExpires, RowsOK, VisitsOK
<1>10. CASE DatePasses
  BY <1>10, PortalExpires DEF DatePasses, RowsOK, VisitsOK, visit, Dates
<1>11. CASE WindowPasses
  BY <1>11, PortalConstants DEF WindowPasses, RowsOK, VisitsOK
<1> QED
  BY <1>2, <1>3, <1>4, <1>5, <1>6, <1>7, <1>8, <1>9, <1>10, <1>11 DEF VisitorNext

LEMMA OperatorTypes ==
    ASSUME RowsOK, VisitsOK, EditExpiry \/ LoadEventForm \/ SaveEventForm \/ ReplacePepper
    PROVE  RowsOK' /\ VisitsOK'
<1> USE DEF event, operator, visit
<1>1. CASE EditExpiry
  BY <1>1 DEF EditExpiry, RowsOK, VisitsOK
<1>2. CASE LoadEventForm
  BY <1>2 DEF LoadEventForm, RowsOK, VisitsOK, Forms
<1>3. CASE SaveEventForm
  BY <1>3 DEF SaveEventForm, RowsOK, VisitsOK, Forms, Outdated
<1>4. CASE ReplacePepper
  BY <1>4 DEF ReplacePepper, RowsOK, VisitsOK
<1> QED
  BY <1>1, <1>2, <1>3, <1>4

LEMMA InitialTypes ==
    ASSUME PortalInit
    PROVE  RowsOK /\ VisitsOK
<1>1. /\ 1 \in Versions \ {0} /\ 0 \in Versions /\ 1 \in EventVersions \ {0}
      /\ <<0, 0>> \in Payloads
      /\ 0 \in 0..MaxWindow /\ 1 \in 1..MaxWindow
  BY PortalConstants DEF Versions, EventVersions, Payloads
<1>2. portal \in Portals \cup {NoPortal} /\ portal.version \in Versions
  <2>1. CASE LegacyPin
    <3>1. PICK pin \in Pins :
            portal = [version |-> 1, revoked |-> FALSE, expires |-> "ahead", enabled |-> TRUE,
                      value |-> NoPin, hash |-> <<pin, 0>>]
      BY <2>1 DEF PortalInit
    <3>2. <<pin, 0>> \in Hashes /\ "ahead" \in Dates \ {"unset"}
      BY DEF Hashes, Dates
    <3> QED
      BY <1>1, <3>1, <3>2 DEF Portals
  <2>2. CASE ~LegacyPin
    BY <1>1, <2>2 DEF PortalInit, NoPortal
  <2> QED
    BY <2>1, <2>2
<1> QED
  BY <1>1, <1>2 DEF PortalInit, RowsOK, VisitsOK, Dates, NoForm, NoBucket, NoCookie, Idle, Ended

LEMMA OperatedTypes == OperatedSpec => [](RowsOK /\ VisitsOK)
<1>1. PortalInit => RowsOK /\ VisitsOK
  BY InitialTypes
<1>2. RowsOK /\ VisitsOK /\ [OperatedNext]_vars => (RowsOK /\ VisitsOK)'
  <2> SUFFICES ASSUME RowsOK, VisitsOK, [OperatedNext]_vars
               PROVE  RowsOK' /\ VisitsOK'
    OBVIOUS
  <2>1. CASE UNCHANGED vars
    BY <2>1 DEF vars, event, operator, visit, RowsOK, VisitsOK
  <2> QED
    BY <2>1, StudioRows, StudioVisits, VisitorTypes, OperatorTypes DEF OperatedNext, PortalNext
<1> QED
  BY <1>1, <1>2, PTL DEF OperatedSpec

LEMMA ProductIsOperated == PortalSpec => OperatedSpec
<1>1. [PortalNext]_vars => [OperatedNext]_vars
  BY DEF OperatedNext
<1> QED
  BY <1>1, PTL DEF PortalSpec, OperatedSpec

\* Every variable has its type, whatever the administrator's form writes back and
\* whether or not the operator replaces the pepper.
THEOREM PortalTypes == OperatedSpec => []PortalTypeOK
BY OperatedTypes, TypeParts, PTL

-----------------------------------------------------------------------------
(* Cookies and PINs.                                                       *)

\* A capability without a PIN has neither a value nor a hash, and the hash is that of
\* the value shown.
PortalKnowsItsPin ==
    portal # NoPortal =>
        /\ portal.hash[1] = portal.value
        /\ portal.value = NoPin => portal.hash = NoHash /\ ~portal.enabled

\* Versions are issued in order: nobody has one that is yet to come.
VersionsAreIssued ==
    /\ portal # NoPortal => portal.version <= lastVersion.portal
    /\ \A r \in Requests : request[r] # Idle => request[r].copy.payload[1] <= lastVersion.portal
    /\ \A v \in Visitors : cookie[v].payload[1] <= lastVersion.portal

\* A request that checks a PIN has the hash of the version it has read; one that is let
\* in has presented that hash's PIN.
Unlocking(r) == request[r].step \in {"pin", "granted"}

CopiesAreTrue ==
    \A r \in Requests : Unlocking(r) =>
        /\ portal # NoPortal /\ request[r].copy.payload[1] = portal.version =>
                request[r].copy.hash = portal.hash
        /\ request[r].copy.hash[1] # NoPin
        /\ request[r].step = "granted" => request[r].guess = request[r].copy.hash[1]

CookiesAreTrue ==
    \A v \in Visitors :
        portal # NoPortal /\ cookie[v].payload[1] = portal.version =>
            cookie[v].pin = portal.hash[1] /\ cookie[v].pin # NoPin

PinInv == PortalKnowsItsPin /\ VersionsAreIssued /\ CopiesAreTrue /\ CookiesAreTrue

\* What a step may do to the capability: a fresh version, or the former one, whose PIN
\* does not change once it has one.
FreshPortal ==
    /\ lastVersion'.portal = lastVersion.portal + 1
    /\ portal'.version = lastVersion'.portal

SamePortal ==
    /\ portal # NoPortal
    /\ portal'.version = portal.version
    /\ portal'.hash = portal.hash \/ portal.hash = NoHash
    /\ lastVersion'.portal >= lastVersion.portal

PortalAdvances ==
    /\ lastVersion'.portal >= lastVersion.portal
    /\ portal' # NoPortal => FreshPortal \/ SamePortal
    /\ PortalKnowsItsPin'

LEMMA VersionNumbers ==
    ASSUME RowsOK
    PROVE  /\ lastVersion.portal \in Nat /\ lastVersion.event \in Nat
           /\ portal # NoPortal => portal.version \in Nat
BY PortalShape, PortalConstants DEF RowsOK, Versions, EventVersions

LEMMA NewPins ==
    ASSUME RowsOK, portal # NoPortal, NEW pin \in Pins
    PROVE  /\ WithPin(pin).version = portal.version
           /\ WithPin(pin).hash[1] = pin
           /\ WithPin(pin).value = pin
           /\ pin # NoPin
BY PortalShape, PortalConstants DEF WithPin, PinHash, Portals

LEMMA StudioAdvances ==
    ASSUME RowsOK, PortalKnowsItsPin, StudioNext
    PROVE  PortalAdvances
<1> USE VersionNumbers DEF operator, PortalAdvances, PortalKnowsItsPin
<1>1. CASE PublishPortal
  <2>1. CASE portal = NoPortal
    BY <1>1, <2>1, FreshIsVersion
       DEF PublishPortal, OpenPortal, FreshPortal, NoHash
  <2>2. CASE portal # NoPortal /\ portal.revoked
    <3>1. /\ FreshVersion
          /\ portal' = [portal EXCEPT !.version = lastVersion'.portal, !.revoked = FALSE,
                                      !.expires = expires']
      BY <1>1, <2>2 DEF PublishPortal, OpenPortal
    <3>2. /\ portal'.version = lastVersion'.portal
          /\ portal'.hash = portal.hash /\ portal'.value = portal.value
          /\ portal'.enabled = portal.enabled
      BY <2>2, <3>1, PortalShape DEF Portals
    <3> QED
      BY <2>2, <3>1, <3>2, FreshIsVersion DEF FreshPortal
  <2>3. CASE portal # NoPortal /\ ~portal.revoked
    BY <1>1, <2>3 DEF PublishPortal, OpenPortal, SamePortal
  <2> QED
    BY <2>1, <2>2, <2>3
<1>2. ASSUME NEW pin \in Pins, Rotate(pin)
      PROVE  PortalAdvances
  <2>1. /\ portal # NoPortal
        /\ portal' = [WithPin(pin) EXCEPT !.version = lastVersion'.portal, !.revoked = FALSE]
        /\ WithPin(pin) \in Portals
    BY <1>2, PinsMakeHashes DEF Rotate
  <2>2. /\ portal'.version = lastVersion'.portal
        /\ portal'.hash[1] = pin /\ portal'.value = pin /\ pin # NoPin
    BY <2>1, NewPins DEF Portals
  <2> QED
    BY <1>2, <2>2, FreshIsVersion DEF Rotate, FreshPortal
<1>3. ASSUME NEW pin \in Pins, NEW enabled \in BOOLEAN, SetPin(enabled, pin)
      PROVE  PortalAdvances
  <2>1. portal # NoPortal /\ portal \in Portals /\ UNCHANGED lastVersion
    BY <1>3, PortalShape DEF SetPin
  <2>2. CASE enabled /\ portal.value = NoPin
    BY <1>3, <2>1, <2>2, NewPins DEF SetPin, SamePortal
  <2>3. CASE ~enabled \/ portal.value # NoPin
    <3>1. /\ portal'.version = portal.version /\ portal'.hash = portal.hash
          /\ portal'.value = portal.value
          /\ portal'.enabled => portal.value # NoPin
      BY <1>3, <2>1, <2>3 DEF SetPin, Portals
    <3> QED
      BY <2>1, <3>1 DEF SamePortal
  <2> QED
    BY <2>2, <2>3
<1>4. CASE UnpublishPortal \/ ReviewEvent \/ ArchiveEvent
  BY <1>4, FreshIsEventVersion
     DEF UnpublishPortal, ReviewEvent, ArchiveEvent, SamePortal
<1>5. CASE ResetShareAccess
  BY <1>5, PortalShape DEF ResetShareAccess, FreshPortal, Portals
<1>6. CASE Quarantine \/ EraseRecords \/ Purge
  BY <1>6, FreshIsEventVersion DEF Quarantine, EraseRecords, Purge, DeleteVisitorAccess
<1> QED
  BY <1>1, <1>2, <1>3, <1>4, <1>5, <1>6 DEF StudioNext

LEMMA OthersAdvance ==
    ASSUME RowsOK, PortalKnowsItsPin,
           VisitorNext \/ EditExpiry \/ LoadEventForm \/ SaveEventForm \/ ReplacePepper
    PROVE  PortalAdvances /\ UNCHANGED lastVersion
<1> USE VersionNumbers DEF PortalAdvances, PortalKnowsItsPin, SamePortal
<1>1. CASE DatePasses
  <2>1. UNCHANGED lastVersion /\ (portal' = portal \/ portal' = PortalExpired)
    BY <1>1 DEF DatePasses
  <2>2. CASE portal = NoPortal
    BY <2>1, <2>2 DEF PortalExpired
  <2>3. CASE portal # NoPortal
    BY <2>1, <2>3, PortalShape DEF PortalExpired, Portals
  <2> QED
    BY <2>2, <2>3
<1>2. CASE UNCHANGED <<portal, lastVersion>>
  BY <1>2
<1> QED
  BY <1>1, <1>2
     DEF VisitorNext, BeginSearch, BeginUnlock, TryPin, Grant, RegisterFailure, EndSearch,
         DeleteResult, CookieExpires, WindowPasses, EditExpiry, LoadEventForm, SaveEventForm,
         ReplacePepper

\* Nobody's copy or cookie is disturbed by what becomes of the capability.
LEMMA PinInvKept ==
    ASSUME RowsOK, VisitsOK, PinInv, PortalAdvances, RowsOK',
           UNCHANGED cookie,
           \A r \in Requests : request'[r] = request[r] \/ request'[r] = Idle
    PROVE  PinInv'
<1> USE VersionNumbers
<1>0. /\ \A v \in Visitors : cookie[v].payload[1] \in Nat
      /\ \A r \in Requests : Unlocking(r) =>
            request[r] # Idle /\ request[r].copy.payload[1] \in Nat
      /\ lastVersion'.portal \in Nat
      /\ \A r \in Requests : request[r] # Idle => request[r].copy.payload[1] \in Nat
  BY PortalConstants
     DEF VisitsOK, RowsOK, Payloads, Versions, Unlocking, Idle, RequestStates, Copies
<1>1. VersionsAreIssued'
  BY <1>0 DEF PinInv, VersionsAreIssued, PortalAdvances, FreshPortal, SamePortal
<1>2. CopiesAreTrue'
  <2> SUFFICES ASSUME NEW r \in Requests, Unlocking(r)'
               PROVE  /\ (portal # NoPortal /\ request[r].copy.payload[1] = portal.version)' =>
                            request'[r].copy.hash = portal'.hash
                      /\ request'[r].copy.hash[1] # NoPin
                      /\ request'[r].step = "granted" =>
                            request'[r].guess = request'[r].copy.hash[1]
    BY DEF CopiesAreTrue
  <2>1. request'[r] = request[r] /\ Unlocking(r)
    BY DEF Unlocking, Idle
  <2>2. /\ request[r].copy.hash[1] # NoPin
        /\ request[r].step = "granted" => request[r].guess = request[r].copy.hash[1]
        /\ portal # NoPortal /\ request[r].copy.payload[1] = portal.version =>
                request[r].copy.hash = portal.hash
        /\ request[r].copy.payload[1] <= lastVersion.portal
    BY <1>0, <2>1 DEF PinInv, CopiesAreTrue, VersionsAreIssued
  <2>3. NoHash[1] = NoPin
    BY DEF NoHash
  <2> QED
    BY <1>0, <2>1, <2>2, <2>3 DEF PortalAdvances, FreshPortal, SamePortal
<1>3. CookiesAreTrue'
  <2>1. NoHash[1] = NoPin
    BY DEF NoHash
  <2> QED
    BY <1>0, <2>1
       DEF PinInv, CookiesAreTrue, VersionsAreIssued, PortalAdvances, FreshPortal, SamePortal
<1> QED
  BY <1>1, <1>2, <1>3 DEF PinInv, PortalAdvances

LEMMA PinInvStep == RowsOK /\ VisitsOK /\ PinInv /\ [OperatedNext]_vars /\ RowsOK' => PinInv'
<1> SUFFICES ASSUME RowsOK, VisitsOK, PinInv, [OperatedNext]_vars, RowsOK'
             PROVE  PinInv'
  OBVIOUS
<1> USE VersionNumbers DEF visit
<1>1. CASE UNCHANGED vars
  BY <1>1 DEF vars, PinInv, PortalKnowsItsPin, VersionsAreIssued, CopiesAreTrue, CookiesAreTrue,
              Unlocking
<1>2. CASE StudioNext
  <2>1. UNCHANGED <<cookie, request>>
    BY <1>2 DEF StudioNext, PublishPortal, Rotate, SetPin, UnpublishPortal, ReviewEvent,
                ArchiveEvent, ResetShareAccess, Quarantine, EraseRecords, Purge
  <2> QED
    BY <1>2, <2>1, StudioAdvances, PinInvKept DEF PinInv
<1>3. CASE EditExpiry \/ LoadEventForm \/ SaveEventForm \/ ReplacePepper
  <2>1. /\ UNCHANGED cookie
        /\ \A r \in Requests : request'[r] = request[r] \/ request'[r] = Idle
    BY <1>3 DEF EditExpiry, LoadEventForm, SaveEventForm, ReplacePepper
  <2> QED
    BY <1>3, <2>1, OthersAdvance, PinInvKept DEF PinInv
<1>4. CASE VisitorNext
  <2>1. PortalAdvances /\ UNCHANGED lastVersion
    BY <1>4, OthersAdvance DEF PinInv
  <2>2. ASSUME UNCHANGED cookie,
               \A r \in Requests : request'[r] = request[r] \/ request'[r] = Idle
        PROVE  PinInv'
    BY <2>1, <2>2, PinInvKept
  \* A request begins with what the capability says now.
  <2>3. ASSUME NEW r \in Requests, NEW v \in Visitors, NEW guess \in Pins \cup {NoPin},
               NEW at \in {"pin", "search"}, PortalAvailable, at = "pin" => portal.enabled,
               request' = [request EXCEPT ![r] = [step |-> at, visitor |-> v, copy |-> Copy,
                                                  guess |-> guess, stamp |-> 0]],
               UNCHANGED <<portal, lastVersion, cookie>>
        PROVE  PinInv'
    <3>1. /\ portal # NoPortal
          /\ Copy.payload[1] = portal.version /\ Copy.hash = portal.hash
          /\ at = "pin" => portal.hash[1] # NoPin
      BY <2>3 DEF PortalAvailable, Copy, Payload, PinInv, PortalKnowsItsPin
    <3>2. \A q \in Requests : q # r => request'[q] = request[q]
      BY <2>3 DEF VisitsOK
    <3>3. /\ request'[r].copy = Copy /\ request'[r].step = at
      BY <2>3 DEF VisitsOK
    <3>4. VersionsAreIssued'
      BY <2>3, <3>1, <3>2, <3>3 DEF PinInv, VersionsAreIssued
    <3>5. CopiesAreTrue'
      BY <2>3, <3>1, <3>2, <3>3 DEF PinInv, CopiesAreTrue, Unlocking
    <3> QED
      BY <2>3, <3>4, <3>5 DEF PinInv, PortalKnowsItsPin, CookiesAreTrue
  <2>4. ASSUME NEW r \in Requests, NEW v \in Visitors, BeginSearch(r, v)
        PROVE  PinInv'
    BY <2>3, <2>4 DEF BeginSearch, MayEnter
  <2>5. ASSUME NEW r \in Requests, NEW v \in Visitors, NEW guess \in Pins,
               BeginUnlock(r, v, guess)
        PROVE  PinInv'
    BY <2>3, <2>5 DEF BeginUnlock
  <2>6. ASSUME NEW r \in Requests, TryPin(r)
        PROVE  PinInv'
    <3>1. /\ \A q \in Requests : q # r => request'[q] = request[q]
          /\ UNCHANGED <<portal, lastVersion, cookie>>
      BY <2>6 DEF TryPin, VisitsOK
    <3>2. /\ request[r].step = "pin" /\ request[r] \in RequestStates /\ request[r] # Idle
          /\ Unlocking(r)
      BY <2>6, RequestShape DEF TryPin, Idle, Unlocking
    <3>3. CASE request'[r] = Idle
      BY <2>2, <3>1, <3>3
    <3>4. CASE request'[r] # Idle
      <4>1. /\ request'[r].copy = request[r].copy /\ request'[r].guess = request[r].guess
            /\ request'[r].step = "granted" => request[r].copy.hash[1] = request[r].guess
        BY <2>6, <3>2, <3>4 DEF TryPin, RequestStates, VisitsOK, CheckPin, PinHash
      <4>2. VersionsAreIssued'
        BY <3>1, <3>2, <4>1 DEF PinInv, VersionsAreIssued
      <4>3. CopiesAreTrue'
        BY <3>1, <3>2, <4>1 DEF PinInv, CopiesAreTrue, Unlocking
      <4> QED
        BY <3>1, <4>2, <4>3 DEF PinInv, PortalKnowsItsPin, CookiesAreTrue
    <3> QED
      BY <3>3, <3>4
  <2>7. ASSUME NEW r \in Requests, Grant(r)
        PROVE  PinInv'
    <3>1. /\ \A q \in Requests : request'[q] = request[q] \/ request'[q] = Idle
          /\ UNCHANGED <<portal, lastVersion>>
      BY <2>7 DEF Grant, VisitsOK
    <3>2. /\ request[r].step = "granted" /\ request[r] # Idle /\ Unlocking(r)
          /\ request[r].visitor \in Visitors
      BY <2>7, RequestShape DEF Grant, Idle, Unlocking
    <3>3. \A v \in Visitors :
            \/ cookie'[v] = cookie[v]
            \/ /\ cookie'[v].payload = request[r].copy.payload
               /\ cookie'[v].pin = request[r].guess
      BY <2>7, <3>2 DEF Grant, VisitsOK
    <3>4. VersionsAreIssued'
      BY <3>1, <3>2, <3>3 DEF PinInv, VersionsAreIssued
    <3>5. CopiesAreTrue'
      BY <3>1 DEF PinInv, CopiesAreTrue, Unlocking, Idle
    <3>6. CookiesAreTrue'
      BY <3>1, <3>2, <3>3 DEF PinInv, CopiesAreTrue, CookiesAreTrue
    <3> QED
      BY <3>1, <3>4, <3>5, <3>6 DEF PinInv, PortalKnowsItsPin
  <2>8. ASSUME NEW r \in Requests, RegisterFailure(r) \/ EndSearch(r)
        PROVE  PinInv'
    BY <2>2, <2>8 DEF RegisterFailure, EndSearch, VisitsOK
  <2>9. ASSUME NEW v \in Visitors, CookieExpires(v)
        PROVE  PinInv'
    <3>1. \A w \in Visitors : cookie'[w] = cookie[w] \/ cookie'[w] = NoCookie
      BY <2>9 DEF CookieExpires, VisitsOK
    <3>2. portal # NoPortal => portal.version # 0
      BY PortalShape
    <3>3. VersionsAreIssued' /\ CookiesAreTrue'
      BY <2>9, <3>1, <3>2
         DEF CookieExpires, PinInv, VersionsAreIssued, CookiesAreTrue, NoCookie
    <3> QED
      BY <2>9, <3>3 DEF CookieExpires, PinInv, CopiesAreTrue, PortalKnowsItsPin, Unlocking
  <2>10. ASSUME NEW result \in results, DeleteResult(result)
         PROVE  PinInv'
    BY <2>2, <2>10 DEF DeleteResult
  <2>11. CASE DatePasses \/ WindowPasses
    BY <2>2, <2>11 DEF DatePasses, WindowPasses
  <2> QED
    BY <1>4, <2>4, <2>5, <2>6, <2>7, <2>8, <2>9, <2>10, <2>11 DEF VisitorNext
<1> QED
  BY <1>1, <1>2, <1>3, <1>4 DEF OperatedNext, PortalNext

\* The capabilities of before migration 0017 have a hash and no value.
LEMMA InitialPins == ASSUME PortalInit, ~LegacyPin PROVE PinInv
<1>1. portal = NoPortal
  BY DEF PortalInit
<1>2. VersionsAreIssued
  BY <1>1 DEF PortalInit, VersionsAreIssued, NoCookie, NoPortal
<1> QED
  BY <1>1, <1>2 DEF PortalInit, PinInv, PortalKnowsItsPin, CopiesAreTrue, CookiesAreTrue,
                    Unlocking, Idle

LEMMA PinInvariant == ~LegacyPin /\ OperatedSpec => []PinInv
<1>1. ~LegacyPin /\ PortalInit => PinInv
  BY InitialPins
<1> QED
  BY <1>1, PinInvStep, OperatedTypes, PTL DEF OperatedSpec

\* Whoever holds a cookie the portal accepts has presented the PIN that is the portal's
\* now, also beside the administrator's form and a replaced pepper.
THEOREM CookiesMatchThePin == ~LegacyPin /\ OperatedSpec => []CookiesMatchPin
<1>1. RowsOK /\ PinInv => CookiesMatchPin
  BY DEF PinInv, CookiesAreTrue, CookiesMatchPin, Matches, Payload
<1> QED
  BY <1>1, PinInvariant, OperatedTypes, PTL

-----------------------------------------------------------------------------
(* The dashboard.                                                          *)

\* While the pepper is what it was, the hash is that of the PIN shown under it.
ShownInv ==
    /\ pepper = 0
    /\ portal # NoPortal => portal.hash = <<portal.value, 0>>

LEMMA ShownStep == RowsOK /\ PinInv /\ ShownInv /\ [PortalNext]_vars => ShownInv'
<1> SUFFICES ASSUME RowsOK, PinInv, ShownInv, [PortalNext]_vars
             PROVE  ShownInv'
  OBVIOUS
<1> USE DEF ShownInv
<1>1. UNCHANGED pepper
  BY DEF PortalNext, StudioNext, PublishPortal, Rotate, SetPin, UnpublishPortal, ReviewEvent,
         ArchiveEvent, ResetShareAccess, Quarantine, EraseRecords, Purge, VisitorNext,
         BeginSearch, BeginUnlock, TryPin, Grant, RegisterFailure, EndSearch, DeleteResult,
         CookieExpires, DatePasses, WindowPasses, vars, operator
<1>2. ASSUME portal # NoPortal, portal' # NoPortal, portal'.hash = portal.hash,
             portal'.value = portal.value
      PROVE  ShownInv'
  BY <1>1, <1>2
<1>3. ASSUME portal' = NoPortal \/ UNCHANGED portal
      PROVE  ShownInv'
  BY <1>1, <1>3
<1>4. CASE PublishPortal
  <2>1. CASE portal = NoPortal
    BY <1>1, <1>4, <2>1 DEF PublishPortal, OpenPortal, NoHash
  <2>2. CASE portal # NoPortal
    <3>1. \/ UNCHANGED portal
          \/ portal' = [portal EXCEPT !.version = lastVersion'.portal, !.revoked = FALSE,
                                      !.expires = expires']
      BY <1>4, <2>2 DEF PublishPortal, OpenPortal
    <3> QED
      BY <1>1, <2>2, <3>1, PortalShape DEF Portals
  <2> QED
    BY <2>1, <2>2
<1>5. ASSUME NEW pin \in Pins, Rotate(pin)
      PROVE  ShownInv'
  <2>1. /\ portal # NoPortal
        /\ portal' = [WithPin(pin) EXCEPT !.version = lastVersion'.portal, !.revoked = FALSE]
        /\ WithPin(pin) \in Portals
        /\ WithPin(pin).hash = <<pin, 0>> /\ WithPin(pin).value = pin
    BY <1>5, PinsMakeHashes, PortalShape DEF Rotate, WithPin, PinHash, Portals
  <2>2. portal'.hash = <<pin, 0>> /\ portal'.value = pin
    BY <2>1 DEF Portals
  <2> QED
    BY <1>1, <2>2
<1>6. ASSUME NEW pin \in Pins, NEW enabled \in BOOLEAN, SetPin(enabled, pin)
      PROVE  ShownInv'
  <2>1. portal # NoPortal /\ portal \in Portals
    BY <1>6, PortalShape DEF SetPin
  <2>2. WithPin(pin).hash = <<pin, 0>> /\ WithPin(pin).value = pin
    BY <2>1 DEF WithPin, PinHash, Portals
  <2>3. \/ portal' = WithPin(pin)
        \/ portal'.hash = portal.hash /\ portal'.value = portal.value
    <3>1. \/ portal' = WithPin(pin)
          \/ portal' = [portal EXCEPT !.enabled = TRUE]
          \/ portal' = [portal EXCEPT !.enabled = FALSE]
      BY <1>6 DEF SetPin
    <3>2. CASE portal' = [portal EXCEPT !.enabled = TRUE]
      BY <2>1, <3>2 DEF Portals
    <3>3. CASE portal' = [portal EXCEPT !.enabled = FALSE]
      BY <2>1, <3>3 DEF Portals
    <3> QED
      BY <3>1, <3>2, <3>3
  <2> QED
    BY <1>1, <2>1, <2>2, <2>3
<1>7. CASE ResetShareAccess
  BY <1>1, <1>7, PortalShape DEF ResetShareAccess, Portals
<1>8. CASE DatePasses
  <2>1. UNCHANGED portal \/ portal' = PortalExpired
    BY <1>8 DEF DatePasses
  <2> QED
    BY <1>1, <2>1, PortalShape DEF PortalExpired, Portals
<1> QED
  BY <1>3, <1>4, <1>5, <1>6, <1>7, <1>8
     DEF PortalNext, StudioNext, UnpublishPortal, ReviewEvent, ArchiveEvent, Quarantine,
         EraseRecords, Purge, DeleteVisitorAccess, VisitorNext, BeginSearch, BeginUnlock, TryPin,
         Grant, RegisterFailure, EndSearch, DeleteResult, CookieExpires, WindowPasses, vars

LEMMA ProductTypes == PortalSpec => [](RowsOK /\ VisitsOK)
BY ProductIsOperated, OperatedTypes, PTL

LEMMA ProductPins == ~LegacyPin /\ PortalSpec => []PinInv
BY ProductIsOperated, PinInvariant, PTL

\* The PIN the dashboard shows is one that opens the gallery.
THEOREM ShownPinAlwaysOpens == ~LegacyPin /\ PortalSpec => []ShownPinOpens
<1>1. ~LegacyPin /\ PortalInit => ShownInv
  BY DEF PortalInit, ShownInv
<1>2. RowsOK /\ PinInv /\ ShownInv => ShownPinOpens
  <2> SUFFICES ASSUME RowsOK, PinInv, ShownInv, portal # NoPortal, portal.enabled
               PROVE  CheckPin(Copy, portal.value)
    BY DEF ShownPinOpens
  <2>1. portal.value # NoPin /\ portal.hash = <<portal.value, 0>>
    BY DEF PinInv, PortalKnowsItsPin, ShownInv
  <2> QED
    BY <2>1 DEF CheckPin, Copy, PinHash, NoHash, ShownInv
<1> QED
  BY <1>1, <1>2, ShownStep, ProductTypes, ProductPins, PTL DEF PortalSpec

-----------------------------------------------------------------------------
(* Revocation.                                                             *)

\* Nobody has a version of the capability or the event that is yet to be issued.
IssuedInv ==
    /\ portal # NoPortal => portal.version <= lastVersion.portal
    /\ eventVersion <= lastVersion.event
    /\ \A r \in Requests : request[r] # Idle =>
           /\ request[r].copy.payload[1] <= lastVersion.portal
           /\ request[r].copy.payload[2] <= lastVersion.event
    /\ \A v \in Visitors : /\ cookie[v].payload[1] <= lastVersion.portal
                           /\ cookie[v].payload[2] <= lastVersion.event

\* A product's command keeps both versions, or makes one nobody has.
VersionsAdvance ==
    /\ lastVersion'.portal >= lastVersion.portal
    /\ lastVersion'.event >= lastVersion.event
    /\ \/ eventVersion' = eventVersion
       \/ eventVersion' > lastVersion.event /\ eventVersion' <= lastVersion'.event
    /\ portal' # NoPortal =>
          \/ portal # NoPortal /\ portal'.version = portal.version
          \/ portal'.version > lastVersion.portal /\ portal'.version <= lastVersion'.portal

LEMMA StudioVersions ==
    ASSUME RowsOK, StudioNext
    PROVE  VersionsAdvance
<1> USE VersionNumbers DEF VersionsAdvance, operator, event
<1>1. CASE PublishPortal
  <2>1. CASE portal = NoPortal
    BY <1>1, <2>1, FreshIsVersion DEF PublishPortal, OpenPortal
  <2>2. CASE portal # NoPortal /\ portal.revoked
    <3>1. /\ FreshVersion
          /\ portal' = [portal EXCEPT !.version = lastVersion'.portal, !.revoked = FALSE,
                                      !.expires = expires']
      BY <1>1, <2>2 DEF PublishPortal, OpenPortal
    <3>2. portal'.version = lastVersion'.portal
      BY <2>2, <3>1, PortalShape DEF Portals
    <3> QED
      BY <1>1, <3>1, <3>2, FreshIsVersion DEF PublishPortal
  <2>3. CASE portal # NoPortal /\ ~portal.revoked
    BY <1>1, <2>3 DEF PublishPortal, OpenPortal
  <2> QED
    BY <2>1, <2>2, <2>3
<1>2. ASSUME NEW pin \in Pins, Rotate(pin)
      PROVE  VersionsAdvance
  <2>1. portal'.version = lastVersion'.portal
    BY <1>2, PinsMakeHashes DEF Rotate, Portals
  <2> QED
    BY <1>2, <2>1, FreshIsVersion DEF Rotate
<1>3. ASSUME NEW pin \in Pins, NEW enabled \in BOOLEAN, SetPin(enabled, pin)
      PROVE  VersionsAdvance
  <2>1. portal # NoPortal /\ portal'.version = portal.version
    BY <1>3, PortalShape, NewPins DEF SetPin, Portals
  <2> QED
    BY <1>3, <2>1 DEF SetPin
<1>4. CASE UnpublishPortal \/ ReviewEvent \/ ArchiveEvent
  BY <1>4, FreshIsEventVersion DEF UnpublishPortal, ReviewEvent, ArchiveEvent
<1>5. CASE ResetShareAccess
  BY <1>5, PortalShape DEF ResetShareAccess, Portals
<1>6. CASE Quarantine \/ EraseRecords \/ Purge
  BY <1>6, FreshIsEventVersion DEF Quarantine, EraseRecords, Purge, DeleteVisitorAccess
<1> QED
  BY <1>1, <1>2, <1>3, <1>4, <1>5, <1>6 DEF StudioNext

LEMMA VisitorVersions ==
    ASSUME RowsOK, VisitorNext
    PROVE  VersionsAdvance /\ UNCHANGED <<lastVersion, eventVersion>>
<1> USE VersionNumbers DEF VersionsAdvance
<1>1. CASE DatePasses
  <2>1. UNCHANGED <<lastVersion, eventVersion>> /\ (portal' = portal \/ portal' = PortalExpired)
    BY <1>1 DEF DatePasses
  <2> QED
    BY <2>1, PortalShape DEF PortalExpired, Portals
<1>2. CASE UNCHANGED <<portal, lastVersion, eventVersion>>
  BY <1>2
<1> QED
  BY <1>1, <1>2
     DEF VisitorNext, BeginSearch, BeginUnlock, TryPin, Grant, RegisterFailure, EndSearch,
         DeleteResult, CookieExpires, WindowPasses, event

LEMMA PayloadNumbers ==
    ASSUME RowsOK, VisitsOK
    PROVE  /\ eventVersion \in Nat
           /\ \A v \in Visitors : cookie[v].payload[1] \in Nat /\ cookie[v].payload[2] \in Nat
           /\ \A r \in Requests : request[r] # Idle =>
                 request[r].copy.payload[1] \in Nat /\ request[r].copy.payload[2] \in Nat
BY PortalConstants DEF RowsOK, VisitsOK, Payloads, Versions, EventVersions, RequestStates, Copies

\* What a visitor's step leaves in requests and cookies comes from the rows, from a
\* request or from a cookie.
LEMMA VisitorPayloads ==
    ASSUME RowsOK, VisitsOK, VisitorNext
    PROVE  /\ \A r \in Requests : request'[r] # Idle =>
                 \/ portal # NoPortal /\ request'[r].copy.payload = Payload
                 \/ request[r] # Idle /\ request'[r].copy = request[r].copy
           /\ \A v \in Visitors :
                 \/ cookie'[v].payload \in {cookie[v].payload, <<0, 0>>}
                 \/ \E r \in Requests : /\ request[r] # Idle
                                        /\ cookie'[v].payload = request[r].copy.payload
<1>1. ASSUME NEW r \in Requests, NEW v \in Visitors,
             BeginSearch(r, v) \/ \E guess \in Pins : BeginUnlock(r, v, guess)
      PROVE  /\ \A q \in Requests : \/ request'[q] = request[q]
                                    \/ request'[q].copy.payload = Payload /\ portal # NoPortal
             /\ UNCHANGED cookie
  BY <1>1 DEF BeginSearch, BeginUnlock, VisitsOK, MayEnter, PortalAvailable, Copy
<1>2. ASSUME NEW r \in Requests, TryPin(r)
      PROVE  /\ \A q \in Requests : \/ request'[q] \in {request[q], Idle}
                                    \/ request[q] # Idle /\ request'[q].copy = request[q].copy
             /\ UNCHANGED cookie
  <2>1. request[r] \in RequestStates /\ request[r] # Idle
    BY <1>2, RequestShape DEF TryPin, Idle
  <2> QED
    BY <1>2, <2>1 DEF TryPin, VisitsOK, RequestStates
<1>3. ASSUME NEW r \in Requests, Grant(r)
      PROVE  /\ \A q \in Requests : request'[q] \in {request[q], Idle}
             /\ request[r] # Idle
             /\ \A v \in Visitors : \/ cookie'[v] = cookie[v]
                                   \/ cookie'[v].payload = request[r].copy.payload
  BY <1>3 DEF Grant, VisitsOK, Idle
<1>4. ASSUME NEW r \in Requests, RegisterFailure(r) \/ EndSearch(r)
      PROVE  /\ \A q \in Requests : request'[q] \in {request[q], Idle}
             /\ UNCHANGED cookie
  BY <1>4 DEF RegisterFailure, EndSearch, VisitsOK
<1>5. ASSUME NEW v \in Visitors, CookieExpires(v)
      PROVE  /\ UNCHANGED request
             /\ \A w \in Visitors : cookie'[w] = cookie[w] \/ cookie'[w].payload = <<0, 0>>
  BY <1>5 DEF CookieExpires, VisitsOK, NoCookie
<1>6. ASSUME (\E result \in results : DeleteResult(result)) \/ DatePasses \/ WindowPasses
      PROVE  UNCHANGED <<request, cookie>>
  BY <1>6 DEF DeleteResult, DatePasses, WindowPasses, visit
<1> QED
  BY <1>1, <1>2, <1>3, <1>4, <1>5, <1>6 DEF VisitorNext

LEMMA IssuedStep == RowsOK /\ VisitsOK /\ IssuedInv /\ [PortalNext]_vars /\ RowsOK' => IssuedInv'
<1> SUFFICES ASSUME RowsOK, VisitsOK, IssuedInv, [PortalNext]_vars, RowsOK'
             PROVE  IssuedInv'
  OBVIOUS
<1> USE VersionNumbers, PayloadNumbers
<1>0. /\ lastVersion'.portal \in Nat /\ lastVersion'.event \in Nat
      /\ eventVersion' \in Nat /\ (portal' # NoPortal => portal'.version \in Nat)
  BY PortalConstants DEF RowsOK, Versions, EventVersions, Portals
<1>1. CASE UNCHANGED vars
  BY <1>1 DEF vars, event, visit, IssuedInv
<1>2. CASE StudioNext
  <2>1. UNCHANGED <<cookie, request>>
    BY <1>2 DEF StudioNext, PublishPortal, Rotate, SetPin, UnpublishPortal, ReviewEvent,
                ArchiveEvent, ResetShareAccess, Quarantine, EraseRecords, Purge, visit
  <2> QED
    BY <1>0, <1>2, <2>1, StudioVersions DEF VersionsAdvance, IssuedInv
<1>3. CASE VisitorNext
  <2>1. VersionsAdvance /\ UNCHANGED <<lastVersion, eventVersion>>
    BY <1>3, VisitorVersions
  <2>2. portal # NoPortal => Payload[1] <= lastVersion.portal /\ Payload[2] <= lastVersion.event
    BY DEF Payload, IssuedInv
  <2>3. \A r \in Requests : request'[r] # Idle =>
           /\ request'[r].copy.payload[1] <= lastVersion.portal
           /\ request'[r].copy.payload[2] <= lastVersion.event
    BY <1>3, <2>2, VisitorPayloads DEF IssuedInv
  <2>4. \A v \in Visitors : /\ cookie'[v].payload[1] <= lastVersion.portal
                            /\ cookie'[v].payload[2] <= lastVersion.event
    BY <1>3, VisitorPayloads DEF IssuedInv
  <2> QED
    BY <1>0, <2>1, <2>3, <2>4 DEF VersionsAdvance, IssuedInv
<1> QED
  BY <1>1, <1>2, <1>3 DEF PortalNext

LEMMA IssuedInvariant == PortalSpec => []IssuedInv
<1>1. PortalInit => IssuedInv
  <2> SUFFICES ASSUME PortalInit PROVE IssuedInv
    OBVIOUS
  <2>1. RowsOK /\ VisitsOK
    BY InitialTypes
  <2> QED
    BY <2>1, VersionNumbers DEF PortalInit, IssuedInv, NoCookie
<1> QED
  BY <1>1, IssuedStep, ProductTypes, PTL DEF PortalSpec

\* A cookie that stopped matching never matches again: neither a publication, nor a new
\* PIN, nor a purge or erasure brings back what an earlier step revoked.
THEOREM RevokedForGood == PortalSpec => RevokedStaysRevoked
<1> DEFINE Step == \A v \in Visitors : Matches(v)' /\ ~Matches(v) => cookie'[v] # cookie[v]
<1>1. RowsOK /\ VisitsOK /\ IssuedInv /\ [PortalNext]_vars => [Step]_vars
  <2> SUFFICES ASSUME RowsOK, VisitsOK, IssuedInv, PortalNext,
                      NEW v \in Visitors, Matches(v)', cookie'[v] = cookie[v]
               PROVE  Matches(v)
    OBVIOUS
  <2> USE VersionNumbers, PayloadNumbers
  <2>1. VersionsAdvance
    BY StudioVersions, VisitorVersions DEF PortalNext
  <2>2. /\ portal' # NoPortal
        /\ cookie[v].payload = <<portal'.version, eventVersion'>>
        /\ cookie[v].payload[1] <= lastVersion.portal
        /\ cookie[v].payload[2] <= lastVersion.event
    BY DEF Matches, Payload, IssuedInv
  <2>3. portal # NoPortal /\ portal'.version = portal.version /\ eventVersion' = eventVersion
    BY <2>1, <2>2 DEF VersionsAdvance
  <2> QED
    BY <2>2, <2>3 DEF Matches, Payload
<1> QED
  BY <1>1, ProductTypes, IssuedInvariant, PTL DEF PortalSpec, RevokedStaysRevoked

-----------------------------------------------------------------------------
(* Guesses.                                                                *)

\* The requests whose wrong PIN is checked and not yet counted.
Uncounted(v) == {r \in Requests : request[r].step = "denied" /\ request[r].visitor = v}

\* Every wrong PIN of a visitor in this window is counted or about to be, and the last of
\* them was checked below the limit, when its own request was not yet among those.
GuessInv ==
    \A v \in Visitors :
        /\ guesses[v] <= FailuresIn(v, window) + Cardinality(Uncounted(v))
        /\ guesses[v] < PinLimit + Cardinality(Requests)

LEMMA UncountedFinite ==
    ASSUME NEW v
    PROVE  /\ IsFiniteSet(Uncounted(v))
           /\ Cardinality(Uncounted(v)) \in Nat
           /\ Cardinality(Requests) \in Nat
           /\ Cardinality(Uncounted(v)) <= Cardinality(Requests)
BY PortalConstants, FS_Subset, FS_CardinalityType DEF Uncounted

LEMMA GuessNumbers ==
    ASSUME VisitsOK
    PROVE  \A v \in Visitors : /\ guesses[v] \in Nat
                              /\ \A w : FailuresIn(v, w) \in Nat
BY DEF VisitsOK, FailuresIn

\* A step that counts nothing and leaves those that are not counted.
LEMMA GuessKept ==
    ASSUME VisitsOK, GuessInv, UNCHANGED <<window, bucket, guesses>>,
           \A r \in Requests : request'[r].step = "denied" <=> request[r].step = "denied",
           \A r \in Requests : request[r].step = "denied" => request'[r] = request[r]
    PROVE  GuessInv'
<1>1. ASSUME NEW v \in Visitors
      PROVE  Uncounted(v)' = Uncounted(v) /\ FailuresIn(v, window)' = FailuresIn(v, window)
  BY DEF Uncounted, FailuresIn
<1> QED
  BY <1>1 DEF GuessInv

LEMMA GuessTried ==
    ASSUME VisitsOK, GuessInv, NEW r \in Requests, TryPin(r), ~LateClocks
    PROVE  GuessInv'
<1> DEFINE v == request[r].visitor
           right == CheckPin(request[r].copy, request[r].guess)
<1> USE GuessNumbers
<1>1. /\ request[r].step = "pin" /\ v \in Visitors /\ request[r] \in RequestStates
      /\ UNCHANGED <<window, bucket>>
      /\ \A q \in Requests : q # r => request'[q] = request[q]
  BY RequestShape DEF TryPin, VisitsOK
<1>2. CASE Limited(v) \/ right
  <2>1. UNCHANGED guesses /\ request'[r].step # "denied"
    BY <1>1, <1>2 DEF TryPin, VisitsOK, Idle, RequestStates
  <2> QED
    BY <1>1, <2>1, GuessKept
<1>3. CASE ~Limited(v) /\ ~right
  <2>1. request'[r].step = "denied" /\ request'[r].visitor = v
    BY <1>1, <1>3 DEF TryPin, VisitsOK, RequestStates
  <2>2. guesses' = [guesses EXCEPT ![v] = @ + 1]
    BY <1>3 DEF TryPin
  <2>3. FailuresIn(v, window) < PinLimit
    BY <1>1, <1>3, PortalConstants DEF Limited
  <2> SUFFICES ASSUME NEW w \in Visitors
               PROVE  /\ guesses'[w] <= FailuresIn(w, window)' + Cardinality(Uncounted(w)')
                      /\ guesses'[w] < PinLimit + Cardinality(Requests)
    BY DEF GuessInv
  <2>4. FailuresIn(w, window)' = FailuresIn(w, window)
    BY <1>1 DEF FailuresIn
  <2>5. CASE w # v
    <3>1. Uncounted(w)' = Uncounted(w)
      BY <1>1, <2>1, <2>5 DEF Uncounted
    <3> QED
      BY <2>2, <2>4, <2>5, <3>1 DEF GuessInv, VisitsOK
  <2>6. CASE w = v
    <3>1. Uncounted(w)' = Uncounted(w) \cup {r} /\ r \notin Uncounted(w)
      BY <1>1, <2>1, <2>6 DEF Uncounted
    <3>2. Cardinality(Uncounted(w)') = Cardinality(Uncounted(w)) + 1
      BY <3>1, UncountedFinite, FS_AddElement
    <3>3. Cardinality(Uncounted(w)') <= Cardinality(Requests)
      BY PortalConstants, FS_Subset DEF Uncounted
    <3>4. guesses'[w] = guesses[w] + 1
      BY <2>2, <2>6 DEF VisitsOK
    <3>5. guesses[w] <= FailuresIn(w, window) + Cardinality(Uncounted(w))
      BY DEF GuessInv
    <3>6. FailuresIn(w, window) < PinLimit
      BY <2>3, <2>6
    <3> HIDE DEF v
    <3> QED
      BY <2>4, <3>2, <3>3, <3>4, <3>5, <3>6, UncountedFinite, PortalConstants
  <2> QED
    BY <2>5, <2>6
<1> QED
  BY <1>2, <1>3

LEMMA GuessCounted ==
    ASSUME VisitsOK, GuessInv, NEW r \in Requests, RegisterFailure(r), ~LateClocks
    PROVE  GuessInv'
<1> DEFINE v == request[r].visitor
<1> USE GuessNumbers
<1>1. /\ request[r].step = "denied" /\ v \in Visitors
      /\ UNCHANGED <<window, guesses>>
      /\ bucket' = [bucket EXCEPT ![v] = [window |-> window,
                                          failures |-> FailuresIn(v, window) + 1]]
      /\ request' = [request EXCEPT ![r] = Idle]
  BY RequestShape DEF RegisterFailure
<1> SUFFICES ASSUME NEW w \in Visitors
             PROVE  guesses[w] <= FailuresIn(w, window)' + Cardinality(Uncounted(w)')
  BY <1>1 DEF GuessInv
<1>2. CASE w # v
  <2>1. Uncounted(w)' = Uncounted(w) /\ FailuresIn(w, window)' = FailuresIn(w, window)
    BY <1>1, <1>2 DEF Uncounted, FailuresIn, VisitsOK, Idle
  <2> QED
    BY <2>1 DEF GuessInv
<1>3. CASE w = v
  <2>1. Uncounted(w)' = Uncounted(w) \ {r} /\ r \in Uncounted(w)
    BY <1>1, <1>3 DEF Uncounted, VisitsOK, Idle
  <2>2. Cardinality(Uncounted(w)') = Cardinality(Uncounted(w)) - 1
    BY <2>1, UncountedFinite, FS_RemoveElement
  <2>3. FailuresIn(w, window)' = FailuresIn(w, window) + 1
    BY <1>1, <1>3 DEF FailuresIn, VisitsOK
  <2>4. guesses[w] <= FailuresIn(w, window) + Cardinality(Uncounted(w))
    BY DEF GuessInv
  <2> HIDE DEF v
  <2> QED
    BY <2>2, <2>3, <2>4, UncountedFinite
<1> QED
  BY <1>2, <1>3

\* A success and a new window begin the count again.
LEMMA GuessForgotten ==
    ASSUME VisitsOK, VisitsOK', GuessInv,
           WindowPasses \/ \E r \in Requests : Grant(r)
    PROVE  GuessInv'
<1>1. ASSUME NEW v \in Visitors
      PROVE  /\ Cardinality(Uncounted(v)') \in Nat
             /\ FailuresIn(v, window)' \in Nat
             /\ Cardinality(Requests) \in Nat
  BY PortalConstants, FS_Subset, FS_CardinalityType DEF Uncounted, FailuresIn, VisitsOK
<1>2. CASE WindowPasses
  BY <1>1, <1>2, PortalConstants DEF WindowPasses, GuessInv
<1>3. ASSUME NEW r \in Requests, Grant(r)
      PROVE  GuessInv'
  <2>1. /\ request[r].step = "granted"
        /\ UNCHANGED window
        /\ \A q \in Requests : q # r => request'[q] = request[q]
        /\ request'[r] = Idle
    BY <1>3 DEF Grant, VisitsOK
  <2> SUFFICES ASSUME NEW w \in Visitors
               PROVE  /\ guesses'[w] <= FailuresIn(w, window)' + Cardinality(Uncounted(w)')
                      /\ guesses'[w] < PinLimit + Cardinality(Requests)
    BY DEF GuessInv
  <2>2. CASE w = request[r].visitor
    <3>1. guesses'[w] = 0
      BY <1>3, <2>2 DEF Grant, VisitsOK
    <3> QED
      BY <1>1, <3>1, PortalConstants
  <2>3. CASE w # request[r].visitor
    <3>1. guesses'[w] = guesses[w] /\ bucket'[w] = bucket[w]
      BY <1>3, <2>3 DEF Grant, VisitsOK
    <3>2. Uncounted(w)' = Uncounted(w)
      BY <2>1 DEF Uncounted, Idle
    <3>3. FailuresIn(w, window)' = FailuresIn(w, window)
      BY <2>1, <3>1 DEF FailuresIn
    <3> QED
      BY <3>1, <3>2, <3>3 DEF GuessInv
  <2> QED
    BY <2>2, <2>3
<1> QED
  BY <1>2, <1>3

LEMMA GuessStep ==
    ~LateClocks /\ VisitsOK /\ VisitsOK' /\ GuessInv /\ [PortalNext]_vars => GuessInv'
<1> SUFFICES ASSUME ~LateClocks, VisitsOK, VisitsOK', GuessInv, [PortalNext]_vars
             PROVE  GuessInv'
  OBVIOUS
<1>1. CASE UNCHANGED vars \/ StudioNext
  <2>1. UNCHANGED <<window, bucket, guesses, request>>
    BY <1>1 DEF vars, visit, StudioNext, PublishPortal, Rotate, SetPin, UnpublishPortal,
                ReviewEvent, ArchiveEvent, ResetShareAccess, Quarantine, EraseRecords, Purge
  <2> QED
    BY <2>1, GuessKept
<1>2. ASSUME NEW r \in Requests, NEW v \in Visitors,
             BeginSearch(r, v) \/ \E guess \in Pins : BeginUnlock(r, v, guess)
      PROVE  GuessInv'
  <2>1. /\ UNCHANGED <<window, bucket, guesses>>
        /\ request[r].step # "denied" /\ request'[r].step # "denied"
        /\ \A q \in Requests : q # r => request'[q] = request[q]
    BY <1>2 DEF BeginSearch, BeginUnlock, VisitsOK, Idle
  <2> QED
    BY <2>1, GuessKept
<1>3. ASSUME NEW r \in Requests, EndSearch(r)
      PROVE  GuessInv'
  <2>1. /\ UNCHANGED <<window, bucket, guesses>>
        /\ request[r].step # "denied" /\ request'[r].step # "denied"
        /\ \A q \in Requests : q # r => request'[q] = request[q]
    BY <1>3 DEF EndSearch, VisitsOK, Idle
  <2> QED
    BY <2>1, GuessKept
<1>4. ASSUME (\E result \in results : DeleteResult(result)) \/ DatePasses
             \/ \E v \in Visitors : CookieExpires(v)
      PROVE  GuessInv'
  <2>1. UNCHANGED <<window, bucket, guesses, request>>
    BY <1>4 DEF DeleteResult, DatePasses, CookieExpires, visit
  <2> QED
    BY <2>1, GuessKept
<1> QED
  BY <1>1, <1>2, <1>3, <1>4, GuessTried, GuessCounted, GuessForgotten
     DEF PortalNext, VisitorNext

\* Within a window and since its last success, a client has no more PINs checked than
\* the limit and the requests it had under way together when the limit was reached.
THEOREM GuessesStayCapped == ~LateClocks /\ PortalSpec => []GuessesAreCapped
<1> SUFFICES ASSUME ~LateClocks
             PROVE  PortalSpec => []GuessesAreCapped
  OBVIOUS
<1>1. PortalInit => GuessInv
  <2> SUFFICES ASSUME PortalInit, NEW v \in Visitors
               PROVE  /\ guesses[v] <= FailuresIn(v, window) + Cardinality(Uncounted(v))
                      /\ guesses[v] < PinLimit + Cardinality(Requests)
    BY DEF GuessInv
  <2>1. guesses[v] = 0 /\ FailuresIn(v, window) = 0
    BY DEF PortalInit, FailuresIn, NoBucket
  <2> QED
    BY <2>1, UncountedFinite, PortalConstants
<1>2. GuessInv => GuessesAreCapped
  BY DEF GuessInv, GuessesAreCapped
<1>3. VisitsOK /\ VisitsOK' /\ GuessInv /\ [PortalNext]_vars => GuessInv'
  BY GuessStep
<1> QED
  BY <1>1, <1>2, <1>3, ProductTypes, PTL DEF PortalSpec

=============================================================================
